------------------------------ MODULE MCJwksCache ------------------------------
(* Small instances of JwksCache for TLC. *)
EXTENDS JwksCache, TLC

CONSTANTS h1, h2, h3, k1, k2, s1

Symmetric == Permutations(Handler) \cup Permutations(Key)
=============================================================================

---------------------------- MODULE MCM2MTokenCache ----------------------------
(* Small instances of M2MTokenCache for TLC. *)
EXTENDS M2MTokenCache

CONSTANTS t1, t2
================================================================================

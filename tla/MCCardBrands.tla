----------------------------- MODULE MCCardBrands -----------------------------
(* Small instances of CardBrands for TLC. *)
EXTENDS CardBrands, TLC

CONSTANTS r1, r2, r3, b1, b2, b3, visa, VISA, amex

MCName == {visa, VISA, amex}
MCKey == (visa :> "visa") @@ (VISA :> "visa") @@ (amex :> "amex") @@ (EmptyName :> "")

TwoBrands == (b1 :> visa) @@ (b2 :> amex) @@ (b3 :> NoBrand)

Task(op, id, name) == [op |-> op, id |-> id, name |-> name]

\* Two brands swap names while a third takes one of them or removes a row: the
\* transactions wait for each other.
SwapWork ==
    {Task("update", b1, amex), Task("update", b2, VISA), Task("delete", b1, EmptyName),
     Task("create", NilId, visa)}

\* Missing fields, and a read.  Missing rows come from deletes.
PoorWork ==
    {Task("create", NilId, EmptyName), Task("update", NilId, visa),
     Task("update", b1, EmptyName), Task("get", b1, EmptyName)}

AllWork == SwapWork \cup PoorWork

ReqSymmetry == Permutations(Req)
===============================================================================

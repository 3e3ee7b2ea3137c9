------------------------------ MODULE AccountLink ------------------------------
(***************************************************************************)
(* What provisioning promises.  An identity becomes known, then it may be  *)
(* linked to a Finsplitter account, once and for good, and only the client *)
(* whose request linked it may ever be told that it created the account.   *)
(***************************************************************************)
CONSTANTS LogtoId, Client, NoOne

VARIABLES
    known,    \* the identities people have
    creator,  \* whose request created the account of each, NoOne without account
    acked     \* the clients that were told that they created an account

TypeOK ==
    /\ known \subseteq LogtoId
    /\ creator \in [LogtoId -> Client \cup {NoOne}]
    /\ acked \subseteq Client

Init ==
    /\ known = {}
    /\ creator = [l \in LogtoId |-> NoOne]
    /\ acked = {}

\* A person signs up, in Logto or through /auth/register.
Appear(l) ==
    /\ l \notin known
    /\ known' = known \cup {l}
    /\ UNCHANGED <<creator, acked>>

\* The request of c, which has created no account before, creates that of l.
Link(l, c) ==
    /\ l \in known /\ creator[l] = NoOne
    /\ \A m \in LogtoId : creator[m] # c
    /\ creator' = [creator EXCEPT ![l] = c]
    /\ UNCHANGED <<known, acked>>

\* Its creator is told, unless the answer is lost.
Ack(l) ==
    /\ creator[l] # NoOne
    /\ acked' = acked \cup {creator[l]}
    /\ UNCHANGED <<known, creator>>

Next ==
    \E l \in LogtoId :
        \/ Appear(l)
        \/ \E c \in Client : Link(l, c)
        \/ Ack(l)

Spec == Init /\ [][Next]_<<known, creator, acked>>
=============================================================================

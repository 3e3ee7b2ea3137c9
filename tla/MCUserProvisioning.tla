-------------------------- MODULE MCUserProvisioning --------------------------
(* Small instances of UserProvisioning for TLC. *)
EXTENDS UserProvisioning, TLC

CONSTANTS r1, r2, l1, l2, e1, u1, u2, n1

MCUsername == {u1, u2}
MCName == {n1}

\* n1 slugs to a username others may ask for, the empty name to nothing.
MCSlug == (n1 :> u1) @@ (None :> NoUsername)

Registers ==
    {[op |-> "register", username |-> NoUsername, name |-> n1, email |-> e1],
     [op |-> "register", username |-> u2, name |-> None, email |-> e1]}

\* A setup that asks for that username, and leaves the name as it is.
Setups ==
    {[op |-> "setup", username |-> u1, name |-> None, email |-> e1]}

\* One person fills in the form of /profile/setup in two ways.
RivalSetups ==
    Setups \cup {[op |-> "setup", username |-> u2, name |-> n1, email |-> e1]}

Reads ==
    {[op |-> o, username |-> NoUsername, name |-> None, email |-> e1] :
        o \in {"me", "api"}}

\* Every handler against every other, two requests.
AllBodies == Registers \cup Setups \cup Reads
===============================================================================

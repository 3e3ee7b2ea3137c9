------------------------------ MODULE TokenSource ------------------------------
(***************************************************************************)
(* What the callers of the Management API are promised: one token, shared  *)
(* by all of them.  It is given out only while it is valid, and replaced   *)
(* only when it no longer is, by one that Logto granted no longer ago than *)
(* a timeout.  What will be given out again lapses well before it expires. *)
(***************************************************************************)
EXTENDS Integers

CONSTANTS
    Client,
    None,       \* a client that holds no token
    Lifetime,   \* how long the tokens live that Logto grants
    Latency,    \* no client holds a token longer than this
    Buffer      \* how long before it expires a token lapses, less Latency

VARIABLES
    now,
    current,  \* the shared token: [iat, exp, until]
    held      \* the token each client took, and when

vars == <<now, current, held>>

Valid == now < current.until

\* A token that Logto granted within the timeout.  One that lives too short to leave
\* the buffer is used once, and has lapsed already.
Granted(tok) ==
    /\ tok.iat <= now /\ now <= tok.iat + Latency
    /\ tok.exp - tok.iat \in Lifetime
    /\ tok.until <= now \/ tok.until <= tok.exp + Latency - Buffer

Init ==
    /\ now = 0
    /\ ~Valid
    /\ held = [t \in Client |-> None]

Hold(t, tok) ==
    /\ held[t] = None
    /\ held' = [held EXCEPT ![t] = [token |-> tok, at |-> now]]

Take(t) == Valid /\ Hold(t, current) /\ UNCHANGED <<now, current>>

Renew(t) == ~Valid /\ Granted(current') /\ Hold(t, current') /\ UNCHANGED now

Drop(t) ==
    /\ held[t] # None
    /\ held' = [held EXCEPT ![t] = None]
    /\ UNCHANGED <<now, current>>

Tick ==
    /\ \A t \in Client : held[t] # None => now < held[t].at + Latency
    /\ now' = now + 1
    /\ UNCHANGED <<current, held>>

Next == Tick \/ \E t \in Client : Take(t) \/ Renew(t) \/ Drop(t)

Spec == Init /\ [][Next]_vars
================================================================================

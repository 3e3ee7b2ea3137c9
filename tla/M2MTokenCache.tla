----------------------------- MODULE M2MTokenCache -----------------------------
(***************************************************************************)
(* The access token the Logto Management API client shares between all     *)
(* requests (logto.Client.getToken): double-checked locking over a         *)
(* sync.RWMutex, the new token fetched while the write lock is held, cached *)
(* with a safety buffer before its expiry.                                 *)
(*                                                                         *)
(* Time is a counter of steps of 1/Latency of the HTTP client's timeout.   *)
(* The lock is the runtime's: a writer that waits already keeps new readers *)
(* out.  Logto's token endpoint and its check of a token are external.     *)
(***************************************************************************)
EXTENDS Integers

CONSTANTS
    Thread,     \* goroutines that call the Management API
    Nobody,
    Buffer,     \* tokenExpiryBuffer
    Latency,    \* longest a call lasts before the client's timeout
    Lifetime,   \* expires_in values Logto grants
    MaxLife,    \* bounds them
    MaxTime     \* bound on the clock

ASSUME TokenAssumption ==
    /\ Buffer \in Nat /\ Latency \in Nat /\ MaxTime \in Nat /\ MaxLife \in Nat
    /\ Lifetime \subseteq 0..MaxLife
    /\ Nobody \notin Thread

VARIABLES
    now,      \* the clock, shared by client and server
    readers,  \* holders of the read lock
    writer,   \* holder of the write lock, or the writer waiting for readers
    pc,
    token,    \* Client.token: [iat, exp, until], until is expiresAt
    sent,     \* when the fetch in progress was sent
    reply,    \* the token Logto issued for it
    got,      \* the token each call of getToken returned, and when
    revokedAt \* when Logto revoked all tokens issued so far; -1: never

vars == <<now, readers, writer, pc, token, sent, reply, got, revokedAt>>

lock == <<readers, writer>>
fetching == <<sent, reply>>

Time == 0..MaxTime
PC == {"idle", "rlock", "check", "lock", "wait", "recheck", "fetch", "issued",
       "use"}

\* The zero token stands for nil: it is never valid.
Token == [iat : Time, exp : Int, until : Int]
NilToken == [iat |-> 0, exp |-> 0, until |-> 0]

Nothing == [token |-> NilToken, at |-> 0]

TypeOK ==
    /\ now \in Time
    /\ readers \subseteq Thread
    /\ writer \in Thread \cup {Nobody}
    /\ pc \in [Thread -> PC]
    /\ token \in Token
    /\ sent \in Time
    /\ reply \in Token
    /\ got \in [Thread -> [token : Token, at : Time]]
    /\ revokedAt \in Time \cup {-1}

Init ==
    /\ now = 0
    /\ readers = {}
    /\ writer = Nobody
    /\ pc = [t \in Thread |-> "idle"]
    /\ token = NilToken
    /\ sent = 0
    /\ reply = NilToken
    /\ got = [t \in Thread |-> Nothing]
    /\ revokedAt = -1

-----------------------------------------------------------------------------

Goto(t, label) == pc' = [pc EXCEPT ![t] = label]

\* c.token != nil && time.Now().Before(c.token.expiresAt)
Valid == now < token.until

\* Mutant: the token is cached for its whole life.
UntilExpiry(life) == now + life

\* expiresAt: the buffer is clamped so that a short token is never cached.
Until(life) == now + (IF life > Buffer THEN life - Buffer ELSE 0)

Return(t, tok) ==
    /\ Goto(t, "use")
    /\ got' = [got EXCEPT ![t] = [token |-> tok, at |-> now]]

\* CreateUser or UpdateUser begins.
Call(t) ==
    /\ pc[t] = "idle"
    /\ Goto(t, "rlock")
    /\ UNCHANGED <<now, lock, token, fetching, got, revokedAt>>

RLock(t) ==
    /\ pc[t] = "rlock"
    /\ writer = Nobody
    /\ readers' = readers \cup {t}
    /\ Goto(t, "check")
    /\ UNCHANGED <<now, writer, token, fetching, got, revokedAt>>

\* Mutant: the read lock is kept on a miss.
CheckKeepsLock(t) ==
    /\ pc[t] = "check"
    /\ IF Valid THEN Return(t, token) /\ readers' = readers \ {t}
                ELSE Goto(t, "lock") /\ UNCHANGED <<got, readers>>
    /\ UNCHANGED <<now, writer, token, fetching, revokedAt>>

\* First check, under the read lock, which is then released.
Check(t) ==
    /\ pc[t] = "check"
    /\ readers' = readers \ {t}
    /\ IF Valid THEN Return(t, token)
                ELSE Goto(t, "lock") /\ UNCHANGED got
    /\ UNCHANGED <<now, writer, token, fetching, revokedAt>>

\* Mutant: the refresh does not take the write lock.
LockRequestUnlocked(t) ==
    /\ pc[t] = "lock"
    /\ writer' = t
    /\ Goto(t, "wait")
    /\ UNCHANGED <<now, readers, token, fetching, got, revokedAt>>

\* Lock: one writer at a time is admitted, and keeps new readers out ...
LockRequest(t) ==
    /\ pc[t] = "lock"
    /\ writer = Nobody
    /\ writer' = t
    /\ Goto(t, "wait")
    /\ UNCHANGED <<now, readers, token, fetching, got, revokedAt>>

\* ... until the readers that hold the lock have left.
LockAcquire(t) ==
    /\ pc[t] = "wait"
    /\ readers = {}
    /\ Goto(t, "recheck")
    /\ UNCHANGED <<now, lock, token, fetching, got, revokedAt>>

\* Mutant: no second check.
RecheckNever(t) ==
    /\ pc[t] = "recheck"
    /\ Goto(t, "fetch")
    /\ sent' = now
    /\ UNCHANGED <<now, lock, token, reply, got, revokedAt>>

\* Second check: another writer may have refreshed the token meanwhile.
Recheck(t) ==
    /\ pc[t] = "recheck"
    /\ IF Valid THEN Return(t, token) /\ writer' = Nobody /\ UNCHANGED sent
                ELSE /\ Goto(t, "fetch")
                     /\ sent' = now
                     /\ UNCHANGED <<writer, got>>
    /\ UNCHANGED <<now, readers, token, reply, revokedAt>>

\* Logto issues a token; its answer is on its way.
Issue(t) ==
    /\ pc[t] = "fetch"
    /\ \E life \in Lifetime :
          reply' = [iat |-> now, exp |-> now + life, until |-> 0]
    /\ Goto(t, "issued")
    /\ UNCHANGED <<now, lock, token, sent, got, revokedAt>>

\* The locals of the fetch go out of scope; the deferred Unlock runs.
FetchEnds ==
    /\ sent' = 0
    /\ reply' = NilToken
    /\ writer' = Nobody

\* The answer arrives and is cached.
Store(t) ==
    /\ pc[t] = "issued"
    /\ token' = [reply EXCEPT !.until = Until(reply.exp - reply.iat)]
    /\ Return(t, token')
    /\ FetchEnds
    /\ UNCHANGED <<now, readers, revokedAt>>

\* Mutant: a failed fetch is repeated with the lock held.
FetchFailRetry(t) ==
    /\ pc[t] \in {"fetch", "issued"}
    /\ Goto(t, "recheck")
    /\ UNCHANGED <<now, lock, token, fetching, got, revokedAt>>

\* The call fails or times out, before or after Logto issued the token.
FetchFail(t) ==
    /\ pc[t] \in {"fetch", "issued"}
    /\ FetchEnds
    /\ Goto(t, "idle")
    /\ UNCHANGED <<now, readers, token, got, revokedAt>>

\* The Management API call that carries the token ends.  Whatever Logto says
\* of the token, a 401 included, the cache stays as it is.
Use(t) ==
    /\ pc[t] = "use"
    /\ Goto(t, "idle")
    /\ got' = [got EXCEPT ![t] = Nothing]
    /\ UNCHANGED <<now, lock, token, fetching, revokedAt>>

\* The M2M application's secret is rotated, its grants revoked: once.
Revoke ==
    /\ revokedAt = -1
    /\ revokedAt' = now
    /\ UNCHANGED <<now, lock, pc, token, fetching, got>>

\* No HTTP call outlasts its timeout.
Overdue(t) ==
    \/ pc[t] \in {"fetch", "issued"} /\ now >= sent + Latency
    \/ pc[t] = "use" /\ now >= got[t].at + Latency

Tick ==
    /\ now < MaxTime
    /\ \A t \in Thread : ~Overdue(t)
    /\ now' = now + 1
    /\ UNCHANGED <<lock, pc, token, fetching, got, revokedAt>>

\* What a goroutine inside getToken does on its own or with the lock.
Step(t) ==
    \/ Check(t)
    \/ LockAcquire(t)
    \/ Recheck(t)
    \/ Store(t)
    \/ FetchFail(t)
    \/ Use(t)

Next ==
    \/ \E t \in Thread :
          \/ Call(t) \/ RLock(t) \/ LockRequest(t) \/ Issue(t) \/ Step(t)
    \/ Revoke
    \/ Tick

Spec == Init /\ [][Next]_vars

\* Goroutines run and calls time out (weak fairness); the runtime hands the
\* lock to its waiters in turn (strong fairness on taking it).
FairSpec ==
    /\ Spec
    /\ \A t \in Thread : WF_vars(Step(t)) /\ SF_vars(RLock(t))
                                          /\ SF_vars(LockRequest(t))

-----------------------------------------------------------------------------
(* Properties *)

Fetching(t) == pc[t] \in {"fetch", "issued"}

\* At most one goroutine at a time asks Logto for a token, and nobody reads
\* Client.token while it may be replaced.
SingleFetch ==
    \A t \in Thread : Fetching(t) =>
        /\ readers = {}
        /\ \A u \in Thread \ {t} :
              pc[u] \notin {"check", "wait", "recheck", "fetch", "issued"}

\* A token that is still served from the cache has more than Buffer - Latency
\* to live at Logto: the buffer absorbs the time its answer took to arrive.
CachedTokenHasMargin == Valid => now + Buffer - Latency < token.exp

\* How much of a lifetime the cache uses at most.
Kept == IF MaxLife > Buffer THEN MaxLife - Buffer ELSE 0

\* What Logto would say of the token t carries, if the call arrived now.
Carries(t) == pc[t] = "use"
Expired(tok) == now >= tok.exp
Revoked(tok) == tok.iat <= revokedAt

\* The Management API sees an expired token only when Logto grants lifetimes
\* that one fetch and one call can outlast.
NoExpiredUse ==
    \A t \in Thread :
        Carries(t) /\ Expired(got[t].token) =>
            2 * Latency >= Buffer \/ \E life \in Lifetime : life <= 2 * Latency

\* A 401 does not drop the cached token, so calls keep failing after Logto
\* revoked it, but no longer than the token could be cached.
RevocationOutageIsBounded ==
    \A t \in Thread :
        Carries(t) /\ Revoked(got[t].token) =>
            now <= revokedAt + 2 * Latency + Kept

\* A valid token is never replaced: of the goroutines that find the token
\* expired together, only one fetches (the check is repeated under the lock).
NoNeedlessRefresh == [][token' # token => ~Valid]_vars

Source == INSTANCE TokenSource WITH
    Client <- Thread, current <- token, held <- got, None <- Nothing

\* However many goroutines race for the lock, fetch, fail and find the token expired
\* at once, they are served like from one token that is replaced only when it has
\* lapsed, by a fresh one, and given out only while it is valid.
TokenSourceSpec == Source!Spec

\* What lets a goroutine go on.
CanProceed(t) ==
    \/ pc[t] \in {"rlock", "lock"} /\ writer = Nobody
    \/ pc[t] = "wait" /\ readers = {}
    \/ pc[t] \in {"check", "recheck", "fetch", "issued", "use"}

\* The goroutines that wait for the lock never all wait for each other.
NobodyIsStuck ==
    (\E t \in Thread : pc[t] # "idle") => \E t \in Thread : CanProceed(t)

\* Whoever asks for a token gets it or an error, however many others ask: no
\* reader starves a writer, no writer a reader.
EveryCallEnds == \A t \in Thread : pc[t] = "rlock" ~> pc[t] \in {"use", "idle"}

-----------------------------------------------------------------------------
(* The inductive invariant behind the safety properties *)

Owns(t) == pc[t] \in {"wait", "recheck", "fetch", "issued"}

\* The program counters say who holds the lock, and readers are gone before a
\* writer works.
LockInv ==
    /\ \A t \in Thread : t \in readers <=> pc[t] = "check"
    /\ \A t \in Thread : writer = t <=> Owns(t)
    /\ \A t \in Thread : pc[t] \in {"recheck", "fetch", "issued"} => readers = {}

\* Whatever is served after this instant leaves the buffer, less one timeout.
CacheInv ==
    /\ token.until <= token.iat + Latency + Kept
    /\ token.until <= now \/ token.until <= token.exp + Latency - Buffer

\* A fetch is younger than the timeout, its reply younger than the fetch.
FetchInv ==
    \A t \in Thread : Fetching(t) =>
        /\ sent <= now /\ now <= sent + Latency
        /\ pc[t] = "issued" =>
              /\ sent <= reply.iat /\ reply.iat <= now
              /\ reply.exp - reply.iat \in Lifetime

\* Where the token of a call came from: the cache, or Logto just now.
UseInv ==
    \A t \in Thread : Carries(t) =>
        LET tok == got[t].token  at == got[t].at IN
        /\ at <= now /\ now <= at + Latency
        /\ \/ /\ at < tok.until
              /\ tok.until <= tok.exp + Latency - Buffer
              /\ tok.until <= tok.iat + Latency + Kept
           \/ /\ tok.exp - tok.iat \in Lifetime
              /\ at <= tok.iat + Latency

\* A goroutine holds a token only for its call.
HoldInv == \A t \in Thread : ~Carries(t) => got[t] = Nothing

\* While a goroutine fetches, the cached token stays the lapsed one it saw.
FetchOnlyStale == \A t \in Thread : Fetching(t) => ~Valid

\* What every reachable state satisfies; it implies the safety properties.
IInv ==
    /\ TypeOK /\ LockInv /\ CacheInv /\ FetchInv /\ UseInv
    /\ HoldInv /\ FetchOnlyStale
=============================================================================

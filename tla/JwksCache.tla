------------------------------- MODULE JwksCache -------------------------------
(***************************************************************************)
(* How the auth middleware decides whether a bearer token is valid.  A JWT *)
(* is checked against Logto's public keys, which all handlers (and all     *)
(* instances) share through one Valkey entry that lives for jwksCacheTTL.  *)
(* Keys come and go in Logto while copies of them are on their way and in  *)
(* the cache.  An opaque token is shown to Logto's UserInfo endpoint.      *)
(*                                                                         *)
(* Valkey and Logto are external.  A call takes effect at one instant, any *)
(* time after the caller made it, and the caller goes on any time later:   *)
(* the client that fetches keys has no timeout, so nothing is assumed of   *)
(* how long a call or its answer is under way.                             *)
(***************************************************************************)
EXTENDS HttpClient, FiniteSets

CONSTANTS
    Handler,  \* goroutines; each validates one token after another
    Key,      \* Logto's signing keys
    Session,  \* Logto sessions, each with its opaque token
    BadJwt,   \* any JWT that is expired, for somebody else, or not Logto's
    None,
    TTL,      \* jwksCacheTTL
    MaxTime   \* bound on the clock

ASSUME JwksAssumption ==
    /\ TTL \in Nat \ {0} /\ MaxTime \in Nat
    /\ Key \cap Session = {}
    /\ {BadJwt, None} \cap (Key \cup Session) = {} /\ BadJwt # None

VARIABLES
    now,
    birth,  \* when Logto began to publish each key
    death,  \* when it ceased to
    closed, \* the sessions that have ended, their tokens revoked
    entry,  \* the value in Valkey: a key set and its expiry
    pc,     \* where each handler is
    token,  \* the token it validates
    began,  \* history: when it began to, if a key of Logto has signed the token
    late,   \* history: the handlers that began after the token's session had ended
    held,   \* the key set it holds
    tries   \* how often it has asked UserInfo about the token

vars == <<now, birth, death, closed, entry, pc, token, began, late, held, tries>>

Time == 0..MaxTime

Never == MaxTime + 1

\* A good JWT is known by the key that signed it, an opaque token by its session.
Jwt == Key \cup {BadJwt}

Token == Jwt \cup Session

\* Keys, and for the properties: when Logto served them, and how long they then took
\* to get into Valkey, if that is where they come from.
KeySet == [keys : SUBSET Key, served : Time, lag : Time]

NoKeys == [keys |-> {}, served |-> 0, lag |-> 0]

Entry == [set : KeySet, until : Nat]

NoEntry == [set |-> NoKeys, until |-> 0]

\* What a handler is told: "failed" is a rejection because Logto did not answer.
Free == {"idle", "accepted", "rejected", "failed"}

PC == Free \cup {"lookup", "hit", "fetch", "store", "direct", "verify", "userinfo", "granted",
              "denied"}

TypeOK ==
    /\ now \in Time
    /\ birth \in [Key -> Time \cup {Never}]
    /\ death \in [Key -> Time \cup {Never}]
    /\ closed \subseteq Session
    /\ entry \in Entry
    /\ pc \in [Handler -> PC]
    /\ token \in [Handler -> Token \cup {None}]
    /\ began \in [Handler -> Time]
    /\ late \subseteq Handler
    /\ held \in [Handler -> KeySet]
    /\ tries \in [Handler -> 0..(RetryCount + 1)]

Init ==
    /\ now = 0
    /\ \E k \in Key : birth = [i \in Key |-> IF i = k THEN 0 ELSE Never]
    /\ death = [k \in Key |-> Never]
    /\ closed = {}
    /\ entry = NoEntry
    /\ pc = [h \in Handler |-> "idle"]
    /\ token = [h \in Handler |-> None]
    /\ began = [h \in Handler |-> 0]
    /\ late = {}
    /\ held = [h \in Handler |-> NoKeys]
    /\ tries = [h \in Handler |-> 0]

-----------------------------------------------------------------------------
(* One validation *)

Goto(h, label) == pc' = [pc EXCEPT ![h] = label]

\* The answer of parseAndValidate.  The handler is free for another token.
Answer(h, verdict) ==
    /\ Goto(h, verdict)
    /\ token' = [token EXCEPT ![h] = None]
    /\ began' = [began EXCEPT ![h] = 0]
    /\ late' = late \ {h}
    /\ held' = [held EXCEPT ![h] = NoKeys]
    /\ tries' = [tries EXCEPT ![h] = 0]

\* The handler goes on with the same token.
Proceed(h, label) == Goto(h, label) /\ UNCHANGED <<token, began, late, tries>>

\* Tokens in circulation were signed with a key that Logto has published.
InCirculation(t) == t \in Key => birth[t] <= now

Arrive(h) ==
    /\ pc[h] \in Free
    /\ \E t \in Token :
         /\ InCirculation(t)
         /\ token' = [token EXCEPT ![h] = t]
         /\ began' = [began EXCEPT ![h] = IF t \in Key THEN now ELSE 0]
         /\ late' = IF t \in closed THEN late \cup {h} ELSE late
    /\ Goto(h, "lookup")
    /\ UNCHANGED <<now, birth, death, closed, entry, held, tries>>

Fresh == now < entry.until

CacheHit(h) ==
    /\ Fresh
    /\ held' = [held EXCEPT ![h] = entry.set]
    /\ Proceed(h, "hit")

\* Mutant: no fallback when the cache cannot be read.
LookupOnly(h) ==
    /\ pc[h] = "lookup"
    /\ \/ CacheHit(h)
       \/ ~Fresh /\ Proceed(h, "fetch") /\ UNCHANGED held
       \/ Answer(h, "rejected")
    /\ UNCHANGED <<now, birth, death, closed, entry>>

\* getJWKSFromCache: a hit, a miss, or a value that cannot be read or parsed.
Lookup(h) ==
    /\ pc[h] = "lookup"
    /\ \/ CacheHit(h)
       \/ ~Fresh /\ Proceed(h, "fetch") /\ UNCHANGED held
       \/ Proceed(h, "direct") /\ UNCHANGED held
    /\ UNCHANGED <<now, birth, death, closed, entry>>

Published == {k \in Key : birth[k] <= now /\ now < death[k]}

\* Logto serves a fetch: the one after a miss, whose result is stored, or the
\* direct one, whose result is not.  The response may be under way for any time: it is
\* held from now on, and looked at by the next step.
Serve(h) ==
    /\ pc[h] \in {"fetch", "direct"}
    /\ held' = [held EXCEPT ![h] = [keys |-> Published, served |-> now, lag |-> 0]]
    /\ Proceed(h, IF pc[h] = "fetch" THEN "store" ELSE "verify")
    /\ UNCHANGED <<now, birth, death, closed, entry>>

AskUserInfo(h) ==
    /\ Goto(h, "userinfo")
    /\ held' = [held EXCEPT ![h] = NoKeys]
    /\ tries' = [tries EXCEPT ![h] = 1]
    /\ UNCHANGED <<token, began, late>>

\* A failed fetch, or a response that breaks off: after a miss a cache error too, upon
\* which getJWKS fetches again.
\* Without keys a JWT is invalid; an opaque token still goes to UserInfo.
FetchFail(h) ==
    /\ \/ pc[h] = "fetch" /\ Proceed(h, "direct") /\ UNCHANGED held
       \/ pc[h] = "direct" /\ token[h] \in Jwt /\ Answer(h, "failed")
       \/ pc[h] = "direct" /\ token[h] \notin Jwt /\ AskUserInfo(h)
    /\ UNCHANGED <<now, birth, death, closed, entry>>

\* What is stored of the key set that h fetched.
Late(h) == [held[h] EXCEPT !.lag = now - held[h].served]

\* Mutant: a zero TTL, with which Valkey keeps the value for ever.
StoreForever(h) ==
    /\ pc[h] = "store"
    /\ \/ entry' = [set |-> Late(h), until |-> Never]
       \/ UNCHANGED entry
    /\ Proceed(h, "verify")
    /\ UNCHANGED <<now, birth, death, closed, held>>

\* SetJSON with jwksCacheTTL, whoever stored in between; a failure is ignored.
Store(h) ==
    /\ pc[h] = "store"
    /\ \/ entry' = [set |-> Late(h), until |-> now + TTL]
       \/ UNCHANGED entry
    /\ Proceed(h, "verify")
    /\ UNCHANGED <<now, birth, death, closed, held>>

\* jwt.Parse and jwt.Validate.  Only a token without dots goes on to UserInfo.
Verify(h) ==
    /\ pc[h] \in {"hit", "verify"}
    /\ \/ /\ token[h] \in Jwt
          /\ Answer(h, IF token[h] \in held[h].keys THEN "accepted" ELSE "rejected")
       \/ token[h] \notin Jwt /\ AskUserInfo(h)
    /\ UNCHANGED <<now, birth, death, closed, entry>>

\* Logto serves the question: it knows the session or it does not any more.
ServeUserInfo(h) ==
    /\ pc[h] = "userinfo"
    /\ Proceed(h, IF token[h] \in closed THEN "denied" ELSE "granted")
    /\ UNCHANGED <<now, birth, death, closed, entry, held>>

\* parseViaUserInfo, with the answer.
HearUserInfo(h) ==
    /\ pc[h] \in {"granted", "denied"}
    /\ Answer(h, IF pc[h] = "granted" THEN "accepted" ELSE "rejected")
    /\ UNCHANGED <<now, birth, death, closed, entry>>

\* parseViaUserInfo, without: the client asks again or gives up.  An answer that Logto
\* has given may be lost, a busy Logto has given none.
MissUserInfo(h) ==
    /\ pc[h] \in {"userinfo", "granted", "denied"}
    /\ \E outcome \in IF pc[h] = "userinfo" THEN Unanswered ELSE {"lost"} :
         \/ /\ MayRetry("GET", tries[h])
            /\ Goto(h, "userinfo")
            /\ tries' = [tries EXCEPT ![h] = @ + 1]
            /\ UNCHANGED <<token, began, late, held>>
         \/ /\ ~MustRetry("GET", tries[h], outcome)
            /\ Answer(h, "failed")
    /\ UNCHANGED <<now, birth, death, closed, entry>>

-----------------------------------------------------------------------------
(* Logto, Valkey, time *)

\* Keys are rotated: a new one is published, an old one withdrawn.
Publish(k) ==
    /\ birth[k] = Never
    /\ birth' = [birth EXCEPT ![k] = now]
    /\ UNCHANGED <<now, death, closed, entry, pc, token, began, late, held, tries>>

Retire(k) ==
    /\ birth[k] <= now /\ death[k] = Never
    /\ death' = [death EXCEPT ![k] = now]
    /\ UNCHANGED <<now, birth, closed, entry, pc, token, began, late, held, tries>>

EndSession(s) ==
    /\ s \notin closed
    /\ closed' = closed \cup {s}
    /\ UNCHANGED <<now, birth, death, entry, pc, token, began, late, held, tries>>

\* Valkey restarts, or evicts the entry.
Evict ==
    /\ Fresh
    /\ entry' = NoEntry
    /\ UNCHANGED <<now, birth, death, closed, pc, token, began, late, held, tries>>

\* Valkey drops what expires.
Tick ==
    /\ now < MaxTime
    /\ now' = now + 1
    /\ entry' = IF entry.until <= now' THEN NoEntry ELSE entry
    /\ UNCHANGED <<birth, death, closed, pc, token, began, late, held, tries>>

Validate(h) ==
    \/ Arrive(h)
    \/ Lookup(h)
    \/ Serve(h)
    \/ FetchFail(h)
    \/ Store(h)
    \/ Verify(h)
    \/ ServeUserInfo(h)
    \/ HearUserInfo(h)
    \/ MissUserInfo(h)

Next ==
    \/ \E h \in Handler : Validate(h)
    \/ \E k \in Key : Publish(k) \/ Retire(k)
    \/ \E s \in Session : EndSession(s)
    \/ Evict
    \/ Tick

Spec == Init /\ [][Next]_vars

-----------------------------------------------------------------------------
(* Properties *)

Accepts(h) == pc[h] # "accepted" /\ pc'[h] = "accepted"

Rejects(h) == pc[h] # "rejected" /\ pc'[h] = "rejected"

(* A verdict says what was true of Logto at some instant.  How far back it may lie does
   not depend on when the verdict is given, which nothing bounds, but on when the
   validation began; a key set that took long to reach Valkey is as much older. *)

\* However fetches, stores and answers of different handlers interleave with rotations
\* and stall on their way: a validation that begins jwksCacheTTL, and the lag of the
\* cached keys, after Logto withdrew a key trusts that key no more; one that fetches keys
\* itself trusts none withdrawn before it began; and an opaque token is not accepted if
\* its session was closed before, however often it is asked about.
AcceptedTokensAreRecent ==
    [][\A h \in Handler : Accepts(h) =>
         \/ token[h] \in Session /\ h \notin late
         \/ /\ token[h] \in Key
            /\ \/ began[h] <= death[token[h]]
               \/ /\ pc[h] = "hit"
                  /\ began[h] < death[token[h]] + TTL + held[h].lag]_vars

\* "Graceful degradation": a cache that is down, empty or stale does not turn a
\* good token away.  Only a key published less than the same time before the validation
\* began may be unknown, unless Logto itself fails the last call.
GoodTokensAreAccepted ==
    [][\A h \in Handler : Rejects(h) =>
         \/ token[h] = BadJwt
         \/ token[h] \in closed
         \/ /\ token[h] \in Key
            /\ \/ death[token[h]] <= now
               \/ began[h] <= birth[token[h]]
               \/ /\ pc[h] = "hit"
                  /\ began[h] < birth[token[h]] + TTL + held[h].lag]_vars

-----------------------------------------------------------------------------
(* The inductive invariant *)

\* A key set is what Logto published at the instant it was served; within that
\* instant keys may have changed before or after.
Snapshot(s) ==
    /\ s.served <= now
    /\ \A k \in Key :
          /\ k \in s.keys => birth[k] <= s.served /\ s.served <= death[k]
          /\ k \notin s.keys => s.served <= birth[k] \/ death[k] <= s.served

EntryInv ==
    Fresh => /\ Snapshot(entry.set)
             /\ entry.until = entry.set.served + entry.set.lag + TTL

\* A handler holds keys that Logto served after the validation began, or that were
\* still good for Valkey when it read them.
HeldInv ==
    \A h \in Handler :
        /\ pc[h] \in {"store", "verify"} => Snapshot(held[h]) /\ began[h] <= held[h].served
        /\ pc[h] = "hit" => /\ Snapshot(held[h])
                            /\ began[h] < held[h].served + held[h].lag + TTL

TokenInv ==
    \A h \in Handler :
        /\ began[h] <= now
        /\ pc[h] \notin Free => token[h] \in Token
        /\ pc[h] \in {"userinfo", "granted", "denied"} => token[h] \in Session /\ tries[h] > 0
        /\ token[h] \in Key => birth[token[h]] <= now

\* An answer that is on its way was true when Logto gave it, after the validation began.
UserInfoInv ==
    \A h \in Handler :
        /\ pc[h] = "granted" => h \notin late
        /\ h \in late => pc[h] \notin Free /\ token[h] \in closed
        /\ pc[h] = "denied" => token[h] \in closed

\* What Logto has done lies in the past.
KeyInv ==
    \A k \in Key :
        /\ birth[k] <= now \/ birth[k] = Never
        /\ death[k] <= now \/ death[k] = Never

IInv == TypeOK /\ KeyInv /\ TokenInv /\ EntryInv /\ HeldInv /\ UserInfoInv
=============================================================================

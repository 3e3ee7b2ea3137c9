-------------------------- MODULE M2MTokenCache_proofs --------------------------
(***************************************************************************)
(* The safety properties of M2MTokenCache hold for every set of goroutines, *)
(* every buffer, timeout and set of lifetimes.                             *)
(***************************************************************************)
EXTENDS M2MTokenCache, TLAPS

\* The initial state satisfies the inductive invariant.
LEMMA InitIInv == Init => IInv
<1> SUFFICES ASSUME Init PROVE IInv
    OBVIOUS
<1> USE TokenAssumption DEF Init, Time, PC, Token, NilToken, Nothing
<1>1. TypeOK
    BY DEF TypeOK
<1>2. LockInv
    BY DEF LockInv, Owns
<1>3. CacheInv
    BY DEF CacheInv, Kept
<1>4. FetchInv /\ UseInv
    BY DEF FetchInv, Fetching, UseInv, Carries
<1>5. HoldInv /\ FetchOnlyStale
    BY DEF HoldInv, Carries, FetchOnlyStale, Fetching
<1> QED
    BY <1>1, <1>2, <1>3, <1>4, <1>5 DEF IInv

\* Every step keeps the types.
LEMMA TypeStep == TypeOK /\ [Next]_vars => TypeOK'
<1> SUFFICES ASSUME TypeOK, [Next]_vars PROVE TypeOK'
    OBVIOUS
<1> USE TokenAssumption DEF TypeOK, Time, PC, Token, NilToken, Nothing,
        lock, fetching, Goto, Return, FetchEnds
<1>1. ASSUME NEW t \in Thread, Call(t) PROVE TypeOK'
    BY <1>1 DEF Call
<1>2. ASSUME NEW t \in Thread, RLock(t) PROVE TypeOK'
    BY <1>2 DEF RLock
<1>3. ASSUME NEW t \in Thread, Check(t) PROVE TypeOK'
  <2>1. CASE Valid
    BY <1>3, <2>1 DEF Check
  <2>2. CASE ~Valid
    BY <1>3, <2>2 DEF Check
  <2> QED
    BY <2>1, <2>2
<1>4. ASSUME NEW t \in Thread, LockRequest(t) PROVE TypeOK'
    BY <1>4 DEF LockRequest
<1>5. ASSUME NEW t \in Thread, LockAcquire(t) PROVE TypeOK'
    BY <1>5 DEF LockAcquire
<1>6. ASSUME NEW t \in Thread, Recheck(t) PROVE TypeOK'
  <2>1. CASE Valid
    BY <1>6, <2>1 DEF Recheck
  <2>2. CASE ~Valid
    BY <1>6, <2>2 DEF Recheck
  <2> QED
    BY <2>1, <2>2
<1>7. ASSUME NEW t \in Thread, Issue(t) PROVE TypeOK'
    BY <1>7 DEF Issue
<1>8. ASSUME NEW t \in Thread, Store(t) PROVE TypeOK'
  <2>1. Until(reply.exp - reply.iat) \in Int
    BY DEF Until
  <2>2. token' \in Token
    BY <1>8, <2>1 DEF Store
  <2> QED
    BY <1>8, <2>2 DEF Store
<1>9. ASSUME NEW t \in Thread, FetchFail(t) PROVE TypeOK'
    BY <1>9 DEF FetchFail
<1>10. ASSUME NEW t \in Thread, Use(t) PROVE TypeOK'
    BY <1>10 DEF Use
<1>11. CASE Revoke
    BY <1>11 DEF Revoke
<1>12. CASE Tick
    BY <1>12 DEF Tick
<1>13. CASE UNCHANGED vars
    BY <1>13 DEF vars
<1> QED
    BY <1>1, <1>2, <1>3, <1>4, <1>5, <1>6, <1>7, <1>8, <1>9, <1>10, <1>11,
       <1>12, <1>13 DEF Next, Step

\* The type invariant of the token cache.
THEOREM TypeCorrect == Spec => []TypeOK
<1>1. Init => TypeOK
    BY InitIInv DEF IInv
<1> QED
    BY <1>1, TypeStep, PTL DEF Spec

-----------------------------------------------------------------------------
(* The lock *)

\* Every step keeps the lock consistent with the program counters.
LEMMA LockStep == TypeOK /\ LockInv /\ [Next]_vars => LockInv'
<1> SUFFICES ASSUME TypeOK, LockInv, [Next]_vars PROVE LockInv'
    OBVIOUS
<1>0. /\ pc \in [Thread -> PC] /\ readers \subseteq Thread
      /\ Nobody \notin Thread
    BY TokenAssumption DEF TypeOK
<1> USE <1>0 DEF LockInv, Owns, PC, lock, Goto, Return, FetchEnds
<1>1. ASSUME NEW t \in Thread, Call(t) PROVE LockInv'
    BY <1>1 DEF Call
<1>2. ASSUME NEW t \in Thread, RLock(t) PROVE LockInv'
    BY <1>2 DEF RLock
<1>3. ASSUME NEW t \in Thread, Check(t) PROVE LockInv'
  <2>1. CASE Valid
    BY <1>3, <2>1 DEF Check
  <2>2. CASE ~Valid
    BY <1>3, <2>2 DEF Check
  <2> QED
    BY <2>1, <2>2
<1>4. ASSUME NEW t \in Thread, LockRequest(t) PROVE LockInv'
    BY <1>4 DEF LockRequest
<1>5. ASSUME NEW t \in Thread, LockAcquire(t) PROVE LockInv'
    BY <1>5 DEF LockAcquire
<1>6. ASSUME NEW t \in Thread, Recheck(t) PROVE LockInv'
  <2>1. CASE Valid
    BY <1>6, <2>1 DEF Recheck
  <2>2. CASE ~Valid
    BY <1>6, <2>2 DEF Recheck
  <2> QED
    BY <2>1, <2>2
<1>7. ASSUME NEW t \in Thread, Issue(t) PROVE LockInv'
    BY <1>7 DEF Issue
<1>8. ASSUME NEW t \in Thread, Store(t) PROVE LockInv'
    BY <1>8 DEF Store
<1>9. ASSUME NEW t \in Thread, FetchFail(t) PROVE LockInv'
    BY <1>9 DEF FetchFail
<1>10. ASSUME NEW t \in Thread, Use(t) PROVE LockInv'
    BY <1>10 DEF Use
<1>11. CASE Revoke \/ Tick \/ UNCHANGED vars
    BY <1>11 DEF Revoke, Tick, vars
<1> QED
    BY <1>1, <1>2, <1>3, <1>4, <1>5, <1>6, <1>7, <1>8, <1>9, <1>10, <1>11
       DEF Next, Step

\* The lock invariant is what makes a fetch exclusive.
LEMMA LockExcludes == TypeOK /\ LockInv => SingleFetch
<1> QED
    BY TokenAssumption DEF TypeOK, LockInv, Owns, SingleFetch, Fetching

\* At most one goroutine fetches a token at a time, and nobody reads the cached
\* token meanwhile.
THEOREM OneFetchAtATime == Spec => []SingleFetch
<1>1. Init => TypeOK /\ LockInv
    BY InitIInv DEF IInv
<1>2. TypeOK /\ LockInv /\ [Next]_vars => (TypeOK /\ LockInv)'
    BY TypeStep, LockStep
<1> QED
    BY <1>1, <1>2, LockExcludes, PTL DEF Spec

-----------------------------------------------------------------------------
(* Time *)

\* What a call returns and when is as UseInv says, if it comes from a valid
\* cached token.
LEMMA CacheHit ==
    ASSUME TypeOK, CacheInv, Valid
    PROVE  /\ now < token.until
           /\ token.until <= token.exp + Latency - Buffer
           /\ token.until <= token.iat + Latency + Kept
<1> Kept \in Int
    BY TokenAssumption DEF Kept
<1> QED
    BY TokenAssumption DEF TypeOK, CacheInv, Valid, Time, Token

\* The arithmetic of expiresAt: a reply within the timeout is cached until the
\* buffer, less that timeout, before its expiry at the latest, or not at all.
LEMMA UntilBound ==
    ASSUME TypeOK, NEW iat \in Int, NEW exp \in Int,
           exp - iat \in Lifetime, iat <= now, now <= iat + Latency
    PROVE  /\ Until(exp - iat) \in Int
           /\ Until(exp - iat) <= iat + Latency + Kept
           /\ \/ Until(exp - iat) <= now
              \/ Until(exp - iat) <= exp + Latency - Buffer
<1> exp - iat \in Nat /\ exp - iat <= MaxLife
    BY TokenAssumption
<1> now \in Int /\ Latency \in Nat /\ Buffer \in Nat /\ MaxLife \in Nat
    BY TokenAssumption DEF TypeOK, Time
<1> QED
    BY DEF Until, Kept

\* Only Store changes the cached token, and time only passes.
LEMMA CacheStep == IInv /\ [Next]_vars => CacheInv'
<1> SUFFICES ASSUME IInv, [Next]_vars PROVE CacheInv'
    OBVIOUS
<1>0. /\ now \in Int /\ token \in Token /\ reply \in Token /\ Kept \in Int
      /\ Latency \in Nat /\ Buffer \in Nat /\ MaxTime \in Nat
    BY TokenAssumption DEF IInv, TypeOK, Time, Kept
<1>1. CASE UNCHANGED <<now, token>>
    BY <1>1 DEF IInv, CacheInv, Kept
<1>2. CASE Tick
  <2>1. now' = now + 1 /\ token' = token
    BY <1>2 DEF Tick
  <2> QED
    BY <2>1, <1>0 DEF IInv, CacheInv, Kept, Token
<1>3. ASSUME NEW t \in Thread, Store(t) PROVE CacheInv'
  <2> DEFINE u == Until(reply.exp - reply.iat)
  <2>1. /\ reply.iat \in Int /\ reply.exp \in Int
        /\ reply.exp - reply.iat \in Lifetime
        /\ reply.iat <= now
        /\ now <= reply.iat + Latency
    BY <1>3, <1>0, TokenAssumption
       DEF Store, IInv, FetchInv, Fetching, Token, TypeOK, Time
  <2>2. /\ u <= reply.iat + Latency + Kept
        /\ u <= now \/ u <= reply.exp + Latency - Buffer
    BY <2>1, UntilBound DEF IInv
  <2>3. token' = [reply EXCEPT !.until = u] /\ now' = now
    BY <1>3 DEF Store
  <2> HIDE DEF u
  <2>4. token'.iat = reply.iat /\ token'.exp = reply.exp /\ token'.until = u
    BY <2>3, <1>0 DEF Token
  <2> QED
    BY <2>2, <2>3, <2>4 DEF CacheInv, Kept
<1>4. ASSUME NEW t \in Thread,
             Call(t) \/ RLock(t) \/ Check(t) \/ LockRequest(t) \/ LockAcquire(t)
               \/ Recheck(t) \/ Issue(t) \/ FetchFail(t) \/ Use(t)
      PROVE  UNCHANGED <<now, token>>
    BY <1>4 DEF Call, RLock, Check, LockRequest, LockAcquire, Recheck, Issue,
                FetchFail, Use
<1> QED
    BY <1>1, <1>2, <1>3, <1>4 DEF Next, Step, Revoke, vars

\* The clock stops while a fetch is overdue, and only its owner changes it.
LEMMA FetchStep == IInv /\ [Next]_vars => FetchInv'
<1> SUFFICES ASSUME IInv, [Next]_vars PROVE FetchInv'
    OBVIOUS
<1>0. /\ now \in Int /\ sent \in Int /\ Latency \in Nat /\ reply \in Token
      /\ pc \in [Thread -> PC] /\ Lifetime \subseteq 0..MaxLife
      /\ MaxLife \in Nat
    BY TokenAssumption DEF IInv, TypeOK, Time
<1>1. FetchInv /\ LockInv
    BY DEF IInv
\* Nobody fetches while somebody else owns the write lock.
<1>2. ASSUME NEW t \in Thread, Owns(t), NEW u \in Thread, Fetching(u)
      PROVE  u = t
    BY <1>1, <1>2 DEF LockInv, Owns, Fetching
<1>3. ASSUME NEW t \in Thread,
             Call(t) \/ RLock(t) \/ Check(t) \/ LockRequest(t) \/ LockAcquire(t)
               \/ Use(t)
      PROVE  FetchInv'
  <2>1. UNCHANGED <<now, sent, reply>> /\ pc' = [pc EXCEPT ![t] = pc'[t]]
        /\ pc'[t] \notin {"fetch", "issued"}
    BY <1>3, <1>0 DEF Call, RLock, Check, LockRequest, LockAcquire, Use, Goto,
                      Return, fetching
  <2> QED
    BY <2>1, <1>0, <1>1 DEF FetchInv, Fetching
<1>4. ASSUME NEW t \in Thread, Recheck(t) PROVE FetchInv'
  <2>1. CASE Valid
    BY <1>4, <2>1, <1>0, <1>1 DEF Recheck, Return, Goto, FetchInv, Fetching
  <2>2. CASE ~Valid
    <3>1. sent' = now /\ now' = now /\ pc' = [pc EXCEPT ![t] = "fetch"]
      BY <1>4, <2>2 DEF Recheck, Goto
    <3>2. \A u \in Thread : Fetching(u)' => u = t
      BY <3>1, <1>4, <1>2, <1>0 DEF Recheck, Owns, Fetching
    <3> QED
      BY <3>1, <3>2, <1>0 DEF FetchInv, Fetching
  <2> QED
    BY <2>1, <2>2
<1>5. ASSUME NEW t \in Thread, Issue(t) PROVE FetchInv'
  <2>1. PICK life \in Lifetime :
          reply' = [iat |-> now, exp |-> now + life, until |-> 0]
    BY <1>5 DEF Issue
  <2>2. /\ UNCHANGED <<now, sent>> /\ pc' = [pc EXCEPT ![t] = "issued"]
        /\ Fetching(t)
    BY <1>5 DEF Issue, Goto, Fetching
  <2>3. \A u \in Thread : Fetching(u)' => u = t
    BY <2>2, <1>2, <1>0 DEF Owns, Fetching
  <2>4. /\ life \in Int /\ reply'.iat = now
        /\ reply'.exp - reply'.iat = life
    BY <2>1, <1>0
  <2>5. sent <= now /\ now <= sent + Latency
    BY <2>2, <1>1 DEF FetchInv
  <2> QED
    BY <2>2, <2>3, <2>4, <2>5, <1>0 DEF FetchInv, Fetching
<1>6. ASSUME NEW t \in Thread, Store(t) \/ FetchFail(t) PROVE FetchInv'
  <2>1. /\ Fetching(t) /\ pc' = [pc EXCEPT ![t] = pc'[t]]
        /\ pc'[t] \in {"use", "idle"}
    BY <1>6, <1>0 DEF Store, FetchFail, Fetching, Goto, Return
  <2>2. \A u \in Thread : ~Fetching(u)'
    BY <2>1, <1>2, <1>0 DEF Owns, Fetching
  <2> QED
    BY <2>2 DEF FetchInv
<1>7. CASE Tick
  <2>1. /\ now' = now + 1 /\ UNCHANGED <<pc, sent, reply>>
        /\ \A t \in Thread : Fetching(t) => now < sent + Latency
    BY <1>7, <1>0 DEF Tick, fetching, Overdue, Fetching
  <2> QED
    BY <2>1, <1>0, <1>1 DEF FetchInv, Fetching, Token, Time
<1>8. CASE Revoke \/ UNCHANGED vars
    BY <1>8, <1>1 DEF Revoke, vars, fetching, FetchInv, Fetching
<1> QED
    BY <1>3, <1>4, <1>5, <1>6, <1>7, <1>8 DEF Next, Step

\* A token is returned out of a valid cache or out of a fresh reply, and the
\* clock stops while the call that carries it is overdue.
LEMMA UseStep == IInv /\ [Next]_vars => UseInv'
<1> SUFFICES ASSUME IInv, [Next]_vars PROVE UseInv'
    OBVIOUS
<1>0. /\ now \in Int /\ Latency \in Nat /\ reply \in Token /\ token \in Token
      /\ pc \in [Thread -> PC] /\ got \in [Thread -> [token : Token, at : Time]]
      /\ Time \subseteq Int /\ UseInv /\ Kept \in Int
    BY TokenAssumption DEF IInv, TypeOK, Time, Kept
<1> DEFINE Origin(tok, at) ==
        \/ /\ at < tok.until
           /\ tok.until <= tok.exp + Latency - Buffer
           /\ tok.until <= tok.iat + Latency + Kept
        \/ /\ tok.exp - tok.iat \in Lifetime
           /\ at <= tok.iat + Latency
<1>1. ASSUME NEW t \in Thread, NEW tok, Origin(tok, now), Return(t, tok),
             now' = now
      PROVE  UseInv'
  <2>1. got'[t].token = tok /\ got'[t].at = now
    BY <1>1, <1>0 DEF Return
  <2>2. \A u \in Thread \ {t} : got'[u] = got[u] /\ pc'[u] = pc[u]
    BY <1>1, <1>0 DEF Return, Goto
  <2>3. now' <= now + Latency
    BY <1>1, <1>0
  <2>4. ASSUME NEW u \in Thread, Carries(u)'
        PROVE  /\ got'[u].at <= now' /\ now' <= got'[u].at + Latency
               /\ Origin(got'[u].token, got'[u].at)
    BY <2>1, <2>2, <2>3, <2>4, <1>0, <1>1 DEF UseInv, Carries
  <2> QED
    BY <2>4 DEF UseInv, Kept
<1>2. ASSUME NEW t \in Thread, Check(t) \/ Recheck(t), Valid PROVE UseInv'
  <2>1. Return(t, token) /\ now' = now
    BY <1>2 DEF Check, Recheck
  <2>2. Origin(token, now)
    BY <1>2, CacheHit DEF IInv
  <2> QED
    BY <2>1, <2>2, <1>1
<1>3. ASSUME NEW t \in Thread, Store(t) PROVE UseInv'
  <2>1. token' \in Token /\ token'.iat = reply.iat /\ token'.exp = reply.exp
    BY <1>3, TypeStep, <1>0 DEF Store, IInv, TypeOK, Token
  <2>2. /\ reply.exp - reply.iat \in Lifetime
        /\ now <= reply.iat + Latency
    BY <1>3, <1>0, TokenAssumption
       DEF Store, IInv, FetchInv, Fetching, Token, TypeOK, Time
  <2>3. Origin(token', now)
    BY <2>1, <2>2
  <2>4. Return(t, token') /\ now' = now
    BY <1>3 DEF Store
  <2> HIDE DEF Origin
  <2> QED
    BY <2>3, <2>4, <1>1
<1>4. ASSUME NEW t \in Thread,
             \/ Call(t) \/ RLock(t) \/ (Check(t) /\ ~Valid) \/ LockRequest(t)
             \/ LockAcquire(t) \/ (Recheck(t) /\ ~Valid) \/ Issue(t)
             \/ FetchFail(t)
      PROVE  UseInv'
  <2>1. /\ UNCHANGED <<now, got>> /\ pc' = [pc EXCEPT ![t] = pc'[t]]
        /\ pc'[t] # "use"
    BY <1>4, <1>0 DEF Call, RLock, Check, LockRequest, LockAcquire, Recheck,
                      Issue, FetchFail, Goto
  <2>2. \A u \in Thread : Carries(u)' => Carries(u)
    BY <2>1, <1>0 DEF Carries
  <2> QED
    BY <2>1, <2>2, <1>0 DEF UseInv, Kept
<1>5. ASSUME NEW t \in Thread, Use(t) PROVE UseInv'
  <2>1. \A u \in Thread : Carries(u)' => u # t /\ Carries(u)
    BY <1>5, <1>0 DEF Use, Goto, Carries
  <2>2. \A u \in Thread \ {t} : got'[u] = got[u]
    BY <1>5, <1>0 DEF Use
  <2>3. now' = now
    BY <1>5 DEF Use
  <2> QED
    BY <2>1, <2>2, <2>3, <1>0 DEF UseInv, Kept
<1>6. CASE Tick
  <2>1. /\ now' = now + 1 /\ UNCHANGED <<pc, got>>
        /\ \A t \in Thread : Carries(t) => ~(now >= got[t].at + Latency)
    BY <1>6 DEF Tick, Overdue, Carries
  <2>2. \A t \in Thread : got[t].at \in Int
    BY <1>0
  <2>3. ASSUME NEW t \in Thread, Carries(t)
        PROVE  got[t].at <= now + 1 /\ now + 1 <= got[t].at + Latency
    BY <2>1, <2>2, <2>3, <1>0 DEF UseInv
  <2> QED
    BY <2>1, <2>3, <1>0 DEF UseInv, Carries, Kept
<1>7. CASE Revoke \/ UNCHANGED vars
    BY <1>7, <1>0 DEF Revoke, vars, UseInv, Carries, Kept
<1> QED
    BY <1>2, <1>3, <1>4, <1>5, <1>6, <1>7 DEF Next, Step

-----------------------------------------------------------------------------
(* What is held, and the second check *)

\* A token is held from the return of getToken to the end of the call.
LEMMA HoldStep == IInv /\ [Next]_vars => HoldInv'
<1> SUFFICES ASSUME IInv, [Next]_vars PROVE HoldInv'
    OBVIOUS
<1>0. /\ pc \in [Thread -> PC] /\ HoldInv
      /\ got \in [Thread -> [token : Token, at : Time]]
    BY DEF IInv, TypeOK
<1>1. ASSUME NEW t \in Thread,
             \/ Call(t) \/ RLock(t) \/ (Check(t) /\ ~Valid) \/ LockRequest(t)
             \/ LockAcquire(t) \/ (Recheck(t) /\ ~Valid) \/ Issue(t)
             \/ FetchFail(t)
      PROVE  HoldInv'
  <2>1. /\ got' = got /\ pc' = [pc EXCEPT ![t] = pc'[t]]
        /\ pc[t] # "use"
    BY <1>1, <1>0 DEF Call, RLock, Check, LockRequest, LockAcquire, Recheck,
                      Issue, FetchFail, Goto
  <2> QED
    BY <2>1, <1>0 DEF HoldInv, Carries
<1>2. ASSUME NEW t \in Thread, NEW tok, Return(t, tok) PROVE HoldInv'
    BY <1>2, <1>0 DEF Return, Goto, HoldInv, Carries
<1>3. ASSUME NEW t \in Thread, Use(t) PROVE HoldInv'
    BY <1>3, <1>0 DEF Use, Goto, HoldInv, Carries
<1>4. CASE UNCHANGED <<pc, got>>
    BY <1>4, <1>0 DEF HoldInv, Carries
<1>5. ASSUME NEW t \in Thread, Check(t) \/ Recheck(t), Valid PROVE HoldInv'
    BY <1>2, <1>5 DEF Check, Recheck
<1>6. ASSUME NEW t \in Thread, Store(t) PROVE HoldInv'
    BY <1>2, <1>6 DEF Store
<1>7. Revoke \/ Tick \/ UNCHANGED vars => UNCHANGED <<pc, got>>
    BY DEF Revoke, Tick, vars
<1> QED
    BY <1>1, <1>3, <1>4, <1>5, <1>6, <1>7 DEF Next, Step

\* While a goroutine fetches, the cached token stays the expired one it saw.
LEMMA StaleStep == IInv /\ [Next]_vars => FetchOnlyStale'
<1> SUFFICES ASSUME IInv, [Next]_vars PROVE FetchOnlyStale'
    OBVIOUS
<1>0. /\ pc \in [Thread -> PC] /\ now \in Int /\ token \in Token /\ LockInv
      /\ FetchOnlyStale
    BY DEF IInv, TypeOK, Time
<1>1. ASSUME NEW t \in Thread, Store(t) PROVE FetchOnlyStale'
  <2>1. \A u \in Thread : ~Fetching(u)'
    BY <1>1, <1>0 DEF Store, Return, Goto, LockInv, Owns, Fetching
  <2> QED
    BY <2>1 DEF FetchOnlyStale
<1>2. ASSUME NEW t \in Thread, Recheck(t) PROVE FetchOnlyStale'
  <2>1. CASE Valid
    BY <1>2, <2>1, <1>0 DEF Recheck, Return, Goto, FetchOnlyStale, Fetching
  <2>2. CASE ~Valid
    BY <1>2, <2>2, <1>0 DEF Recheck, FetchOnlyStale, Valid
  <2> QED
    BY <2>1, <2>2
<1>3. CASE Tick
  <2>1. now' = now + 1 /\ token' = token /\ pc' = pc
    BY <1>3 DEF Tick
  <2> QED
    BY <2>1, <1>0 DEF FetchOnlyStale, Fetching, Valid, Token
<1>4. ASSUME NEW t \in Thread,
             \/ Call(t) \/ RLock(t) \/ Check(t) \/ LockRequest(t)
             \/ LockAcquire(t) \/ Issue(t) \/ FetchFail(t) \/ Use(t)
      PROVE  FetchOnlyStale'
  <2>1. /\ UNCHANGED <<now, token>> /\ pc' = [pc EXCEPT ![t] = pc'[t]]
        /\ pc'[t] \in {"fetch", "issued"} => Fetching(t)
    BY <1>4, <1>0 DEF Call, RLock, Check, LockRequest, LockAcquire, Issue,
                      FetchFail, Use, Goto, Return, Fetching
  <2> QED
    BY <2>1, <1>0 DEF FetchOnlyStale, Fetching, Valid
<1>5. CASE Revoke \/ UNCHANGED vars
    BY <1>0, <1>5 DEF Revoke, vars, FetchOnlyStale, Fetching, Valid
<1> QED
    BY <1>1, <1>2, <1>3, <1>4, <1>5 DEF Next, Step

-----------------------------------------------------------------------------
(* The theorems *)

\* Every reachable state satisfies the inductive invariant.
THEOREM Invariance == Spec => []IInv
<1>1. IInv /\ [Next]_vars => IInv'
    BY TypeStep, LockStep, CacheStep, FetchStep, UseStep, HoldStep, StaleStep
       DEF IInv
<1> QED
    BY <1>1, InitIInv, PTL DEF Spec

\* A token served from the cache always outlives the buffer, less one timeout.
THEOREM CachedTokensHaveMargin == Spec => []CachedTokenHasMargin
<1>1. IInv => CachedTokenHasMargin
  <2> SUFFICES ASSUME IInv, Valid PROVE now + Buffer - Latency < token.exp
      BY DEF CachedTokenHasMargin
  <2>1. now < token.until /\ token.until <= token.exp + Latency - Buffer
      BY CacheHit DEF IInv
  <2> QED
      BY <2>1, TokenAssumption DEF IInv, TypeOK, Time, Token
<1> QED
    BY <1>1, Invariance, PTL

\* No call carries an expired token, when the buffer covers a fetch and a call
\* and Logto grants no lifetime that one fetch and one call can outlast.
THEOREM NoCallCarriesAnExpiredToken == Spec => []NoExpiredUse
<1>1. IInv => NoExpiredUse
  <2> SUFFICES ASSUME IInv, NEW t \in Thread, Carries(t), Expired(got[t].token),
                      2 * Latency < Buffer,
                      \A life \in Lifetime : ~(life <= 2 * Latency)
               PROVE  FALSE
      BY TokenAssumption DEF NoExpiredUse
  <2>1. /\ got[t].token.exp \in Int /\ got[t].token.iat \in Int
        /\ got[t].token.until \in Int /\ got[t].at \in Int /\ now \in Int
        /\ Latency \in Nat /\ Buffer \in Nat /\ Lifetime \subseteq Int
      BY TokenAssumption DEF IInv, TypeOK, Time, Token
  <2>2. now <= got[t].at + Latency /\ now >= got[t].token.exp
      BY DEF IInv, UseInv, Expired
  <2>3. CASE /\ got[t].at < got[t].token.until
             /\ got[t].token.until <= got[t].token.exp + Latency - Buffer
      BY <2>1, <2>2, <2>3
  <2>4. CASE /\ got[t].token.exp - got[t].token.iat \in Lifetime
             /\ got[t].at <= got[t].token.iat + Latency
      BY <2>1, <2>2, <2>4
  <2> QED
      BY <2>3, <2>4 DEF IInv, UseInv
<1> QED
    BY <1>1, Invariance, PTL

\* After a revocation at Logto, calls carry a revoked token for a bounded time.
THEOREM OutageIsBounded == Spec => []RevocationOutageIsBounded
<1>1. IInv => RevocationOutageIsBounded
  <2> SUFFICES ASSUME IInv, NEW t \in Thread, Carries(t), Revoked(got[t].token)
               PROVE  now <= revokedAt + 2 * Latency + Kept
      BY DEF RevocationOutageIsBounded
  <2>1. /\ got[t].token.exp \in Int /\ got[t].token.iat \in Int
        /\ got[t].token.until \in Int /\ got[t].at \in Int /\ now \in Int
        /\ revokedAt \in Int /\ Latency \in Nat /\ Kept \in Nat
      BY TokenAssumption DEF IInv, TypeOK, Time, Token, Kept
  <2>2. now <= got[t].at + Latency /\ got[t].token.iat <= revokedAt
      BY DEF IInv, UseInv, Revoked
  <2>3. \/ /\ got[t].at < got[t].token.until
           /\ got[t].token.until <= got[t].token.iat + Latency + Kept
        \/ got[t].at <= got[t].token.iat + Latency
      BY DEF IInv, UseInv
  <2> HIDE DEF Kept
  <2> QED
      BY <2>1, <2>2, <2>3
<1> QED
    BY <1>1, Invariance, PTL

\* However many goroutines find the token expired at once, a token that is
\* still valid is never replaced.
THEOREM ValidTokenIsKept == Spec => NoNeedlessRefresh
<1>1. IInv /\ [Next]_vars => [token' # token => ~Valid]_vars
  <2> SUFFICES ASSUME IInv, Next, token' # token PROVE ~Valid
      OBVIOUS
  <2>1. \E t \in Thread : Store(t)
      BY DEF Next, Step, Call, RLock, Check, LockRequest, LockAcquire, Recheck,
             Issue, FetchFail, Use, Revoke, Tick
  <2> QED
      BY <2>1 DEF Store, IInv, FetchOnlyStale, Fetching
<1> QED
    BY <1>1, Invariance, PTL DEF Spec, NoNeedlessRefresh

\* The goroutines that wait for the lock never all wait for each other: whoever keeps
\* them out is at work, or waits for readers that are.
THEOREM TheLockIsFreed == Spec => []NobodyIsStuck
<1>1. IInv => NobodyIsStuck
  <2> SUFFICES ASSUME IInv, NEW t \in Thread, pc[t] # "idle"
               PROVE  \E u \in Thread : CanProceed(u)
      BY DEF NobodyIsStuck
  <2>0. /\ pc \in [Thread -> PC] /\ readers \subseteq Thread /\ LockInv
        /\ writer \in Thread \cup {Nobody}
      BY DEF IInv, TypeOK
  <2>1. CASE readers # {}
      BY <2>0, <2>1 DEF LockInv, CanProceed
  <2>2. CASE readers = {} /\ writer # Nobody
      BY <2>0, <2>2 DEF LockInv, Owns, CanProceed
  <2>3. CASE readers = {} /\ writer = Nobody
      BY <2>0, <2>3 DEF PC, CanProceed
  <2> QED
      BY <2>1, <2>2, <2>3
<1> QED
    BY <1>1, Invariance, PTL

-----------------------------------------------------------------------------
(* The shared token *)

\* Who returns from getToken held nothing before.
LEMMA ReturnHolds ==
    ASSUME IInv, NEW t \in Thread, ~Carries(t), NEW tok, Return(t, tok)
    PROVE  Source!Hold(t, tok)
BY DEF IInv, HoldInv, Return, Source!Hold

\* What a fetch brings is what the source grants: Until leaves the buffer.
LEMMA StoredIsGranted ==
    ASSUME IInv, NEW t \in Thread, Store(t)
    PROVE  Source!Granted(token')
<1> DEFINE u == Until(reply.exp - reply.iat)
<1>0. /\ reply \in Token /\ now \in Int /\ sent \in Int
      /\ Latency \in Nat /\ Time \subseteq Int
    BY TokenAssumption DEF IInv, TypeOK, Time
<1>1. /\ reply.iat \in Int /\ reply.exp \in Int
      /\ reply.exp - reply.iat \in Lifetime
      /\ reply.iat <= now /\ now <= reply.iat + Latency
    BY <1>0 DEF Store, IInv, FetchInv, Fetching, Token
<1>2. u <= now \/ u <= reply.exp + Latency - Buffer
    BY <1>1, UntilBound DEF IInv
<1>3. token' = [reply EXCEPT !.until = u]
    BY DEF Store
<1> HIDE DEF u
<1>4. token'.iat = reply.iat /\ token'.exp = reply.exp /\ token'.until = u
    BY <1>0, <1>3 DEF Token
<1> QED
    BY <1>1, <1>2, <1>4 DEF Source!Granted

\* A step of the cache is one of the source, or none.
LEMMA SourceStep == IInv /\ [Next]_vars => [Source!Next]_(Source!vars)
<1> SUFFICES ASSUME IInv, [Next]_vars PROVE [Source!Next]_(Source!vars)
    OBVIOUS
<1>0. pc \in [Thread -> PC]
    BY DEF IInv, TypeOK
<1>1. Valid <=> Source!Valid
    BY DEF Valid, Source!Valid
<1>2. ASSUME NEW t \in Thread, Check(t) \/ Recheck(t), Valid
      PROVE  Source!Take(t)
  <2>1. Return(t, token) /\ ~Carries(t)
    BY <1>2 DEF Check, Recheck, Carries
  <2>2. Source!Hold(t, token)
    BY <2>1, ReturnHolds
  <2> QED
    BY <1>1, <1>2, <2>2 DEF Source!Take, Check, Recheck
<1>3. ASSUME NEW t \in Thread, Store(t) PROVE Source!Renew(t)
  <2>1. Return(t, token') /\ ~Carries(t) /\ ~Valid /\ now' = now
    BY <1>3 DEF Store, Carries, IInv, FetchOnlyStale, Fetching
  <2>2. Source!Hold(t, token')
    BY <2>1, ReturnHolds
  <2> QED
    BY <1>1, <1>3, <2>1, <2>2, StoredIsGranted DEF Source!Renew
<1>4. ASSUME NEW t \in Thread, Use(t)
      PROVE  Source!Drop(t) \/ UNCHANGED Source!vars
  <2>1. got' = [got EXCEPT ![t] = Nothing] /\ UNCHANGED <<now, token>>
    BY <1>4 DEF Use
  <2>2. CASE got[t] = Nothing
    BY <2>1, <2>2 DEF IInv, TypeOK, Source!vars
  <2>3. CASE got[t] # Nothing
    BY <2>1, <2>3 DEF Source!Drop
  <2> QED
    BY <2>2, <2>3
<1>5. CASE Tick
  <2>1. now' = now + 1 /\ UNCHANGED <<token, got>>
    BY <1>5 DEF Tick
  <2>2. ASSUME NEW t \in Thread, got[t] # Nothing
        PROVE  now < got[t].at + Latency
    <3>1. pc[t] = "use" /\ ~(now >= got[t].at + Latency)
        BY <1>5, <2>2 DEF IInv, HoldInv, Carries, Tick, Overdue
    <3>2. now \in Int /\ got[t].at \in Int /\ Latency \in Int
        BY TokenAssumption DEF IInv, TypeOK, Time
    <3> QED
        BY <3>1, <3>2
  <2>3. Source!Tick
    BY <2>1, <2>2 DEF Source!Tick
  <2> QED
    BY <2>3 DEF Source!Next
<1>6. ASSUME NEW t \in Thread,
             \/ Call(t) \/ RLock(t) \/ (Check(t) /\ ~Valid) \/ LockRequest(t)
             \/ LockAcquire(t) \/ (Recheck(t) /\ ~Valid) \/ Issue(t)
             \/ FetchFail(t)
      PROVE  UNCHANGED Source!vars
    BY <1>6 DEF Call, RLock, Check, LockRequest, LockAcquire, Recheck, Issue,
                FetchFail, Source!vars
<1>7. CASE Revoke \/ UNCHANGED vars
    BY <1>7 DEF Revoke, vars, Source!vars
<1> QED
    BY <1>2, <1>3, <1>4, <1>5, <1>6, <1>7 DEF Next, Step, Source!Next

\* The cache, its lock and its fetches give what one shared token gives that is only
\* replaced when it has lapsed.
THEOREM ImplementsTokenSource == Spec => TokenSourceSpec
<1>1. Init => Source!Init
    BY DEF Init, NilToken, Source!Init, Source!Valid
<1> QED
    BY <1>1, SourceStep, Invariance, PTL DEF Spec, TokenSourceSpec, Source!Spec
=================================================================================

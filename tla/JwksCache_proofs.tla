---------------------------- MODULE JwksCache_proofs ----------------------------
(***************************************************************************)
(* How stale the keys can be that JwksCache trusts, for all numbers of     *)
(* handlers, keys and sessions, every TTL, and whatever time calls take.   *)
(***************************************************************************)
EXTENDS JwksCache, TLAPS

LEMMA InitIInv == Init => IInv
<1> SUFFICES ASSUME Init PROVE IInv
    OBVIOUS
<1> USE JwksAssumption, HttpClientAssumption DEF Init, Time, Never
<1>1. TypeOK
    BY DEF TypeOK, Entry, NoEntry, NoKeys, KeySet, PC, Free
<1>2. KeyInv
    BY DEF KeyInv
<1>3. TokenInv
    BY DEF TokenInv, Free
<1>4. EntryInv
    BY DEF EntryInv, Fresh, NoEntry
<1>5. HeldInv /\ UserInfoInv
    BY DEF HeldInv, UserInfoInv
<1> QED
    BY <1>1, <1>2, <1>3, <1>4, <1>5 DEF IInv

-----------------------------------------------------------------------------
(* Types *)

\* No keys, and no entry, are well formed too.
LEMMA EmptyTyped == NoKeys \in KeySet /\ NoEntry \in Entry
<1>1. NoKeys \in KeySet
    BY JwksAssumption DEF NoKeys, KeySet, Time
<1> QED
    BY <1>1 DEF NoEntry, Entry

\* A verdict is well formed.
LEMMA AnswerTyped ==
    ASSUME TypeOK, NEW h \in Handler, NEW verdict \in PC, Answer(h, verdict)
    PROVE  /\ pc' \in [Handler -> PC] /\ token' \in [Handler -> Token \cup {None}]
           /\ began' \in [Handler -> Time] /\ late' \subseteq Handler
           /\ held' \in [Handler -> KeySet] /\ tries' \in [Handler -> 0..(RetryCount + 1)]
<1>1. 0 \in Time /\ 0 \in 0..(RetryCount + 1)
    BY HttpClientAssumption, JwksAssumption DEF Time
<1> QED
    BY <1>1, EmptyTyped DEF Answer, Goto, TypeOK

\* Going on with a token keeps the types.
LEMMA ProceedTyped ==
    ASSUME TypeOK, NEW h \in Handler, NEW label \in PC, Proceed(h, label)
    PROVE  /\ pc' \in [Handler -> PC] /\ token' \in [Handler -> Token \cup {None}]
           /\ began' \in [Handler -> Time] /\ late' \subseteq Handler
           /\ tries' \in [Handler -> 0..(RetryCount + 1)]
<1> QED
    BY DEF Proceed, Goto, TypeOK

\* So does turning to UserInfo.
LEMMA AskTyped ==
    ASSUME TypeOK, NEW h \in Handler, AskUserInfo(h)
    PROVE  /\ pc' \in [Handler -> PC] /\ token' \in [Handler -> Token \cup {None}]
           /\ began' \in [Handler -> Time] /\ late' \subseteq Handler
           /\ held' \in [Handler -> KeySet] /\ tries' \in [Handler -> 0..(RetryCount + 1)]
<1>1. "userinfo" \in PC /\ 1 \in 0..(RetryCount + 1)
    BY HttpClientAssumption DEF PC
<1> QED
    BY <1>1, EmptyTyped DEF AskUserInfo, Goto, TypeOK

\* What h stores is well formed.
LEMMA StoredTyped ==
    ASSUME TypeOK, HeldInv, NEW h \in Handler, pc[h] = "store"
    PROVE  [set |-> Late(h), until |-> now + TTL] \in Entry
<1>1. held[h] \in KeySet /\ held[h].served <= now
    BY DEF TypeOK, HeldInv, Snapshot
<1>2. now - held[h].served \in Time /\ now + TTL \in Nat
    BY <1>1, JwksAssumption DEF TypeOK, KeySet, Time
<1>3. Late(h) \in KeySet
    BY <1>1, <1>2 DEF Late, KeySet
<1> QED
    BY <1>2, <1>3 DEF Entry

\* Every step keeps the types.
LEMMA TypeStep == TypeOK /\ HeldInv /\ [Next]_vars => TypeOK'
<1> SUFFICES ASSUME TypeOK, HeldInv, [Next]_vars PROVE TypeOK'
    OBVIOUS
<1>0. /\ Free \subseteq PC
      /\ {"lookup", "hit", "fetch", "store"} \subseteq PC
      /\ {"direct", "verify", "userinfo", "granted", "denied"} \subseteq PC
      /\ {"accepted", "rejected", "failed"} \subseteq PC
    BY DEF PC, Free
<1>00. now \in Nat /\ now <= MaxTime /\ Time \subseteq Nat /\ 0 \in Time
    BY JwksAssumption DEF TypeOK, Time
<1>1. ASSUME NEW h \in Handler, Validate(h) PROVE TypeOK'
  <2>1. CASE Arrive(h)
    BY <1>0, <1>00, <2>1 DEF Arrive, Goto, TypeOK
  <2>2. CASE Lookup(h)
    <3>1. CASE CacheHit(h)
      <4>1. held' \in [Handler -> KeySet]
        BY <3>1 DEF CacheHit, Entry, TypeOK
      <4> QED
        BY <1>0, <2>2, <3>1, <4>1, ProceedTyped DEF Lookup, CacheHit, TypeOK
    <3>2. CASE Proceed(h, "fetch") /\ UNCHANGED held
        BY <1>0, <2>2, <3>2, ProceedTyped DEF Lookup, TypeOK
    <3>3. CASE Proceed(h, "direct") /\ UNCHANGED held
        BY <1>0, <2>2, <3>3, ProceedTyped DEF Lookup, TypeOK
    <3> QED
        BY <2>2, <3>1, <3>2, <3>3 DEF Lookup
  <2>3. CASE Serve(h)
    <3>1. [keys |-> Published, served |-> now, lag |-> 0] \in KeySet
        BY JwksAssumption DEF TypeOK, KeySet, Published, Time
    <3>2. held' \in [Handler -> KeySet]
        BY <2>3, <3>1 DEF Serve, TypeOK
    <3>3. (IF pc[h] = "fetch" THEN "store" ELSE "verify") \in PC
        BY <1>0
    <3> QED
        BY <2>3, <3>2, <3>3, ProceedTyped DEF Serve, TypeOK
  <2>4. CASE FetchFail(h)
    <3>1. CASE Proceed(h, "direct") /\ UNCHANGED held
        BY <1>0, <2>4, <3>1, ProceedTyped DEF FetchFail, TypeOK
    <3>2. CASE Answer(h, "failed")
        BY <1>0, <2>4, <3>2, AnswerTyped DEF FetchFail, TypeOK
    <3>3. CASE AskUserInfo(h)
        BY <2>4, <3>3, AskTyped DEF FetchFail, TypeOK
    <3> QED
        BY <2>4, <3>1, <3>2, <3>3 DEF FetchFail
  <2>5. CASE Store(h)
    <3>1. entry' \in Entry
        BY <2>5, StoredTyped DEF Store, TypeOK
    <3> QED
        BY <1>0, <2>5, <3>1, ProceedTyped DEF Store, TypeOK
  <2>6. CASE Verify(h)
    <3>1. CASE Answer(h, "accepted") \/ Answer(h, "rejected")
        BY <1>0, <2>6, <3>1, AnswerTyped DEF Verify, TypeOK
    <3>2. CASE AskUserInfo(h)
        BY <2>6, <3>2, AskTyped DEF Verify, TypeOK
    <3> QED
        BY <2>6, <3>1, <3>2 DEF Verify
  <2>7. CASE ServeUserInfo(h)
    <3>1. (IF token[h] \in closed THEN "denied" ELSE "granted") \in PC
        BY <1>0
    <3> QED
        BY <2>7, <3>1, ProceedTyped DEF ServeUserInfo, TypeOK
  <2>8. CASE HearUserInfo(h)
    <3>1. (IF pc[h] = "granted" THEN "accepted" ELSE "rejected") \in PC
        BY <1>0
    <3> QED
        BY <2>8, <3>1, AnswerTyped DEF HearUserInfo, TypeOK
  <2>9. CASE MissUserInfo(h)
    <3>1. CASE Answer(h, "failed")
        BY <1>0, <2>9, <3>1, AnswerTyped DEF MissUserInfo, TypeOK
    <3>2. CASE /\ MayRetry("GET", tries[h])
               /\ Goto(h, "userinfo")
               /\ tries' = [tries EXCEPT ![h] = @ + 1]
               /\ UNCHANGED <<token, began, late, held>>
      <4>1. tries[h] + 1 \in 0..(RetryCount + 1)
        BY <3>2, HttpClientAssumption DEF MayRetry, TypeOK
      <4> QED
        BY <1>0, <2>9, <3>2, <4>1 DEF MissUserInfo, Goto, TypeOK
    <3> QED
        BY <2>9, <3>1, <3>2 DEF MissUserInfo
  <2> QED
    BY <1>1, <2>1, <2>2, <2>3, <2>4, <2>5, <2>6, <2>7, <2>8, <2>9 DEF Validate
<1>2. ASSUME NEW k \in Key, Publish(k) \/ Retire(k) PROVE TypeOK'
    BY <1>2 DEF Publish, Retire, TypeOK
<1>3. ASSUME NEW s \in Session, EndSession(s) PROVE TypeOK'
    BY <1>3 DEF EndSession, TypeOK
<1>5. CASE Evict
    BY <1>5, EmptyTyped DEF Evict, TypeOK
<1>6. CASE Tick
  <2>1. now' \in Time
    BY <1>6, <1>00, JwksAssumption DEF Tick, Time
  <2> QED
    BY <1>6, <2>1, EmptyTyped DEF Tick, TypeOK
<1>7. CASE UNCHANGED vars
    BY <1>7 DEF vars, TypeOK
<1> QED
    BY <1>1, <1>2, <1>3, <1>5, <1>6, <1>7 DEF Next

-----------------------------------------------------------------------------
(* Keys and tokens *)

\* What a validating handler leaves alone.
LEMMA ValidateKeeps ==
    ASSUME NEW h \in Handler, Validate(h)
    PROVE  UNCHANGED <<now, birth, death, closed>>
<1> QED
    BY DEF Validate, Arrive, Lookup, Serve, FetchFail, Store, Verify, ServeUserInfo,
           HearUserInfo, MissUserInfo

\* Keys are published and withdrawn at the present instant only.
LEMMA KeyStep == TypeOK /\ KeyInv /\ [Next]_vars => KeyInv'
<1> SUFFICES ASSUME TypeOK, KeyInv, [Next]_vars, NEW k \in Key
             PROVE  /\ birth'[k] <= now' \/ birth'[k] = Never
                    /\ death'[k] <= now' \/ death'[k] = Never
    BY DEF KeyInv
<1>0. /\ now \in Nat /\ birth[k] \in Int /\ death[k] \in Int
      /\ birth[k] <= now \/ birth[k] = Never
      /\ death[k] <= now \/ death[k] = Never
    BY JwksAssumption DEF TypeOK, KeyInv, Time, Never
<1>1. ASSUME NEW i \in Key, Publish(i) \/ Retire(i)
      PROVE  /\ now' = now
             /\ birth'[k] \in {birth[k], now}
             /\ death'[k] \in {death[k], now}
    BY <1>1 DEF Publish, Retire, TypeOK
<1>2. CASE \E i \in Key : Publish(i) \/ Retire(i)
    BY <1>0, <1>1, <1>2
<1>3. CASE Tick
    BY <1>0, <1>3 DEF Tick
<1>4. CASE UNCHANGED <<now, birth, death>>
    BY <1>0, <1>4
<1>5. \/ \E i \in Key : Publish(i) \/ Retire(i)
      \/ Tick
      \/ UNCHANGED <<now, birth, death>>
    BY ValidateKeeps DEF Next, EndSession, Evict, vars
<1> QED
    BY <1>2, <1>3, <1>4, <1>5

\* A step belongs to the handler h, or leaves what h works with alone.
LEMMA StepOf ==
    ASSUME TypeOK, [Next]_vars, NEW h \in Handler, ~Validate(h)
    PROVE  /\ pc'[h] = pc[h] /\ token'[h] = token[h]
           /\ began'[h] = began[h] /\ (h \in late' <=> h \in late)
           /\ held'[h] = held[h] /\ tries'[h] = tries[h]
<1>1. ASSUME NEW g \in Handler, Validate(g)
      PROVE  /\ pc'[h] = pc[h] /\ token'[h] = token[h]
             /\ began'[h] = began[h] /\ (h \in late' <=> h \in late)
           /\ held'[h] = held[h] /\ tries'[h] = tries[h]
  <2> USE <1>1 DEF TypeOK, Goto, Answer, Proceed, CacheHit, AskUserInfo
  <2>1. CASE Arrive(g)
    BY <2>1 DEF Arrive
  <2>2. CASE Lookup(g)
    BY <2>2 DEF Lookup
  <2>3. CASE Serve(g)
    BY <2>3 DEF Serve
  <2>4. CASE FetchFail(g)
    BY <2>4 DEF FetchFail
  <2>5. CASE Store(g)
    BY <2>5 DEF Store
  <2>6. CASE Verify(g)
    BY <2>6 DEF Verify
  <2>7. CASE ServeUserInfo(g)
    BY <2>7 DEF ServeUserInfo
  <2>8. CASE HearUserInfo(g)
    BY <2>8 DEF HearUserInfo
  <2>9. CASE MissUserInfo(g)
    BY <2>9 DEF MissUserInfo
  <2> QED
    BY <2>1, <2>2, <2>3, <2>4, <2>5, <2>6, <2>7, <2>8, <2>9 DEF Validate
<1>2. ASSUME NEW k \in Key, Publish(k) \/ Retire(k)
      PROVE  UNCHANGED <<pc, token, began, late, held, tries>>
    BY <1>2 DEF Publish, Retire
<1>3. ASSUME NEW s \in Session, EndSession(s)
      PROVE  UNCHANGED <<pc, token, began, late, held, tries>>
    BY <1>3 DEF EndSession
<1>4. CASE Evict \/ Tick \/ UNCHANGED vars
    BY <1>4 DEF Evict, Tick, vars
<1> QED
    BY <1>1, <1>2, <1>3, <1>4 DEF Next

\* Tokens in circulation stay in circulation.
LEMMA TokenStep == TypeOK /\ KeyInv /\ TokenInv /\ [Next]_vars => TokenInv'
<1> SUFFICES ASSUME TypeOK, KeyInv, TokenInv, [Next]_vars, NEW h \in Handler
             PROVE  /\ began'[h] <= now'
                    /\ pc'[h] \notin Free => token'[h] \in Token
                    /\ pc'[h] \in {"userinfo", "granted", "denied"} =>
                         token'[h] \in Session /\ tries'[h] > 0
                    /\ token'[h] \in Key => birth'[token'[h]] <= now'
    BY DEF TokenInv
<1>0. /\ pc[h] \notin Free => token[h] \in Token
      /\ pc[h] \in {"userinfo", "granted", "denied"} => token[h] \in Session /\ tries[h] > 0
      /\ tries[h] \in Nat /\ began[h] <= now /\ began[h] \in Nat /\ now \in Nat
      /\ token[h] \in Key => birth[token[h]] <= now
      /\ None \notin Key
    BY JwksAssumption DEF TokenInv, TypeOK, Time
<1>1. CASE Validate(h)
  <2>0. now' = now /\ birth' = birth
    BY <1>1, ValidateKeeps
  <2> USE DEF TypeOK, Goto, Answer, Proceed, CacheHit, AskUserInfo, Free
  <2>1. CASE Arrive(h)
    BY <1>0, <2>0, <2>1 DEF Arrive, InCirculation
  <2>2. CASE Lookup(h)
    BY <1>0, <2>0, <2>2 DEF Lookup
  <2>3. CASE Serve(h)
    BY <1>0, <2>0, <2>3 DEF Serve
  <2>4. CASE FetchFail(h)
    BY <1>0, <2>0, <2>4 DEF FetchFail, Token
  <2>5. CASE Store(h)
    BY <1>0, <2>0, <2>5 DEF Store
  <2>6. CASE Verify(h)
    BY <1>0, <2>0, <2>6 DEF Verify, Token
  <2>7. CASE ServeUserInfo(h)
    BY <1>0, <2>0, <2>7 DEF ServeUserInfo
  <2>8. CASE HearUserInfo(h)
    BY <1>0, <2>0, <2>8 DEF HearUserInfo
  <2>9. CASE MissUserInfo(h)
    BY <1>0, <2>0, <2>9 DEF MissUserInfo
  <2> QED
    BY <1>1, <2>1, <2>2, <2>3, <2>4, <2>5, <2>6, <2>7, <2>8, <2>9 DEF Validate
<1>2. CASE ~Validate(h)
  <2>1. /\ pc'[h] = pc[h] /\ token'[h] = token[h] /\ tries'[h] = tries[h]
        /\ began'[h] = began[h]
    BY <1>2, StepOf
  <2>3. now' \in {now, now + 1}
    BY ValidateKeeps DEF Next, Publish, Retire, EndSession, Evict, Tick, vars
  <2>2. token[h] \in Key => birth'[token[h]] <= now'
    <3> SUFFICES ASSUME NEW k \in Key, birth[k] <= now PROVE birth'[k] <= now'
        BY <1>0
    <3>0. now \in Nat /\ birth[k] \in Nat
        BY JwksAssumption DEF TypeOK, Time, Never
    <3>1. birth'[k] \in {birth[k], now} /\ now' \in {now, now + 1}
      <4>1. ASSUME NEW i \in Key, Publish(i) \/ Retire(i)
            PROVE  birth'[k] \in {birth[k], now} /\ now' = now
        BY <4>1 DEF Publish, Retire, TypeOK
      <4> QED
        BY <4>1, ValidateKeeps DEF Next, EndSession, Evict, Tick, vars
    <3> QED
        BY <3>0, <3>1
  <2> QED
    BY <1>0, <2>1, <2>2, <2>3
<1> QED
    BY <1>1, <1>2

-----------------------------------------------------------------------------
(* Key sets and their age *)

\* Snapshot(s) in the next state, for a set s of this one.
StillSnapshot(s) ==
    /\ s.served <= now'
    /\ \A k \in Key :
          /\ k \in s.keys => birth'[k] <= s.served /\ s.served <= death'[k]
          /\ k \notin s.keys => s.served <= birth'[k] \/ death'[k] <= s.served

\* What Logto does later does not falsify what it served.
LEMMA SnapshotStep ==
    ASSUME TypeOK, KeyInv, [Next]_vars, NEW s, s.served \in Time, Snapshot(s)
    PROVE  StillSnapshot(s)
<1>0. now \in Nat /\ s.served \in Nat /\ now <= MaxTime /\ s.served <= now
    BY JwksAssumption DEF TypeOK, Time, Snapshot
<1>1. now' \in {now, now + 1}
    BY ValidateKeeps DEF Next, Publish, Retire, EndSession, Evict, Tick, vars
<1>2. ASSUME NEW k \in Key
      PROVE  /\ birth'[k] = birth[k] \/ (birth[k] = Never /\ birth'[k] = now)
             /\ death'[k] = death[k] \/ (death[k] = Never /\ death'[k] = now)
  <2>1. ASSUME NEW i \in Key, Publish(i) \/ Retire(i)
        PROVE  /\ birth'[k] = birth[k] \/ (birth[k] = Never /\ birth'[k] = now)
               /\ death'[k] = death[k] \/ (death[k] = Never /\ death'[k] = now)
    BY <2>1 DEF Publish, Retire, TypeOK
  <2> QED
    BY <2>1, ValidateKeeps DEF Next, EndSession, Evict, Tick, vars
<1>3. ASSUME NEW k \in Key
      PROVE  /\ k \in s.keys => birth'[k] <= s.served /\ s.served <= death'[k]
             /\ k \notin s.keys => s.served <= birth'[k] \/ death'[k] <= s.served
  <2>1. birth[k] \in Nat /\ death[k] \in Nat /\ MaxTime \in Nat
    BY JwksAssumption DEF TypeOK, Time, Never
  <2>2. /\ k \in s.keys => birth[k] <= s.served /\ s.served <= death[k]
        /\ k \notin s.keys => s.served <= birth[k] \/ death[k] <= s.served
    BY DEF Snapshot
  <2> QED
    BY <1>0, <1>2, <2>1, <2>2 DEF Never
<1> QED
    BY <1>0, <1>1, <1>3 DEF StillSnapshot

\* What is in the cache is at most its lag older than its life.
LEMMA EntryStep ==
    TypeOK /\ KeyInv /\ EntryInv /\ HeldInv /\ [Next]_vars => EntryInv'
<1> SUFFICES ASSUME TypeOK, KeyInv, EntryInv, HeldInv, [Next]_vars, Fresh'
             PROVE  /\ StillSnapshot(entry'.set)
                    /\ entry'.until = entry'.set.served + entry'.set.lag + TTL
    BY DEF EntryInv, StillSnapshot, Snapshot
<1>0. now \in Nat /\ entry.until \in Nat /\ entry.set.served \in Time
    BY JwksAssumption DEF TypeOK, Time, Entry, KeySet
<1>00. now' \in Nat
    BY TypeStep, JwksAssumption DEF TypeOK, Time
<1>1. CASE entry' = entry
  <2>1. now <= now'
    BY <1>0, ValidateKeeps DEF Next, Publish, Retire, EndSession, Evict, Tick, vars
  <2>2. Fresh
    BY <1>0, <1>00, <1>1, <2>1 DEF Fresh
  <2> QED
    BY <1>0, <1>1, <2>2, SnapshotStep DEF EntryInv
<1>2. CASE entry' = NoEntry
    BY <1>00, <1>2 DEF Fresh, NoEntry
<1>3. ASSUME NEW h \in Handler, Store(h), entry' # entry
      PROVE  /\ StillSnapshot(entry'.set)
             /\ entry'.until = entry'.set.served + entry'.set.lag + TTL
  <2>1. entry' = [set |-> Late(h), until |-> now + TTL] /\ pc[h] = "store"
    BY <1>3 DEF Store
  <2>2. Snapshot(held[h]) /\ held[h] \in KeySet
    BY <2>1 DEF HeldInv, TypeOK
  <2>3. StillSnapshot(held[h])
    BY <2>2, SnapshotStep DEF KeySet
  <2>4. /\ Late(h).keys = held[h].keys /\ Late(h).served = held[h].served
        /\ Late(h).lag = now - held[h].served
    BY <2>2 DEF Late, KeySet
  <2>5. StillSnapshot(Late(h))
    BY <2>3, <2>4 DEF StillSnapshot
  <2>6. held[h].served \in Nat
    BY <2>2, JwksAssumption DEF KeySet, Time
  <2>7. now + TTL = held[h].served + (now - held[h].served) + TTL
    BY <1>0, <2>6, JwksAssumption
  <2> QED
    BY <2>1, <2>4, <2>5, <2>7
<1>4. \/ entry' = entry
      \/ entry' = NoEntry
      \/ \E h \in Handler : Store(h)
  <2>1. ASSUME NEW h \in Handler, Validate(h), ~Store(h) PROVE entry' = entry
    BY <2>1 DEF Validate, Arrive, Lookup, Serve, FetchFail, Verify, ServeUserInfo,
                HearUserInfo, MissUserInfo
  <2> QED
    BY <2>1 DEF Next, Publish, Retire, EndSession, Evict, Tick, vars
<1> QED
    BY <1>1, <1>2, <1>3, <1>4

\* A handler holds keys that were served after it began, or that were in the cache then.
LEMMA HeldStep ==
    TypeOK /\ KeyInv /\ TokenInv /\ EntryInv /\ HeldInv /\ [Next]_vars => HeldInv'
<1> SUFFICES ASSUME TypeOK, KeyInv, TokenInv, EntryInv, HeldInv, [Next]_vars,
                    NEW h \in Handler
             PROVE  /\ pc'[h] \in {"store", "verify"} =>
                         StillSnapshot(held'[h]) /\ began'[h] <= held'[h].served
                    /\ pc'[h] = "hit" =>
                         /\ StillSnapshot(held'[h])
                         /\ began'[h] < held'[h].served + held'[h].lag + TTL
    BY DEF HeldInv, StillSnapshot, Snapshot
<1>0. /\ now \in Nat /\ held[h].served \in Time
      /\ began[h] \in Nat /\ began[h] <= now /\ TTL \in Nat
    BY JwksAssumption DEF TypeOK, TokenInv, Time, KeySet
<1>1. CASE Validate(h)
  <2>0. now' = now
    BY <1>1, ValidateKeeps
  <2>1. CASE Lookup(h) /\ CacheHit(h)
    <3>1. /\ held'[h] = entry.set /\ pc'[h] = "hit" /\ began'[h] = began[h]
        BY <2>1 DEF CacheHit, Proceed, Goto, TypeOK
    <3>2. /\ Snapshot(entry.set) /\ now < entry.until
          /\ entry.until = entry.set.served + entry.set.lag + TTL
        BY <2>1 DEF CacheHit, EntryInv, Fresh
    <3>3. entry.set.served \in Time /\ entry.until \in Nat
        BY DEF TypeOK, Entry, KeySet
    <3>4. StillSnapshot(entry.set)
        BY <3>2, <3>3, SnapshotStep
    <3>5. began[h] < entry.until
        BY <1>0, <3>2, <3>3
    <3> QED
        BY <3>1, <3>2, <3>4, <3>5
  <2>2. CASE Serve(h)
    <3>1. /\ held'[h] = [keys |-> Published, served |-> now, lag |-> 0]
          /\ pc'[h] \in {"store", "verify"} /\ began'[h] = began[h]
        BY <2>2 DEF Serve, Proceed, Goto, TypeOK
    <3>2. birth' = birth /\ death' = death
        BY <2>2 DEF Serve
    <3>3. StillSnapshot(held'[h])
      <4>1. \A k \in Key : birth[k] \in Nat /\ death[k] \in Nat
        BY JwksAssumption DEF TypeOK, Time, Never
      <4> QED
        BY <1>0, <2>0, <3>1, <3>2, <4>1 DEF StillSnapshot, Published
    <3> QED
        BY <1>0, <3>1, <3>3
  <2>3. CASE Store(h)
    <3>1. /\ pc[h] = "store" /\ pc'[h] = "verify" /\ held' = held /\ began' = began
        BY <2>3 DEF Store, Proceed, Goto, TypeOK
    <3>2. Snapshot(held[h]) /\ began[h] <= held[h].served
        BY <3>1 DEF HeldInv
    <3>3. StillSnapshot(held[h])
        BY <1>0, <3>2, SnapshotStep
    <3> QED
        BY <3>1, <3>2, <3>3
  <2>4. CASE pc'[h] \notin {"hit", "store", "verify"}
    BY <2>4
  <2>5. CASE \/ Arrive(h) \/ FetchFail(h) \/ Verify(h)
             \/ ServeUserInfo(h) \/ HearUserInfo(h) \/ MissUserInfo(h)
    BY <2>4, <2>5 DEF Arrive, FetchFail, Verify, ServeUserInfo, HearUserInfo,
                      MissUserInfo, Answer, Proceed, AskUserInfo, Goto, TypeOK
  <2>6. CASE Lookup(h) /\ ~CacheHit(h)
    BY <2>4, <2>6 DEF Lookup, Proceed, Goto, TypeOK
  <2> QED
    BY <1>1, <2>1, <2>2, <2>3, <2>5, <2>6 DEF Validate
<1>2. CASE ~Validate(h)
  <2>1. pc'[h] = pc[h] /\ held'[h] = held[h] /\ began'[h] = began[h]
    BY <1>2, StepOf
  <2>2. Snapshot(held[h]) => StillSnapshot(held[h])
    BY <1>0, SnapshotStep
  <2> QED
    BY <2>1, <2>2 DEF HeldInv
<1> QED
    BY <1>1, <1>2

\* Whoever began after a session had ended is not granted it.
LEMMA UserInfoStep ==
    TypeOK /\ TokenInv /\ UserInfoInv /\ [Next]_vars => UserInfoInv'
<1> SUFFICES ASSUME TypeOK, TokenInv, UserInfoInv, [Next]_vars, NEW h \in Handler
             PROVE  /\ pc'[h] = "granted" => h \notin late'
                    /\ h \in late' => pc'[h] \notin Free /\ token'[h] \in closed'
                    /\ pc'[h] = "denied" => token'[h] \in closed'
    BY DEF UserInfoInv
<1>0. /\ pc[h] = "granted" => h \notin late
      /\ h \in late => pc[h] \notin Free /\ token[h] \in closed
      /\ pc[h] = "denied" => token[h] \in closed
    BY DEF UserInfoInv
<1>1. CASE Validate(h)
  <2>0. closed' = closed
    BY <1>1, ValidateKeeps
  <2> USE DEF TypeOK, Goto, Answer, Proceed, CacheHit, AskUserInfo, Free
  <2>1. CASE Arrive(h)
    <3>1. PICK t \in Token : /\ token' = [token EXCEPT ![h] = t]
                             /\ late' = IF t \in closed THEN late \cup {h} ELSE late
        BY <2>1 DEF Arrive
    <3>2. pc'[h] = "lookup" /\ token'[h] = t
        BY <2>1, <3>1 DEF Arrive
    <3>3. h \notin late
        BY <2>1, <1>0 DEF Arrive
    <3> QED
        BY <2>0, <3>1, <3>2, <3>3
  <2>2. CASE Lookup(h)
    BY <1>0, <2>0, <2>2 DEF Lookup
  <2>3. CASE Serve(h)
    BY <1>0, <2>0, <2>3 DEF Serve
  <2>4. CASE FetchFail(h)
    BY <1>0, <2>0, <2>4 DEF FetchFail
  <2>5. CASE Store(h)
    BY <1>0, <2>0, <2>5 DEF Store
  <2>6. CASE Verify(h)
    BY <1>0, <2>0, <2>6 DEF Verify
  <2>7. CASE ServeUserInfo(h)
    BY <1>0, <2>0, <2>7 DEF ServeUserInfo
  <2>8. CASE HearUserInfo(h)
    BY <1>0, <2>0, <2>8 DEF HearUserInfo
  <2>9. CASE MissUserInfo(h)
    BY <1>0, <2>0, <2>9 DEF MissUserInfo
  <2> QED
    BY <1>1, <2>1, <2>2, <2>3, <2>4, <2>5, <2>6, <2>7, <2>8, <2>9 DEF Validate
<1>2. CASE ~Validate(h)
  <2>1. pc'[h] = pc[h] /\ token'[h] = token[h] /\ (h \in late' <=> h \in late)
    BY <1>2, StepOf
  <2>2. closed \subseteq closed'
    BY ValidateKeeps DEF Next, Publish, Retire, EndSession, Evict, Tick, vars
  <2> QED
    BY <1>0, <2>1, <2>2
<1> QED
    BY <1>1, <1>2

-----------------------------------------------------------------------------
(* The theorems *)

\* The inductive invariant holds in every reachable state.
THEOREM Invariance == Spec => []IInv
<1>1. IInv /\ [Next]_vars => IInv'
    BY TypeStep, KeyStep, TokenStep, EntryStep, HeldStep, UserInfoStep DEF IInv
<1> QED
    BY <1>1, InitIInv, PTL DEF Spec

\* A verdict on a token is given by Verify or HearUserInfo.
LEMMA Verdicts ==
    ASSUME TypeOK, [Next]_vars, NEW h \in Handler,
           pc'[h] \in {"accepted", "rejected"}, pc'[h] # pc[h]
    PROVE  /\ UNCHANGED <<now, birth, death, closed>>
           /\ \/ /\ pc[h] \in {"hit", "verify"} /\ token[h] \in Jwt
                 /\ pc'[h] = "accepted" <=> token[h] \in held[h].keys
              \/ /\ pc[h] \in {"granted", "denied"}
                 /\ pc'[h] = "accepted" <=> pc[h] = "granted"
<1>1. Validate(h)
    BY StepOf
<1>2. Verify(h) \/ HearUserInfo(h)
  <2> USE DEF TypeOK, Goto, Answer, Proceed, CacheHit, AskUserInfo
  <2>1. ~Arrive(h)
    BY DEF Arrive
  <2>2. ~Lookup(h)
    BY DEF Lookup
  <2>3. ~Serve(h)
    BY DEF Serve
  <2>4. ~FetchFail(h)
    BY DEF FetchFail
  <2>5. ~Store(h)
    BY DEF Store
  <2>6. ~ServeUserInfo(h)
    BY DEF ServeUserInfo
  <2>7. ~MissUserInfo(h)
    BY DEF MissUserInfo
  <2> QED
    BY <1>1, <2>1, <2>2, <2>3, <2>4, <2>5, <2>6, <2>7 DEF Validate
<1>3. UNCHANGED <<now, birth, death, closed>>
    BY <1>1, ValidateKeeps
<1>4. CASE Verify(h)
    BY <1>3, <1>4 DEF Verify, Answer, AskUserInfo, Goto, TypeOK
<1>5. CASE HearUserInfo(h)
    BY <1>3, <1>5 DEF HearUserInfo, Answer, Goto, TypeOK
<1> QED
    BY <1>2, <1>4, <1>5

\* What a handler that verifies a JWT knows of the keys it holds, and of those it misses.
LEMMA HeldIsRecent ==
    ASSUME IInv, NEW h \in Handler, pc[h] \in {"hit", "verify"}, NEW k \in Key
    PROVE  /\ k \in held[h].keys =>
                 \/ began[h] <= death[k]
                 \/ pc[h] = "hit" /\ began[h] < death[k] + TTL + held[h].lag
           /\ k \notin held[h].keys =>
                 \/ death[k] <= now
                 \/ began[h] <= birth[k]
                 \/ pc[h] = "hit" /\ began[h] < birth[k] + TTL + held[h].lag
<1>1. /\ now \in Nat /\ birth[k] \in Nat /\ death[k] \in Nat /\ TTL \in Nat
      /\ held[h].served \in Nat /\ held[h].lag \in Nat /\ began[h] \in Nat
    BY JwksAssumption DEF IInv, TypeOK, Time, Never, KeySet
<1>2. /\ Snapshot(held[h])
      /\ pc[h] = "verify" => began[h] <= held[h].served
      /\ pc[h] = "hit" => began[h] < held[h].served + held[h].lag + TTL
    BY DEF IInv, HeldInv
<1>3. /\ held[h].served <= now
      /\ k \in held[h].keys => held[h].served <= death[k]
      /\ k \notin held[h].keys => held[h].served <= birth[k] \/ death[k] <= held[h].served
    BY <1>2 DEF Snapshot
<1>4. CASE pc[h] = "verify"
    BY <1>1, <1>2, <1>3, <1>4
<1>5. CASE pc[h] = "hit"
    BY <1>1, <1>2, <1>3, <1>5
<1> QED
    BY <1>4, <1>5

\* A validation that begins the TTL, and the lag of the cached keys, after a key was
\* withdrawn does not trust it, nor a revoked opaque token at all.
THEOREM StalenessIsBounded == Spec => AcceptedTokensAreRecent
<1> DEFINE Recent == \A h \in Handler : Accepts(h) =>
                       \/ token[h] \in Session /\ h \notin late
                       \/ /\ token[h] \in Key
                          /\ \/ began[h] <= death[token[h]]
                             \/ /\ pc[h] = "hit"
                                /\ began[h] < death[token[h]] + TTL + held[h].lag
<1>1. IInv /\ [Next]_vars => Recent
  <2> SUFFICES ASSUME IInv, [Next]_vars, NEW h \in Handler, Accepts(h)
               PROVE  \/ token[h] \in Session /\ h \notin late
                      \/ /\ token[h] \in Key
                         /\ \/ began[h] <= death[token[h]]
                            \/ /\ pc[h] = "hit"
                               /\ began[h] < death[token[h]] + TTL + held[h].lag
      OBVIOUS
  <2>1. \/ pc[h] \in {"hit", "verify"} /\ token[h] \in held[h].keys
        \/ pc[h] = "granted"
      BY Verdicts DEF Accepts, IInv
  <2>2. CASE pc[h] \in {"hit", "verify"} /\ token[h] \in held[h].keys
    <3>1. token[h] \in Key
        BY <2>2 DEF IInv, TypeOK, KeySet
    <3> QED
        BY <2>2, <3>1, HeldIsRecent
  <2>3. CASE pc[h] = "granted"
      BY <2>3 DEF IInv, TokenInv, UserInfoInv
  <2> QED
      BY <2>1, <2>2, <2>3
<1> QED
    BY <1>1, Invariance, PTL DEF Spec, AcceptedTokensAreRecent

\* A good token is turned away only while its key is newer than the cached keys may be,
\* or when Logto itself does not answer.
THEOREM DegradationIsGraceful == Spec => GoodTokensAreAccepted
<1> DEFINE Good == \A h \in Handler : Rejects(h) =>
                     \/ token[h] = BadJwt
                     \/ token[h] \in closed
                     \/ /\ token[h] \in Key
                        /\ \/ death[token[h]] <= now
                           \/ began[h] <= birth[token[h]]
                           \/ /\ pc[h] = "hit"
                              /\ began[h] < birth[token[h]] + TTL + held[h].lag
<1>1. IInv /\ [Next]_vars => Good
  <2> SUFFICES ASSUME IInv, [Next]_vars, NEW h \in Handler, Rejects(h)
               PROVE  \/ token[h] = BadJwt
                      \/ token[h] \in closed
                      \/ /\ token[h] \in Key
                         /\ \/ death[token[h]] <= now
                            \/ began[h] <= birth[token[h]]
                            \/ /\ pc[h] = "hit"
                               /\ began[h] < birth[token[h]] + TTL + held[h].lag
      OBVIOUS
  <2>1. \/ /\ pc[h] \in {"hit", "verify"} /\ token[h] \in Jwt
           /\ token[h] \notin held[h].keys
        \/ pc[h] = "denied"
      BY Verdicts DEF Rejects, IInv
  <2>2. CASE /\ pc[h] \in {"hit", "verify"} /\ token[h] \in Key
             /\ token[h] \notin held[h].keys
      BY <2>2, HeldIsRecent
  <2>3. CASE pc[h] = "denied"
      BY <2>3 DEF IInv, UserInfoInv
  <2> QED
      BY <2>1, <2>2, <2>3 DEF Jwt
<1> QED
    BY <1>1, Invariance, PTL DEF Spec, GoodTokensAreAccepted
=============================================================================

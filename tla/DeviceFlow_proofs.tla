--------------------------- MODULE DeviceFlow_proofs ---------------------------
(***************************************************************************)
(* What a device may rely on, for any number of requests and tokens.       *)
(***************************************************************************)
EXTENDS DeviceFlow, TLAPS

LEMMA InitIInv == Init => IInv
<1> SUFFICES ASSUME Init PROVE IInv
    OBVIOUS
<1> USE DeviceAssumption DEF Init
<1>1. TypeOK
  <2>1. NoReq \in Req /\ Failure("error") \in Reply /\ 0 \in 0..MaxGen
    BY DEF NoReq, Req, Kind, Failure, Reply, Result
  <2> QED
    BY <2>1 DEF TypeOK
<1>2. TokenInv /\ ReplyInv /\ AwaitInv /\ TurnInv /\ ViewInv
    BY DEF TokenInv, ReplyInv, AwaitInv, TurnInv, ViewInv, LoggedIn, Answered,
           Awaited, StoredTokenIsGood, NoReq
<1>3. DefiniteAnswersAreTrue
    BY DEF DefiniteAnswersAreTrue
<1> QED
    BY <1>1, <1>2, <1>3 DEF IInv

-----------------------------------------------------------------------------
(* Steps *)

\* One outcome of a call.
ServeStep(q, answer) ==
    /\ pc[q] \in {"calling", "stray"}
    /\ \/ req[q].kind = "start" /\ ServeStart(answer)
       \/ req[q].kind = "poll" /\ ServePoll(answer)
       \/ req[q].kind = "refresh" /\ ServeRefresh(req[q].arg, answer)
       \/ req[q].kind = "revoke" /\ ServeRevoke(req[q].arg, answer)
       \/ answer = Failure("error") /\ UNCHANGED logto
    /\ IF pc[q] = "calling"
       THEN /\ pc' = [pc EXCEPT ![q] = "served"]
            /\ reply' = [reply EXCEPT ![q] = answer]
            /\ UNCHANGED req
       ELSE Free(q)
    /\ UNCHANGED <<configured, device>>

LEMMA ServeSteps ==
    ASSUME NEW q \in Request, Serve(q)
    PROVE  \E answer \in Reply : ServeStep(q, answer)
BY DEF Serve, ServeStep

\* The empty values are values.
LEMMA Typed ==
    /\ NoReq \in Req /\ Failure("error") \in Reply
    /\ 0 \in 0..MaxGen /\ 1 \in 0..MaxGen
    /\ \A r \in Req : r.arg \in 0..MaxGen
    /\ \A r \in Reply : r.token \in 0..MaxGen
BY DeviceAssumption DEF NoReq, Req, Kind, Failure, Reply, Result

\* A token that is presented exists: its login has taken place.
LEMMA PresentedTokens ==
    ASSUME TypeOK, TokenInv, NEW q \in Request, pc[q] \in {"calling", "stray"},
           req[q].kind \in {"refresh", "revoke"}
    PROVE  LoggedIn /\ gen > 0
<1>1. req[q] \in Req /\ req[q].arg \in Nat /\ gen \in Nat
    BY DeviceAssumption DEF TypeOK, Req
<1> QED
    BY <1>1 DEF TokenInv

\* Every step keeps the types.
LEMMA TypeStep == TypeOK /\ [Next]_vars => TypeOK'
<1> SUFFICES ASSUME TypeOK, [Next]_vars PROVE TypeOK'
    OBVIOUS
<1> USE DeviceAssumption, Typed
<1>1. ASSUME NEW q \in Request, NEW r \in Req, Send(q, r) PROVE TypeOK'
    BY <1>1 DEF Send, Sendable, Quiet, TypeOK, device, logto, service
<1>2. ASSUME NEW q \in Request, Handle(q) PROVE TypeOK'
    BY <1>2, ZenonT(60) DEF Handle, Free, TypeOK, device, logto, service
<1>3. ASSUME NEW q \in Request, Answer(q) PROVE TypeOK'
  <2>1. /\ pc' \in [Request -> {"free", "received", "calling", "served", "stray"}]
        /\ req' \in [Request -> Req] /\ reply' \in [Request -> Reply]
    BY <1>3 DEF Answer, Free, TypeOK
  <2>2. reply[q].token \in 0..MaxGen
    BY DEF TypeOK
  <2>3. /\ view' \in {"none", "polling", "done"} /\ known' \in 0..MaxGen
        /\ told' \subseteq {"tokens", "expired", "denied", "refused", "revoked"}
    <3>1. CASE AnswerStart(q)
      BY <3>1 DEF AnswerStart, TypeOK
    <3>2. CASE AnswerPoll(q)
      BY <2>2, <3>2 DEF AnswerPoll, TypeOK
    <3>3. CASE AnswerRefresh(q)
      BY <2>2, <3>3 DEF AnswerRefresh, TypeOK
    <3>4. CASE AnswerRevoke(q)
      <4>1. CASE PlainStatus(reply[q].result) = 200
        <5>1. known' = 0 /\ told' = told \cup {"revoked"} /\ view' = view
          BY <3>4, <4>1 DEF AnswerRevoke
        <5> QED
          BY <5>1 DEF TypeOK
      <4>2. CASE PlainStatus(reply[q].result) # 200
        BY <3>4, <4>2 DEF AnswerRevoke, TypeOK
      <4> QED
        BY <4>1, <4>2
    <3> QED
      BY <1>3, <3>1, <3>2, <3>3, <3>4 DEF Answer
  <2> QED
    BY <1>3, <2>1, <2>3 DEF Answer, TypeOK, logto
<1>4. ASSUME NEW q \in Request, GiveUp(q) PROVE TypeOK'
    BY <1>4 DEF GiveUp, Free, TypeOK, device, logto, service
<1>5. ASSUME NEW q \in Request, Serve(q) PROVE TypeOK'
  <2>1. PICK answer \in Reply : ServeStep(q, answer)
    BY <1>5, ServeSteps
  <2>2. /\ pc' \in [Request -> {"free", "received", "calling", "served", "stray"}]
        /\ req' \in [Request -> Req] /\ reply' \in [Request -> Reply]
    BY <2>1 DEF ServeStep, Free, TypeOK
  <2>3. /\ stage' \in {"none", "pending", "approved", "denied", "expired", "active", "over"}
        /\ gen' \in 0..MaxGen
    BY <2>1
    DEF ServeStep, ServeStart, ServePoll, ServeRefresh, ServeRevoke, TypeOK, logto
  <2> QED
    BY <2>1, <2>2, <2>3 DEF ServeStep, TypeOK, device
<1>6. CASE Decide \/ Expire \/ EndSession
    BY <1>6 DEF Decide, Expire, EndSession, TypeOK, device, logto, service
<1>7. CASE UNCHANGED vars
    BY <1>7 DEF vars, TypeOK, device, logto, service
<1> QED
    BY <1>1, <1>2, <1>3, <1>4, <1>5, <1>6, <1>7 DEF Next

\* Tokens are numbered up to gen.
LEMMA TokenStep == TypeOK /\ TokenInv /\ ReplyInv /\ [Next]_vars => TokenInv'
<1> SUFFICES ASSUME TypeOK, TokenInv, ReplyInv, [Next]_vars PROVE TokenInv'
    OBVIOUS
<1> USE DeviceAssumption DEF Req, Reply
<1>1. ASSUME NEW q \in Request, NEW r \in Req, Send(q, r) PROVE TokenInv'
    BY <1>1
    DEF Send, Sendable, Quiet, TypeOK, TokenInv, ReplyInv, LoggedIn, Answered,
        NoReq, device, logto, service
<1>2. ASSUME NEW q \in Request, Handle(q) PROVE TokenInv'
    BY <1>2
    DEF Handle, Free, TypeOK, TokenInv, ReplyInv, LoggedIn, Answered, NoReq,
        device, logto, service
<1>3. ASSUME NEW q \in Request, Answer(q) PROVE TokenInv'
  <2>1. CASE req[q].kind = "start"
    BY <1>3, <2>1
    DEF Answer, AnswerStart, PlainStatus, Free, TypeOK, TokenInv, ReplyInv,
        LoggedIn, Answered, NoReq, device, logto, service
  <2>2. CASE req[q].kind = "poll"
    BY <1>3, <2>2
    DEF Answer, AnswerPoll, PollStatus, Free, TypeOK, TokenInv, ReplyInv,
        LoggedIn, Answered, NoReq, device, logto, service
  <2>3. CASE req[q].kind = "refresh"
    BY <1>3, <2>3
    DEF Answer, AnswerRefresh, RefreshStatus, Free, TypeOK, TokenInv, ReplyInv,
        LoggedIn, Answered, NoReq, device, logto, service
  <2>4. CASE req[q].kind = "revoke"
    BY <1>3, <2>4
    DEF Answer, AnswerRevoke, PlainStatus, Free, TypeOK, TokenInv, ReplyInv,
        LoggedIn, Answered, NoReq, device, logto, service
  <2> QED
    BY <1>3, <2>1, <2>2, <2>3, <2>4 DEF Answer
<1>4. ASSUME NEW q \in Request, GiveUp(q) PROVE TokenInv'
    BY <1>4
    DEF GiveUp, Free, TypeOK, TokenInv, ReplyInv, LoggedIn, Answered, NoReq,
        device, logto, service
<1>5. ASSUME NEW q \in Request, Serve(q) PROVE TokenInv'
  <2>1. PICK answer \in Reply : ServeStep(q, answer)
    BY <1>5, ServeSteps
  <2>2. CASE req[q].kind = "start" /\ ServeStart(answer)
    BY <2>1, <2>2
    DEF ServeStep, ServeStart, Free, TypeOK, TokenInv, LoggedIn, NoReq,
                      device
  <2>3. CASE req[q].kind = "poll" /\ ServePoll(answer)
    BY <2>1, <2>3, SMTT(30)
    DEF ServeStep, ServePoll, Free, TypeOK, TokenInv, ReplyInv, LoggedIn,
        Answered, NoReq, device, logto, service
  <2>4. CASE req[q].kind = "refresh" /\ ServeRefresh(req[q].arg, answer)
    BY <2>1, <2>4, SMTT(30)
    DEF ServeStep, ServeRefresh, Free, TypeOK, TokenInv, ReplyInv, LoggedIn,
        Answered, NoReq, device, logto, service
  <2>5. CASE req[q].kind = "revoke" /\ ServeRevoke(req[q].arg, answer)
    BY <2>1, <2>5
    DEF ServeStep, ServeRevoke, Free, TypeOK, TokenInv, ReplyInv, LoggedIn,
        Answered, NoReq, device, logto, service
  <2>6. CASE answer = Failure("error") /\ UNCHANGED logto
    BY <2>1, <2>6
    DEF ServeStep, Failure, Free, TypeOK, TokenInv, ReplyInv, LoggedIn,
        Answered, NoReq, device, logto, service
  <2> QED
    BY <2>1, <2>2, <2>3, <2>4, <2>5, <2>6 DEF ServeStep
<1>6. CASE Decide \/ Expire \/ EndSession
    BY <1>6
    DEF Decide, Expire, EndSession, TypeOK, TokenInv, ReplyInv, LoggedIn,
        Answered, NoReq, device, logto, service
<1>7. CASE UNCHANGED vars
    BY <1>7
    DEF vars, TypeOK, TokenInv, ReplyInv, LoggedIn, Answered, NoReq, device,
        logto, service
<1> QED
    BY <1>1, <1>2, <1>3, <1>4, <1>5, <1>6, <1>7 DEF Next

\* Answers on their way stay true.
LEMMA ReplyStep ==
    /\ TypeOK /\ TokenInv /\ ReplyInv /\ AwaitInv /\ TurnInv
    /\ [Next]_vars
    => ReplyInv'
<1> SUFFICES ASSUME TypeOK, TokenInv, ReplyInv, AwaitInv, TurnInv, [Next]_vars
             PROVE  ReplyInv'
    OBVIOUS
<1> USE DeviceAssumption DEF Req, Reply
<1>1. ASSUME NEW q \in Request, NEW r \in Req, Send(q, r) PROVE ReplyInv'
    BY <1>1
    DEF Send, Sendable, Quiet, TypeOK, TokenInv, ReplyInv, AwaitInv, TurnInv,
        StoredTokenIsGood, LoggedIn, Answered, Awaited, Failure, NoReq, device,
        logto, service
<1>2. ASSUME NEW q \in Request, Handle(q) PROVE ReplyInv'
    BY <1>2
    DEF Handle, Free, TypeOK, TokenInv, ReplyInv, AwaitInv, TurnInv,
        StoredTokenIsGood, LoggedIn, Answered, Awaited, Failure, NoReq, device,
        logto, service
<1>3. ASSUME NEW q \in Request, Answer(q) PROVE ReplyInv'
  <2>1. CASE req[q].kind = "start"
    BY <1>3, <2>1
    DEF Answer, AnswerStart, PlainStatus, Free, TypeOK, TokenInv, ReplyInv,
        AwaitInv, TurnInv, StoredTokenIsGood, LoggedIn, Answered, Awaited,
        Failure, NoReq, device, logto, service
  <2>2. CASE req[q].kind = "poll"
    BY <1>3, <2>2
    DEF Answer, AnswerPoll, PollStatus, Free, TypeOK, TokenInv, ReplyInv,
        AwaitInv, TurnInv, StoredTokenIsGood, LoggedIn, Answered, Awaited,
        Failure, NoReq, device, logto, service
  <2>3. CASE req[q].kind = "refresh"
    BY <1>3, <2>3
    DEF Answer, AnswerRefresh, RefreshStatus, Free, TypeOK, TokenInv, ReplyInv,
        AwaitInv, TurnInv, StoredTokenIsGood, LoggedIn, Answered, Awaited,
        Failure, NoReq, device, logto, service
  <2>4. CASE req[q].kind = "revoke"
    BY <1>3, <2>4
    DEF Answer, AnswerRevoke, PlainStatus, Free, TypeOK, TokenInv, ReplyInv,
        AwaitInv, TurnInv, StoredTokenIsGood, LoggedIn, Answered, Awaited,
        Failure, NoReq, device, logto, service
  <2> QED
    BY <1>3, <2>1, <2>2, <2>3, <2>4 DEF Answer
<1>4. ASSUME NEW q \in Request, GiveUp(q) PROVE ReplyInv'
    BY <1>4
    DEF GiveUp, Free, TypeOK, TokenInv, ReplyInv, AwaitInv, TurnInv,
        StoredTokenIsGood, LoggedIn, Answered, Awaited, Failure, NoReq, device,
        logto, service
<1>5. ASSUME NEW q \in Request, Serve(q) PROVE ReplyInv'
  <2>1. PICK answer \in Reply : ServeStep(q, answer)
    BY <1>5, ServeSteps
  <2>2. CASE req[q].kind = "start" /\ ServeStart(answer)
    BY <2>1, <2>2
    DEF ServeStep, ServeStart, Free, TypeOK, TokenInv, ReplyInv, AwaitInv,
        TurnInv, StoredTokenIsGood, LoggedIn, Answered, Awaited, Failure, NoReq,
        device, logto, service
  <2>3. CASE req[q].kind = "poll" /\ ServePoll(answer)
    BY <2>1, <2>3
    DEF ServeStep, ServePoll, Free, TypeOK, TokenInv, ReplyInv, AwaitInv,
        TurnInv, StoredTokenIsGood, LoggedIn, Answered, Awaited, Failure, NoReq,
        device, logto, service
  <2>4. CASE req[q].kind = "refresh" /\ ServeRefresh(req[q].arg, answer)
    BY <2>1, <2>4
    DEF ServeStep, ServeRefresh, Free, TypeOK, TokenInv, ReplyInv, AwaitInv,
        TurnInv, StoredTokenIsGood, LoggedIn, Answered, Awaited, Failure, NoReq,
        device, logto, service
  <2>5. CASE req[q].kind = "revoke" /\ ServeRevoke(req[q].arg, answer)
    BY <2>1, <2>5
    DEF ServeStep, ServeRevoke, Free, TypeOK, TokenInv, ReplyInv, AwaitInv,
        TurnInv, StoredTokenIsGood, LoggedIn, Answered, Awaited, Failure, NoReq,
        device, logto, service
  <2>6. CASE answer = Failure("error") /\ UNCHANGED logto
    BY <2>1, <2>6
    DEF ServeStep, Failure, Free, TypeOK, TokenInv, ReplyInv, AwaitInv, TurnInv,
        StoredTokenIsGood, LoggedIn, Answered, Awaited, Failure, NoReq, device,
        logto, service
  <2> QED
    BY <2>1, <2>2, <2>3, <2>4, <2>5, <2>6 DEF ServeStep
<1>6. CASE Decide \/ Expire \/ EndSession
    BY <1>6
    DEF Decide, Expire, EndSession, TypeOK, TokenInv, ReplyInv, AwaitInv,
        TurnInv, StoredTokenIsGood, LoggedIn, Answered, Awaited, Failure, NoReq,
        device, logto, service
<1>7. CASE UNCHANGED vars
    BY <1>7
    DEF vars, TypeOK, TokenInv, ReplyInv, AwaitInv, TurnInv, StoredTokenIsGood,
        LoggedIn, Answered, Awaited, Failure, NoReq, device, logto, service
<1> QED
    BY <1>1, <1>2, <1>3, <1>4, <1>5, <1>6, <1>7 DEF Next

\* One question at a time.
LEMMA AwaitStep == TypeOK /\ AwaitInv /\ [Next]_vars => AwaitInv'
<1> SUFFICES ASSUME TypeOK, AwaitInv, [Next]_vars PROVE AwaitInv'
    OBVIOUS
<1> USE DeviceAssumption DEF Req, Reply
<1>1. ASSUME NEW q \in Request, NEW r \in Req, Send(q, r) PROVE AwaitInv'
  <2>1. \A p \in Request : Awaited(p)' => p = q
    BY <1>1 DEF Send, Quiet, Awaited, TypeOK
  <2>2. pc'[q] = "received" /\ req'[q] = r /\ UNCHANGED <<view, known>>
    BY <1>1 DEF Send, TypeOK, device
  <2>3. r \in Sendable
    BY <1>1 DEF Send
  <2>4. \/ r.kind = "start" /\ view = "none"
        \/ r.kind = "poll" /\ view = "polling"
        \/ r.kind = "poll" /\ view = "none" /\ r.arg = 0
        \/ r.kind \in {"refresh", "revoke"} /\ view = "done" /\ r.arg = known
    BY <2>3 DEF Sendable, Kind
  <2> QED
    BY <2>1, <2>2, <2>4 DEF AwaitInv
<1>2. ASSUME NEW q \in Request, Handle(q) PROVE AwaitInv'
    BY <1>2, ZenonT(60)
    DEF Handle, Free, TypeOK, AwaitInv, Awaited, NoReq, device, logto, service
<1>3. ASSUME NEW q \in Request, Answer(q) PROVE AwaitInv'
  <2>1. CASE req[q].kind = "start"
    BY <1>3, <2>1
    DEF Answer, AnswerStart, PlainStatus, Free, TypeOK, AwaitInv, Awaited,
        NoReq, device, logto, service
  <2>2. CASE req[q].kind = "poll"
    BY <1>3, <2>2
    DEF Answer, AnswerPoll, PollStatus, Free, TypeOK, AwaitInv, Awaited, NoReq,
        device, logto, service
  <2>3. CASE req[q].kind = "refresh"
    BY <1>3, <2>3
    DEF Answer, AnswerRefresh, RefreshStatus, Free, TypeOK, AwaitInv, Awaited,
        NoReq, device, logto, service
  <2>4. CASE req[q].kind = "revoke"
    BY <1>3, <2>4
    DEF Answer, AnswerRevoke, PlainStatus, Free, TypeOK, AwaitInv, Awaited,
        NoReq, device, logto, service
  <2> QED
    BY <1>3, <2>1, <2>2, <2>3, <2>4 DEF Answer
<1>4. ASSUME NEW q \in Request, GiveUp(q) PROVE AwaitInv'
    BY <1>4, SMTT(30)
    DEF GiveUp, Free, TypeOK, AwaitInv, Awaited, NoReq, device, logto, service
<1>5. ASSUME NEW q \in Request, Serve(q) PROVE AwaitInv'
    BY <1>5 DEF Serve, Free, TypeOK, AwaitInv, Awaited, device
<1>6. CASE Decide \/ Expire \/ EndSession
    BY <1>6
    DEF Decide, Expire, EndSession, TypeOK, AwaitInv, Awaited, NoReq, device,
        logto, service
<1>7. CASE UNCHANGED vars
    BY <1>7 DEF vars, TypeOK, AwaitInv, Awaited, NoReq, device, logto, service
<1> QED
    BY <1>1, <1>2, <1>3, <1>4, <1>5, <1>6, <1>7 DEF Next

\* When a device polls.
LEMMA ViewStep ==
    /\ TypeOK /\ TokenInv /\ AwaitInv /\ ReplyInv /\ ViewInv
    /\ [Next]_vars
    => ViewInv'
<1> SUFFICES ASSUME TypeOK, TokenInv, AwaitInv, ReplyInv, ViewInv, [Next]_vars
             PROVE  ViewInv'
    OBVIOUS
<1> USE DeviceAssumption DEF Req, Reply
<1>1. ASSUME NEW q \in Request, NEW r \in Req, Send(q, r) PROVE ViewInv'
    BY <1>1
    DEF Send, Sendable, Quiet, TypeOK, AwaitInv, ViewInv, LoggedIn, Awaited,
        NoReq, device, logto, service
<1>2. ASSUME NEW q \in Request, Handle(q) PROVE ViewInv'
    BY <1>2
    DEF Handle, Free, TypeOK, AwaitInv, ViewInv, LoggedIn, Awaited, NoReq,
        device, logto, service
<1>3. ASSUME NEW q \in Request, Answer(q) PROVE ViewInv'
  <2>1. CASE req[q].kind = "start"
    BY <1>3, <2>1
    DEF Answer, AnswerStart, PlainStatus, Free, TypeOK, AwaitInv, ViewInv,
        LoggedIn, Awaited, NoReq, device, logto, service
  <2>2. CASE req[q].kind = "poll"
    BY <1>3, <2>2
    DEF Answer, AnswerPoll, PollStatus, Free, TypeOK, AwaitInv, ViewInv,
        LoggedIn, Awaited, NoReq, device, logto, service
  <2>3. CASE req[q].kind = "refresh"
    BY <1>3, <2>3
    DEF Answer, AnswerRefresh, RefreshStatus, Free, TypeOK, AwaitInv, ViewInv,
        LoggedIn, Awaited, NoReq, device, logto, service
  <2>4. CASE req[q].kind = "revoke"
    BY <1>3, <2>4
    DEF Answer, AnswerRevoke, PlainStatus, Free, TypeOK, AwaitInv, ViewInv,
        LoggedIn, Awaited, NoReq, device, logto, service
  <2> QED
    BY <1>3, <2>1, <2>2, <2>3, <2>4 DEF Answer
<1>4. ASSUME NEW q \in Request, GiveUp(q) PROVE ViewInv'
    BY <1>4
    DEF GiveUp, Free, TypeOK, AwaitInv, ViewInv, LoggedIn, Awaited, NoReq,
        device, logto, service
<1>5. ASSUME NEW q \in Request, Serve(q) PROVE ViewInv'
  <2>1. PICK answer \in Reply : ServeStep(q, answer)
    BY <1>5, ServeSteps
  <2>2. CASE req[q].kind = "start" /\ ServeStart(answer)
    BY <2>1, <2>2
    DEF ServeStep, ServeStart, Free, TypeOK, AwaitInv, ViewInv, LoggedIn,
        Awaited, NoReq, device, logto, service
  <2>3. CASE req[q].kind = "poll" /\ ServePoll(answer)
    BY <2>1, <2>3
    DEF ServeStep, ServePoll, Free, TypeOK, AwaitInv, ViewInv, LoggedIn,
        Awaited, NoReq, device, logto, service
  <2>4. CASE req[q].kind = "refresh" /\ ServeRefresh(req[q].arg, answer)
    BY <2>1, <2>4, PresentedTokens
    DEF ServeStep, ServeRefresh, Free, TypeOK, ViewInv, LoggedIn, device
  <2>5. CASE req[q].kind = "revoke" /\ ServeRevoke(req[q].arg, answer)
    BY <2>1, <2>5, PresentedTokens
    DEF ServeStep, ServeRevoke, Free, TypeOK, ViewInv, LoggedIn, device
  <2>6. CASE answer = Failure("error") /\ UNCHANGED logto
    BY <2>1, <2>6
    DEF ServeStep, Failure, Free, TypeOK, AwaitInv, ViewInv, LoggedIn, Awaited,
        NoReq, device, logto, service
  <2> QED
    BY <2>1, <2>2, <2>3, <2>4, <2>5, <2>6 DEF ServeStep
<1>6. CASE Decide \/ Expire \/ EndSession
    BY <1>6
    DEF Decide, Expire, EndSession, TypeOK, AwaitInv, ViewInv, LoggedIn,
        Awaited, NoReq, device, logto, service
<1>7. CASE UNCHANGED vars
    BY <1>7
    DEF vars, TypeOK, AwaitInv, ViewInv, LoggedIn, Awaited, NoReq, device,
        logto, service
<1> QED
    BY <1>1, <1>2, <1>3, <1>4, <1>5, <1>6, <1>7 DEF Next

\* Answers that were given stay true.
LEMMA TruthStep ==
    /\ TypeOK /\ TokenInv /\ ReplyInv /\ DefiniteAnswersAreTrue
    /\ [Next]_vars
    => DefiniteAnswersAreTrue'
<1> SUFFICES ASSUME TypeOK, TokenInv, ReplyInv, DefiniteAnswersAreTrue, [Next]_vars
             PROVE  DefiniteAnswersAreTrue'
    OBVIOUS
<1> USE DeviceAssumption DEF Req, Reply
<1>1. ASSUME NEW q \in Request, NEW r \in Req, Send(q, r) PROVE DefiniteAnswersAreTrue'
    BY <1>1
    DEF Send, Sendable, Quiet, TypeOK, ReplyInv, DefiniteAnswersAreTrue,
        LoggedIn, Answered, device, logto, service
<1>2. ASSUME NEW q \in Request, Handle(q) PROVE DefiniteAnswersAreTrue'
    BY <1>2
    DEF Handle, Free, TypeOK, ReplyInv, DefiniteAnswersAreTrue, LoggedIn,
        Answered, device, logto, service
<1>3. ASSUME NEW q \in Request, Answer(q) PROVE DefiniteAnswersAreTrue'
  <2>1. CASE req[q].kind = "start"
    BY <1>3, <2>1
    DEF Answer, AnswerStart, PlainStatus, Free, TypeOK, ReplyInv,
        DefiniteAnswersAreTrue, LoggedIn, Answered, device, logto, service
  <2>2. CASE req[q].kind = "poll"
    BY <1>3, <2>2
    DEF Answer, AnswerPoll, PollStatus, Free, TypeOK, ReplyInv,
        DefiniteAnswersAreTrue, LoggedIn, Answered, device, logto, service
  <2>3. CASE req[q].kind = "refresh"
    BY <1>3, <2>3
    DEF Answer, AnswerRefresh, RefreshStatus, Free, TypeOK, ReplyInv,
        DefiniteAnswersAreTrue, LoggedIn, Answered, device, logto, service
  <2>4. CASE req[q].kind = "revoke"
    BY <1>3, <2>4
    DEF Answer, AnswerRevoke, PlainStatus, Free, TypeOK, ReplyInv,
        DefiniteAnswersAreTrue, LoggedIn, Answered, device, logto, service
  <2> QED
    BY <1>3, <2>1, <2>2, <2>3, <2>4 DEF Answer
<1>4. ASSUME NEW q \in Request, GiveUp(q) PROVE DefiniteAnswersAreTrue'
    BY <1>4
    DEF GiveUp, Free, TypeOK, ReplyInv, DefiniteAnswersAreTrue, LoggedIn,
        Answered, device, logto, service
<1>5. ASSUME NEW q \in Request, Serve(q) PROVE DefiniteAnswersAreTrue'
  <2>1. PICK answer \in Reply : ServeStep(q, answer)
    BY <1>5, ServeSteps
  <2>2. CASE req[q].kind = "start" /\ ServeStart(answer)
    BY <2>1, <2>2
    DEF ServeStep, ServeStart, Free, TypeOK, ReplyInv, DefiniteAnswersAreTrue,
        LoggedIn, Answered, device, logto, service
  <2>3. CASE req[q].kind = "poll" /\ ServePoll(answer)
    BY <2>1, <2>3
    DEF ServeStep, ServePoll, Free, TypeOK, ReplyInv, DefiniteAnswersAreTrue,
        LoggedIn, Answered, device, logto, service
  <2>4. CASE req[q].kind = "refresh" /\ ServeRefresh(req[q].arg, answer)
    BY <2>1, <2>4, PresentedTokens
    DEF ServeStep, ServeRefresh, Free, TypeOK, DefiniteAnswersAreTrue, LoggedIn,
        device
  <2>5. CASE req[q].kind = "revoke" /\ ServeRevoke(req[q].arg, answer)
    BY <2>1, <2>5, PresentedTokens
    DEF ServeStep, ServeRevoke, Free, TypeOK, DefiniteAnswersAreTrue, LoggedIn,
        device
  <2>6. CASE answer = Failure("error") /\ UNCHANGED logto
    BY <2>1, <2>6
    DEF ServeStep, Failure, Free, TypeOK, ReplyInv, DefiniteAnswersAreTrue,
        LoggedIn, Answered, device, logto, service
  <2> QED
    BY <2>1, <2>2, <2>3, <2>4, <2>5, <2>6 DEF ServeStep
<1>6. CASE Decide \/ Expire \/ EndSession
    BY <1>6
    DEF Decide, Expire, EndSession, TypeOK, ReplyInv, DefiniteAnswersAreTrue,
        LoggedIn, Answered, device, logto, service
<1>7. CASE UNCHANGED vars
    BY <1>7
    DEF vars, TypeOK, ReplyInv, DefiniteAnswersAreTrue, LoggedIn, Answered,
        device, logto, service
<1> QED
    BY <1>1, <1>2, <1>3, <1>4, <1>5, <1>6, <1>7 DEF Next

\* Device and Logto take turns.
LEMMA TurnStep ==
    /\ TypeOK /\ TokenInv /\ ReplyInv /\ AwaitInv /\ TurnInv /\ ViewInv
    /\ [Next]_vars
    => TurnInv'
<1> SUFFICES ASSUME TypeOK, TokenInv, ReplyInv, AwaitInv, TurnInv, ViewInv, [Next]_vars
             PROVE  TurnInv'
    OBVIOUS
<1> USE DeviceAssumption DEF Req, Reply
<1>1. ASSUME NEW q \in Request, NEW r \in Req, Send(q, r) PROVE TurnInv'
  <2>1. /\ \A p \in Request : pc'[p] = IF p = q THEN "received" ELSE pc[p]
        /\ req'[q] = r /\ UNCHANGED <<stage, gen, known, lost, reply>>
    BY <1>1 DEF Send, TypeOK, device, logto
  <2>2. r \in Sendable /\ Quiet
    BY <1>1 DEF Send
  <2>3. ~lost /\ stage = "active" => r.kind \in {"refresh", "revoke"} /\ known = gen
    <3>1. ~lost /\ stage = "active" => known = gen /\ gen > 0
      BY <2>2 DEF TurnInv, StoredTokenIsGood, TokenInv, LoggedIn
    <3>2. ~lost /\ stage = "active" => view = "done"
      BY <3>1 DEF ViewInv
    <3> QED
      BY <2>2, <3>1, <3>2 DEF Sendable, Kind
  <2>4. \A p \in Request : Awaited(p)' => p = q
    BY <2>1, <2>2 DEF Quiet, Awaited
  <2>5. Awaited(q)' /\ ~Answered(q, "refresh", "ok")'
    BY <2>1 DEF Awaited, Answered
  <2> QED
    BY <2>1, <2>3, <2>4, <2>5 DEF TurnInv, StoredTokenIsGood, Quiet
<1>2. ASSUME NEW q \in Request, Handle(q) PROVE TurnInv'
    BY <1>2
    DEF Handle, Free, TypeOK, TokenInv, ReplyInv, AwaitInv, TurnInv, ViewInv,
        StoredTokenIsGood, LoggedIn, Answered, Awaited, Quiet, Failure, NoReq,
        device, logto, service
<1>3. ASSUME NEW q \in Request, Answer(q) PROVE TurnInv'
  <2>1. CASE req[q].kind = "start"
    BY <1>3, <2>1
    DEF Answer, AnswerStart, PlainStatus, Free, TypeOK, TokenInv, ReplyInv,
        AwaitInv, TurnInv, ViewInv, StoredTokenIsGood, LoggedIn, Answered,
        Awaited, Quiet, Failure, NoReq, device, logto, service
  <2>2. CASE req[q].kind = "poll"
    BY <1>3, <2>2
    DEF Answer, AnswerPoll, PollStatus, Free, TypeOK, TokenInv, ReplyInv,
        AwaitInv, TurnInv, ViewInv, StoredTokenIsGood, LoggedIn, Answered,
        Awaited, Quiet, Failure, NoReq, device, logto, service
  <2>3. CASE req[q].kind = "refresh"
    BY <1>3, <2>3
    DEF Answer, AnswerRefresh, RefreshStatus, Free, TypeOK, TokenInv, ReplyInv,
        AwaitInv, TurnInv, ViewInv, StoredTokenIsGood, LoggedIn, Answered,
        Awaited, Quiet, Failure, NoReq, device, logto, service
  <2>4. CASE req[q].kind = "revoke"
    BY <1>3, <2>4
    DEF Answer, AnswerRevoke, PlainStatus, Free, TypeOK, TokenInv, ReplyInv,
        AwaitInv, TurnInv, ViewInv, StoredTokenIsGood, LoggedIn, Answered,
        Awaited, Quiet, Failure, NoReq, device, logto, service
  <2> QED
    BY <1>3, <2>1, <2>2, <2>3, <2>4 DEF Answer
<1>4. ASSUME NEW q \in Request, GiveUp(q) PROVE TurnInv'
    BY <1>4
    DEF GiveUp, Free, TypeOK, TokenInv, ReplyInv, AwaitInv, TurnInv, ViewInv,
        StoredTokenIsGood, LoggedIn, Answered, Awaited, Quiet, Failure, NoReq,
        device, logto, service
<1>5. ASSUME NEW q \in Request, Serve(q) PROVE TurnInv'
  <2>1. PICK answer \in Reply : ServeStep(q, answer)
    BY <1>5, ServeSteps
  <2>2. CASE req[q].kind = "start" /\ ServeStart(answer)
    BY <2>1, <2>2
    DEF ServeStep, ServeStart, Free, TypeOK, TokenInv, ReplyInv, AwaitInv,
        TurnInv, ViewInv, StoredTokenIsGood, LoggedIn, Answered, Awaited, Quiet,
        Failure, NoReq, device, logto, service
  <2>3. CASE req[q].kind = "poll" /\ ServePoll(answer)
    BY <2>1, <2>3
    DEF ServeStep, ServePoll, Free, TypeOK, TokenInv, ReplyInv, AwaitInv,
        TurnInv, ViewInv, StoredTokenIsGood, LoggedIn, Answered, Awaited, Quiet,
        Failure, NoReq, device, logto, service
  <2>4. CASE req[q].kind = "refresh" /\ ServeRefresh(req[q].arg, answer)
    BY <2>1, <2>4
    DEF ServeStep, ServeRefresh, Free, TypeOK, TokenInv, ReplyInv, AwaitInv,
        TurnInv, ViewInv, StoredTokenIsGood, LoggedIn, Answered, Awaited, Quiet,
        Failure, NoReq, device, logto, service
  <2>5. CASE req[q].kind = "revoke" /\ ServeRevoke(req[q].arg, answer)
    BY <2>1, <2>5
    DEF ServeStep, ServeRevoke, Free, TypeOK, TokenInv, ReplyInv, AwaitInv,
        TurnInv, ViewInv, StoredTokenIsGood, LoggedIn, Answered, Awaited, Quiet,
        Failure, NoReq, device, logto, service
  <2>6. CASE answer = Failure("error") /\ UNCHANGED logto
    BY <2>1, <2>6, SMTT(30)
    DEF ServeStep, Failure, Free, TypeOK, TokenInv, ReplyInv, AwaitInv, TurnInv,
        ViewInv, StoredTokenIsGood, LoggedIn, Answered, Awaited, Quiet, Failure,
        NoReq, device, logto, service
  <2> QED
    BY <2>1, <2>2, <2>3, <2>4, <2>5, <2>6 DEF ServeStep
<1>6. CASE Decide \/ Expire \/ EndSession
    BY <1>6
    DEF Decide, Expire, EndSession, TypeOK, TokenInv, ReplyInv, AwaitInv,
        TurnInv, ViewInv, StoredTokenIsGood, LoggedIn, Answered, Awaited, Quiet,
        Failure, NoReq, device, logto, service
<1>7. CASE UNCHANGED vars
    BY <1>7
    DEF vars, TypeOK, TokenInv, ReplyInv, AwaitInv, TurnInv, ViewInv,
        StoredTokenIsGood, LoggedIn, Answered, Awaited, Quiet, Failure, NoReq,
        device, logto, service
<1> QED
    BY <1>1, <1>2, <1>3, <1>4, <1>5, <1>6, <1>7 DEF Next

-----------------------------------------------------------------------------
(* Theorems *)

\* The invariant the other results follow from.
THEOREM Invariance == Spec => []IInv
<1>1. IInv /\ [Next]_vars => IInv'
    BY TypeStep, TokenStep, ReplyStep, AwaitStep, TurnStep, ViewStep, TruthStep
    DEF IInv
<1> QED
    BY <1>1, InitIInv, PTL DEF Spec

\* What a device has been told of its login is true, however late calls are served.
THEOREM DevicesAreToldTheTruth == Spec => []DefiniteAnswersAreTrue
<1>1. IInv => DefiniteAnswersAreTrue
    BY DEF IInv
<1> QED
    BY <1>1, Invariance, PTL

\* A device that stores what it is given is never left with a spent token by the
\* service itself.
THEOREM RotationIsPassedOn == Spec => []StoredTokenIsGood
<1>1. IInv => StoredTokenIsGood
    BY DEF IInv, TurnInv, StoredTokenIsGood
<1> QED
    BY <1>1, Invariance, PTL
================================================================================

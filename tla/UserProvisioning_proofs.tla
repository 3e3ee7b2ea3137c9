------------------------ MODULE UserProvisioning_proofs ------------------------
(***************************************************************************)
(* The safety properties of UserProvisioning, and that it implements       *)
(* AccountLink, for all sets of requests, identities and bodies.           *)
(***************************************************************************)
EXTENDS UserProvisioning, TLAPS

\* The initial state satisfies the inductive invariant.
LEMMA InitIInv == Init => IInv
<1> SUFFICES ASSUME Init PROVE IInv
    OBVIOUS
<1> USE ProvisioningAssumption DEF Init
<1>1. TypeOK
    BY DEF TypeOK, Identity, Absent, Row, PC, Arg, Subject, Call, Idle, Status,
           Response, NoResponse, Code
<1>2. ArgInv
    BY DEF ArgInv, ArgOK
<1>3. CallInv
    BY DEF CallInv, CallOK, Idle
<1>4. RowInv
    BY DEF RowInv, LinksAreConfirmed
<1>5. AnswerInv
    BY DEF AnswerInv, AnswerOK, Decided
<1>6. ToldInv
    BY DEF ToldInv
<1>7. SubjectInv
    BY DEF SubjectInv, SubjectOK
<1> QED
    BY <1>1, <1>2, <1>3, <1>4, <1>5, <1>6, <1>7 DEF IInv

\* The identity an insert links is one that Logto knows.
LEMMA InsertTarget ==
    ASSUME TypeOK, ArgInv, CallInv, NEW r \in Req, pc[r] = "insert"
    PROVE  /\ Target(r) \in LogtoId
           /\ Known(Target(r))
           /\ Creates(r)
           /\ Confirmed(r)
<1>1. \/ Op(r) = "register"
      \/ Op(r) = "setup" /\ arg[r].sub \in LogtoId /\ Known(arg[r].sub)
    BY DEF ArgInv, ArgOK
<1>2. Confirmed(r)
    BY DEF CallInv, CallOK
<1>3. CASE Op(r) = "register"
    BY <1>2, <1>3 DEF CallInv, CallOK, Confirmed, Target, Creates
<1>4. CASE Op(r) = "setup" /\ arg[r].sub \in LogtoId /\ Known(arg[r].sub)
    BY <1>2, <1>4 DEF Target, Creates
<1> QED
    BY <1>1, <1>2, <1>3, <1>4

\* The body of a request that has arrived is well formed.
LEMMA BodyIsTyped ==
    ASSUME ArgInv, NEW r \in Req, pc[r] # "new"
    PROVE  /\ arg[r].body \in BodyType
           /\ Op(r) \in Ops
<1> QED
    BY ProvisioningAssumption DEF ArgInv, ArgOK, BodyType, Op

-----------------------------------------------------------------------------
(* Types *)

\* Moving a handler on keeps the program counters typed.
LEMMA GotoTyped ==
    ASSUME TypeOK, NEW r \in Req, NEW label \in PC, Goto(r, label)
    PROVE  pc' \in [Req -> PC]
<1> QED
    BY DEF TypeOK, Goto

\* An answer is well formed.
LEMMA ReplyTyped ==
    ASSUME TypeOK, NEW r \in Req, NEW code \in Code, NEW id \in Req \cup {None},
           NEW needsSetup \in BOOLEAN, Reply(r, code, id, needsSetup)
    PROVE  pc' \in [Req -> PC] /\ resp' \in [Req -> Response]
<1>1. "reply" \in PC
    BY DEF PC
<1>2. [code |-> code, id |-> id, needsSetup |-> needsSetup] \in Response
    BY DEF Response
<1> QED
    BY <1>1, <1>2 DEF TypeOK, Goto, Reply

\* So is a refusal.
LEMMA RefuseTyped ==
    ASSUME TypeOK, NEW r \in Req, NEW code \in Code, Refuse(r, code)
    PROVE  pc' \in [Req -> PC] /\ resp' \in [Req -> Response]
<1> QED
    BY ReplyTyped DEF Refuse

\* So is the answer to a fault.
LEMMA FailTyped ==
    ASSUME TypeOK, NEW r \in Req, Fail(r)
    PROVE  /\ pc' \in [Req -> PC] /\ resp' \in [Req -> Response]
           /\ faulty' \subseteq Req
<1>1. 500 \in Code
    BY DEF Code
<1>2. Refuse(r, 500) /\ faulty' = faulty \cup {r}
    BY DEF Fail
<1> QED
    BY <1>1, <1>2, RefuseTyped DEF TypeOK

\* What arrives is well formed.
LEMMA ArriveTyped ==
    ASSUME TypeOK, NEW r \in Req, NEW body \in Body, NEW sub \in Subject,
           Arrive(r, body, sub)
    PROVE  arg' \in [Req -> Arg] /\ told' \subseteq Req
<1>1. [body |-> body, sub |-> sub] \in Arg
    BY DEF Arg
<1> QED
    BY <1>1 DEF TypeOK, Arrive

\* A reply of Logto is well formed.
LEMMA LogtoReplyTyped ==
    ASSUME TypeOK, NEW r \in Req, NEW status \in Status,
           NEW id \in LogtoId \cup {None}, LogtoReply(r, status, id)
    PROVE  call' \in [Req -> Call]
<1>1. [phase |-> "replied", status |-> status, id |-> id] \in Call
    BY DEF Call
<1> QED
    BY <1>1 DEF TypeOK, LogtoReply

\* Every step keeps the types.
LEMMA TypeStep == TypeOK /\ ArgInv /\ CallInv /\ [Next]_vars => TypeOK'
<1> SUFFICES ASSUME TypeOK, ArgInv, CallInv, [Next]_vars PROVE TypeOK'
    OBVIOUS
<1>0. /\ {0, 200, 401, 403, 409, 422, 500} \subseteq Code
      /\ "auth" \in PC /\ "exists" \in PC /\ "token" \in PC /\ "await" \in PC
      /\ "insert" \in PC /\ "lookup" \in PC /\ "answered" \in PC /\ "dropped" \in PC
      /\ TRUE \in BOOLEAN /\ FALSE \in BOOLEAN
      /\ None \in Req \cup {None} /\ None \in LogtoId \cup {None}
    BY DEF Code, PC
<1>00. /\ \A token \in TokenSubjects : token \in Subject
       /\ None \in Subject
    BY DEF TokenSubjects, Subject
<1>1. ASSUME NEW r \in Req, Arrival(r) PROVE TypeOK'
  <2>1. CASE ArriveRegister(r)
    <3>1. arg' \in [Req -> Arg] /\ told' \subseteq Req
        BY <2>1, <1>00, ArriveTyped DEF ArriveRegister
    <3>2. pc' \in [Req -> PC]
        BY <2>1, <1>0, GotoTyped DEF ArriveRegister
    <3> QED
        BY <2>1, <3>1, <3>2 DEF ArriveRegister, TypeOK
  <2>2. CASE ArriveAnonymous(r)
    <3>1. arg' \in [Req -> Arg] /\ told' \subseteq Req
        BY <2>2, <1>00, ArriveTyped DEF ArriveAnonymous
    <3>2. Refuse(r, 200) \/ Refuse(r, 401)
        BY <2>2 DEF ArriveAnonymous
    <3>3. pc' \in [Req -> PC] /\ resp' \in [Req -> Response]
        BY <3>2, <1>0, RefuseTyped
    <3> QED
        BY <2>2, <3>1, <3>3 DEF ArriveAnonymous, TypeOK
  <2>3. CASE ArriveBearer(r)
    <3>1. arg' \in [Req -> Arg] /\ told' \subseteq Req
        BY <2>3, <1>00, ArriveTyped DEF ArriveBearer
    <3>2. pc' \in [Req -> PC]
        BY <2>3, <1>0, GotoTyped DEF ArriveBearer
    <3> QED
        BY <2>3, <3>1, <3>2 DEF ArriveBearer, TypeOK
  <2> QED
    BY <1>1, <2>1, <2>2, <2>3 DEF Arrival
<1>7. ASSUME NEW r \in Req, Validate(r) PROVE TypeOK'
  <2>1. \/ Refuse(r, 401)
        \/ Refuse(r, 422)
        \/ Goto(r, "exists") /\ UNCHANGED resp
        \/ Goto(r, "lookup") /\ UNCHANGED resp
    BY <1>7 DEF Validate
  <2>2. pc' \in [Req -> PC] /\ resp' \in [Req -> Response]
    BY <2>1, <1>0, GotoTyped, RefuseTyped DEF TypeOK
  <2> QED
    BY <1>7, <2>2 DEF Validate, TypeOK
<1>2. ASSUME NEW r \in Req, Handle(r) PROVE TypeOK'
  <2>1. CASE CheckExists(r)
    <3>1. \/ Refuse(r, 409) /\ UNCHANGED faulty
          \/ Goto(r, "token") /\ UNCHANGED <<resp, faulty>>
          \/ Fail(r)
        BY <2>1 DEF CheckExists
    <3>2. /\ pc' \in [Req -> PC] /\ resp' \in [Req -> Response]
          /\ faulty' \subseteq Req
        BY <3>1, <1>0, GotoTyped, RefuseTyped, FailTyped DEF TypeOK
    <3> QED
        BY <2>1, <3>2 DEF CheckExists, TypeOK
  <2>2. CASE SendCall(r)
    <3>1. CASE /\ call' = [call EXCEPT ![r].phase = "sent"]
               /\ Goto(r, "await")
               /\ UNCHANGED <<resp, faulty>>
      <4>1. call' \in [Req -> Call]
        BY <3>1 DEF TypeOK, Call
      <4>2. pc' \in [Req -> PC]
        BY <3>1, <1>0, GotoTyped
      <4> QED
        BY <2>2, <3>1, <4>1, <4>2 DEF SendCall, TypeOK
    <3>2. CASE Fail(r) /\ UNCHANGED call
        BY <2>2, <3>2, FailTyped DEF SendCall, TypeOK
    <3> QED
        BY <2>2, <3>1, <3>2 DEF SendCall
  <2>3. CASE ReceiveCreate(r)
    <3>1. \/ Goto(r, "insert") /\ UNCHANGED resp
          \/ Refuse(r, RegisterRefusal(call[r].status))
        BY <2>3 DEF ReceiveCreate
    <3>2. RegisterRefusal(call[r].status) \in Code
        BY DEF RegisterRefusal, Code
    <3>3. pc' \in [Req -> PC] /\ resp' \in [Req -> Response]
        BY <3>1, <3>2, <1>0, GotoTyped, RefuseTyped DEF TypeOK
    <3> QED
        BY <2>3, <3>3 DEF ReceiveCreate, TypeOK
  <2>4. CASE ReceiveUpdate(r)
    <3>1. \/ Goto(r, "insert") /\ UNCHANGED resp
          \/ Refuse(r, 500)
        BY <2>4 DEF ReceiveUpdate
    <3>2. pc' \in [Req -> PC] /\ resp' \in [Req -> Response]
        BY <3>1, <1>0, GotoTyped, RefuseTyped DEF TypeOK
    <3> QED
        BY <2>4, <3>2 DEF ReceiveUpdate, TypeOK
  <2>5. CASE Timeout(r)
    BY <2>5, FailTyped DEF Timeout, TypeOK
  <2>6. CASE InsertRow(r)
    <3>1. Target(r) \in LogtoId
        BY <2>6, InsertTarget DEF InsertRow
    <3>a. rows' = rows \/ rows' = rows \cup {[id |-> r, logto |-> Target(r)]}
        BY <2>6 DEF InsertRow
    <3>b. [id |-> r, logto |-> Target(r)] \in Row
        BY <3>1 DEF Row
    <3>2. rows' \subseteq Row
        BY <3>a, <3>b DEF TypeOK
    <3>3. \/ Refuse(r, 409) /\ UNCHANGED faulty
          \/ Reply(r, 200, r, FALSE) /\ UNCHANGED faulty
          \/ Fail(r)
        BY <2>6 DEF InsertRow
    <3>4. /\ pc' \in [Req -> PC] /\ resp' \in [Req -> Response]
          /\ faulty' \subseteq Req
      <4>1. CASE Refuse(r, 409) /\ UNCHANGED faulty
        BY <4>1, <1>0, RefuseTyped DEF TypeOK
      <4>2. CASE Reply(r, 200, r, FALSE) /\ UNCHANGED faulty
        <5>1. [code |-> 200, id |-> r, needsSetup |-> FALSE] \in Response
            BY DEF Response, Code
        <5> QED
            BY <4>2, <5>1 DEF TypeOK, Reply, Goto, PC
      <4> QED
        BY <3>3, <4>1, <4>2, FailTyped
    <3> QED
        BY <2>6, <3>2, <3>4 DEF InsertRow, TypeOK
  <2>7. CASE LookupMe(r)
    <3>1. \/ \E row \in RowsOf(arg[r].sub) :
                Reply(r, 200, row.id, FALSE) /\ UNCHANGED faulty
          \/ Reply(r, 200, None, TRUE) /\ UNCHANGED faulty
          \/ Fail(r)
        BY <2>7 DEF LookupMe
    <3>2. \A row \in RowsOf(arg[r].sub) : row.id \in Req \cup {None}
        BY DEF RowsOf, Row, TypeOK
    <3>3. /\ pc' \in [Req -> PC] /\ resp' \in [Req -> Response]
          /\ faulty' \subseteq Req
      <4>1. ASSUME NEW row \in RowsOf(arg[r].sub),
                   Reply(r, 200, row.id, FALSE) /\ UNCHANGED faulty
            PROVE  /\ pc' \in [Req -> PC] /\ resp' \in [Req -> Response]
                   /\ faulty' \subseteq Req
        <5>1. [code |-> 200, id |-> row.id, needsSetup |-> FALSE] \in Response
            BY <3>2 DEF Response, Code
        <5> QED
            BY <4>1, <5>1 DEF TypeOK, Reply, Goto, PC
      <4>2. CASE Reply(r, 200, None, TRUE) /\ UNCHANGED faulty
        <5>1. [code |-> 200, id |-> None, needsSetup |-> TRUE] \in Response
            BY DEF Response, Code
        <5> QED
            BY <4>2, <5>1 DEF TypeOK, Reply, Goto, PC
      <4> QED
        BY <3>1, <4>1, <4>2, FailTyped
    <3> QED
        BY <2>7, <3>3 DEF LookupMe, TypeOK
  <2>8. CASE LookupApi(r)
    <3>1. \/ Refuse(r, 200) /\ UNCHANGED faulty
          \/ Reply(r, 403, None, TRUE) /\ UNCHANGED faulty
          \/ Fail(r)
        BY <2>8 DEF LookupApi
    <3>2. /\ pc' \in [Req -> PC] /\ resp' \in [Req -> Response]
          /\ faulty' \subseteq Req
      <4>1. CASE Refuse(r, 200) /\ UNCHANGED faulty
        BY <4>1, <1>0, RefuseTyped DEF TypeOK
      <4>2. CASE Reply(r, 403, None, TRUE) /\ UNCHANGED faulty
        <5>1. [code |-> 403, id |-> None, needsSetup |-> TRUE] \in Response
            BY DEF Response, Code
        <5> QED
            BY <4>2, <5>1 DEF TypeOK, Reply, Goto, PC
      <4> QED
        BY <3>1, <4>1, <4>2, FailTyped
    <3> QED
        BY <2>8, <3>2 DEF LookupApi, TypeOK
  <2>9. CASE Answer(r)
    <3>1. pc' \in [Req -> PC]
        BY <2>9, <1>0, GotoTyped DEF Answer
    <3> QED
        BY <2>9, <3>1 DEF Answer, TypeOK
  <2> QED
    BY <1>2, <2>1, <2>2, <2>3, <2>4, <2>5, <2>6, <2>7, <2>8, <2>9 DEF Handle
<1>3. ASSUME NEW r \in Req, Logto(r) PROVE TypeOK'
  <2>0. /\ "created" \in Status /\ "updated" \in Status /\ "conflict" \in Status
        /\ "unprocessable" \in Status /\ "notFound" \in Status /\ "rejected" \in Status
    BY DEF Status
  <2>1. CASE LogtoCreate(r)
    <3>1. pc[r] # "new"
        BY <2>1 DEF LogtoCreate, CallInv, CallOK, Creates
    <3>2. /\ arg[r].body.username \in Username \cup {NoUsername}
          /\ arg[r].body.name \in Name \cup {None}
          /\ arg[r].body.email \in Email
        BY <3>1, BodyIsTyped DEF BodyType
    <3>3. RegisterUsername(arg[r].body) \in Username \cup {NoUsername}
        BY <3>2, ProvisioningAssumption DEF RegisterUsername
    <3>4. \/ LogtoReply(r, "conflict", None) /\ UNCHANGED identity
          \/ LogtoReply(r, "unprocessable", None) /\ UNCHANGED identity
          \/ \E l \in LogtoId :
                /\ identity' = [identity EXCEPT ![l] =
                      [state |-> "live",
                       username |-> RegisterUsername(arg[r].body),
                       name |-> arg[r].body.name,
                       email |-> arg[r].body.email]]
                /\ LogtoReply(r, "created", l)
        BY <2>1 DEF LogtoCreate
    <3>5. identity' \in [LogtoId -> Identity]
        BY <3>2, <3>3, <3>4 DEF TypeOK, Identity
    <3>6. call' \in [Req -> Call]
        BY <3>4, <2>0, <1>0, LogtoReplyTyped
    <3> QED
        BY <2>1, <3>5, <3>6 DEF LogtoCreate, TypeOK
  <2>2. CASE LogtoUpdate(r)
    <3>1. pc[r] # "new" /\ arg[r].sub \in LogtoId
        BY <2>2 DEF LogtoUpdate, CallInv, CallOK, Creates
    <3>2. /\ arg[r].body.username \in Username \cup {NoUsername}
          /\ arg[r].body.name \in Name \cup {None}
        BY <3>1, BodyIsTyped DEF BodyType
    <3>3. identity' \in [LogtoId -> Identity]
        BY <2>2, <3>1, <3>2 DEF LogtoUpdate, TypeOK, Identity
    <3>4. \E s \in Status : LogtoReply(r, s, None)
        BY <2>2, <2>0 DEF LogtoUpdate
    <3>5. call' \in [Req -> Call]
        BY <3>4, <1>0, LogtoReplyTyped
    <3> QED
        BY <2>2, <3>3, <3>5 DEF LogtoUpdate, TypeOK
  <2>3. CASE LogtoReject(r)
    <3>1. \/ \E s \in Status : LogtoReply(r, s, None)
          \/ call' = [call EXCEPT ![r].phase = "lost"]
        BY <2>3, <2>0 DEF LogtoReject
    <3>2. CASE \E s \in Status : LogtoReply(r, s, None)
        BY <2>3, <3>2, <1>0, LogtoReplyTyped DEF LogtoReject, TypeOK
    <3>3. CASE call' = [call EXCEPT ![r].phase = "lost"]
      <4>1. call' \in [Req -> Call]
        BY <3>3 DEF TypeOK, Call
      <4> QED
        BY <2>3, <4>1 DEF LogtoReject, TypeOK
    <3> QED
        BY <3>1, <3>2, <3>3
  <2> QED
    BY <1>3, <2>1, <2>2, <2>3 DEF Logto
<1>4. ASSUME NEW l \in LogtoId, LogtoSignUp(l) \/ LogtoDelete(l) PROVE TypeOK'
  <2>1. CASE LogtoSignUp(l)
    <3>1. [Absent EXCEPT !.state = "live"] \in Identity
        BY DEF Absent, Identity
    <3> QED
        BY <2>1, <3>1 DEF LogtoSignUp, TypeOK
  <2>2. CASE LogtoDelete(l)
    <3>1. identity' \in [LogtoId -> Identity]
        BY <2>2 DEF LogtoDelete, TypeOK, Identity
    <3> QED
        BY <2>2, <3>1 DEF LogtoDelete, TypeOK
  <2> QED
    BY <1>4, <2>1, <2>2
<1>5. CASE Crash
  <2>1. pc' \in [Req -> PC]
    BY <1>5, <1>0 DEF Crash, TypeOK
  <2>2. crashes' \in 0..MaxCrashes
    BY <1>5, ProvisioningAssumption DEF Crash, TypeOK
  <2> QED
    BY <1>5, <2>1, <2>2 DEF Crash, TypeOK
<1>6. CASE UNCHANGED vars
    BY <1>6 DEF vars, TypeOK
<1> QED
    BY <1>1, <1>2, <1>3, <1>4, <1>5, <1>6, <1>7 DEF Next

-----------------------------------------------------------------------------
(* What a step leaves alone *)

\* Nothing of request r changes.
Same(r) ==
    /\ pc'[r] = pc[r]
    /\ arg'[r] = arg[r]
    /\ call'[r] = call[r]
    /\ resp'[r] = resp[r]
    /\ r \in faulty' <=> r \in faulty

\* What the middleware and the handlers do for a request that has arrived.
Works(r) == Validate(r) \/ Handle(r)

\* A step of one request leaves the others alone.
LEMMA OthersSame ==
    ASSUME TypeOK, NEW q \in Req, Arrival(q) \/ Works(q) \/ Logto(q),
           NEW r \in Req, r # q
    PROVE  Same(r)
<1> USE DEF Same, TypeOK, Goto, Refuse, Reply, Fail
<1>1. CASE Arrival(q)
  <2>1. CASE ArriveRegister(q)
    BY <2>1 DEF ArriveRegister, Arrive
  <2>2. CASE ArriveAnonymous(q)
    BY <2>2 DEF ArriveAnonymous, Arrive
  <2>3. CASE ArriveBearer(q)
    BY <2>3 DEF ArriveBearer, Arrive
  <2> QED
    BY <1>1, <2>1, <2>2, <2>3 DEF Arrival
<1>2. CASE Handle(q)
  <2>1. CASE CheckExists(q)
    BY <2>1 DEF CheckExists
  <2>2. CASE SendCall(q)
    BY <2>2 DEF SendCall
  <2>3. CASE ReceiveCreate(q)
    BY <2>3 DEF ReceiveCreate
  <2>4. CASE ReceiveUpdate(q)
    BY <2>4 DEF ReceiveUpdate
  <2>5. CASE Timeout(q)
    BY <2>5 DEF Timeout
  <2>6. CASE InsertRow(q)
    BY <2>6 DEF InsertRow
  <2>7. CASE LookupMe(q)
    BY <2>7 DEF LookupMe
  <2>8. CASE LookupApi(q)
    BY <2>8 DEF LookupApi
  <2>9. CASE Answer(q)
    BY <2>9 DEF Answer
  <2> QED
    BY <1>2, <2>1, <2>2, <2>3, <2>4, <2>5, <2>6, <2>7, <2>8, <2>9 DEF Handle
<1>4. CASE Validate(q)
    BY <1>4 DEF Validate
<1>3. CASE Logto(q)
  <2>1. CASE LogtoCreate(q)
    BY <2>1 DEF LogtoCreate, LogtoReply
  <2>2. CASE LogtoUpdate(q)
    BY <2>2 DEF LogtoUpdate, LogtoReply
  <2>3. CASE LogtoReject(q)
    BY <2>3 DEF LogtoReject, LogtoReply
  <2> QED
    BY <1>3, <2>1, <2>2, <2>3 DEF Logto
<1> QED
    BY <1>1, <1>2, <1>3, <1>4 DEF Works

\* Logto never forgets an identity, and no row is ever deleted.
LEMMA Stable ==
    ASSUME TypeOK, [Next]_vars
    PROVE  /\ \A l \in LogtoId : Known(l) => Known(l)'
           /\ rows \subseteq rows'
<1>1. CASE UNCHANGED vars
    BY <1>1 DEF vars, Known
<1>2. CASE \E r \in Req : LogtoCreate(r)
    BY <1>2 DEF LogtoCreate, Known, TypeOK
<1>3. CASE \E r \in Req : LogtoUpdate(r)
  <2>1. PICK r \in Req : LogtoUpdate(r)
    BY <1>3
  <2>2. rows' = rows
    BY <2>1 DEF LogtoUpdate
  <2>3. ASSUME NEW l \in LogtoId PROVE identity'[l].state = identity[l].state
    <3>1. identity[l] \in Identity
        BY DEF TypeOK
    <3> QED
        BY <2>1, <3>1 DEF LogtoUpdate, TypeOK, Identity
  <2> QED
    BY <2>2, <2>3 DEF Known
<1>4. CASE \E l \in LogtoId : LogtoSignUp(l) \/ LogtoDelete(l)
  <2>1. PICK l \in LogtoId : LogtoSignUp(l) \/ LogtoDelete(l)
    BY <1>4
  <2>2. rows' = rows
    BY <2>1 DEF LogtoSignUp, LogtoDelete
  <2>3. identity'[l].state \in {"live", "deleted"}
    <3>1. CASE LogtoSignUp(l)
        BY <3>1 DEF LogtoSignUp, TypeOK, Absent
    <3>2. CASE LogtoDelete(l)
      <4>1. identity[l] \in Identity
        BY DEF TypeOK
      <4> QED
        BY <3>2, <4>1 DEF LogtoDelete, TypeOK, Identity
    <3> QED
        BY <2>1, <3>1, <3>2
  <2>4. \A m \in LogtoId : m # l => identity'[m] = identity[m]
    BY <2>1 DEF LogtoSignUp, LogtoDelete, TypeOK
  <2> QED
    BY <2>2, <2>3, <2>4 DEF Known
<1>5. CASE \E r \in Req : InsertRow(r)
    BY <1>5 DEF InsertRow, Known
<1>6. CASE /\ identity' = identity
           /\ rows' = rows
    BY <1>6 DEF Known
<1>7. ASSUME NEW r \in Req, Arrival(r)
      PROVE  identity' = identity /\ rows' = rows
    BY <1>7 DEF Arrival, ArriveRegister, ArriveAnonymous, ArriveBearer
<1>8. ASSUME NEW r \in Req, Works(r), ~InsertRow(r)
      PROVE  identity' = identity /\ rows' = rows
    BY <1>8 DEF Works, Validate, Handle, CheckExists, SendCall, ReceiveCreate, ReceiveUpdate,
                Timeout, LookupMe, LookupApi, Answer
<1>9. ASSUME NEW r \in Req, LogtoReject(r)
      PROVE  identity' = identity /\ rows' = rows
    BY <1>9 DEF LogtoReject
<1>10. Crash => identity' = identity /\ rows' = rows
    BY DEF Crash
<1> QED
    BY <1>1, <1>2, <1>3, <1>4, <1>5, <1>6, <1>7, <1>8, <1>9, <1>10
       DEF Next, Logto, Works

\* Logto's steps touch neither handlers nor their answers.
LEMMA LogtoKeeps ==
    ASSUME NEW r \in Req, Logto(r)
    PROVE  pc' = pc /\ arg' = arg /\ resp' = resp /\ rows' = rows /\ told' = told
<1> QED
    BY DEF Logto, LogtoCreate, LogtoUpdate, LogtoReject

\* Where the middleware and a handler go next.
LEMMA WorkMoves ==
    ASSUME TypeOK, NEW r \in Req, Works(r)
    PROVE  /\ arg' = arg /\ identity' = identity /\ told' = told
           /\ pc[r] \notin {"new", "answered", "dropped"}
           /\ \/ pc'[r] = "reply" /\ pc[r] # "reply" /\ ~Answer(r)
              \/ pc[r] = "reply" /\ pc'[r] = "answered" /\ Answer(r)
              \/ /\ pc[r] = "auth" /\ pc'[r] = "exists"
                 /\ Op(r) = "setup" /\ arg[r].sub \in LogtoId
              \/ /\ pc[r] = "auth" /\ pc'[r] = "lookup"
                 /\ Op(r) # "setup" /\ arg[r].sub # None
              \/ pc[r] = "exists" /\ pc'[r] = "token"
              \/ pc[r] = "token" /\ pc'[r] = "await"
              \/ pc[r] = "await" /\ pc'[r] = "insert"
<1> USE DEF TypeOK, Goto, Refuse, Reply, Fail, Answer
<1>1. CASE CheckExists(r)
    BY <1>1 DEF CheckExists
<1>2. CASE SendCall(r)
    BY <1>2 DEF SendCall
<1>3. CASE ReceiveCreate(r)
    BY <1>3 DEF ReceiveCreate
<1>4. CASE ReceiveUpdate(r)
    BY <1>4 DEF ReceiveUpdate
<1>5. CASE Timeout(r)
    BY <1>5 DEF Timeout
<1>6. CASE InsertRow(r)
    BY <1>6 DEF InsertRow
<1>7. CASE LookupMe(r)
    BY <1>7 DEF LookupMe
<1>8. CASE LookupApi(r)
    BY <1>8 DEF LookupApi
<1>9. CASE Answer(r)
    BY <1>9
<1>10. CASE Validate(r)
    BY <1>10 DEF Validate
<1> QED
    BY <1>1, <1>2, <1>3, <1>4, <1>5, <1>6, <1>7, <1>8, <1>9, <1>10 DEF Works, Handle

\* How a request starts.
LEMMA ArrivalStarts ==
    ASSUME TypeOK, NEW r \in Req, Arrival(r)
    PROVE  /\ identity' = identity /\ rows' = rows
           /\ call' = call /\ faulty' = faulty
           /\ pc[r] = "new"
           /\ arg'[r].body \in Body
           /\ arg'[r].sub \in LogtoId => Known(arg'[r].sub)
           /\ \/ pc'[r] = "token" /\ arg'[r].body.op = "register"
              \/ pc'[r] = "auth" /\ arg'[r].body.op # "register"
              \/ /\ pc'[r] = "reply"
                 /\ ~resp'[r].needsSetup
                 /\ arg'[r].sub = None
                 /\ resp'[r].code = 401 \/ arg'[r].body.op = "me"
<1> USE ProvisioningAssumption
        DEF TypeOK, Goto, Refuse, Reply, Arrive, TokenSubjects
<1>1. CASE ArriveRegister(r)
    BY <1>1 DEF ArriveRegister
<1>2. CASE ArriveAnonymous(r)
    BY <1>2 DEF ArriveAnonymous
<1>3. CASE ArriveBearer(r)
    BY <1>3 DEF ArriveBearer
<1> QED
    BY <1>1, <1>2, <1>3 DEF Arrival

\* Who is new to the set told came after somebody was told of the subject's account.
LEMMA ArrivalTold ==
    ASSUME TypeOK, NEW r \in Req, Arrival(r)
    PROVE  \/ told' = told
           \/ /\ told' = told \cup {r}
              /\ pc'[r] # "new"
              /\ arg'[r].sub \in LogtoId
              /\ \E other \in Req : SaysLinked(other, arg'[r].sub)
<1>1. pc'[r] # "new"
    BY ArrivalStarts
<1>2. PICK body \in Body, sub \in Subject : Arrive(r, body, sub)
    BY DEF Arrival, ArriveRegister, ArriveAnonymous, ArriveBearer, TokenSubjects, Subject
<1>3. arg'[r].sub = sub
    BY <1>2 DEF Arrive, TypeOK
<1> QED
    BY <1>1, <1>2, <1>3 DEF Arrive

\* A step is one of the request r, or leaves what r's handler works with alone.
LEMMA StepOf ==
    ASSUME TypeOK, [Next]_vars, NEW r \in Req,
           ~Arrival(r), ~Works(r), ~Logto(r)
    PROVE  \/ Same(r)
           \/ /\ Running(r) /\ pc'[r] = "dropped" /\ r \in faulty'
              /\ arg'[r] = arg[r] /\ call'[r] = call[r] /\ resp'[r] = resp[r]
<1>1. ASSUME NEW q \in Req, Arrival(q) \/ Works(q) \/ Logto(q) PROVE Same(r)
    BY <1>1, OthersSame
<1>2. CASE \E l \in LogtoId : LogtoSignUp(l) \/ LogtoDelete(l)
    BY <1>2 DEF LogtoSignUp, LogtoDelete, Same
<1>3. CASE Crash
    BY <1>3 DEF Crash, Same, TypeOK, Running
<1>4. CASE UNCHANGED vars
    BY <1>4 DEF vars, Same
<1> QED
    BY <1>1, <1>2, <1>3, <1>4 DEF Next, Works

\* Only those who arrive join the set told.
LEMMA ToldBy ==
    ASSUME TypeOK, [Next]_vars, NEW r \in told', r \notin told
    PROVE  r \in Req /\ Arrival(r)
<1>1. ASSUME NEW q \in Req, Arrival(q) PROVE r = q
    BY <1>1, ArrivalTold
<1>2. ASSUME NEW q \in Req, Works(q) \/ Logto(q) PROVE told' = told
    BY <1>2, WorkMoves, LogtoKeeps
<1>3. ASSUME NEW l \in LogtoId, LogtoSignUp(l) \/ LogtoDelete(l) PROVE told' = told
    BY <1>3 DEF LogtoSignUp, LogtoDelete
<1>4. Crash \/ UNCHANGED vars => told' = told
    BY DEF Crash, vars
<1> QED
    BY <1>1, <1>2, <1>3, <1>4 DEF Next, Works

-----------------------------------------------------------------------------
(* Each part of the invariant is preserved *)

\* What a handler's place says of its request stays true.
LEMMA ArgStep == TypeOK /\ ArgInv /\ [Next]_vars => ArgInv'
<1> SUFFICES ASSUME TypeOK, ArgInv, [Next]_vars, NEW r \in Req
             PROVE  ArgOK(r)'
    BY DEF ArgInv
<1>0. ArgOK(r) /\ \A l \in LogtoId : Known(l) => Known(l)'
    BY Stable DEF ArgInv
<1>1. CASE Arrival(r)
  <2>1. arg'[r].sub \in LogtoId => Known(arg[r].sub)'
    BY <1>1, ArrivalStarts DEF Known
  <2>2. arg'[r].body \in Body
    BY <1>1, ArrivalStarts
  <2>3. \/ pc'[r] = "token" /\ Op(r)' = "register"
        \/ pc'[r] = "auth" /\ Op(r)' # "register"
        \/ pc'[r] = "reply"
    BY <1>1, ArrivalStarts DEF Op
  <2> QED
    BY <2>1, <2>2, <2>3 DEF ArgOK
<1>2. CASE Works(r)
  <2>1. pc[r] # "new" /\ Op(r) \in {"register", "setup", "me", "api"}
    BY <1>2, WorkMoves, BodyIsTyped DEF Ops
  <2> QED
    BY <1>0, <1>2, <2>1, WorkMoves DEF ArgOK, Op, Known
<1>3. CASE Logto(r)
    BY <1>0, <1>3, LogtoKeeps DEF ArgOK, Op
<1>4. CASE ~Arrival(r) /\ ~Works(r) /\ ~Logto(r)
    BY <1>0, <1>4, StepOf DEF ArgOK, Op, Same, Running
<1> QED
    BY <1>1, <1>2, <1>3, <1>4

\* What a call says of its request stays true.
LEMMA CallStep == TypeOK /\ ArgInv /\ CallInv /\ [Next]_vars => CallInv'
<1> SUFFICES ASSUME TypeOK, ArgInv, CallInv, [Next]_vars, NEW r \in Req
             PROVE  CallOK(r)'
    BY DEF CallInv
<1>0. /\ ArgOK(r) /\ CallOK(r) /\ call[r] \in Call
      /\ \A l \in LogtoId : Known(l) => Known(l)'
    BY Stable DEF ArgInv, CallInv, TypeOK
<1>1. CASE Arrival(r)
  <2>1. call[r] = Idle /\ call'[r] = Idle
    BY <1>0, <1>1, ArrivalStarts DEF CallOK
  <2>2. pc'[r] # "insert"
    BY <1>1, ArrivalStarts
  <2> QED
    BY <2>1, <2>2 DEF CallOK, Idle
<1>2. CASE Works(r)
  <2>1. /\ arg' = arg /\ identity' = identity
        /\ pc[r] # "new" /\ pc'[r] # "new"
    BY <1>2, WorkMoves
  <2>2. CASE SendCall(r)
    <3>1. CASE call' = [call EXCEPT ![r].phase = "sent"] /\ Goto(r, "await")
      <4>1. pc[r] = "token" /\ call[r] = Idle
        BY <1>0, <2>2 DEF SendCall, CallOK
      <4>2. call'[r] = [Idle EXCEPT !.phase = "sent"] /\ pc'[r] = "await"
        BY <3>1, <4>1 DEF TypeOK, Goto
      <4>3. \/ Op(r) = "register"
            \/ Op(r) = "setup" /\ arg[r].sub \in LogtoId
        BY <1>0, <4>1 DEF ArgOK
      <4> QED
        BY <2>1, <4>2, <4>3 DEF CallOK, Idle, Creates, Op
    <3>2. CASE Fail(r) /\ call' = call
      <4>1. pc'[r] = "reply"
        BY <3>2 DEF Fail, Refuse, Reply, Goto, TypeOK
      <4> QED
        BY <1>0, <2>1, <3>2, <4>1 DEF CallOK, Creates, Op, Known
    <3> QED
        BY <2>2, <3>1, <3>2 DEF SendCall
  <2>3. CASE ~SendCall(r)
    <3>1. call' = call
        BY <1>2, <2>3 DEF Works, Validate, Handle, CheckExists, ReceiveCreate,
                          ReceiveUpdate, Timeout, InsertRow, LookupMe, LookupApi, Answer
    <3>2. pc'[r] = "insert" => Confirmed(r)
      <4>1. CASE ReceiveCreate(r)
        BY <4>1 DEF ReceiveCreate, Confirmed, Refuse, Reply, Goto, TypeOK
      <4>2. CASE ReceiveUpdate(r)
        BY <4>2 DEF ReceiveUpdate, Confirmed, Refuse, Reply, Goto, TypeOK
      <4>3. CASE CheckExists(r)
        BY <4>3 DEF CheckExists, Fail, Refuse, Reply, Goto, TypeOK
      <4>4. CASE ~ReceiveCreate(r) /\ ~ReceiveUpdate(r) /\ ~CheckExists(r)
        BY <1>2, <2>3, <4>4 DEF Works, Validate, Handle, Timeout, InsertRow, LookupMe,
                                LookupApi, Answer, Fail, Refuse, Reply, Goto, TypeOK
      <4> QED
        BY <4>1, <4>2, <4>3, <4>4
    <3>3. pc'[r] = "token" => pc[r] = "exists"
        BY <1>2, WorkMoves
    <3>4. pc'[r] \notin {"new", "auth"} /\ (pc'[r] \in {"exists", "lookup"} => pc[r] = "auth")
        BY <1>2, WorkMoves
    <3> QED
        BY <1>0, <2>1, <3>1, <3>2, <3>3, <3>4
           DEF CallOK, Creates, Op, Known, Confirmed
  <2> QED
    BY <2>2, <2>3
<1>3. CASE Logto(r)
  <2>1. pc' = pc /\ arg' = arg
    BY <1>3, LogtoKeeps
  <2>2. call[r].phase = "sent" /\ pc[r] \notin {"new", "auth", "exists", "token", "lookup"}
    BY <1>0, <1>3 DEF Logto, LogtoCreate, LogtoUpdate, LogtoReject, CallOK, Idle
  <2>3. Creates(r) /\ (Op(r) = "setup" => arg[r].sub \in LogtoId)
    BY <1>0, <2>2 DEF CallOK
  <2>4. pc[r] # "insert"
    BY <1>0, <2>2 DEF CallOK, Confirmed
  <2>5. \/ /\ call'[r].phase = "replied"
           /\ call'[r].status = "created" =>
                 Op(r) = "register" /\ call'[r].id \in LogtoId /\ Known(call[r].id)'
           /\ call'[r].status = "updated" => Op(r) = "setup"
        \/ call'[r].phase = "lost" /\ call'[r].status = "none"
    <3>1. CASE LogtoCreate(r)
        BY <3>1 DEF LogtoCreate, LogtoReply, TypeOK, Known
    <3>2. CASE LogtoUpdate(r)
        BY <3>2 DEF LogtoUpdate, LogtoReply, TypeOK
    <3>3. CASE LogtoReject(r)
      <4>1. CASE call' = [call EXCEPT ![r].phase = "lost"]
        <5>1. call[r].status = "none"
            BY <1>0, <2>2 DEF CallOK
        <5> QED
            BY <1>0, <4>1, <5>1 DEF Call, TypeOK
      <4>2. CASE LogtoReply(r, "rejected", None)
        BY <4>2 DEF LogtoReply, TypeOK
      <4> QED
        BY <3>3, <4>1, <4>2 DEF LogtoReject
    <3> QED
        BY <1>3, <3>1, <3>2, <3>3 DEF Logto
  <2> QED
    BY <2>1, <2>2, <2>3, <2>4, <2>5 DEF CallOK, Creates, Op
<1>4. CASE ~Arrival(r) /\ ~Works(r) /\ ~Logto(r)
    BY <1>0, <1>4, StepOf
       DEF CallOK, Op, Same, Running, Creates, Confirmed
<1> QED
    BY <1>1, <1>2, <1>3, <1>4

\* The request behind a row is over: only its answer may still reach the client, or not.
Settled(r) == pc[r] \in {"reply", "answered", "dropped"}

LEMMA OwnerSame ==
    ASSUME TypeOK, CallInv, [Next]_vars, NEW r \in Req, Settled(r), Confirmed(r)
    PROVE  /\ Settled(r)'
           /\ arg'[r] = arg[r] /\ call'[r] = call[r] /\ resp'[r] = resp[r]
           /\ Answered(r) => Answered(r)'
<1>1. ~Arrival(r)
    BY ArrivalStarts DEF Settled
<1>2. call[r].phase # "sent"
    BY DEF CallInv, CallOK, Confirmed
<1>3. ~Logto(r)
    BY <1>2 DEF Logto, LogtoCreate, LogtoUpdate, LogtoReject
<1>4. CASE Works(r)
  <2>1. Answer(r) /\ pc'[r] = "answered"
    BY <1>4, WorkMoves DEF Settled
  <2> QED
    BY <2>1 DEF Answer, Settled, Answered
<1>5. CASE ~Works(r)
    BY <1>1, <1>3, <1>5, StepOf DEF Running, Same, Settled, Answered
<1> QED
    BY <1>4, <1>5

\* A row appears only where InsertRow puts it.
LEMMA RowsGrow ==
    ASSUME TypeOK, [Next]_vars, rows' # rows
    PROVE  \E r \in Req :
              /\ InsertRow(r)
              /\ ~Linked(Target(r))
              /\ rows' = rows \cup {[id |-> r, logto |-> Target(r)]}
              /\ pc'[r] = "reply"
<1>1. PICK r \in Req : InsertRow(r)
  <2>1. ASSUME NEW r \in Req, Arrival(r) PROVE FALSE
    BY <2>1, ArrivalStarts
  <2>2. ASSUME NEW r \in Req, Works(r), ~InsertRow(r) PROVE FALSE
    BY <2>2 DEF Works, Validate, Handle, CheckExists, SendCall, ReceiveCreate, ReceiveUpdate,
                Timeout, LookupMe, LookupApi, Answer
  <2>3. ASSUME NEW r \in Req, Logto(r) PROVE FALSE
    BY <2>3, LogtoKeeps
  <2>4. ASSUME NEW l \in LogtoId, LogtoSignUp(l) \/ LogtoDelete(l) PROVE FALSE
    BY <2>4 DEF LogtoSignUp, LogtoDelete
  <2>5. ~Crash /\ ~UNCHANGED vars
    BY DEF Crash, vars
  <2> QED
    BY <2>1, <2>2, <2>3, <2>4, <2>5 DEF Next, Works
<1>2. pc'[r] = "reply"
    BY <1>1 DEF InsertRow, Fail, Refuse, Reply, Goto, TypeOK
<1> QED
    BY <1>1, <1>2 DEF InsertRow

\* Rows stay confirmed, closed and unique per identity.
LEMMA RowStep == TypeOK /\ ArgInv /\ CallInv /\ RowInv /\ [Next]_vars => RowInv'
<1> SUFFICES ASSUME TypeOK, ArgInv, CallInv, RowInv, [Next]_vars
             PROVE  RowInv'
    OBVIOUS
<1>1. ASSUME NEW row \in rows
      PROVE  /\ call'[row.id].status \in {"created", "updated"}
             /\ row.logto = Target(row.id)'
             /\ Known(row.logto)'
             /\ Settled(row.id)'
  <2>1. /\ row.id \in Req /\ row.logto \in LogtoId
        /\ Settled(row.id) /\ Confirmed(row.id)
        /\ row.logto = Target(row.id) /\ Known(row.logto)
    BY DEF RowInv, LinksAreConfirmed, TypeOK, Row, Confirmed, Settled
  <2>2. /\ Settled(row.id)' /\ arg'[row.id] = arg[row.id] /\ call'[row.id] = call[row.id]
    BY <2>1, OwnerSame
  <2> QED
    BY <2>1, <2>2, Stable DEF Target, Op, Confirmed
<1>2. CASE rows' = rows
    BY <1>1, <1>2 DEF RowInv, LinksAreConfirmed, Settled
<1>3. CASE rows' # rows
  <2>1. PICK r \in Req : /\ InsertRow(r)
                         /\ ~Linked(Target(r))
                         /\ rows' = rows \cup {[id |-> r, logto |-> Target(r)]}
                         /\ pc'[r] = "reply"
    BY <1>3, RowsGrow
  <2>2. Confirmed(r) /\ Known(Target(r))
    BY <2>1, InsertTarget DEF InsertRow
  <2>3. identity' = identity /\ arg' = arg /\ call' = call
    BY <2>1 DEF InsertRow
  <2> DEFINE new == [id |-> r, logto |-> Target(r)]
  <2>4. /\ call'[new.id].status \in {"created", "updated"}
        /\ new.logto = Target(new.id)'
        /\ Known(new.logto)'
        /\ Settled(new.id)'
    BY <2>1, <2>2, <2>3 DEF Confirmed, Target, Op, Known, Settled
  <2>5. \A row \in rows : row.logto # new.logto
    BY <2>1 DEF Linked
  <2>6. \A row \in rows' : row \in rows \/ row = new
    BY <2>1
  <2>7. LinksAreConfirmed'
    BY <1>1, <2>4, <2>6 DEF LinksAreConfirmed
  <2>8. \A row \in rows' : Settled(row.id)'
    BY <1>1, <2>4, <2>6
  <2>9. \A a, b \in rows' : a.logto = b.logto => a = b
    BY <2>5, <2>6 DEF RowInv
  <2> QED
    BY <2>7, <2>8, <2>9 DEF RowInv, Settled
<1> QED
    BY <1>2, <1>3

\* An answer that promises nothing.
LEMMA RefusalIsSafe ==
    ASSUME NEW r \in Req,
           resp'[r].code \notin {200, 409}, ~resp'[r].needsSetup,
           r \in faulty' \/ (call'[r].phase # "sent" /\ ~Confirmed(r)')
    PROVE  AnswerOK(r)'
<1>1. \A l \in LogtoId \cup {EmptySub} : ~Affirms(r, l)'
    BY DEF Affirms
<1> QED
    BY <1>1 DEF AnswerOK

\* The answer to a fault promises nothing.
LEMMA FailIsSafe ==
    ASSUME TypeOK, NEW r \in Req, Fail(r)
    PROVE  AnswerOK(r)'
<1>1. resp'[r].code = 500 /\ ~resp'[r].needsSetup /\ r \in faulty'
    BY DEF Fail, Refuse, Reply, TypeOK
<1> QED
    BY <1>1, RefusalIsSafe

\* Nothing was promised while there was no answer.
LEMMA UndecidedIsSafe ==
    ASSUME NEW r \in Req, pc'[r] \notin {"reply", "answered"}
    PROVE  AnswerOK(r)'
<1> QED
    BY DEF AnswerOK, Decided

\* An answer that stays what it was stays true.
LEMMA AnswerKept ==
    ASSUME TypeOK, [Next]_vars, NEW r \in Req, AnswerOK(r), Decided(r),
           r \in told' => r \in told,
           arg'[r] = arg[r], call'[r] = call[r], resp'[r] = resp[r],
           r \in faulty => r \in faulty'
    PROVE  AnswerOK(r)'
<1>1. (\A l : Linked(l) => Linked(l)') /\ rows \subseteq rows'
    BY Stable DEF Linked
<1>2. /\ Target(r)' = Target(r) /\ Op(r)' = Op(r) /\ (Confirmed(r)' <=> Confirmed(r))
    BY DEF Target, Op, Confirmed
<1>3. \A l \in LogtoId \cup {EmptySub} : Affirms(r, l)' => Affirms(r, l)
    BY <1>2 DEF Affirms
<1>4. Linked(Target(r)) => Linked(Target(r))'
    BY <1>1, <1>2 DEF Linked
<1>5. Creates(r)' => Creates(r)
    BY <1>2 DEF Creates, Decided
<1> QED
    BY <1>1, <1>2, <1>3, <1>4, <1>5 DEF AnswerOK

\* What r's own handler answers is true.
LEMMA HandleAnswers ==
    ASSUME TypeOK, ArgInv, CallInv, ToldInv, NEW r \in Req, Works(r), ~Answer(r)
    PROVE  AnswerOK(r)'
<1> SUFFICES ASSUME pc'[r] = "reply", ~Fail(r) PROVE AnswerOK(r)'
    BY UndecidedIsSafe, FailIsSafe, WorkMoves
<1>t. /\ told' = told /\ arg' = arg
      /\ r \in told => arg[r].sub \in LogtoId /\ Linked(arg[r].sub)
    BY WorkMoves DEF ToldInv
<1>0. ArgOK(r) /\ CallOK(r)
    BY DEF ArgInv, CallInv
<1>1. CASE CheckExists(r)
  <2>1. Linked(arg[r].sub) /\ Refuse(r, 409)
    BY <1>1 DEF CheckExists, Goto, TypeOK
  <2>2. /\ resp'[r].code = 409 /\ ~resp'[r].needsSetup
        /\ arg' = arg /\ rows' = rows /\ call' = call
    BY <1>1, <2>1 DEF CheckExists, Refuse, Reply, TypeOK
  <2>3. Op(r) = "setup" /\ call[r] = Idle
    BY <1>0, <1>1 DEF CheckExists, ArgOK, CallOK
  <2> QED
    BY <2>1, <2>2, <2>3
       DEF AnswerOK, Affirms, Linked, Op, Idle, Confirmed
<1>2. CASE SendCall(r)
    BY <1>2 DEF SendCall, Goto, TypeOK
<1>3. CASE ReceiveCreate(r)
  <2>1. Refuse(r, RegisterRefusal(call[r].status)) /\ call[r].status # "created"
    BY <1>3 DEF ReceiveCreate, Goto, TypeOK
  <2>2. /\ resp'[r].code \in {409, 500} /\ ~resp'[r].needsSetup
        /\ arg' = arg /\ call' = call
    BY <1>3, <2>1 DEF ReceiveCreate, Refuse, Reply, RegisterRefusal, TypeOK
  <2>3. Op(r) = "register" /\ call[r].phase = "replied" /\ ~Confirmed(r)
    BY <1>0, <1>3, <2>1 DEF ReceiveCreate, CallOK, Confirmed
  <2> QED
    BY <2>2, <2>3 DEF AnswerOK, Affirms, Op, Confirmed
<1>4. CASE ReceiveUpdate(r)
  <2>1. Refuse(r, 500) /\ call[r].status # "updated"
    BY <1>4 DEF ReceiveUpdate, Goto, TypeOK
  <2>2. resp'[r].code = 500 /\ ~resp'[r].needsSetup /\ call' = call
    BY <1>4, <2>1 DEF ReceiveUpdate, Refuse, Reply, TypeOK
  <2>3. call[r].phase = "replied" /\ ~Confirmed(r)
    BY <1>0, <1>4, <2>1 DEF ReceiveUpdate, CallOK, Confirmed
  <2> QED
    BY <2>2, <2>3, RefusalIsSafe DEF Confirmed
<1>5. CASE Timeout(r)
    BY <1>5 DEF Timeout
<1>6. CASE InsertRow(r)
  <2>1. Creates(r) /\ Confirmed(r)
    BY <1>6, InsertTarget DEF InsertRow
  <2>2. call[r].phase = "replied" /\ arg' = arg /\ call' = call
    BY <1>0, <1>6, <2>1 DEF InsertRow, CallOK, Confirmed
  <2>3. Target(r)' = Target(r)
    BY <2>2 DEF Target, Op
  <2>4. CASE Linked(Target(r)) /\ Refuse(r, 409) /\ rows' = rows
    <3>1. resp'[r].code = 409 /\ ~resp'[r].needsSetup
        BY <2>4 DEF Refuse, Reply, TypeOK
    <3>2. Linked(Target(r))'
        BY <2>3, <2>4 DEF Linked
    <3> QED
        BY <2>2, <3>1, <3>2 DEF AnswerOK, Affirms, Target, Op
  <2>5. CASE /\ rows' = rows \cup {[id |-> r, logto |-> Target(r)]}
             /\ Reply(r, 200, r, FALSE)
    <3>1. resp'[r].code = 200 /\ resp'[r].id = r /\ ~resp'[r].needsSetup
        BY <2>5 DEF Reply, TypeOK
    <3>2. [id |-> r, logto |-> Target(r)'] \in rows'
        BY <2>3, <2>5
    <3>3. Linked(Target(r))'
        BY <3>2 DEF Linked
    <3> QED
        BY <2>2, <3>1, <3>2, <3>3 DEF AnswerOK, Affirms, Target, Op
  <2> QED
    BY <1>6, <2>4, <2>5 DEF InsertRow
<1>7. CASE LookupMe(r)
  <2>1. /\ arg' = arg /\ rows' = rows /\ Op(r) = "me"
    BY <1>7 DEF LookupMe
  <2>2. resp'[r].needsSetup <=> ~Linked(arg[r].sub)
    BY <1>7 DEF LookupMe, Reply, TypeOK, RowsOf, Linked
  <2> QED
    BY <1>t, <2>1, <2>2 DEF AnswerOK, Creates, Affirms, Linked, Op
<1>8. CASE LookupApi(r)
  <2>1. /\ arg' = arg /\ rows' = rows /\ Op(r) = "api"
    BY <1>8 DEF LookupApi
  <2>2. \/ Linked(arg[r].sub) /\ ~resp'[r].needsSetup
        \/ ~Linked(arg[r].sub) /\ resp'[r].code = 403
    BY <1>8 DEF LookupApi, Refuse, Reply, TypeOK
  <2> QED
    BY <1>t, <2>1, <2>2 DEF AnswerOK, Creates, Affirms, Linked, Op
<1>9. CASE Validate(r)
  <2>1. resp'[r].code \in {401, 422} /\ ~resp'[r].needsSetup
    BY <1>9 DEF Validate, Refuse, Reply, Goto, TypeOK
  <2>2. call[r] = Idle /\ call' = call
    BY <1>0, <1>9 DEF Validate, CallOK
  <2> QED
    BY <2>1, <2>2, RefusalIsSafe DEF Idle, Confirmed
<1> QED
    BY <1>1, <1>2, <1>3, <1>4, <1>5, <1>6, <1>7, <1>8, <1>9 DEF Works, Handle

\* What clients have been told stays true.
LEMMA AnswerStep ==
    TypeOK /\ ArgInv /\ CallInv /\ RowInv /\ AnswerInv /\ ToldInv /\ [Next]_vars
        => AnswerInv'
<1> SUFFICES ASSUME TypeOK, ArgInv, CallInv, RowInv, AnswerInv, ToldInv, [Next]_vars,
                    NEW r \in Req
             PROVE  AnswerOK(r)'
    BY DEF AnswerInv
<1>0. AnswerOK(r) /\ CallOK(r) /\ rows \subseteq rows'
    BY Stable DEF AnswerInv, CallInv
<1>1. CASE Arrival(r)
  <2>1. SUFFICES ASSUME pc'[r] = "reply" PROVE AnswerOK(r)'
    BY <1>1, UndecidedIsSafe, ArrivalStarts
  <2>2. call'[r] = Idle
    BY <1>0, <1>1, ArrivalStarts DEF CallOK
  <2>3. /\ arg'[r].sub = None /\ ~resp'[r].needsSetup
        /\ resp'[r].code = 401 \/ arg'[r].body.op = "me"
    BY <1>1, <2>1, ArrivalStarts
  <2> QED
    BY <2>2, <2>3, ProvisioningAssumption
       DEF AnswerOK, Creates, Affirms, Op, Idle, Confirmed
<1>2. CASE Works(r) /\ ~Answer(r)
    BY <1>2, HandleAnswers
<1>3. CASE Works(r) /\ Answer(r)
    BY <1>0, <1>3, AnswerKept DEF Answer, Decided
<1>4. CASE Logto(r)
  <2>1. /\ pc' = pc /\ arg' = arg /\ resp' = resp /\ rows' = rows /\ told' = told
        /\ faulty \subseteq faulty'
    BY <1>4, LogtoKeeps DEF Logto, LogtoCreate, LogtoUpdate, LogtoReject
  <2>2. call[r].phase = "sent"
    BY <1>4 DEF Logto, LogtoCreate, LogtoUpdate, LogtoReject
  <2>3. SUFFICES ASSUME Decided(r) PROVE AnswerOK(r)'
    BY <2>1, UndecidedIsSafe DEF Decided
  <2>4. ~(Creates(r) /\ resp[r].code = 200)
    <3>1. call[r].status = "none"
        BY <1>0, <2>2 DEF CallOK
    <3> QED
        BY <1>0, <2>3, <3>1 DEF AnswerOK, RowInv, LinksAreConfirmed
  <2>5. ~(Creates(r) /\ r \notin faulty)
    BY <1>0, <2>2, <2>3 DEF AnswerOK
  <2>6. (Creates(r)' <=> Creates(r)) /\ (Creates(r) <=> Op(r) \in {"register", "setup"})
    BY <2>1, <2>3 DEF Creates, Op, Decided
  <2>7. \A l \in LogtoId \cup {EmptySub} : Affirms(r, l)' => Affirms(r, l) /\ Linked(l)'
    BY <1>0, <2>1, <2>3, <2>4, <2>6 DEF Affirms, Op, AnswerOK, Linked
  <2> QED
    BY <1>0, <2>1, <2>3, <2>4, <2>5, <2>6, <2>7 DEF AnswerOK
<1>5. CASE ~Arrival(r) /\ ~Works(r) /\ ~Logto(r)
  <2>1. SUFFICES ASSUME Decided(r)' PROVE AnswerOK(r)'
    BY DEF AnswerOK
  <2>2. Same(r)
    BY <1>5, <2>1, StepOf DEF Decided
  <2>3. r \in told' => r \in told
    BY <1>5, ToldBy
  <2> QED
    BY <1>0, <2>1, <2>2, <2>3, AnswerKept DEF Same, Decided
<1> QED
    BY <1>1, <1>2, <1>3, <1>4, <1>5

\* Who came after somebody was told of an account is somebody with an account.
LEMMA ToldStep ==
    TypeOK /\ AnswerInv /\ ToldInv /\ [Next]_vars => ToldInv'
<1> SUFFICES ASSUME TypeOK, AnswerInv, ToldInv, [Next]_vars, NEW r \in told'
             PROVE  pc'[r] # "new" /\ arg'[r].sub \in LogtoId /\ Linked(arg[r].sub)'
    BY DEF ToldInv
<1>0. r \in Req /\ rows \subseteq rows'
    BY Stable, ToldBy DEF TypeOK
<1>1. CASE r \in told
  <2>1. pc[r] # "new" /\ arg[r].sub \in LogtoId /\ Linked(arg[r].sub)
    BY <1>1 DEF ToldInv
  <2>2. ~Arrival(r)
    BY <1>0, <2>1, ArrivalStarts
  <2>3. pc'[r] # "new" /\ arg'[r] = arg[r]
    BY <1>0, <2>1, <2>2, WorkMoves, LogtoKeeps, StepOf DEF Same
  <2> QED
    BY <1>0, <2>1, <2>3 DEF Linked
<1>2. CASE r \notin told
  <2>1. Arrival(r)
    BY <1>0, <1>2, ToldBy
  <2>2. /\ pc'[r] # "new" /\ arg'[r].sub \in LogtoId
        /\ \E other \in Req : SaysLinked(other, arg'[r].sub)
    BY <1>0, <1>2, <2>1, ArrivalTold
  <2>3. Linked(arg'[r].sub)
    BY <2>2 DEF AnswerInv, AnswerOK, SaysLinked, Decided, Answered
  <2> QED
    BY <1>0, <2>2, <2>3 DEF Linked
<1> QED
    BY <1>1, <1>2

\* Who arrives without a subject asks what needs none, or is refused at once.
LEMMA ArrivalsNeedSubjects ==
    ASSUME TypeOK, NEW r \in Req, Arrival(r)
    PROVE  \/ pc'[r] = "auth"
           \/ arg'[r].body.op \in {"register", "me"}
           \/ pc'[r] = "reply" /\ resp'[r].code = 401
<1> USE DEF TypeOK, Goto, Refuse, Reply, Arrive
<1>1. CASE ArriveRegister(r)
    BY <1>1 DEF ArriveRegister
<1>2. CASE ArriveAnonymous(r)
    BY <1>2 DEF ArriveAnonymous
<1>3. CASE ArriveBearer(r)
    BY <1>3 DEF ArriveBearer
<1> QED
    BY <1>1, <1>2, <1>3 DEF Arrival

\* A token without a subject gets nobody past the middleware.
LEMMA ValidationNeedsSubject ==
    ASSUME TypeOK, NEW r \in Req, Validate(r)
    PROVE  arg[r].sub = None => pc'[r] = "reply" /\ resp'[r].code = 401
<1> QED
    BY ProvisioningAssumption DEF Validate, Refuse, Reply, Goto, TypeOK

\* It stays so: nothing is done for who was refused.
LEMMA SubjectStep == TypeOK /\ SubjectInv /\ [Next]_vars => SubjectInv'
<1> SUFFICES ASSUME TypeOK, SubjectInv, [Next]_vars, NEW r \in Req
             PROVE  SubjectOK(r)'
    BY DEF SubjectInv
<1>0. SubjectOK(r)
    BY DEF SubjectInv
<1>1. CASE Arrival(r)
    BY <1>1, ArrivalsNeedSubjects DEF SubjectOK, Op, Decided
<1>2. CASE Works(r)
  <2>1. CASE Validate(r)
    BY <2>1, ValidationNeedsSubject DEF Validate, SubjectOK, Op, Decided
  <2>2. CASE Answer(r)
    BY <1>0, <2>2 DEF Answer, SubjectOK, Op, Decided, Goto, TypeOK
  <2>3. CASE ~Validate(r) /\ ~Answer(r)
    <3>1. pc[r] # "auth"
        BY <1>2, <2>3 DEF Works, Handle, CheckExists, SendCall, ReceiveCreate,
                          ReceiveUpdate, Timeout, InsertRow, LookupMe, LookupApi
    <3> QED
        BY <1>0, <1>2, <2>3, <3>1, WorkMoves DEF SubjectOK, Op, Decided
  <2> QED
    BY <2>1, <2>2, <2>3
<1>3. CASE Logto(r)
  <2>1. pc' = pc /\ arg' = arg /\ resp' = resp
    BY <1>3 DEF Logto, LogtoCreate, LogtoUpdate, LogtoReject
  <2> QED
    BY <1>0, <2>1 DEF SubjectOK, Op, Decided
<1>4. CASE ~Arrival(r) /\ ~Works(r) /\ ~Logto(r)
    BY <1>0, <1>4, StepOf DEF SubjectOK, Op, Decided, Same, Running
<1> QED
    BY <1>1, <1>2, <1>3, <1>4

-----------------------------------------------------------------------------
(* The lists of the middleware *)

\* What is declared is what is classified.
LEMMA Classes ==
    ASSUME NEW r \in Routes
    PROVE  \/ r.security = Undeclared /\ isPublicPath(r.path)
           \/ /\ r.security = Optional
              /\ ~isPublicPath(r.path) /\ isOptionalPath(r.path)
           \/ /\ r.security = Required
              /\ ~isPublicPath(r.path) /\ ~isOptionalPath(r.path)
<1> USE DEF Route, isPublicPath, isOptionalPath, skipPrefixes, skipExact, optionalExact
<1>1. CASE r \in PlainRoutes
    BY <1>1 DEF PlainRoutes
<1>2. CASE r \in AuthRoutes
    BY <1>2 DEF AuthRoutes
<1>3. CASE r \in ProfileRoutes
    BY <1>3 DEF ProfileRoutes
<1>4. CASE r \in CardBrandRoutes
    BY <1>4 DEF CardBrandRoutes
<1> QED
    BY <1>1, <1>2, <1>3, <1>4 DEF Routes

\* The three kinds of security differ in what they accept.
LEMMA Securities ==
    /\ Undeclared # Optional /\ Undeclared # Required
    /\ {} \in Optional /\ {"bearerAuth"} \in Optional
    /\ {} \notin Required /\ {"bearerAuth"} \in Required
BY DEF Undeclared, Optional, Required

\* A header is answered 401 exactly if it does not meet what the route declares.
LEMMA ListsMatch == ListsMatchDeclarations
<1> SUFFICES ASSUME NEW r \in Routes, NEW header \in Header
             PROVE  LET outcome == Serve(r.method, r.path, header) IN
                    /\ outcome.code = 401 <=> ~Meets(header, r.security)
                    /\ outcome.code = 0 =>
                         (outcome.claims <=>
                            r.security # Undeclared /\ header \notin NoBearer)
    BY DEF ListsMatchDeclarations
<1> USE DEF Header, NoBearer, Outcome, Pass
<1>0. Matches(r.method, r.path)
    BY DEF Matches
<1>1. CASE r.security = Undeclared /\ isPublicPath(r.path)
    BY <1>0, <1>1 DEF Serve, Meets
<1>2. CASE /\ r.security = Optional
           /\ ~isPublicPath(r.path) /\ isOptionalPath(r.path)
  <2>1. Serve(r.method, r.path, header) = Try(header)
    BY <1>0, <1>2 DEF Serve
  <2> QED
    BY <1>2, <2>1, Securities DEF Try, Meets
<1>3. CASE /\ r.security = Required
           /\ ~isPublicPath(r.path) /\ ~isOptionalPath(r.path)
  <2>1. Serve(r.method, r.path, header) = Require(header)
    BY <1>0, <1>3 DEF Serve
  <2> QED
    BY <1>3, <2>1, Securities DEF Require, Meets
<1> QED
    BY <1>1, <1>2, <1>3, Classes

\* The routes the requests of the model come in by.
LEMMA RouteSecurity ==
    /\ RouteOf("register").security = Undeclared
    /\ RouteOf("setup").security = Optional
    /\ RouteOf("me").security = Optional
    /\ RouteOf("api").security = Required
<1> USE DEF Route
<1>1. ASSUME NEW r \in Routes
      PROVE  /\ r.path = <<"/auth/register">> => r.security = Undeclared
             /\ r.path = <<"/profile/setup">> => r.security = Optional
             /\ r.path = <<"/auth/me">> => r.security = Optional
             /\ r.path = <<"/card-brands">> => r.security = Required
  <2>1. CASE r \in PlainRoutes
    BY <2>1 DEF PlainRoutes
  <2>2. CASE r \in AuthRoutes
    BY <2>2 DEF AuthRoutes
  <2>3. CASE r \in ProfileRoutes
    BY <2>3 DEF ProfileRoutes
  <2>4. CASE r \in CardBrandRoutes
    BY <2>4 DEF CardBrandRoutes
  <2> QED
    BY <2>1, <2>2, <2>3, <2>4 DEF Routes
<1>2. /\ Route("POST", <<"/auth/register">>, Undeclared) \in Routes
      /\ Route("PATCH", <<"/profile/setup">>, Optional) \in Routes
      /\ Route("GET", <<"/auth/me">>, Optional) \in Routes
      /\ Route("GET", <<"/card-brands">>, Required) \in Routes
    BY DEF Routes, AuthRoutes, ProfileRoutes, CardBrandRoutes
<1>3. /\ \E r \in Routes : r.path = <<"/auth/register">>
      /\ \E r \in Routes : r.path = <<"/profile/setup">>
      /\ \E r \in Routes : r.path = <<"/auth/me">>
      /\ \E r \in Routes : r.path = <<"/card-brands">>
    BY <1>2
<1> QED
    BY <1>1, <1>3 DEF RouteOf

-----------------------------------------------------------------------------
(* The theorems *)

\* The inductive invariant holds in every reachable state.
THEOREM Invariance == Spec => []IInv
<1>1. IInv /\ [Next]_vars => IInv'
    BY TypeStep, ArgStep, CallStep, RowStep, AnswerStep, ToldStep, SubjectStep
       DEF IInv
<1> QED
    BY <1>1, InitIInv, PTL DEF Spec

\* Every account is that of an identity which Logto confirmed to the request
\* that inserted the row.
THEOREM AccountsAreConfirmed == Spec => []LinksAreConfirmed
<1>1. IInv => LinksAreConfirmed
    BY DEF IInv, RowInv
<1> QED
    BY <1>1, Invariance, PTL

\* The lists of the middleware enforce what the routes declare, and no handler works
\* for a client that does not meet what its route declares.
THEOREM SecurityIsEnforced == Spec => []DocumentedSecurityIsEnforced
<1>1. IInv => DocumentedSecurityIsEnforced
  <2> SUFFICES ASSUME IInv, NEW r \in Req, pc[r] \notin {"new", "auth", "dropped"},
                      ~(Decided(r) /\ resp[r].code = 401)
               PROVE  Meets(IF arg[r].sub = None THEN "absent" ELSE "unlinked",
                            RouteOf(Op(r)).security)
    BY ListsMatch DEF DocumentedSecurityIsEnforced
  <2>1. Op(r) \in Ops
    BY BodyIsTyped DEF IInv, ArgInv, ArgOK, Op
  <2>2. CASE arg[r].sub = None
    <3>1. Op(r) \in {"register", "me"}
        BY <2>2 DEF IInv, SubjectInv, SubjectOK
    <3> QED
        BY <2>2, <3>1, RouteSecurity, Securities DEF Meets, NoBearer
  <2>3. CASE arg[r].sub # None
    BY <2>1, <2>3, RouteSecurity, Securities DEF Meets, Ops
  <2> QED
    BY <2>2, <2>3
<1> QED
    BY <1>1, Invariance, PTL

\* At most one client is told that it created the account of an identity, and
\* the account it was given the id of exists.
THEOREM OneCreatorPerIdentity == Spec => []SuccessIsExclusive
<1>1. IInv => SuccessIsExclusive
  <2> SUFFICES ASSUME IInv, NEW r \in Req, Created(r)
               PROVE  /\ resp[r].id = r
                      /\ [id |-> r, logto |-> Target(r)] \in rows
                      /\ \A other \in Req :
                            Created(other) /\ Target(other) = Target(r)
                                => other = r
      BY DEF SuccessIsExclusive
  <2>1. \A q \in Req : Created(q) =>
            resp[q].id = q /\ [id |-> q, logto |-> Target(q)] \in rows
      BY DEF IInv, AnswerInv, AnswerOK, Created, Decided, Answered
  <2>2. ASSUME NEW other \in Req, Created(other), Target(other) = Target(r)
        PROVE  other = r
    <3>1. [id |-> other, logto |-> Target(other)] = [id |-> r, logto |-> Target(r)]
        BY <2>1, <2>2 DEF IInv, RowInv
    <3> QED
        BY <3>1
  <2> QED
      BY <2>1, <2>2
<1> QED
    BY <1>1, Invariance, PTL

\* A setup refused as already done is that of somebody who has an account.
THEOREM ConflictsAreTrue == Spec => []ConflictMeansLinked
<1>1. IInv => ConflictMeansLinked
  <2> SUFFICES ASSUME IInv, NEW r \in Req, Creates(r), Op(r) = "setup",
                      Answered(r), resp[r].code = 409
               PROVE  Linked(arg[r].sub)
      BY DEF ConflictMeansLinked
  <2>1. arg[r].sub \in LogtoId \cup {EmptySub}
      BY DEF IInv, TypeOK, Arg, Subject, SubjectInv, SubjectOK, Answered
  <2>2. \A l \in LogtoId \cup {EmptySub} : Affirms(r, l) => Linked(l)
      BY DEF IInv, AnswerInv, AnswerOK, Decided, Answered
  <2> QED
      BY <2>1, <2>2 DEF Affirms, Linked
<1> QED
    BY <1>1, Invariance, PTL

\* Who inserted a row is told so, or met a fault.
OwnersHeard == \A row \in rows : resp[row.id].code \in {200, 500}

LEMMA OwnersStep ==
    TypeOK /\ CallInv /\ RowInv /\ OwnersHeard /\ [Next]_vars => OwnersHeard'
<1> SUFFICES ASSUME TypeOK, CallInv, RowInv, OwnersHeard, [Next]_vars
             PROVE  OwnersHeard'
    OBVIOUS
<1>1. ASSUME NEW row \in rows PROVE resp'[row.id].code \in {200, 500}
  <2>1. row.id \in Req /\ Settled(row.id) /\ Confirmed(row.id)
    BY DEF RowInv, LinksAreConfirmed, TypeOK, Row, Confirmed, Settled
  <2> QED
    BY <2>1, OwnerSame DEF OwnersHeard
<1>2. CASE rows' = rows
    BY <1>1, <1>2 DEF OwnersHeard
<1>3. CASE rows' # rows
  <2>1. PICK r \in Req : /\ InsertRow(r)
                         /\ rows' = rows \cup {[id |-> r, logto |-> Target(r)]}
    BY <1>3, RowsGrow
  <2>2. resp'[r].code \in {200, 500}
    <3>1. Reply(r, 200, r, FALSE) \/ Fail(r)
        BY <1>3, <2>1 DEF InsertRow
    <3> QED
        BY <3>1 DEF Fail, Refuse, Reply, TypeOK
  <2>3. \A row \in rows' : row \in rows \/ row.id = r
    BY <2>1
  <2> QED
    BY <1>1, <2>2, <2>3 DEF OwnersHeard
<1> QED
    BY <1>2, <1>3

\* A setup is refused with 409 only because some other request gave its person an
\* account: at its first check, or, after it updated the identity, between that check
\* and its INSERT.  ConflictHasNoEffect, which a run refutes, fails in no other way
\* than by losing this race.
ConflictIsALostRace ==
    \A r \in Req :
        Creates(r) /\ Op(r) = "setup" /\ Answered(r) /\ resp[r].code = 409 =>
            \E other \in Req \ {r} : [id |-> other, logto |-> arg[r].sub] \in rows

THEOREM ConflictsAreLostRaces == Spec => []ConflictIsALostRace
<1>1. IInv /\ ConflictMeansLinked /\ OwnersHeard => ConflictIsALostRace
  <2> SUFFICES ASSUME IInv, ConflictMeansLinked, OwnersHeard, NEW r \in Req,
                      Creates(r), Op(r) = "setup", Answered(r), resp[r].code = 409
               PROVE  \E other \in Req \ {r} :
                         [id |-> other, logto |-> arg[r].sub] \in rows
    BY DEF ConflictIsALostRace
  <2>1. PICK row \in rows : row.logto = arg[r].sub
    BY DEF ConflictMeansLinked, Linked
  <2>2. row.id \in Req /\ row = [id |-> row.id, logto |-> row.logto]
    BY DEF IInv, TypeOK, Row
  <2>3. row.id # r
    BY DEF OwnersHeard
  <2> QED
    BY <2>1, <2>2, <2>3
<1>2. Init => OwnersHeard
    BY DEF Init, OwnersHeard
<1>3. IInv => TypeOK /\ CallInv /\ RowInv
    BY DEF IInv
<1> QED
    BY <1>1, <1>2, <1>3, OwnersStep, Invariance, ConflictsAreTrue, PTL DEF Spec

\* Without a fault nobody is left with an identity and no account.
THEOREM NoOrphans == Spec => []NoOrphanWithoutFault
<1>1. IInv => NoOrphanWithoutFault
    BY DEF IInv, AnswerInv, AnswerOK, NoOrphanWithoutFault, Confirmed, Decided, Answered
<1> QED
    BY <1>1, Invariance, PTL

\* Who asks after somebody was told of the account is not sent back to profile setup.
THEOREM NobodyIsSentBack == Spec => []NeverSentBack
<1>1. IInv => NeverSentBack
    BY DEF IInv, TypeOK, AnswerInv, AnswerOK, NeverSentBack, Decided, Answered
<1> QED
    BY <1>1, Invariance, PTL

-----------------------------------------------------------------------------
(* Provisioning implements AccountLink *)

\* Who was told that it created an account stays told.
LEMMA CreatedStays ==
    ASSUME IInv, [Next]_vars, NEW r \in Req, Created(r)
    PROVE  Created(r)'
<1>1. [id |-> r, logto |-> Target(r)] \in rows
    BY DEF IInv, AnswerInv, AnswerOK, Created, Decided, Answered
<1>2. Confirmed(r) /\ Settled(r)
    BY <1>1 DEF IInv, RowInv, LinksAreConfirmed, Confirmed, Settled
<1>3. arg'[r] = arg[r] /\ resp'[r] = resp[r] /\ Answered(r)'
    BY <1>2, OwnerSame DEF IInv, Created
<1> QED
    BY <1>3 DEF Created, Creates, Op, Answered

\* Only an answer tells.
LEMMA CreatedByAnswer ==
    ASSUME IInv, [Next]_vars, NEW r \in Req, Created(r)', ~Created(r)
    PROVE  Answer(r)
<1> SUFFICES ASSUME ~Answer(r) PROVE FALSE
    OBVIOUS
<1>0. TypeOK /\ pc'[r] = "answered"
    BY DEF IInv, Created, Answered
<1>1. ~Arrival(r) /\ ~Works(r)
    BY <1>0, ArrivalStarts, WorkMoves
<1>2. pc'[r] = pc[r] /\ arg'[r] = arg[r] /\ resp'[r] = resp[r]
    BY <1>0, <1>1, LogtoKeeps, StepOf DEF Same
<1> QED
    BY <1>2 DEF Created, Creates, Answered, Op

\* Without an answer nobody is told anything new.
LEMMA AckedSame ==
    ASSUME IInv, [Next]_vars, \A r \in Req : ~(Answer(r) /\ Created(r)')
    PROVE  AccountAcked' = AccountAcked
<1>1. \A r \in Req : Created(r)' <=> Created(r)
  <2> SUFFICES ASSUME NEW r \in Req PROVE Created(r)' <=> Created(r)
    OBVIOUS
  <2> QED
    BY CreatedStays, CreatedByAnswer
<1> QED
    BY <1>1 DEF AccountAcked

\* A row that is the only one of its identity is the one chosen.
LEMMA ChosenRow ==
    ASSUME NEW R, NEW row \in R,
           \A other \in R : other.logto = row.logto => other = row
    PROVE  (CHOOSE other \in R : other.logto = row.logto) = row
<1> QED
    OBVIOUS

\* The account of an identity is that of its row.
LEMMA OwnerIsCreator ==
    ASSUME IInv, NEW row \in rows
    PROVE  row.logto \in LogtoId /\ row.id \in Req /\ AccountCreator[row.logto] = row.id
<1>1. row.logto \in LogtoId /\ row.id \in Req
    BY DEF IInv, TypeOK, Row
<1>2. \A other \in rows : other.logto = row.logto => other = row
    BY DEF IInv, RowInv
<1>3. (CHOOSE other \in rows : other.logto = row.logto) = row
    BY <1>2, ChosenRow
<1>4. Linked(row.logto)
    BY DEF Linked
<1> QED
    BY <1>1, <1>3, <1>4 DEF AccountCreator, RowOwner

\* So it is in the next state.
LEMMA OwnerWillBeCreator ==
    ASSUME IInv', NEW row \in rows'
    PROVE  row.logto \in LogtoId /\ row.id \in Req /\ AccountCreator'[row.logto] = row.id
<1>1. row.logto \in LogtoId /\ row.id \in Req
    BY DEF IInv, TypeOK, Row
<1>2. \A other \in rows' : other.logto = row.logto => other = row
    BY DEF IInv, RowInv
<1>3. (CHOOSE other \in rows' : other.logto = row.logto) = row
    BY <1>2, ChosenRow
<1>4. Linked(row.logto)'
    BY DEF Linked
<1> QED
    BY <1>1, <1>3, <1>4 DEF AccountCreator, RowOwner

\* Without a new row no account has another creator.
LEMMA CreatorSame ==
    ASSUME rows' = rows
    PROVE  AccountCreator' = AccountCreator
<1> QED
    BY DEF AccountCreator, RowOwner, Linked

\* An identity that Logto did not know becomes an account-less one.
LEMMA AppearStep ==
    ASSUME rows' = rows, AccountAcked' = AccountAcked,
           NEW l \in LogtoId, ~Known(l), Known(l)',
           \A m \in LogtoId \ {l} : Known(m)' <=> Known(m)
    PROVE  Account!Appear(l)
<1>1. AccountKnown' = AccountKnown \cup {l} /\ l \notin AccountKnown
    BY DEF AccountKnown
<1> QED
    BY <1>1, CreatorSame DEF Account!Appear

\* The insert of a row links the identity to the request that inserts it.
LEMMA LinkStep ==
    ASSUME IInv, [Next]_vars, NEW r \in Req, InsertRow(r), ~Linked(Target(r)),
           rows' = rows \cup {[id |-> r, logto |-> Target(r)]}, IInv'
    PROVE  Account!Link(Target(r), r)
<1> DEFINE l == Target(r)
           new == [id |-> r, logto |-> l]
<1>1. l \in LogtoId /\ Known(l)
    BY InsertTarget DEF InsertRow, IInv
<1>2. \A m \in LogtoId : Known(m)' <=> Known(m)
    BY DEF InsertRow, Known
<1>3. new \in rows' /\ new.logto = l /\ new.id = r
    OBVIOUS
<1>4. AccountCreator'[l] = r
    BY <1>3, OwnerWillBeCreator
<1> HIDE DEF new
<1>5. ASSUME NEW m \in LogtoId, m # l PROVE AccountCreator'[m] = AccountCreator[m]
  <2>1. \A row \in rows' : row.logto = m <=> row \in rows /\ row.logto = m
    BY <1>3, <1>5 DEF new
  <2>2. CASE \E row \in rows : row.logto = m
    <3>1. PICK row \in rows : row.logto = m
        BY <2>2
    <3>2. row \in rows'
        OBVIOUS
    <3> QED
        BY <3>1, <3>2, OwnerIsCreator, OwnerWillBeCreator
  <2>3. CASE ~\E row \in rows : row.logto = m
    <3>1. ~Linked(m) /\ ~Linked(m)'
        BY <2>1, <2>3 DEF Linked
    <3> QED
        BY <3>1 DEF AccountCreator
  <2> QED
    BY <2>2, <2>3
<1>6. AccountCreator' = [AccountCreator EXCEPT ![l] = r]
    BY <1>4, <1>5 DEF AccountCreator
<1>7. AccountCreator[l] = None
    BY <1>1 DEF AccountCreator
<1>8. ASSUME NEW m \in LogtoId PROVE AccountCreator[m] # r
  <2>1. CASE Linked(m)
    <3>1. PICK row \in rows : row.logto = m
        BY <2>1 DEF Linked
    <3>2. row.id # r
        BY DEF IInv, RowInv, InsertRow
    <3> QED
        BY <3>1, <3>2, OwnerIsCreator
  <2>2. CASE ~Linked(m)
    BY <2>2, ProvisioningAssumption DEF AccountCreator
  <2> QED
    BY <2>1, <2>2
<1>9. AccountAcked' = AccountAcked
  <2>1. \A q \in Req : ~Answer(q)
    <3>1. [id |-> r, logto |-> Target(r)] \notin rows
        BY DEF Linked
    <3> QED
        BY <3>1 DEF Answer
  <2> QED
    BY <2>1, AckedSame
<1>10. AccountKnown' = AccountKnown
    BY <1>2 DEF AccountKnown
<1>11. l \in AccountKnown
    BY <1>1 DEF AccountKnown
<1> QED
    BY <1>6, <1>7, <1>8, <1>9, <1>10, <1>11 DEF Account!Link

\* The answer to a client whose request created the account acknowledges it.
LEMMA AckStep ==
    ASSUME IInv, [Next]_vars, NEW r \in Req, Answer(r), Created(r)'
    PROVE  \E l \in LogtoId : Account!Ack(l)
<1> DEFINE l == Target(r)
<1>1. Creates(r) /\ Decided(r) /\ resp[r].code = 200
    BY DEF Answer, Created, Creates, Decided, Op
<1>2. [id |-> r, logto |-> l] \in rows
    BY <1>1 DEF IInv, AnswerInv, AnswerOK
<1>3. l \in LogtoId /\ AccountCreator[l] = r
    BY <1>2, OwnerIsCreator
<1>4. AccountCreator' = AccountCreator /\ AccountKnown' = AccountKnown
  <2>1. rows' = rows /\ identity' = identity
    BY DEF Answer
  <2> QED
    BY <2>1, CreatorSame DEF AccountKnown, Known
<1>5. ASSUME NEW q \in Req, q # r PROVE Created(q)' <=> Created(q)
  <2>1. Same(q)
    BY <1>5, OthersSame DEF Works, Handle, IInv
  <2> QED
    BY <2>1 DEF Same, Created, Creates, Answered, Op
<1>6. AccountAcked' = AccountAcked \cup {r}
    BY <1>5 DEF AccountAcked
<1>7. AccountCreator[l] # None
    BY <1>3, ProvisioningAssumption
<1> QED
    BY <1>3, <1>4, <1>6, <1>7 DEF Account!Ack

\* An update by Logto changes nothing that the abstraction sees.
LEMMA UpdateKeepsKnown ==
    ASSUME TypeOK, NEW r \in Req, LogtoUpdate(r)
    PROVE  \A l \in LogtoId : Known(l)' <=> Known(l)
<1> SUFFICES ASSUME NEW l \in LogtoId
             PROVE  identity'[l].state = identity[l].state
    BY DEF Known
<1>1. identity[l] \in Identity
    BY DEF TypeOK
<1> QED
    BY <1>1 DEF LogtoUpdate, TypeOK, Identity

\* Every step of provisioning is a step of the abstract account, or none.
LEMMA AccountStep ==
    IInv /\ IInv' /\ [Next]_vars
        => [Account!Next]_<<AccountKnown, AccountCreator, AccountAcked>>
<1> SUFFICES ASSUME IInv, IInv', [Next]_vars
             PROVE  \/ \E l \in LogtoId : \/ Account!Appear(l)
                                         \/ \E c \in Req : Account!Link(l, c)
                                         \/ Account!Ack(l)
                    \/ UNCHANGED <<AccountKnown, AccountCreator, AccountAcked>>
    BY DEF Account!Next
<1>0. TypeOK
    BY DEF IInv
<1>1. CASE rows' # rows
  <2>1. PICK r \in Req : /\ InsertRow(r)
                         /\ ~Linked(Target(r))
                         /\ rows' = rows \cup {[id |-> r, logto |-> Target(r)]}
    BY <1>0, <1>1, RowsGrow
  <2>2. Target(r) \in LogtoId
    BY <2>1, InsertTarget DEF InsertRow, IInv
  <2> QED
    BY <2>1, <2>2, LinkStep
<1>2. CASE \E r \in Req : Answer(r) /\ Created(r)'
    BY <1>2, AckStep
<1>3. CASE rows' = rows /\ \A r \in Req : ~(Answer(r) /\ Created(r)')
  <2>1. AccountCreator' = AccountCreator
    BY <1>3, CreatorSame
  <2>2. AccountAcked' = AccountAcked
    BY <1>3, AckedSame
  <2>3. CASE \A l \in LogtoId : Known(l)' <=> Known(l)
    BY <2>1, <2>2, <2>3 DEF AccountKnown
  <2>4. ASSUME NEW l \in LogtoId, identity' = [identity EXCEPT ![l] = identity'[l]],
               ~Known(l), identity'[l].state = "live"
        PROVE  Account!Appear(l)
    <3>1. \A m \in LogtoId \ {l} : Known(m)' <=> Known(m)
        BY <1>0, <2>4 DEF Known, TypeOK
    <3>2. Known(l)'
        BY <2>4 DEF Known
    <3> QED
        BY <1>3, <2>2, <2>4, <3>1, <3>2, AppearStep
  <2>5. CASE \E r \in Req : LogtoCreate(r)
    <3>1. PICK r \in Req : LogtoCreate(r)
        BY <2>5
    <3>2. \/ identity' = identity
          \/ \E l \in LogtoId :
                /\ identity' = [identity EXCEPT ![l] = identity'[l]]
                /\ ~Known(l) /\ identity'[l].state = "live"
        BY <1>0, <3>1 DEF LogtoCreate, TypeOK
    <3> QED
        BY <2>3, <2>4, <3>2 DEF Known
  <2>6. CASE \E l \in LogtoId : LogtoSignUp(l)
    <3>1. PICK l \in LogtoId : LogtoSignUp(l)
        BY <2>6
    <3>2. /\ identity' = [identity EXCEPT ![l] = identity'[l]]
          /\ ~Known(l) /\ identity'[l].state = "live"
        BY <1>0, <3>1 DEF LogtoSignUp, TypeOK, Absent
    <3> QED
        BY <2>4, <3>2
  <2>7. CASE \E l \in LogtoId : LogtoDelete(l)
    <3>1. PICK l \in LogtoId : LogtoDelete(l)
        BY <2>7
    <3>2. ASSUME NEW m \in LogtoId PROVE Known(m)' <=> Known(m)
      <4>1. identity[l] \in Identity
        BY <1>0 DEF TypeOK
      <4> QED
        BY <1>0, <3>1, <4>1 DEF LogtoDelete, Live, Known, TypeOK, Identity
    <3> QED
        BY <2>3, <3>2
  <2>8. CASE \E r \in Req : LogtoUpdate(r)
    BY <1>0, <2>3, <2>8, UpdateKeepsKnown
  <2>9. CASE identity' = identity
    BY <2>3, <2>9 DEF Known
  <2>10. \/ identity' = identity
         \/ \E r \in Req : LogtoCreate(r) \/ LogtoUpdate(r)
         \/ \E l \in LogtoId : LogtoSignUp(l) \/ LogtoDelete(l)
    <3>1. \A r \in Req : Arrival(r) \/ Works(r) => identity' = identity
        BY <1>0, ArrivalStarts, WorkMoves
    <3>2. \A r \in Req : LogtoReject(r) => identity' = identity
        BY DEF LogtoReject
    <3>3. Crash \/ UNCHANGED vars => identity' = identity
        BY DEF Crash, vars
    <3> QED
        BY <3>1, <3>2, <3>3 DEF Next, Logto, Works
  <2> QED
    BY <2>5, <2>6, <2>7, <2>8, <2>9, <2>10
<1> QED
    BY <1>1, <1>2, <1>3

\* Registration and setup, however they interleave, crash or lose answers,
\* implement the abstract life of an account: known, then linked once, and only the
\* client whose request did so is told.
THEOREM ImplementsAccount == Spec => AccountSpec
<1>1. Init => Account!Init
    BY DEF Init, Account!Init, AccountKnown, AccountCreator, AccountAcked, Linked, Known, Absent,
           Created, Creates
<1> QED
    BY <1>1, AccountStep, Invariance, PTL DEF Spec, AccountSpec, Account!Spec
=============================================================================

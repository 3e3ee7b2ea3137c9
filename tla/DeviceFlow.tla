------------------------------- MODULE DeviceFlow -------------------------------
(***************************************************************************)
(* A device logs in: it asks for a device code, polls until its user has   *)
(* approved or refused, refreshes its tokens, revokes them.  The service   *)
(* keeps no state of its own: each endpoint passes one call to Logto and   *)
(* turns the outcome into an HTTP status.  What can go wrong lies between  *)
(* the three: Logto rotates refresh tokens and honours a code once, while  *)
(* the device only knows the answers that reached it.                      *)
(*                                                                         *)
(* Device and Logto are external.  The device does what the comments on    *)
(* the endpoints ask of their callers.  Logins share nothing: one will do. *)
(***************************************************************************)
EXTENDS Integers, FiniteSets

CONSTANTS
    Request,  \* HTTP requests under way in the service, each used repeatedly
    MaxGen    \* bound on the refresh tokens of the login

ASSUME DeviceAssumption == MaxGen \in Nat \ {0}

VARIABLES
    configured,  \* DeviceAppClientID is set
    stage,       \* the login, as Logto has it
    gen,         \* the refresh token Logto honours: tokens are numbered from 1
    view,        \* what the device does about it
    known,       \* the refresh token the device has stored, 0 if none
    told,        \* the definite answers the device has been given
    lost,        \* whether an answer was lost or a call timed out
    pc,          \* where each request is
    req,         \* its kind and argument
    reply        \* what Logto has answered

device == <<view, known, told, lost>>
logto == <<stage, gen>>
service == <<pc, req, reply>>
vars == <<configured, device, logto, service>>

Kind == {"start", "poll", "refresh", "revoke"}

\* An argument is 0 if blank; for start and poll anything else is 1.
Req == [kind : Kind, arg : 0..MaxGen]

NoReq == [kind |-> "start", arg |-> 0]

\* The error codes the service tells apart; "error" is any other outcome.
Result == {"ok", "authorization_pending", "slow_down", "expired_token",
           "access_denied", "invalid_grant", "error"}

Reply == [result : Result, token : 0..MaxGen]

Failure(result) == [result |-> result, token |-> 0]

TypeOK ==
    /\ configured \in BOOLEAN
    /\ stage \in {"none", "pending", "approved", "denied", "expired", "active", "over"}
    /\ gen \in 0..MaxGen
    /\ view \in {"none", "polling", "done"}
    /\ known \in 0..MaxGen
    /\ told \subseteq {"tokens", "expired", "denied", "refused", "revoked"}
    /\ lost \in BOOLEAN
    /\ pc \in [Request -> {"free", "received", "calling", "served", "stray"}]
    /\ req \in [Request -> Req]
    /\ reply \in [Request -> Reply]

Init ==
    /\ configured \in BOOLEAN
    /\ stage = "none" /\ gen = 0
    /\ view = "none" /\ known = 0 /\ told = {} /\ lost = FALSE
    /\ pc = [q \in Request |-> "free"]
    /\ req = [q \in Request |-> NoReq]
    /\ reply = [q \in Request |-> Failure("error")]

-----------------------------------------------------------------------------
(* The device *)

Awaited(q) == pc[q] \in {"received", "calling", "served"}

\* A device has one request at a time, unless it has given up on one.
Quiet == \A q \in Request : ~Awaited(q)

\* What a device may ask for: it polls until it is told something definite.
Sendable ==
    {r \in Req :
       CASE r.kind = "start" -> r.arg \in {0, 1} /\ view = "none"
         [] r.kind = "poll" -> IF view = "polling" THEN r.arg = 1
                               ELSE r.arg = 0 /\ view = "none"
         [] OTHER -> r.arg = known /\ view = "done"}

Send(q, r) ==
    /\ pc[q] = "free" /\ Quiet /\ r \in Sendable
    /\ req' = [req EXCEPT ![q] = r]
    /\ pc' = [pc EXCEPT ![q] = "received"]
    /\ UNCHANGED <<configured, device, logto, reply>>

-----------------------------------------------------------------------------
(* The service *)

Free(q) ==
    /\ pc' = [pc EXCEPT ![q] = "free"]
    /\ req' = [req EXCEPT ![q] = NoReq]
    /\ reply' = [reply EXCEPT ![q] = Failure("error")]

\* Mutant: invalid_grant is an expired code, as it is for a refresh.
PollStatusLenient(result) ==
    CASE result = "ok" -> 200
      [] result \in {"authorization_pending", "slow_down"} -> 401
      [] result \in {"expired_token", "invalid_grant"} -> 400
      [] result = "access_denied" -> 403
      [] OTHER -> 500

\* Mutant: every error of the device grant is a reason to poll on.
PollStatusPending(result) ==
    CASE result = "ok" -> 200
      [] result \in {"authorization_pending", "slow_down", "expired_token"} -> 401
      [] result = "access_denied" -> 403
      [] OTHER -> 500

PollStatus(result) ==
    CASE result = "ok" -> 200
      [] result \in {"authorization_pending", "slow_down"} -> 401
      [] result = "expired_token" -> 400
      [] result = "access_denied" -> 403
      [] OTHER -> 500

RefreshStatus(result) ==
    CASE result = "ok" -> 200
      [] result = "invalid_grant" -> 400
      [] OTHER -> 500

\* Start and revoke know success and failure.
PlainStatus(result) == IF result = "ok" THEN 200 ELSE 500

\* A request without its argument is answered 422, one to a service without
\* client id 500; either way Logto hears nothing of it.
Handle(q) ==
    /\ pc[q] = "received"
    /\ IF req[q].arg = 0 \/ ~configured
       THEN /\ Free(q)
            /\ view' = IF req[q].arg # 0 THEN "done" ELSE view
            /\ UNCHANGED <<known, told, lost>>
       ELSE /\ pc' = [pc EXCEPT ![q] = "calling"]
            /\ UNCHANGED <<device, req, reply>>
    /\ UNCHANGED <<configured, logto>>

AnswerStart(q) ==
    /\ view' = IF PlainStatus(reply[q].result) = 200 THEN "polling" ELSE "done"
    /\ UNCHANGED <<known, told>>

AnswerPoll(q) ==
    LET status == PollStatus(reply[q].result) IN
    /\ view' = IF status = 401 THEN view ELSE "done"
    /\ known' = IF status = 200 THEN reply[q].token ELSE known
    /\ told' = told \cup (CASE status = 200 -> {"tokens"}
                            [] status = 400 -> {"expired"}
                            [] status = 403 -> {"denied"}
                            [] OTHER -> {})

\* Mutant: the response repeats the token of the request.
AnswerRefreshStale(q) ==
    LET status == RefreshStatus(reply[q].result) IN
    /\ known' = CASE status = 200 -> req[q].arg
                  [] status = 400 -> 0
                  [] OTHER -> known
    /\ told' = IF status = 400 THEN told \cup {"refused"} ELSE told
    /\ UNCHANGED view

AnswerRefresh(q) ==
    LET status == RefreshStatus(reply[q].result) IN
    /\ known' = CASE status = 200 -> reply[q].token
                  [] status = 400 -> 0
                  [] OTHER -> known
    /\ told' = IF status = 400 THEN told \cup {"refused"} ELSE told
    /\ UNCHANGED view

AnswerRevoke(q) ==
    /\ IF PlainStatus(reply[q].result) = 200
       THEN known' = 0 /\ told' = told \cup {"revoked"}
       ELSE UNCHANGED <<known, told>>
    /\ UNCHANGED view

\* The answer reaches the device.
Answer(q) ==
    /\ pc[q] = "served"
    /\ \/ req[q].kind = "start" /\ AnswerStart(q)
       \/ req[q].kind = "poll" /\ AnswerPoll(q)
       \/ req[q].kind = "refresh" /\ AnswerRefresh(q)
       \/ req[q].kind = "revoke" /\ AnswerRevoke(q)
    /\ Free(q)
    /\ UNCHANGED <<configured, logto, lost>>

\* The call to Logto times out and is answered 500, or the device stops waiting.
\* Logto may serve the call all the same.  A device without an answer may go on;
\* to start again is another login.
GiveUp(q) ==
    /\ pc[q] \in {"calling", "served"}
    /\ lost' = TRUE
    /\ view' \in IF req[q].kind = "start" THEN {"done"} ELSE {view, "done"}
    /\ IF pc[q] = "calling"
       THEN pc' = [pc EXCEPT ![q] = "stray"] /\ UNCHANGED <<req, reply>>
       ELSE Free(q)
    /\ UNCHANGED <<configured, logto, known, told>>

-----------------------------------------------------------------------------
(* Logto *)

ServeStart(answer) ==
    /\ stage = "none" /\ stage' = "pending"
    /\ answer = Failure("ok")
    /\ UNCHANGED gen

\* A device code is exchanged for tokens once.
ServePoll(answer) ==
    \/ /\ stage = "approved"
       /\ stage' = "active" /\ gen' = 1
       /\ answer = [result |-> "ok", token |-> 1]
    \/ /\ stage # "approved"
       /\ answer.token = 0
       /\ CASE stage = "pending" -> answer.result \in {"authorization_pending", "slow_down"}
            [] stage = "denied" -> answer.result = "access_denied"
            [] stage = "expired" -> answer.result = "expired_token"
            [] OTHER -> answer.result = "invalid_grant"
       /\ UNCHANGED logto

\* A refresh token is good once.  When it sees one again, Logto may end the login.
ServeRefresh(token, answer) ==
    \/ /\ stage = "active" /\ token = gen /\ gen < MaxGen
       /\ gen' = gen + 1
       /\ answer = [result |-> "ok", token |-> gen + 1]
       /\ UNCHANGED stage
    \/ /\ stage = "over" \/ token # gen
       /\ stage' \in {stage, "over"}
       /\ answer = Failure("invalid_grant")
       /\ UNCHANGED gen

\* To revoke a token that is no longer good is no error.
ServeRevoke(token, answer) ==
    /\ answer = Failure("ok")
    /\ stage' \in IF token = gen THEN {"over"} ELSE {stage, "over"}
    /\ UNCHANGED gen

Serve(q) ==
    /\ pc[q] \in {"calling", "stray"}
    /\ \E answer \in Reply :
         /\ \/ req[q].kind = "start" /\ ServeStart(answer)
            \/ req[q].kind = "poll" /\ ServePoll(answer)
            \/ req[q].kind = "refresh" /\ ServeRefresh(req[q].arg, answer)
            \/ req[q].kind = "revoke" /\ ServeRevoke(req[q].arg, answer)
            \/ answer = Failure("error") /\ UNCHANGED logto
         /\ IF pc[q] = "calling"
            THEN /\ pc' = [pc EXCEPT ![q] = "served"]
                 /\ reply' = [reply EXCEPT ![q] = answer]
                 /\ UNCHANGED req
            ELSE Free(q)
    /\ UNCHANGED <<configured, device>>

\* The user approves or denies; a code expires; a session ends.
Decide ==
    /\ stage = "pending" /\ stage' \in {"approved", "denied"}
    /\ UNCHANGED <<configured, device, gen, service>>

Expire ==
    /\ stage \in {"pending", "approved"} /\ stage' = "expired"
    /\ UNCHANGED <<configured, device, gen, service>>

EndSession ==
    /\ stage = "active" /\ stage' = "over"
    /\ UNCHANGED <<configured, device, gen, service>>

-----------------------------------------------------------------------------

Next ==
    \/ \E q \in Request : (\E r \in Req : Send(q, r)) \/ Handle(q) \/ Answer(q)
                          \/ GiveUp(q) \/ Serve(q)
    \/ Decide \/ Expire \/ EndSession

Spec == Init /\ [][Next]_vars

\* The service answers, the device polls on, codes expire; a call that is
\* made again and again gets through once.
Fairness ==
    /\ WF_vars(\E q \in Request, r \in Req : r.kind = "poll" /\ Send(q, r))
    /\ \A q \in Request :
         /\ WF_vars(Handle(q))
         /\ SF_vars(pc[q] = "calling" /\ Serve(q))
         /\ SF_vars(Answer(q))
         /\ WF_vars(Serve(q))
    /\ WF_vars(Expire)

FairSpec == Spec /\ Fairness

-----------------------------------------------------------------------------
(* Properties *)

\* A definite answer is the truth and stays it: who is told that the code has
\* expired or was denied will not find later that tokens had been issued, also
\* when polls that were given up are served late.  A refused refresh or a
\* revocation means that the login is over, if no answer was ever lost.
DefiniteAnswersAreTrue ==
    /\ "tokens" \in told => stage \in {"active", "over"}
    /\ "expired" \in told => stage = "expired"
    /\ "denied" \in told => stage = "denied"
    /\ told \cap {"refused", "revoked"} # {} => stage = "over" \/ lost

\* "Callers MUST store the returned refresh_token": a device that does, and
\* loses no answer, holds between requests the token Logto will honour next.
StoredTokenIsGood ==
    stage = "active" /\ ~lost /\ Quiet => known = gen

\* A device does not poll for ever: its user decides, or the code expires, and an
\* answer that says so, or a failure, reaches it.
PollingEnds == (view = "polling") ~> (view = "done")

-----------------------------------------------------------------------------
(* The inductive invariant *)

LoggedIn == stage \in {"active", "over"}

\* Refresh tokens exist from the exchange on; nobody knows a later one.
TokenInv ==
    /\ LoggedIn <=> gen > 0
    /\ known <= gen
    /\ \A q \in Request :
          /\ req[q].kind \in {"refresh", "revoke"} => req[q].arg <= gen
          /\ pc[q] \notin {"free", "received"} => req[q].arg > 0

Answered(q, kind, result) ==
    pc[q] = "served" /\ req[q].kind = kind /\ reply[q].result = result

\* What an answer on its way says of the login is true and stays so.
ReplyInv ==
    \A q \in Request :
        /\ Answered(q, "poll", "ok") => LoggedIn /\ reply[q].token = 1
        /\ Answered(q, "poll", "expired_token") => stage = "expired"
        /\ Answered(q, "poll", "access_denied") => stage = "denied"
        /\ Answered(q, "refresh", "ok") =>
              LoggedIn /\ reply[q].token \in 1..gen
        /\ Answered(q, "refresh", "invalid_grant") \/ Answered(q, "revoke", "ok") =>
              stage = "over" \/ lost

\* A device awaits one answer, to a question that fits what it does.
AwaitInv ==
    /\ \A p, q \in Request : Awaited(p) /\ Awaited(q) => p = q
    /\ \A q \in Request : Awaited(q) =>
          \/ req[q].kind = "start" /\ view = "none"
          \/ req[q].kind = "poll" /\ view = "polling"
          \/ req[q].kind = "poll" /\ view = "none" /\ pc[q] = "received"
             /\ req[q].arg = 0
          \/ req[q].kind \in {"refresh", "revoke"} /\ view = "done"
             /\ req[q].arg = known

\* As long as no answer was lost, device and Logto take turns.
TurnInv ==
    ~lost =>
        /\ \A q \in Request : pc[q] # "stray"
        /\ StoredTokenIsGood
        /\ \A q \in Request : Awaited(q) /\ stage = "active" =>
              \/ /\ req[q].kind \in {"refresh", "revoke"} /\ known = gen
                 /\ ~Answered(q, "refresh", "ok")
              \/ Answered(q, "refresh", "ok") /\ reply[q].token = gen
              \/ Answered(q, "poll", "ok") /\ gen = 1

\* A device polls after it has a code, and before it has tokens.
ViewInv ==
    /\ view # "done" => known = 0
    /\ view = "none" => ~LoggedIn
    /\ \A q \in Request :
          req[q].kind = "poll" /\ pc[q] \notin {"free", "received"} => view # "none"

IInv ==
    /\ TypeOK /\ TokenInv /\ ReplyInv /\ AwaitInv /\ TurnInv /\ ViewInv
    /\ DefiniteAnswersAreTrue
=============================================================================

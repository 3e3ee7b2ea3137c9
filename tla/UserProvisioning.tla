--------------------------- MODULE UserProvisioning ---------------------------
(***************************************************************************)
(* How a Finsplitter account comes to exist.  A person is an identity in   *)
(* Logto (the identity provider) and, once registered, one row of the      *)
(* Postgres table "user" that holds the identity's id.  Two handlers write *)
(* both stores without a common transaction:                               *)
(*   POST  /auth/register   creates the identity, then the row;            *)
(*   PATCH /profile/setup   checks the row, updates the identity, then     *)
(*                          creates the row.                               *)
(* GET /auth/me and every route behind requireAuth read the row.  What a   *)
(* handler has read or written and what its client is told are steps of    *)
(* their own: another request may come between them.                       *)
(*                                                                         *)
(* Logto is external: it is modelled from the statuses the client handles. *)
(* A call to it is a message: Logto may serve it after the caller gave up, *)
(* or never.  POST and PATCH are sent once (the HTTP client does not       *)
(* repeat methods that are not idempotent).                                *)
(***************************************************************************)
EXTENDS Routes

CONSTANTS
    Req,         \* HTTP requests; each is handled once
    LogtoId,     \* identifiers Logto can assign to identities
    Email, Username, Name,
    NoUsername,  \* the empty username: the field is omitted
    Slug,        \* slugify: the username derived from a display name
    Body,        \* request bodies clients send; the name None is empty
    EmptySub,    \* a token whose subject is the empty string
    None,
    MaxCrashes   \* bound on process crashes

Ops == {"register", "setup", "me", "api"}

BodyType == [op : Ops, username : Username \cup {NoUsername},
             name : Name \cup {None}, email : Email]

ASSUME ProvisioningAssumption ==
    /\ MaxCrashes \in Nat
    /\ Body \subseteq BodyType
    /\ Slug \in [Name \cup {None} -> Username \cup {NoUsername}]
    /\ {EmptySub, None} \cap LogtoId = {}
    /\ None \notin Name \cup Email \cup Req \cup {EmptySub}
    /\ NoUsername \notin Username

VARIABLES
    identity,  \* Logto: what is stored for each identity
    rows,      \* Postgres: the table "user"
    pc,        \* where the handler of each request is
    arg,       \* body of each request, and the subject of its token
    call,      \* the request's Management API call and Logto's reply
    resp,      \* the answer to the client
    told,      \* history: the requests made after it was said that their account exists
    faulty,    \* history: the requests that met a fault
    crashes

vars == <<identity, rows, pc, arg, call, resp, told, faulty, crashes>>

Subject == LogtoId \cup {EmptySub, None}

\* gen_random_uuid() never repeats, so a row's id is identified with the
\* request whose INSERT created it.
Row == [id : Req, logto : LogtoId]

Identity == [state : {"absent", "live", "deleted"},
             username : Username \cup {NoUsername},
             name : Name \cup {None}, email : Email \cup {None}]

Absent == [state |-> "absent", username |-> NoUsername,
           name |-> None, email |-> None]

\* "rejected" stands for the other error statuses (401, 5xx), which end alike.
Status == {"none", "created", "updated", "conflict", "unprocessable",
           "notFound", "rejected"}

Call == [phase : {"idle", "sent", "lost", "replied"}, status : Status,
         id : LogtoId \cup {None}]

Idle == [phase |-> "idle", status |-> "none", id |-> None]

Code == {0, 200, 401, 403, 409, 422, 500}

Response == [code : Code, id : Req \cup {None}, needsSetup : BOOLEAN]

NoResponse == [code |-> 0, id |-> None, needsSetup |-> FALSE]

PC == {"new", "auth", "exists", "token", "await", "insert", "lookup", "reply",
       "answered", "dropped"}

Arg == [body : Body \cup {None}, sub : Subject]

TypeOK ==
    /\ identity \in [LogtoId -> Identity]
    /\ rows \subseteq Row
    /\ pc \in [Req -> PC]
    /\ arg \in [Req -> Arg]
    /\ call \in [Req -> Call]
    /\ resp \in [Req -> Response]
    /\ told \subseteq Req
    /\ faulty \subseteq Req
    /\ crashes \in 0..MaxCrashes

Init ==
    /\ identity = [l \in LogtoId |-> Absent]
    /\ rows = {}
    /\ pc = [r \in Req |-> "new"]
    /\ arg = [r \in Req |-> [body |-> None, sub |-> None]]
    /\ call = [r \in Req |-> Idle]
    /\ resp = [r \in Req |-> NoResponse]
    /\ told = {}
    /\ faulty = {}
    /\ crashes = 0

-----------------------------------------------------------------------------
(* The user table *)

\* ExistsByLogtoUserID and GetByLogtoUserID: there is a row for subject s.
Linked(s) == \E row \in rows : row.logto = s

RowsOf(s) == {row \in rows : row.logto = s}

Known(l) == identity[l].state # "absent"

Live(l) == identity[l].state = "live"

Op(r) == arg[r].body.op

\* The identity a register or a setup works on.
Target(r) == IF Op(r) = "register" THEN call[r].id ELSE arg[r].sub

Goto(r, label) == pc' = [pc EXCEPT ![r] = label]

\* The handler knows what it will answer; the client does not yet.
Reply(r, code, id, needsSetup) ==
    /\ Goto(r, "reply")
    /\ resp' = [resp EXCEPT ![r] =
                   [code |-> code, id |-> id, needsSetup |-> needsSetup]]

Refuse(r, code) == Reply(r, code, None, FALSE)

\* A fault ends the request with 500.
Fail(r) == Refuse(r, 500) /\ faulty' = faulty \cup {r}

Answered(r) == pc[r] = "answered"

\* The handler has come to an end.
Decided(r) == pc[r] \in {"reply", "answered"}

\* The answer of r says that there is an account for l.
Affirms(r, l) ==
    \/ Op(r) \in {"register", "setup"} /\ resp[r].code = 200 /\ Target(r) = l
    \/ Op(r) = "setup" /\ resp[r].code = 409 /\ arg[r].sub = l
    \/ Op(r) = "me" /\ resp[r].code = 200 /\ ~resp[r].needsSetup /\ arg[r].sub = l
    \/ Op(r) = "api" /\ resp[r].code = 200 /\ arg[r].sub = l

SaysLinked(r, l) == Answered(r) /\ Affirms(r, l)

-----------------------------------------------------------------------------
(* Arrival: path classification and authentication *)

Arrive(r, body, sub) ==
    /\ pc[r] = "new"
    /\ arg' = [arg EXCEPT ![r] = [body |-> body, sub |-> sub]]
    /\ told' = IF sub \in LogtoId /\ \E other \in Req : SaysLinked(other, sub)
               THEN told \cup {r} ELSE told

\* Public path: no authentication.
ArriveRegister(r) ==
    /\ \E body \in Body : body.op = "register" /\ Arrive(r, body, None)
    /\ Goto(r, "token")
    /\ UNCHANGED <<identity, rows, call, resp, faulty, crashes>>

\* Without a token: requireAuth answers 401, and so does Setup, which finds no claims;
\* the answer of Me is empty.
ArriveAnonymous(r) ==
    /\ \E body \in Body :
         /\ body.op # "register"
         /\ Arrive(r, body, None)
         /\ Refuse(r, IF body.op = "me" THEN 200 ELSE 401)
    /\ UNCHANGED <<identity, rows, call, faulty, crashes>>

\* Subjects of the valid tokens in circulation: a JWT outlives the identity.
TokenSubjects == {l \in LogtoId : Known(l)} \cup {EmptySub}

\* With a token.  One that is invalid has no subject.
ArriveBearer(r) ==
    /\ \E body \in Body, sub \in TokenSubjects \cup {None} :
         body.op # "register" /\ Arrive(r, body, sub)
    /\ Goto(r, "auth")
    /\ UNCHANGED <<identity, rows, call, resp, faulty, crashes>>

\* parseAndValidate, which asks Logto for its keys or about the token: a good token is
\* refused too when the answer cannot be had.  Then Setup, which refuses a token without
\* a subject, or the reads of Me and of requireAuth.
Validate(r) ==
    /\ pc[r] = "auth"
    /\ \/ Refuse(r, 401)
       \/ Op(r) = "setup" /\ arg[r].sub = EmptySub /\ Refuse(r, 422)
       \/ Op(r) = "setup" /\ arg[r].sub \in LogtoId /\ Goto(r, "exists") /\ UNCHANGED resp
       \/ Op(r) # "setup" /\ arg[r].sub # None /\ Goto(r, "lookup") /\ UNCHANGED resp
    /\ UNCHANGED <<identity, rows, arg, call, told, faulty, crashes>>

-----------------------------------------------------------------------------
(* The handlers *)

\* Setup: a registered user is refused before anything is written.
CheckExists(r) ==
    /\ pc[r] = "exists"
    /\ \/ /\ Linked(arg[r].sub)
          /\ Refuse(r, 409)
          /\ UNCHANGED faulty
       \/ /\ ~Linked(arg[r].sub)
          /\ Goto(r, "token")
          /\ UNCHANGED <<resp, faulty>>
       \/ Fail(r)
    /\ UNCHANGED <<identity, rows, arg, call, told, crashes>>

\* getToken, then the POST or PATCH leaves the process.
SendCall(r) ==
    /\ pc[r] = "token"
    /\ \/ /\ call' = [call EXCEPT ![r].phase = "sent"]
          /\ Goto(r, "await")
          /\ UNCHANGED <<resp, faulty>>
       \/ Fail(r) /\ UNCHANGED call
    /\ UNCHANGED <<identity, rows, arg, told, crashes>>

\* CreateUser's error for a status, and what Register answers for it.
RegisterRefusal(status) ==
    CASE status = "conflict"      -> 409   \* ErrUserExists, username taken
      [] status = "unprocessable" -> 409   \* ErrEmailAlreadyInUse
      [] OTHER                    -> 500

\* Mutant: any reply counts as a created identity.
ReceiveCreateUnchecked(r) ==
    /\ pc[r] = "await" /\ Op(r) = "register" /\ call[r].phase = "replied"
    /\ Goto(r, "insert")
    /\ UNCHANGED <<identity, rows, arg, call, resp, told, faulty, crashes>>

ReceiveCreate(r) ==
    /\ pc[r] = "await" /\ Op(r) = "register" /\ call[r].phase = "replied"
    /\ IF call[r].status = "created"
       THEN Goto(r, "insert") /\ UNCHANGED resp
       ELSE Refuse(r, RegisterRefusal(call[r].status))
    /\ UNCHANGED <<identity, rows, arg, call, told, faulty, crashes>>

\* Mutant: the update is best effort, its errors are ignored.
ReceiveUpdateIgnored(r) ==
    /\ pc[r] = "await" /\ Op(r) = "setup" /\ call[r].phase = "replied"
    /\ Goto(r, "insert")
    /\ UNCHANGED <<identity, rows, arg, call, resp, told, faulty, crashes>>

\* Mutant: a username that is taken is reported like a duplicate account.
ReceiveUpdateConflict(r) ==
    /\ pc[r] = "await" /\ Op(r) = "setup" /\ call[r].phase = "replied"
    /\ IF call[r].status = "updated"
       THEN Goto(r, "insert") /\ UNCHANGED resp
       ELSE Refuse(r, IF call[r].status = "unprocessable" THEN 409 ELSE 500)
    /\ UNCHANGED <<identity, rows, arg, call, told, faulty, crashes>>

\* UpdateUser: every error becomes 500.
ReceiveUpdate(r) ==
    /\ pc[r] = "await" /\ Op(r) = "setup" /\ call[r].phase = "replied"
    /\ IF call[r].status = "updated"
       THEN Goto(r, "insert") /\ UNCHANGED resp
       ELSE Refuse(r, 500)
    /\ UNCHANGED <<identity, rows, arg, call, told, faulty, crashes>>

\* Mutant: no timeout is configured.
TimeoutNever(r) ==
    /\ pc[r] = "await" /\ call[r].phase = "replied"
    /\ Fail(r)
    /\ UNCHANGED <<identity, rows, arg, call, told, crashes>>

\* The client's timeout fires, or the caller's context ends.
Timeout(r) ==
    /\ pc[r] = "await"
    /\ Fail(r)
    /\ UNCHANGED <<identity, rows, arg, call, told, crashes>>

\* Mutant: a duplicate is taken for success.
InsertRowUpsert(r) ==
    /\ pc[r] = "insert"
    /\ LET l == Target(r) IN
       /\ rows' = IF Linked(l) THEN rows ELSE rows \cup {[id |-> r, logto |-> l]}
       /\ Reply(r, 200, r, FALSE)
       /\ UNCHANGED faulty
    /\ UNCHANGED <<identity, arg, call, told, crashes>>

\* Mutant: an integrity violation of any kind is answered without a row.
InsertRowRefused(r) ==
    /\ pc[r] = "insert"
    /\ Refuse(r, 409)
    /\ UNCHANGED <<identity, rows, arg, call, told, faulty, crashes>>

\* UserRepository.Create under user_unique_logto_user_id.  The statement may
\* fail without effect, or take effect while its result is lost.
InsertRow(r) ==
    /\ pc[r] = "insert"
    /\ LET l == Target(r) IN
       \/ /\ Linked(l)
          /\ Refuse(r, 409)
          /\ UNCHANGED <<rows, faulty>>
       \/ /\ ~Linked(l)
          /\ rows' = rows \cup {[id |-> r, logto |-> l]}
          /\ \/ Reply(r, 200, r, FALSE) /\ UNCHANGED faulty
             \/ Fail(r)
       \/ Fail(r) /\ UNCHANGED rows
    /\ UNCHANGED <<identity, arg, call, told, crashes>>

\* Mutant: every database error reads as "not found".
LookupMeLenient(r) ==
    /\ pc[r] = "lookup" /\ Op(r) = "me"
    /\ \/ \E row \in RowsOf(arg[r].sub) : Reply(r, 200, row.id, FALSE)
       \/ Reply(r, 200, None, TRUE)
    /\ UNCHANGED <<identity, rows, arg, call, told, faulty, crashes>>

\* MeUseCase: no row means the profile still needs setup.
LookupMe(r) ==
    /\ pc[r] = "lookup" /\ Op(r) = "me"
    /\ \/ /\ \E row \in RowsOf(arg[r].sub) : Reply(r, 200, row.id, FALSE)
          /\ UNCHANGED faulty
       \/ /\ ~Linked(arg[r].sub)
          /\ Reply(r, 200, None, TRUE)
          /\ UNCHANGED faulty
       \/ Fail(r)
    /\ UNCHANGED <<identity, rows, arg, call, told, crashes>>

\* requireAuth: 403 until the account is set up, else the protected handler.
LookupApi(r) ==
    /\ pc[r] = "lookup" /\ Op(r) = "api"
    /\ \/ /\ Linked(arg[r].sub)
          /\ Refuse(r, 200)
          /\ UNCHANGED faulty
       \/ /\ ~Linked(arg[r].sub)
          /\ Reply(r, 403, None, TRUE)
          /\ UNCHANGED faulty
       \/ Fail(r)
    /\ UNCHANGED <<identity, rows, arg, call, told, crashes>>

\* The client has its answer.  Whatever came in between, it is that of the handler.
Answer(r) ==
    /\ pc[r] = "reply"
    /\ Goto(r, "answered")
    /\ UNCHANGED <<identity, rows, arg, call, resp, told, faulty, crashes>>

\* The process dies: every request it was serving is dropped.  What was sent
\* to Logto stays on its way.
Running(r) == pc[r] \notin {"new", "answered", "dropped"}

Crash ==
    /\ crashes < MaxCrashes
    /\ crashes' = crashes + 1
    /\ \E r \in Req : Running(r)
    /\ pc' = [r \in Req |-> IF Running(r) THEN "dropped" ELSE pc[r]]
    /\ faulty' = faulty \cup {r \in Req : Running(r)}
    /\ UNCHANGED <<identity, rows, arg, call, resp, told>>

-----------------------------------------------------------------------------
(* Logto *)

UsernameTaken(u, except) ==
    /\ u # NoUsername
    /\ \E l \in LogtoId \ {except} : Live(l) /\ identity[l].username = u

EmailTaken(e) == \E l \in LogtoId : Live(l) /\ identity[l].email = e

\* Execute: the username of the request, else the slug of the display name.
RegisterUsername(body) ==
    IF body.username = NoUsername THEN Slug[body.name] ELSE body.username

LogtoReply(r, status, id) ==
    call' = [call EXCEPT ![r] =
                [phase |-> "replied", status |-> status, id |-> id]]

LogtoCreate(r) ==
    /\ call[r].phase = "sent" /\ Op(r) = "register"
    /\ LET body == arg[r].body
           u    == RegisterUsername(body) IN
       IF UsernameTaken(u, None)
       THEN LogtoReply(r, "conflict", None) /\ UNCHANGED identity
       ELSE IF EmailTaken(body.email)
       THEN LogtoReply(r, "unprocessable", None) /\ UNCHANGED identity
       ELSE \E l \in LogtoId :
              /\ ~Known(l)
              /\ identity' = [identity EXCEPT ![l] =
                     [state |-> "live", username |-> u, name |-> body.name,
                      email |-> body.email]]
              /\ LogtoReply(r, "created", l)
    /\ UNCHANGED <<rows, pc, arg, resp, told, faulty, crashes>>

\* Only the fields that are not empty are sent.
LogtoUpdate(r) ==
    /\ call[r].phase = "sent" /\ Op(r) = "setup"
    /\ LET l    == arg[r].sub
           body == arg[r].body IN
       IF ~Live(l)
       THEN LogtoReply(r, "notFound", None) /\ UNCHANGED identity
       ELSE IF UsernameTaken(body.username, l)
       THEN LogtoReply(r, "unprocessable", None) /\ UNCHANGED identity
       ELSE /\ identity' = [identity EXCEPT
                   ![l].username = IF body.username = NoUsername
                                   THEN @ ELSE body.username,
                   ![l].name = IF body.name = None THEN @ ELSE body.name]
            /\ LogtoReply(r, "updated", None)
    /\ UNCHANGED <<rows, pc, arg, resp, told, faulty, crashes>>

\* A rejected M2M token, a server error, or a request that never arrives.
LogtoReject(r) ==
    /\ call[r].phase = "sent"
    /\ \/ LogtoReply(r, "rejected", None)
       \/ call' = [call EXCEPT ![r].phase = "lost"]
    /\ faulty' = faulty \cup {r}
    /\ UNCHANGED <<identity, rows, pc, arg, resp, told, crashes>>

\* People also sign up on Logto's own pages, and administrators delete.
LogtoSignUp(l) ==
    /\ ~Known(l)
    /\ identity' = [identity EXCEPT ![l] = [Absent EXCEPT !.state = "live"]]
    /\ UNCHANGED <<rows, pc, arg, call, resp, told, faulty, crashes>>

LogtoDelete(l) ==
    /\ Live(l)
    /\ identity' = [identity EXCEPT ![l].state = "deleted"]
    /\ UNCHANGED <<rows, pc, arg, call, resp, told, faulty, crashes>>

-----------------------------------------------------------------------------

\* What the application itself does for request r.
Handle(r) ==
    \/ CheckExists(r)
    \/ SendCall(r)
    \/ ReceiveCreate(r)
    \/ ReceiveUpdate(r)
    \/ Timeout(r)
    \/ InsertRow(r)
    \/ LookupMe(r)
    \/ LookupApi(r)
    \/ Answer(r)

Arrival(r) ==
    \/ ArriveRegister(r)
    \/ ArriveAnonymous(r)
    \/ ArriveBearer(r)

Logto(r) ==
    \/ LogtoCreate(r)
    \/ LogtoUpdate(r)
    \/ LogtoReject(r)

Next ==
    \/ \E r \in Req : Arrival(r) \/ Validate(r) \/ Handle(r) \/ Logto(r)
    \/ \E l \in LogtoId : LogtoSignUp(l) \/ LogtoDelete(l)
    \/ Crash

Spec == Init /\ [][Next]_vars

\* The Go scheduler runs every handler, and every call of a handler has a timeout.  The
\* middleware's fetch of keys has none: nothing is assumed of Validate.
FairSpec == Spec /\ \A r \in Req : WF_vars(Handle(r))

-----------------------------------------------------------------------------
(* Properties *)

Creates(r) == pc[r] # "new" /\ Op(r) \in {"register", "setup"}

Created(r) == Creates(r) /\ Answered(r) /\ resp[r].code = 200

\* An account is created only after Logto confirmed the identity to the very
\* request that inserts the row (register.go, setup.go: Logto first).
LinksAreConfirmed ==
    \A row \in rows :
        /\ call[row.id].status \in {"created", "updated"}
        /\ row.logto = Target(row.id)
        /\ Known(row.logto)

\* A client that is told its account was created holds the id of a row that
\* exists, and no other client was ever told so for the same identity, however
\* registers and setups interleave.
SuccessIsExclusive ==
    \A r \in Req : Created(r) =>
        /\ resp[r].id = r
        /\ [id |-> r, logto |-> Target(r)] \in rows
        /\ \A other \in Req :
              Created(other) /\ Target(other) = Target(r) => other = r

\* "profile already set up" is never said to somebody without an account.
ConflictMeansLinked ==
    \A r \in Req :
        Creates(r) /\ Op(r) = "setup" /\ Answered(r) /\ resp[r].code = 409
            => Linked(arg[r].sub)

\* Nothing rolls the identity back when the row cannot be created, so a fault
\* may leave an identity without an account; without a fault none is left: a
\* request for which Logto created or updated the identity ends with an account.
NoOrphanWithoutFault ==
    \A r \in Req \ faulty :
        Creates(r) /\ Answered(r) /\ call[r].status \in {"created", "updated"}
            => Linked(Target(r))

\* Who asks after it was said that the account exists, to whomever, by /auth/register,
\* /profile/setup, /auth/me or requireAuth, is never sent back to profile setup.
NeverSentBack == \A r \in told : Answered(r) => ~resp[r].needsSetup

\* Every request that is past the middleware's look at its token is answered, or dropped
\* by a crash, even when the Management API never replies.
EveryRequestEnds ==
    \A r \in Req : Running(r) /\ pc[r] # "auth" ~> pc[r] \in {"answered", "dropped"}

\* profile/routes.go documents setup as "Idempotent: returns 409 Conflict if the
\* user is already fully registered": a setup so refused has changed nothing.
ConflictHasNoEffect ==
    \A r \in Req :
        Creates(r) /\ Op(r) = "setup" /\ Answered(r) /\ resp[r].code = 409
            => call[r].status # "updated"

\* The route of each operation; card brands stand for whatever requireAuth protects.
RouteOf(op) ==
    LET path == CASE op = "register" -> <<"/auth/register">>
                  [] op = "setup"    -> <<"/profile/setup">>
                  [] op = "me"       -> <<"/auth/me">>
                  [] op = "api"      -> <<"/card-brands">>
    IN  CHOOSE r \in Routes : r.path = path

\* The security that routes declare in one place is what the lists of the middleware
\* make of them in another, and no handler of an account works for a client that does
\* not meet it: who gets past the middleware, and is not told 401 by the handler, has a
\* subject, or asks what needs none.
DocumentedSecurityIsEnforced ==
    /\ ListsMatchDeclarations
    /\ \A r \in Req : pc[r] \notin {"new", "auth", "dropped"} =>
          \/ Decided(r) /\ resp[r].code = 401
          \/ Meets(IF arg[r].sub = None THEN "absent" ELSE "unlinked",
                   RouteOf(Op(r)).security)

\* Provisioning implements the abstract life of an account.
RowOwner(l) == (CHOOSE row \in rows : row.logto = l).id

AccountKnown == {l \in LogtoId : Known(l)}

AccountAcked == {r \in Req : Created(r)}

AccountCreator == [l \in LogtoId |-> IF Linked(l) THEN RowOwner(l) ELSE None]

Account == INSTANCE AccountLink WITH
    known <- AccountKnown, creator <- AccountCreator, acked <- AccountAcked,
    Client <- Req, NoOne <- None

AccountSpec == Account!Spec

-----------------------------------------------------------------------------
(* The inductive invariant behind the safety properties *)

Confirmed(r) == call[r].status \in {"created", "updated"}

\* What a handler's place says of its request.
ArgOK(r) ==
    /\ pc[r] # "new" => arg[r].body \in Body
    /\ pc[r] = "auth" => Op(r) # "register"
    /\ arg[r].sub \in LogtoId => Known(arg[r].sub)
    /\ pc[r] = "exists" => Op(r) = "setup" /\ arg[r].sub \in LogtoId
    /\ pc[r] \in {"token", "await", "insert"} =>
          \/ Op(r) = "register"
          \/ Op(r) = "setup" /\ arg[r].sub \in LogtoId
    /\ pc[r] = "lookup" => Op(r) \in {"me", "api"}

\* A call is made by a creating request, Logto's reply names an identity that it
\* knows, and nobody inserts before the reply.
CallOK(r) ==
    /\ pc[r] \in {"new", "auth", "exists", "token", "lookup"} => call[r] = Idle
    /\ call[r].phase # "replied" => call[r].status = "none"
    /\ call[r].phase # "idle" =>
          Creates(r) /\ (Op(r) = "setup" => arg[r].sub \in LogtoId)
    /\ call[r].status = "created" =>
          Op(r) = "register" /\ call[r].id \in LogtoId /\ Known(call[r].id)
    /\ call[r].status = "updated" => Op(r) = "setup"
    /\ pc[r] = "insert" => Confirmed(r)

\* What a client has been told, or will be, still holds.
AnswerOK(r) ==
    Decided(r) =>
        /\ \A l \in LogtoId \cup {EmptySub} : Affirms(r, l) => Linked(l)
        /\ Creates(r) /\ resp[r].code = 200 =>
              resp[r].id = r /\ [id |-> r, logto |-> Target(r)] \in rows
        /\ Creates(r) /\ r \notin faulty =>
              call[r].phase # "sent" /\ (Confirmed(r) => Linked(Target(r)))
        /\ r \in told => ~resp[r].needsSetup

\* Whoever came after it was said that the account exists has one.
ToldInv == \A r \in told : pc[r] # "new" /\ arg[r].sub \in LogtoId /\ Linked(arg[r].sub)

\* A request without a subject asks what needs none, or was refused for it.
SubjectOK(r) ==
    pc[r] \notin {"new", "auth", "dropped"} /\ arg[r].sub = None =>
        \/ Op(r) \in {"register", "me"}
        \/ Decided(r) /\ resp[r].code = 401

ArgInv == \A r \in Req : ArgOK(r)

SubjectInv == \A r \in Req : SubjectOK(r)

CallInv == \A r \in Req : CallOK(r)

AnswerInv == \A r \in Req : AnswerOK(r)

\* A row is that of one request, which has no more to do, and of one identity.
RowInv ==
    /\ LinksAreConfirmed
    /\ \A row \in rows : pc[row.id] \in {"reply", "answered", "dropped"}
    /\ \A a, b \in rows : a.logto = b.logto => a = b

\* What every reachable state satisfies; it implies the safety properties.
IInv == TypeOK /\ ArgInv /\ CallInv /\ RowInv /\ AnswerInv /\ ToldInv /\ SubjectInv
=============================================================================

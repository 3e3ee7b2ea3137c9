------------------------------ MODULE CardBrands ------------------------------
(***************************************************************************)
(* The card brand endpoints, from the handler through the use case, the    *)
(* transaction manager (TxManager.WithTx) and the repository to Postgres.  *)
(* A write is one statement in a transaction of its own; reads run outside *)
(* of one.  Every request holds one connection of a bounded pool while it  *)
(* talks to Postgres.                                                      *)
(*                                                                         *)
(* Postgres is external, modelled at READ COMMITTED: row locks, the unique *)
(* index on lower(name), which makes an inserter wait for the transaction  *)
(* that may free or take the key, the foreign key from card.brand_id, the  *)
(* deadlock detector, and a commit whose acknowledgement is lost.          *)
(***************************************************************************)
EXTENDS Naturals, FiniteSets

CONSTANTS
    Req,        \* HTTP requests; each is handled once
    Id,         \* ids of brands; Postgres draws fresh ones
    Name,
    Key,        \* lower(name): what the unique index compares
    NoBrand,    \* there is no such row
    EmptyName,
    NilId,      \* uuid.Nil()
    Seed,       \* the brands there are at first
    Work,       \* what requests ask for: [op, id, name]
    MaxConns    \* size of the connection pool

Ops == {"create", "update", "delete", "get"}

ASSUME BrandAssumption ==
    /\ MaxConns \in Nat \ {0}
    /\ IsFiniteSet(Req)
    /\ NoBrand \notin Name \cup {EmptyName} /\ EmptyName \notin Name
    /\ NilId \notin Id
    /\ Name \subseteq DOMAIN Key
    /\ Seed \in [Id -> Name \cup {NoBrand}]
    /\ \A i, j \in Id : Seed[i] # NoBrand /\ Seed[j] # NoBrand
                           /\ Key[Seed[i]] = Key[Seed[j]] => i = j
    /\ Work \subseteq [op : Ops, id : Id \cup {NilId}, name : Name \cup {EmptyName}]

VARIABLES
    brands,   \* the committed rows: the name of each brand, or NoBrand
    refs,     \* the brands that committed cards refer to
    write,    \* the uncommitted row version of each transaction
    pc,
    arg,
    failure,  \* why the statement or the transaction failed
    resp,     \* the status code of the answer; 0: none yet
    conns,    \* the requests that hold a connection of the pool
    applied   \* history: the requests whose write was committed

vars == <<brands, refs, write, pc, arg, failure, resp, conns, applied>>

PC == {"new", "begin", "row", "key", "commit", "rollback", "read", "answered"}

\* Classes of SQL errors the repository tells apart.
Failure == {"none", "unique", "foreignKey", "noRows", "other", "commit"}

NoWrite == [id |-> NilId, name |-> NoBrand]
NoArg == [op |-> "none", id |-> NilId, name |-> EmptyName]

TypeOK ==
    /\ brands \in [Id -> Name \cup {NoBrand}]
    /\ refs \subseteq Id
    /\ write \in [Req -> [id : Id \cup {NilId}, name : Name \cup {NoBrand}]]
    /\ pc \in [Req -> PC]
    /\ arg \in [Req -> Work \cup {NoArg}]
    /\ failure \in [Req -> Failure]
    /\ resp \in [Req -> {0, 200, 404, 409, 422, 500}]
    /\ conns \subseteq Req
    /\ applied \subseteq Req

Init ==
    /\ brands = Seed
    /\ refs = {}
    /\ write = [r \in Req |-> NoWrite]
    /\ pc = [r \in Req |-> "new"]
    /\ arg = [r \in Req |-> NoArg]
    /\ failure = [r \in Req |-> "none"]
    /\ resp = [r \in Req |-> 0]
    /\ conns = {}
    /\ applied = {}

-----------------------------------------------------------------------------
(* Errors *)

\* The repository's sentinel for a SQL failure, method by method.
InsertError(why) ==
    CASE why = "unique"     -> "AlreadyExists"
      [] why = "foreignKey" -> "ForeignKeyViolation"
      [] OTHER              -> "other"

UpdateError(why) == IF why = "noRows" THEN "NotFound" ELSE InsertError(why)

DeleteError(why) ==
    CASE why = "foreignKey" -> "ForeignKeyViolation"
      [] why = "noRows"     -> "NotFound"
      [] OTHER              -> "other"

GetError(why) == IF why = "noRows" THEN "NotFound" ELSE "other"

RepoError(op, why) ==
    CASE op = "create" -> InsertError(why) [] op = "update" -> UpdateError(why)
      [] op = "delete" -> DeleteError(why) [] op = "get" -> GetError(why)

\* The status each handler answers for it.
CreateStatus(err) == IF err = "AlreadyExists" THEN 409 ELSE 500

UpdateStatus(err) ==
    CASE err = "NotFound" -> 404 [] err = "AlreadyExists" -> 409 [] OTHER -> 500

DeleteStatus(err) == IF err = "NotFound" THEN 404 ELSE 500

GetStatus(err) == IF err = "NotFound" THEN 404 ELSE 500

Status(op, err) ==
    CASE op = "create" -> CreateStatus(err) [] op = "update" -> UpdateStatus(err)
      [] op = "delete" -> DeleteStatus(err) [] op = "get" -> GetStatus(err)

Refusal(op, why) == Status(op, RepoError(op, why))

Goto(r, label) == pc' = [pc EXCEPT ![r] = label]

Answer(r, code) ==
    /\ Goto(r, "answered")
    /\ resp' = [resp EXCEPT ![r] = code]

\* The statement fails; the deferred part of WithTx has yet to run.
Fails(r, why) ==
    /\ Goto(r, "rollback")
    /\ failure' = [failure EXCEPT ![r] = why]

-----------------------------------------------------------------------------
(* Locks in Postgres *)

InTx(r) == write[r].id # NilId

Writes(r, i) == InTx(r) /\ write[r].id = i

\* Transactions that hold the lock of row i.
RowBlockers(r, i) == {o \in Req \ {r} : Writes(o, i)}

\* Committed rows with the key of n, other than i.
Rivals(i, n) ==
    {j \in Id \ {i} : brands[j] # NoBrand /\ Key[brands[j]] = Key[n]}

\* A rival nobody is changing: the unique index is violated.
Violates(r, i, n) == \E j \in Rivals(i, n) : RowBlockers(r, j) = {}

\* Mutant: the name is checked against committed rows only.
KeyBlockersNone(r, i, n) == {}

\* Transactions that may free, or may take, the key of n.
KeyBlockers(r, i, n) ==
    {o \in Req \ {r} :
        \/ \E j \in Rivals(i, n) : Writes(o, j)
        \/ InTx(o) /\ write[o].name # NoBrand /\ Key[write[o].name] = Key[n]}

\* Whom the statement of r waits for.
Waits(r) ==
    CASE pc[r] = "row" /\ arg[r].op # "create" ->
            IF brands[arg[r].id] = NoBrand THEN {} ELSE RowBlockers(r, arg[r].id)
      [] pc[r] = "row" /\ arg[r].op = "create" ->
            IF Violates(r, NilId, arg[r].name) THEN {}
            ELSE KeyBlockers(r, NilId, arg[r].name)
      [] pc[r] = "key" ->
            IF Violates(r, arg[r].id, arg[r].name) THEN {}
            ELSE KeyBlockers(r, arg[r].id, arg[r].name)
      [] OTHER -> {}

WaitCycles == {S \in SUBSET Req : S # {} /\ \A r \in S : Waits(r) \cap S # {}}

\* r is on a cycle of the waits-for graph: in a smallest closed set of waiters.
Deadlocked(r) ==
    /\ Waits(r) # {}
    /\ \E S \in WaitCycles : r \in S /\ \A T \in WaitCycles : T \subseteq S => T = S

-----------------------------------------------------------------------------
(* The request *)

\* What huma refuses by the tags of the request: a new name must match a pattern.
Malformed(w) == w.op = "update" /\ w.name = EmptyName

\* Mutant: an empty name is accepted.
CreateIncompleteNever(w) == FALSE

\* What the use cases refuse, with a plain error.
CreateIncomplete(w) == w.op = "create" /\ w.name = EmptyName

UpdateIncomplete(w) == w.op = "update" /\ (w.name = EmptyName \/ w.id = NilId)

DeleteIncomplete(w) == w.op = "delete" /\ w.id = NilId

Incomplete(w) == CreateIncomplete(w) \/ UpdateIncomplete(w) \/ DeleteIncomplete(w)

\* Handler and use case up to the first access to the database.
Arrive(r) ==
    /\ pc[r] = "new"
    /\ \E w \in Work :
         /\ arg' = [arg EXCEPT ![r] = w]
         /\ \/ Malformed(w) /\ Answer(r, 422)
            \/ ~Malformed(w) /\ Incomplete(w) /\ Answer(r, 500)
            \/ /\ ~Malformed(w) /\ ~Incomplete(w)
               /\ Goto(r, IF w.op = "get" THEN "read" ELSE "begin")
               /\ UNCHANGED resp
    /\ UNCHANGED <<brands, refs, write, failure, conns, applied>>

\* GetCardBrandByID: a connection for the length of one query.
Read(r) ==
    /\ pc[r] = "read"
    /\ Cardinality(conns) < MaxConns
    /\ LET found == arg[r].id \in Id /\ brands[arg[r].id] # NoBrand IN
       Answer(r, IF found THEN 200 ELSE Refusal("get", "noRows"))
    /\ UNCHANGED <<brands, refs, write, arg, failure, conns, applied>>

\* WithTx: pool.Begin waits for a connection.
Begin(r) ==
    /\ pc[r] = "begin"
    /\ Cardinality(conns) < MaxConns
    /\ conns' = conns \cup {r}
    /\ Goto(r, "row")
    /\ UNCHANGED <<brands, refs, write, arg, failure, resp, applied>>

\* INSERT: a fresh id, then the unique index.
Insert(r) ==
    /\ pc[r] = "row" /\ arg[r].op = "create" /\ Waits(r) = {}
    /\ \/ /\ Violates(r, NilId, arg[r].name)
          /\ Fails(r, "unique")
          /\ UNCHANGED write
       \/ /\ ~Violates(r, NilId, arg[r].name)
          /\ \E i \in Id :
               /\ brands[i] = NoBrand
               /\ \A o \in Req : ~Writes(o, i) /\ arg[o].id # i
               /\ write' = [write EXCEPT ![r] = [id |-> i, name |-> arg[r].name]]
          /\ Goto(r, "commit")
          /\ UNCHANGED failure
    /\ UNCHANGED <<brands, refs, arg, resp, conns, applied>>

\* UPDATE, first half: find and lock the row.
LockRow(r) ==
    /\ pc[r] = "row" /\ arg[r].op = "update" /\ Waits(r) = {}
    /\ LET i == arg[r].id IN
       \/ brands[i] = NoBrand /\ Fails(r, "noRows") /\ UNCHANGED write
       \/ /\ brands[i] # NoBrand
          /\ write' = [write EXCEPT ![r] = [id |-> i, name |-> brands[i]]]
          /\ Goto(r, "key")
          /\ UNCHANGED failure
    /\ UNCHANGED <<brands, refs, arg, resp, conns, applied>>

\* UPDATE, second half: the new entry in the unique index.
WriteKey(r) ==
    /\ pc[r] = "key" /\ Waits(r) = {}
    /\ \/ /\ Violates(r, arg[r].id, arg[r].name)
          /\ Fails(r, "unique")
          /\ UNCHANGED write
       \/ /\ ~Violates(r, arg[r].id, arg[r].name)
          /\ write' = [write EXCEPT ![r].name = arg[r].name]
          /\ Goto(r, "commit")
          /\ UNCHANGED failure
    /\ UNCHANGED <<brands, refs, arg, resp, conns, applied>>

\* Mutant: no foreign key.
DeleteReferenced(r) ==
    /\ pc[r] = "row" /\ arg[r].op = "delete" /\ Waits(r) = {}
    /\ IF brands[arg[r].id] = NoBrand
       THEN Fails(r, "noRows") /\ UNCHANGED write
       ELSE /\ write' = [write EXCEPT ![r] = [id |-> arg[r].id, name |-> NoBrand]]
            /\ Goto(r, "commit")
            /\ UNCHANGED failure
    /\ UNCHANGED <<brands, refs, arg, resp, conns, applied>>

\* DELETE: lock the row, then the check of the foreign key.
Delete(r) ==
    /\ pc[r] = "row" /\ arg[r].op = "delete" /\ Waits(r) = {}
    /\ LET i == arg[r].id IN
       \/ brands[i] = NoBrand /\ Fails(r, "noRows") /\ UNCHANGED write
       \/ brands[i] # NoBrand /\ i \in refs /\ Fails(r, "foreignKey") /\ UNCHANGED write
       \/ /\ brands[i] # NoBrand /\ i \notin refs
          /\ write' = [write EXCEPT ![r] = [id |-> i, name |-> NoBrand]]
          /\ Goto(r, "commit")
          /\ UNCHANGED failure
    /\ UNCHANGED <<brands, refs, arg, resp, conns, applied>>

Apply(r) ==
    /\ brands' = [brands EXCEPT ![write[r].id] = write[r].name]
    /\ applied' = applied \cup {r}

Discard == UNCHANGED <<brands, applied>>

Unlock(r) == write' = [write EXCEPT ![r] = NoWrite]

\* Mutant: the connection stays with a request that is over.
ReleaseNever(r) == UNCHANGED conns

Release(r) == conns' = conns \ {r}

Commit(r) ==
    /\ pc[r] = "commit"
    /\ Apply(r)
    /\ Unlock(r)
    /\ Release(r)
    /\ Answer(r, 200)
    /\ UNCHANGED <<refs, arg, failure>>

\* Mutant: WithTx returns the error without a rollback.
RollbackForgotten(r) ==
    /\ pc[r] = "rollback"
    /\ Answer(r, Refusal(arg[r].op, failure[r]))
    /\ UNCHANGED <<brands, refs, write, arg, failure, conns, applied>>

\* WithTx after an error: the error of the statement decides the answer even
\* when the rollback fails too (both are wrapped).
Rollback(r) ==
    /\ pc[r] = "rollback"
    /\ Unlock(r)
    /\ Release(r)
    /\ Answer(r, Refusal(arg[r].op, failure[r]))
    /\ UNCHANGED <<brands, refs, arg, failure, applied>>

-----------------------------------------------------------------------------
(* Faults *)

\* No connection in time, or the query of a read fails.
Unavailable(r) ==
    /\ pc[r] \in {"begin", "read"}
    /\ Answer(r, 500)
    /\ UNCHANGED <<brands, refs, write, arg, failure, conns, applied>>

\* The statement fails otherwise (cancelled, connection lost, name too long), or the
\* callback panics: WithTx rolls back and panics again, and Recoverer answers 500.
StatementFault(r) ==
    /\ pc[r] \in {"row", "key"}
    /\ Fails(r, "other")
    /\ UNCHANGED <<brands, refs, write, arg, resp, conns, applied>>

\* The deadlock detector aborts one of the transactions on the cycle.
DeadlockAbort(r) ==
    /\ Deadlocked(r)
    /\ Fails(r, "other")
    /\ UNCHANGED <<brands, refs, write, arg, resp, conns, applied>>

\* Rollback fails: the pool drops the connection, Postgres notices later.
RollbackFault(r) ==
    /\ pc[r] = "rollback"
    /\ Release(r)
    /\ Answer(r, Refusal(arg[r].op, failure[r]))
    /\ UNCHANGED <<brands, refs, write, arg, failure, applied>>

\* Mutant: the error of Commit is dropped.
CommitFaultDropped(r) ==
    /\ pc[r] = "commit"
    /\ failure' = [failure EXCEPT ![r] = "commit"]
    /\ Release(r)
    /\ Answer(r, 200)
    /\ UNCHANGED <<brands, refs, write, arg, applied>>

\* COMMIT fails or its acknowledgement is lost.
CommitFault(r) ==
    /\ pc[r] = "commit"
    /\ failure' = [failure EXCEPT ![r] = "commit"]
    /\ Release(r)
    /\ Answer(r, 500)
    /\ UNCHANGED <<brands, refs, write, arg, applied>>

\* Postgres ends the transaction of a connection that is gone: a COMMIT that
\* arrived takes effect, everything else is rolled back.
Reap(r) ==
    /\ pc[r] = "answered" /\ InTx(r)
    /\ \/ Discard
       \/ failure[r] = "commit" /\ Apply(r)
    /\ Unlock(r)
    /\ UNCHANGED <<refs, pc, arg, failure, resp, conns>>

\* Cards are inserted and removed by others; an insert waits for a DELETE.
AddCard(i) ==
    /\ brands[i] # NoBrand
    /\ ~\E r \in Req : Writes(r, i) /\ arg[r].op = "delete"
    /\ refs' = refs \cup {i}
    /\ UNCHANGED <<brands, write, pc, arg, failure, resp, conns, applied>>

RemoveCard(i) ==
    /\ i \in refs
    /\ refs' = refs \ {i}
    /\ UNCHANGED <<brands, write, pc, arg, failure, resp, conns, applied>>

-----------------------------------------------------------------------------

Statement(r) == Insert(r) \/ LockRow(r) \/ WriteKey(r) \/ Delete(r)

Handle(r) ==
    \/ Read(r) \/ Begin(r) \/ Statement(r) \/ Commit(r) \/ Rollback(r)

Fault(r) ==
    \/ Unavailable(r) \/ StatementFault(r) \/ RollbackFault(r) \/ CommitFault(r)

Next ==
    \/ \E r \in Req :
         Arrive(r) \/ Handle(r) \/ Fault(r) \/ DeadlockAbort(r) \/ Reap(r)
    \/ \E i \in Id : AddCard(i) \/ RemoveCard(i)

Spec == Init /\ [][Next]_vars

\* Handlers run, Postgres detects deadlocks and lost connections: what a request needs
\* next, somebody does.
FairSpec ==
    Spec /\ \A r \in Req : WF_vars(Handle(r) \/ DeadlockAbort(r) \/ Reap(r))

-----------------------------------------------------------------------------
(* Properties *)

\* What became of a request: its write is committed, its statement failed, or its
\* answer says the rest.  A lost COMMIT leaves it open.
Outcome(r) ==
    CASE r \in applied -> "done"
      [] r \notin applied /\ failure[r] = "unique" -> "taken"
      [] r \notin applied /\ failure[r] = "noRows" -> "missing"
      [] r \notin applied /\ failure[r] = "foreignKey" -> "referenced"
      [] r \notin applied /\ failure[r] = "other" -> "failed"
      [] r \notin applied /\ failure[r] = "none" /\ resp[r] = 200 -> "done"
      [] r \notin applied /\ failure[r] = "none" /\ resp[r] = 404 -> "missing"
      [] r \notin applied /\ failure[r] = "none" /\ resp[r] \in {422, 500} -> "failed"
      [] OTHER -> "open"

outcome == [r \in Req |-> Outcome(r)]

Registry == INSTANCE BrandRegistry WITH task <- arg, NoTask <- NoArg, told <- resp

\* However requests interleave, wait and fail, they are settled like by a registry that
\* serves one at a time, at an instant between request and answer: what a 200, 404 or
\* 409 says was so at that instant, and only a lost COMMIT takes effect after its 500.
RegistrySpec == Registry!Spec

\* No two committed brands have names that differ only in case, even when two
\* transactions take the same name, or swap names, at once.
UniqueNames == Registry!UniqueNames

\* A brand is never removed under a card.
NoDanglingReference == Registry!NoDanglingReference

\* WithTx gives every connection back, whichever way the transaction ended, and
\* the pool is never exceeded.
ConnectionsAreReturned ==
    /\ \A r \in conns : pc[r] \in {"row", "key", "commit", "rollback"}
    /\ Cardinality(conns) <= MaxConns

\* A write that was answered 200 is committed; one that was answered 404 or 409
\* had no effect and never will; one that was answered 500 is ambiguous only
\* when its COMMIT failed.
AnswersAreTruthful ==
    \A r \in Req : pc[r] = "answered" /\ arg[r].op # "get" =>
        /\ resp[r] = 200 => r \in applied
        /\ r \in applied => resp[r] = 200 \/ failure[r] = "commit"

\* What lets a request go on: a connection, no lock to wait for, Postgres.
CanProceed(r) ==
    \/ pc[r] \in {"begin", "read"} /\ Cardinality(conns) < MaxConns
    \/ pc[r] \in {"row", "key"} /\ (Waits(r) = {} \/ Deadlocked(r))
    \/ pc[r] \in {"commit", "rollback"}
    \/ pc[r] = "answered" /\ InTx(r)

\* Whoever is stuck for a connection or a lock, somebody can go on: a full pool holds
\* a request that can, and transactions that all wait contain a cycle the detector
\* sees.
NobodyIsStuck ==
    (\E r \in Req : pc[r] \notin {"new", "answered"} \/ InTx(r))
        => \E r \in Req : CanProceed(r)

\* Every request ends, since again and again all that came have ended: transactions that
\* wait for each other are broken up, a full pool empties, a lost connection frees its
\* locks.
EveryRequestEnds ==
    []<>(\A r \in Req : pc[r] # "new" => pc[r] = "answered" /\ ~InTx(r))

\* card-brand/routes.go on DELETE: "Returns 409 Conflict if the brand is
\* referenced by other entities (e.g. transactions, cards)."
ReferencedDeleteConflicts ==
    \A r \in Req :
        pc[r] = "answered" /\ arg[r].op = "delete" /\ failure[r] = "foreignKey"
            => resp[r] = 409
-----------------------------------------------------------------------------
(* The inductive invariant *)

\* Who talks to Postgres asks for a write that makes sense.
ArgInv ==
    \A r \in Req :
        /\ pc[r] \in {"begin", "row", "key", "commit", "rollback"} =>
              /\ arg[r].op \in {"create", "update", "delete"}
              /\ arg[r].op # "create" => arg[r].id \in Id
              /\ arg[r].op # "delete" => arg[r].name \in Name
        /\ pc[r] = "read" => arg[r].op = "get"
        /\ pc[r] = "key" => arg[r].op = "update"

\* A transaction that has written holds the lock of a row; one that removes it keeps
\* cards from referring to it.
WriteInv ==
    \A r \in Req :
        /\ pc[r] \in {"new", "begin", "read", "row"} => ~InTx(r)
        /\ pc[r] \in {"key", "commit"} => InTx(r)
        /\ pc[r] = "key" => write[r].id = arg[r].id /\ write[r].name # NoBrand
        /\ InTx(r) => write[r].id \in Id
        /\ InTx(r) /\ write[r].name = NoBrand =>
              /\ arg[r].op = "delete" /\ write[r].id \notin refs
              /\ brands[write[r].id] # NoBrand

\* Two transactions write neither the same row nor the same key, and none writes a
\* key that another row has.
LockInv ==
    \A r \in Req : InTx(r) =>
        /\ \A o \in Req \ {r} : InTx(o) =>
              /\ write[r].id # write[o].id
              /\ write[r].name # NoBrand /\ write[o].name # NoBrand =>
                    Key[write[r].name] # Key[write[o].name]
        /\ \A j \in Id \ {write[r].id} : brands[j] # NoBrand /\ write[r].name # NoBrand =>
              Key[brands[j]] # Key[write[r].name]

\* Exactly the requests at work in a transaction hold a connection.
ConnectionInv ==
    /\ \A r \in Req : r \in conns <=> pc[r] \in {"row", "key", "commit", "rollback"}
    /\ Cardinality(conns) <= MaxConns

\* A write is committed once, and then over.
AppliedInv == \A r \in applied : pc[r] = "answered" /\ ~InTx(r)

\* Until it ends, a transaction leaves the row it writes as it found it: missing for an
\* INSERT, there for the others.  What it commits is what it was asked for.
EffectInv ==
    \A r \in Req : InTx(r) =>
        /\ arg[r].op = "create" =>
              brands[write[r].id] = NoBrand /\ write[r].name = arg[r].name
        /\ arg[r].op # "create" =>
              write[r].id = arg[r].id /\ brands[write[r].id] # NoBrand
        /\ arg[r].op = "delete" => write[r].name = NoBrand
        /\ arg[r].op = "update" /\ (pc[r] = "commit" \/ failure[r] = "commit") =>
              write[r].name = arg[r].name

\* What is known of the failure of a request, and of its answer, at each stage.
OutcomeInv ==
    \A r \in Req :
        /\ pc[r] = "new" <=> arg[r] = NoArg
        /\ pc[r] = "answered" <=> resp[r] # 0
        /\ pc[r] \in {"row", "key", "commit"} => failure[r] = "none"
        /\ pc[r] \in {"new", "begin", "read"} => failure[r] = "none"
        /\ pc[r] = "rollback" => failure[r] \notin {"none", "commit"}
        /\ InTx(r) \/ failure[r] # "none" => arg[r].op \in {"create", "update", "delete"}
        /\ failure[r] = "unique" => arg[r].op # "delete"
        /\ failure[r] = "noRows" => arg[r].op # "create"
        /\ failure[r] = "foreignKey" => arg[r].op = "delete"
        /\ failure[r] = "commit" => resp[r] = 500
        /\ failure[r] = "none" /\ resp[r] = 200 /\ arg[r].op # "get" => r \in applied
        /\ r \in applied => failure[r] \in {"none", "commit"}
        /\ pc[r] = "answered" /\ failure[r] \notin {"none", "commit"} =>
              resp[r] = Refusal(arg[r].op, failure[r])

IInv ==
    /\ TypeOK /\ ArgInv /\ WriteInv /\ LockInv /\ ConnectionInv /\ AppliedInv
    /\ EffectInv /\ OutcomeInv
    /\ UniqueNames /\ NoDanglingReference /\ AnswersAreTruthful
===============================================================================

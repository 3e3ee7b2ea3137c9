--------------------------- MODULE CardBrands_proofs ---------------------------
(***************************************************************************)
(* Proofs about CardBrands, for any requests, brands, names, work and size *)
(* of the pool: the inductive invariant IInv, the safety properties that   *)
(* follow from it, and that the endpoints implement BrandRegistry.         *)
(***************************************************************************)
EXTENDS CardBrands, FiniteSetTheorems, WellFoundedInduction, TLAPS

\* A refusal is never mistaken for success.
LEMMA Refusals ==
    ASSUME NEW op \in Ops, NEW why
    PROVE  Refusal(op, why) \in {404, 409, 500}
<1>1. CASE op = "create"
    BY <1>1 DEF Refusal, Status, CreateStatus
<1>2. CASE op = "update"
    BY <1>2 DEF Refusal, Status, UpdateStatus
<1>3. CASE op = "delete"
    BY <1>3 DEF Refusal, Status, DeleteStatus
<1>4. CASE op = "get"
    BY <1>4 DEF Refusal, Status, GetStatus
<1> QED
    BY <1>1, <1>2, <1>3, <1>4 DEF Ops

\* What a request can ask for.
LEMMA WorkType ==
    ASSUME NEW w \in Work
    PROVE  /\ w.op \in Ops /\ w.id \in Id \cup {NilId}
           /\ w.name \in Name \cup {EmptyName}
    BY BrandAssumption

\* The invariant holds at the start: nobody has asked for anything.
LEMMA InitIInv == Init => IInv
<1> SUFFICES ASSUME Init PROVE IInv
    OBVIOUS
<1>1. TypeOK
    BY BrandAssumption DEF Init, TypeOK, PC, Failure, NoWrite
<1>2. ArgInv /\ WriteInv /\ LockInv /\ AppliedInv /\ AnswersAreTruthful
    BY DEF Init, ArgInv, WriteInv, LockInv, AppliedInv, AnswersAreTruthful, InTx,
           NoWrite
<1>5. EffectInv /\ OutcomeInv
    BY DEF Init, EffectInv, OutcomeInv, InTx, NoWrite
<1>3. ConnectionInv
    BY BrandAssumption, FS_EmptySet DEF Init, ConnectionInv
<1>4. UniqueNames /\ NoDanglingReference
    BY BrandAssumption
    DEF Init, UniqueNames, NoDanglingReference, Registry!UniqueNames,
                           Registry!NoDanglingReference, Registry!Exists
<1> QED
    BY <1>1, <1>2, <1>3, <1>4, <1>5 DEF IInv

-----------------------------------------------------------------------------
(* Types *)

LEMMA TypeStep == TypeOK /\ ArgInv /\ WriteInv /\ [Next]_vars => TypeOK'
<1> SUFFICES ASSUME TypeOK, ArgInv, WriteInv, [Next]_vars PROVE TypeOK'
    OBVIOUS
<1>0. NilId \notin Id /\ NoBrand \notin Name
    BY BrandAssumption
<1> USE DEF TypeOK, PC, Failure, Goto, Answer, Fails
<1>1. ASSUME NEW r \in Req, Arrive(r) PROVE TypeOK'
    BY <1>1, SMTT(30) DEF Arrive
<1>2. ASSUME NEW r \in Req, Read(r) PROVE TypeOK'
    BY <1>2, Refusals DEF Read, Ops
<1>3. ASSUME NEW r \in Req, Begin(r) PROVE TypeOK'
    BY <1>3 DEF Begin
<1>4. ASSUME NEW r \in Req, Statement(r) PROVE TypeOK'
  <2>1. \A i \in Id, n \in Name \cup {NoBrand} :
           [write EXCEPT ![r] = [id |-> i, name |-> n]]
             \in [Req -> [id : Id \cup {NilId}, name : Name \cup {NoBrand}]]
    OBVIOUS
  <2>2. \A n \in Name : [write EXCEPT ![r].name = n]
             \in [Req -> [id : Id \cup {NilId}, name : Name \cup {NoBrand}]]
    OBVIOUS
  <2>3. write' \in [Req -> [id : Id \cup {NilId}, name : Name \cup {NoBrand}]]
    <3>1. CASE Insert(r)
        BY <2>1, <3>1 DEF Insert, ArgInv
    <3>2. CASE LockRow(r)
        BY <2>1, <3>2 DEF LockRow, ArgInv
    <3>3. CASE WriteKey(r)
        BY <2>2, <3>3 DEF WriteKey, ArgInv
    <3>4. CASE Delete(r)
        BY <2>1, <3>4 DEF Delete, ArgInv
    <3> QED
        BY <1>4, <3>1, <3>2, <3>3, <3>4 DEF Statement
  <2>4. pc' \in [Req -> PC] /\ failure' \in [Req -> Failure]
    <3>1. CASE Insert(r)
      <4>1. \/ Fails(r, "unique")
            \/ Goto(r, "commit") /\ UNCHANGED failure
          BY <3>1, Zenon DEF Insert
      <4>2. CASE Fails(r, "unique")
          BY <4>2
      <4>3. CASE Goto(r, "commit") /\ UNCHANGED failure
          BY <4>3
      <4> QED
          BY <4>1, <4>2, <4>3, Zenon
    <3>2. CASE LockRow(r)
        BY <3>2 DEF LockRow
    <3>3. CASE WriteKey(r)
      <4>1. \/ Fails(r, "unique")
            \/ Goto(r, "commit") /\ UNCHANGED failure
          BY <3>3, Zenon DEF WriteKey
      <4>2. CASE Fails(r, "unique")
          BY <4>2
      <4>3. CASE Goto(r, "commit") /\ UNCHANGED failure
          BY <4>3
      <4> QED
          BY <4>1, <4>2, <4>3, Zenon
    <3>4. CASE Delete(r)
        BY <3>4 DEF Delete
    <3> QED
        BY <1>4, <3>1, <3>2, <3>3, <3>4 DEF Statement
  <2> QED
    BY <1>4, <2>3, <2>4 DEF Statement, Insert, LockRow, WriteKey, Delete
<1>8. ASSUME NEW r \in Req, Commit(r) PROVE TypeOK'
  <2>1. write[r].id \in Id /\ write[r].name \in Name \cup {NoBrand}
    BY <1>8 DEF Commit, WriteInv
  <2>2. brands' \in [Id -> Name \cup {NoBrand}]
    BY <1>8, <2>1 DEF Commit, Apply
  <2> QED
    BY <1>8, <2>2 DEF Commit, Apply, Unlock, Release, NoWrite
<1>9. ASSUME NEW r \in Req, Rollback(r) PROVE TypeOK'
    BY <1>9, Refusals DEF Rollback, Unlock, Release, NoWrite, ArgInv, Ops
<1>10. ASSUME NEW r \in Req, Unavailable(r) PROVE TypeOK'
    BY <1>10 DEF Unavailable
<1>11. ASSUME NEW r \in Req, StatementFault(r) PROVE TypeOK'
    BY <1>11 DEF StatementFault
<1>12. ASSUME NEW r \in Req, RollbackFault(r) PROVE TypeOK'
    BY <1>12, Refusals DEF RollbackFault, Release, ArgInv, Ops
<1>13. ASSUME NEW r \in Req, CommitFault(r) PROVE TypeOK'
    BY <1>13 DEF CommitFault, Release
<1>14. ASSUME NEW r \in Req, DeadlockAbort(r) PROVE TypeOK'
    BY <1>14 DEF DeadlockAbort
<1>15. ASSUME NEW r \in Req, Reap(r) PROVE TypeOK'
    BY <1>15 DEF Reap, Discard, Apply, Unlock, NoWrite, InTx
<1>16. ASSUME NEW i \in Id, AddCard(i) \/ RemoveCard(i) PROVE TypeOK'
    BY <1>16 DEF AddCard, RemoveCard
<1>17. CASE UNCHANGED vars
    BY <1>17 DEF vars
<1> QED
    BY <1>1, <1>2, <1>3, <1>4, <1>8, <1>9, <1>10, <1>11, <1>12,
       <1>13, <1>14, <1>15, <1>16, <1>17 DEF Next, Handle, Fault
-----------------------------------------------------------------------------
(* Requests and connections *)

\* Who is on a cycle of waits has a statement that waits.
LEMMA DeadlockedWaits ==
    ASSUME NEW r, Deadlocked(r) PROVE pc[r] \in {"row", "key"}
    BY DEF Deadlocked, Waits

\* Requests reach Postgres with what their statement needs.
LEMMA ArgStep ==
    TypeOK /\ ArgInv /\ [Next]_vars => ArgInv'
<1> SUFFICES ASSUME TypeOK, ArgInv, [Next]_vars PROVE ArgInv'
    OBVIOUS
<1> USE DEF TypeOK, ArgInv, Goto, Answer, Fails
<1>1. ASSUME NEW r \in Req, Arrive(r) PROVE ArgInv'
    BY <1>1, WorkType DEF Arrive, Ops, Malformed, Incomplete, CreateIncomplete,
        UpdateIncomplete, DeleteIncomplete
<1>2. ASSUME NEW r \in Req, Read(r) PROVE ArgInv'
    BY <1>2 DEF Read
<1>3. ASSUME NEW r \in Req, Begin(r) PROVE ArgInv'
    BY <1>3 DEF Begin
<1>4. ASSUME NEW r \in Req, Insert(r) PROVE ArgInv'
    BY <1>4 DEF Insert
<1>5. ASSUME NEW r \in Req, LockRow(r) PROVE ArgInv'
    BY <1>5 DEF LockRow
<1>6. ASSUME NEW r \in Req, WriteKey(r) PROVE ArgInv'
    BY <1>6 DEF WriteKey
<1>7. ASSUME NEW r \in Req, Delete(r) PROVE ArgInv'
    BY <1>7 DEF Delete
<1>8. ASSUME NEW r \in Req, Commit(r) PROVE ArgInv'
    BY <1>8 DEF Commit
<1>9. ASSUME NEW r \in Req, Rollback(r) PROVE ArgInv'
    BY <1>9 DEF Rollback
<1>10. ASSUME NEW r \in Req, Unavailable(r) PROVE ArgInv'
    BY <1>10 DEF Unavailable
<1>11. ASSUME NEW r \in Req, StatementFault(r) PROVE ArgInv'
    BY <1>11 DEF StatementFault
<1>12. ASSUME NEW r \in Req, RollbackFault(r) PROVE ArgInv'
    BY <1>12 DEF RollbackFault
<1>13. ASSUME NEW r \in Req, CommitFault(r) PROVE ArgInv'
    BY <1>13 DEF CommitFault
<1>14. ASSUME NEW r \in Req, DeadlockAbort(r) PROVE ArgInv'
    BY <1>14, DeadlockedWaits DEF DeadlockAbort
<1>15. ASSUME NEW r \in Req, Reap(r) PROVE ArgInv'
    BY <1>15 DEF Reap
<1>16. ASSUME NEW i \in Id, AddCard(i) \/ RemoveCard(i) PROVE ArgInv'
    BY <1>16 DEF AddCard, RemoveCard
<1>17. CASE UNCHANGED vars
    BY <1>17 DEF vars
<1> QED
    BY <1>1, <1>2, <1>3, <1>4, <1>5, <1>6, <1>7, <1>8, <1>9, <1>10, <1>11,
       <1>12, <1>13, <1>14, <1>15, <1>16, <1>17
    DEF Next, Handle, Statement, Fault

\* Connections are taken and given back with the transaction.
LEMMA ConnectionStep ==
    TypeOK /\ ConnectionInv /\ [Next]_vars => ConnectionInv'
<1> SUFFICES ASSUME TypeOK, ConnectionInv, [Next]_vars PROVE ConnectionInv'
    OBVIOUS
<1>0. /\ MaxConns \in Nat /\ Cardinality(conns) \in Nat
      /\ \A r \in Req :
            /\ Cardinality(conns \cup {r}) \in 0..Cardinality(conns) + 1
            /\ Cardinality(conns \ {r}) \in 0..Cardinality(conns)
  <2>1. IsFiniteSet(conns)
    BY BrandAssumption, FS_Subset DEF TypeOK
  <2>2. Cardinality(conns) \in Nat
    BY <2>1, FS_CardinalityType
  <2>3. ASSUME NEW r \in Req
        PROVE  /\ Cardinality(conns \cup {r}) \in 0..Cardinality(conns) + 1
               /\ Cardinality(conns \ {r}) \in 0..Cardinality(conns)
    <3>1. Cardinality(conns \cup {r}) =
             IF r \in conns THEN Cardinality(conns) ELSE Cardinality(conns) + 1
        BY <2>1, FS_AddElement
    <3>2. Cardinality(conns \ {r}) =
             IF r \in conns THEN Cardinality(conns) - 1 ELSE Cardinality(conns)
        BY <2>1, FS_RemoveElement
    <3>3. Cardinality(conns \ {r}) \in Nat
        BY <2>1, FS_RemoveElement, FS_CardinalityType
    <3> QED
        BY <2>2, <3>1, <3>2, <3>3
  <2> QED
    BY <2>2, <2>3, BrandAssumption
<1> USE DEF TypeOK, ConnectionInv, Goto, Answer, Fails
<1>1. ASSUME NEW r \in Req, Arrive(r) PROVE ConnectionInv'
    BY <1>1 DEF Arrive
<1>2. ASSUME NEW r \in Req, Read(r) PROVE ConnectionInv'
    BY <1>2 DEF Read
<1>3. ASSUME NEW r \in Req, Begin(r) PROVE ConnectionInv'
  <2>1. conns' = conns \cup {r} /\ Cardinality(conns) < MaxConns
    BY <1>3 DEF Begin
  <2>2. \A o \in Req : o \in conns' <=> pc'[o] \in {"row", "key", "commit", "rollback"}
    BY <1>3, <2>1 DEF Begin
  <2>3. Cardinality(conns') \in 0..Cardinality(conns) + 1
    BY <1>0, <2>1, Zenon
  <2>4. Cardinality(conns') <= MaxConns
    BY <1>0, <2>1, <2>3
  <2> QED
    BY <2>2, <2>4
<1>4. ASSUME NEW r \in Req, Insert(r) PROVE ConnectionInv'
    BY <1>4 DEF Insert
<1>5. ASSUME NEW r \in Req, LockRow(r) PROVE ConnectionInv'
    BY <1>5 DEF LockRow
<1>6. ASSUME NEW r \in Req, WriteKey(r) PROVE ConnectionInv'
    BY <1>6 DEF WriteKey
<1>7. ASSUME NEW r \in Req, Delete(r) PROVE ConnectionInv'
    BY <1>7 DEF Delete
<1>8. ASSUME NEW r \in Req, Commit(r) PROVE ConnectionInv'
  <2>1. conns' = conns \ {r} /\ pc' = [pc EXCEPT ![r] = "answered"]
    BY <1>8 DEF Commit, Release
  <2>2. \A o \in Req : o \in conns' <=> pc'[o] \in {"row", "key", "commit", "rollback"}
    BY <1>8, <2>1 DEF Commit, Release
  <2>3. Cardinality(conns') \in 0..Cardinality(conns)
    BY <1>0, <2>1, Zenon
  <2>4. Cardinality(conns') <= MaxConns
    BY <1>0, <2>1, <2>3
  <2> QED
    BY <2>2, <2>4
<1>9. ASSUME NEW r \in Req, Rollback(r) PROVE ConnectionInv'
  <2>1. conns' = conns \ {r} /\ pc' = [pc EXCEPT ![r] = "answered"]
    BY <1>9 DEF Rollback, Release
  <2>2. \A o \in Req : o \in conns' <=> pc'[o] \in {"row", "key", "commit", "rollback"}
    BY <1>9, <2>1 DEF Rollback, Release
  <2>3. Cardinality(conns') \in 0..Cardinality(conns)
    BY <1>0, <2>1, Zenon
  <2>4. Cardinality(conns') <= MaxConns
    BY <1>0, <2>1, <2>3
  <2> QED
    BY <2>2, <2>4
<1>10. ASSUME NEW r \in Req, Unavailable(r) PROVE ConnectionInv'
    BY <1>10 DEF Unavailable
<1>11. ASSUME NEW r \in Req, StatementFault(r) PROVE ConnectionInv'
    BY <1>11 DEF StatementFault
<1>12. ASSUME NEW r \in Req, RollbackFault(r) PROVE ConnectionInv'
  <2>1. conns' = conns \ {r} /\ pc' = [pc EXCEPT ![r] = "answered"]
    BY <1>12 DEF RollbackFault, Release
  <2>2. \A o \in Req : o \in conns' <=> pc'[o] \in {"row", "key", "commit", "rollback"}
    BY <1>12, <2>1 DEF RollbackFault, Release
  <2>3. Cardinality(conns') \in 0..Cardinality(conns)
    BY <1>0, <2>1, Zenon
  <2>4. Cardinality(conns') <= MaxConns
    BY <1>0, <2>1, <2>3
  <2> QED
    BY <2>2, <2>4
<1>13. ASSUME NEW r \in Req, CommitFault(r) PROVE ConnectionInv'
  <2>1. conns' = conns \ {r} /\ pc' = [pc EXCEPT ![r] = "answered"]
    BY <1>13 DEF CommitFault, Release
  <2>2. \A o \in Req : o \in conns' <=> pc'[o] \in {"row", "key", "commit", "rollback"}
    BY <1>13, <2>1 DEF CommitFault, Release
  <2>3. Cardinality(conns') \in 0..Cardinality(conns)
    BY <1>0, <2>1, Zenon
  <2>4. Cardinality(conns') <= MaxConns
    BY <1>0, <2>1, <2>3
  <2> QED
    BY <2>2, <2>4
<1>14. ASSUME NEW r \in Req, DeadlockAbort(r) PROVE ConnectionInv'
    BY <1>14, DeadlockedWaits DEF DeadlockAbort
<1>15. ASSUME NEW r \in Req, Reap(r) PROVE ConnectionInv'
    BY <1>15 DEF Reap
<1>16. ASSUME NEW i \in Id, AddCard(i) \/ RemoveCard(i) PROVE ConnectionInv'
    BY <1>16 DEF AddCard, RemoveCard
<1>17. CASE UNCHANGED vars
    BY <1>17 DEF vars
<1> QED
    BY <1>1, <1>2, <1>3, <1>4, <1>5, <1>6, <1>7, <1>8, <1>9, <1>10, <1>11,
       <1>12, <1>13, <1>14, <1>15, <1>16, <1>17
    DEF Next, Handle, Statement, Fault

-----------------------------------------------------------------------------
(* Locks and keys *)

\* A statement that need not wait finds the row unlocked.
LEMMA RowFree ==
    ASSUME TypeOK, NEW r \in Req, pc[r] = "row", arg[r].op # "create", Waits(r) = {},
           brands[arg[r].id] # NoBrand,
           NEW o \in Req \ {r}, InTx(o)
    PROVE  write[o].id # arg[r].id
<1>1. RowBlockers(r, arg[r].id) = {}
    BY DEF Waits
<1> QED
    BY <1>1 DEF RowBlockers, Writes

\* A statement that neither waits nor violates the index finds its key unused, by
\* rows and by transactions.
LEMMA KeyFree ==
    ASSUME TypeOK, NEW r \in Req, NEW i \in Id \cup {NilId}, NEW n \in Name,
           Waits(r) = {}, ~Violates(r, i, n),
           \/ pc[r] = "row" /\ arg[r].op = "create" /\ i = NilId /\ n = arg[r].name
           \/ pc[r] = "key" /\ i = arg[r].id /\ n = arg[r].name
    PROVE  /\ \A o \in Req \ {r} : InTx(o) /\ write[o].name # NoBrand =>
                 Key[n] # Key[write[o].name]
           /\ \A j \in Id \ {i} : brands[j] # NoBrand => Key[brands[j]] # Key[n]
<1>1. KeyBlockers(r, i, n) = {}
    BY DEF Waits
<1>2. \A o \in Req \ {r} : InTx(o) /\ write[o].name # NoBrand =>
          Key[n] # Key[write[o].name]
    BY <1>1 DEF KeyBlockers
<1>3. ASSUME NEW j \in Id \ {i}, brands[j] # NoBrand, Key[brands[j]] = Key[n] PROVE FALSE
  <2>1. j \in Rivals(i, n)
    BY <1>3 DEF Rivals
  <2>2. PICK o \in Req \ {r} : Writes(o, j)
    BY <2>1 DEF Violates, RowBlockers
  <2> QED
    BY <1>1, <2>1, <2>2 DEF KeyBlockers
<1> QED
    BY <1>2, <1>3

\* A transaction writes a row nobody else writes under a key nobody else has.
LEMMA Written ==
    ASSUME LockInv, NEW r \in Req, brands' = brands,
           \A o \in Req \ {r} : write'[o] = write[o],
           \A o \in Req \ {r} : InTx(o) =>
              /\ write'[r].id # write[o].id
              /\ write'[r].name # NoBrand /\ write[o].name # NoBrand =>
                    Key[write'[r].name] # Key[write[o].name],
           \A j \in Id \ {write'[r].id} : brands[j] # NoBrand /\ write'[r].name # NoBrand =>
              Key[brands[j]] # Key[write'[r].name]
    PROVE  LockInv'
<1> SUFFICES ASSUME NEW p \in Req, InTx(p)'
             PROVE  /\ \A o \in Req \ {p} : InTx(o)' =>
                          /\ write'[p].id # write'[o].id
                          /\ write'[p].name # NoBrand /\ write'[o].name # NoBrand =>
                                Key[write'[p].name] # Key[write'[o].name]
                    /\ \A j \in Id \ {write'[p].id} :
                          brands'[j] # NoBrand /\ write'[p].name # NoBrand =>
                             Key[brands'[j]] # Key[write'[p].name]
    BY DEF LockInv, InTx
<1>1. CASE p = r
    BY <1>1 DEF InTx
<1>2. CASE p # r
    BY <1>2 DEF InTx, LockInv
<1> QED
    BY <1>1, <1>2

\* A transaction ends, without effect or with it.
LEMMA Discarded ==
    ASSUME TypeOK, LockInv, NEW r \in Req, brands' = brands, Unlock(r)
    PROVE  LockInv'
<1>1. write'[r].id = NilId /\ \A o \in Req \ {r} : write'[o] = write[o]
    BY DEF Unlock, NoWrite, TypeOK
<1> QED
    BY <1>1 DEF LockInv, InTx

LEMMA Committed ==
    ASSUME TypeOK, LockInv, UniqueNames, NEW r \in Req, InTx(r), write[r].id \in Id,
           Apply(r), Unlock(r)
    PROVE  LockInv' /\ UniqueNames'
<1>1. write'[r].id = NilId /\ \A o \in Req \ {r} : write'[o] = write[o]
    BY DEF Unlock, NoWrite, TypeOK
<1>2. /\ brands'[write[r].id] = write[r].name
      /\ \A j \in Id \ {write[r].id} : brands'[j] = brands[j]
    BY DEF Apply, TypeOK
<1>3. LockInv'
  <2> SUFFICES ASSUME NEW p \in Req \ {r}, InTx(p)
               PROVE  /\ \A o \in Req \ {p, r} : InTx(o) =>
                            /\ write[p].id # write[o].id
                            /\ write[p].name # NoBrand /\ write[o].name # NoBrand =>
                                  Key[write[p].name] # Key[write[o].name]
                      /\ \A j \in Id \ {write[p].id} :
                            brands'[j] # NoBrand /\ write[p].name # NoBrand =>
                               Key[brands'[j]] # Key[write[p].name]
    BY <1>1 DEF LockInv, InTx
  <2> QED
    BY <1>2 DEF LockInv
<1>4. UniqueNames'
    BY <1>2 DEF LockInv, UniqueNames, Registry!UniqueNames, Registry!Exists
<1> QED
    BY <1>3, <1>4


\* A statement that fails leaves what its transaction wrote.
LEMMA Unwritten ==
    ASSUME TypeOK, WriteInv, NEW r \in Req, UNCHANGED <<brands, refs, arg, write>>,
           pc' = [pc EXCEPT ![r] = "rollback"]
    PROVE  WriteInv'
<1>1. pc'[r] = "rollback" /\ \A o \in Req \ {r} : pc'[o] = pc[o]
    BY DEF TypeOK
<1> QED
    BY <1>1 DEF WriteInv, InTx

\* What a transaction has written fits what it was asked for.
LEMMA WriteStep ==
    TypeOK /\ ArgInv /\ WriteInv /\ LockInv /\ [Next]_vars => WriteInv'
<1> SUFFICES ASSUME TypeOK, ArgInv, WriteInv, LockInv, [Next]_vars PROVE WriteInv'
    OBVIOUS
<1>0. NilId \notin Id /\ NoBrand \notin Name
    BY BrandAssumption
<1>100. ASSUME NEW r \in Req, brands' = brands, refs' = refs, arg' = arg, write' = write,
               pc' = [pc EXCEPT ![r] = "rollback"]
        PROVE  WriteInv'
    BY <1>100, Unwritten
<1> USE DEF TypeOK, ArgInv, WriteInv, InTx, Goto, Answer, Fails
<1>1. ASSUME NEW r \in Req, Arrive(r) PROVE WriteInv'
    BY <1>1 DEF Arrive
<1>2. ASSUME NEW r \in Req, Read(r) PROVE WriteInv'
    BY <1>2 DEF Read
<1>3. ASSUME NEW r \in Req, Begin(r) PROVE WriteInv'
    BY <1>3 DEF Begin
<1>4. ASSUME NEW r \in Req, Insert(r) PROVE WriteInv'
  <2>1. /\ pc[r] = "row" /\ arg' = arg /\ brands' = brands /\ refs' = refs
        /\ \/ UNCHANGED write /\ pc' = [pc EXCEPT ![r] = "rollback"]
           \/ /\ arg[r].op = "create" /\ pc' = [pc EXCEPT ![r] = "commit"]
              /\ \E i \in Id :
                    write' = [write EXCEPT ![r] = [id |-> i, name |-> arg[r].name]]
    BY <1>4, Zenon DEF Insert
  <2>2. CASE UNCHANGED write /\ pc' = [pc EXCEPT ![r] = "rollback"]
    BY <2>1, <2>2, <1>100
  <2>3. ASSUME NEW i \in Id, arg[r].op = "create", pc' = [pc EXCEPT ![r] = "commit"],
               write' = [write EXCEPT ![r] = [id |-> i, name |-> arg[r].name]]
        PROVE  WriteInv'
    BY <1>0, <2>1, <2>3 DEF ArgInv
  <2> QED
    BY <2>1, <2>2, <2>3
<1>5. ASSUME NEW r \in Req, LockRow(r) PROVE WriteInv'
  <2>1. /\ pc[r] = "row" /\ arg' = arg /\ brands' = brands /\ refs' = refs
        /\ \/ UNCHANGED write /\ pc' = [pc EXCEPT ![r] = "rollback"]
           \/ /\ arg[r].op = "update" /\ pc' = [pc EXCEPT ![r] = "key"]
              /\ brands[arg[r].id] # NoBrand
              /\ write' = [write EXCEPT ![r] = [id |-> arg[r].id, name |-> brands[arg[r].id]]]
    BY <1>5, Zenon DEF LockRow
  <2>2. CASE UNCHANGED write /\ pc' = [pc EXCEPT ![r] = "rollback"]
    BY <2>1, <2>2, <1>100
  <2>3. CASE /\ arg[r].op = "update" /\ pc' = [pc EXCEPT ![r] = "key"]
           /\ brands[arg[r].id] # NoBrand
             /\ write' = [write EXCEPT ![r] = [id |-> arg[r].id, name |-> brands[arg[r].id]]]
    BY <1>0, <2>1, <2>3 DEF ArgInv
  <2> QED
    BY <2>1, <2>2, <2>3
<1>6. ASSUME NEW r \in Req, WriteKey(r) PROVE WriteInv'
  <2>1. /\ pc[r] = "key" /\ arg' = arg /\ brands' = brands /\ refs' = refs
        /\ \/ UNCHANGED write /\ pc' = [pc EXCEPT ![r] = "rollback"]
           \/ /\ pc' = [pc EXCEPT ![r] = "commit"]
              /\ write' = [write EXCEPT ![r].name = arg[r].name]
    BY <1>6, Zenon DEF WriteKey
  <2>2. CASE UNCHANGED write /\ pc' = [pc EXCEPT ![r] = "rollback"]
    BY <2>1, <2>2, <1>100
  <2>3. CASE /\ pc' = [pc EXCEPT ![r] = "commit"]
             /\ write' = [write EXCEPT ![r].name = arg[r].name]
    BY <1>0, <2>1, <2>3 DEF ArgInv
  <2> QED
    BY <2>1, <2>2, <2>3
<1>7. ASSUME NEW r \in Req, Delete(r) PROVE WriteInv'
  <2>1. /\ pc[r] = "row" /\ arg' = arg /\ brands' = brands /\ refs' = refs
        /\ \/ UNCHANGED write /\ pc' = [pc EXCEPT ![r] = "rollback"]
           \/ /\ arg[r].op = "delete" /\ pc' = [pc EXCEPT ![r] = "commit"]
              /\ brands[arg[r].id] # NoBrand /\ arg[r].id \notin refs
              /\ write' = [write EXCEPT ![r] = [id |-> arg[r].id, name |-> NoBrand]]
    BY <1>7, Zenon DEF Delete
  <2>2. CASE UNCHANGED write /\ pc' = [pc EXCEPT ![r] = "rollback"]
    BY <2>1, <2>2, <1>100
  <2>3. CASE /\ arg[r].op = "delete" /\ pc' = [pc EXCEPT ![r] = "commit"]
           /\ brands[arg[r].id] # NoBrand /\ arg[r].id \notin refs
             /\ write' = [write EXCEPT ![r] = [id |-> arg[r].id, name |-> NoBrand]]
    BY <1>0, <2>1, <2>3 DEF ArgInv
  <2> QED
    BY <2>1, <2>2, <2>3
<1>8. ASSUME NEW r \in Req, Commit(r) PROVE WriteInv'
    BY <1>8, <1>0 DEF Commit, Apply, Unlock, NoWrite, LockInv
<1>9. ASSUME NEW r \in Req, Rollback(r) PROVE WriteInv'
    BY <1>9 DEF Rollback, Unlock, NoWrite
<1>10. ASSUME NEW r \in Req, Unavailable(r) PROVE WriteInv'
    BY <1>10 DEF Unavailable
<1>11. ASSUME NEW r \in Req, StatementFault(r) PROVE WriteInv'
    BY <1>11 DEF StatementFault
<1>12. ASSUME NEW r \in Req, RollbackFault(r) PROVE WriteInv'
    BY <1>12 DEF RollbackFault
<1>13. ASSUME NEW r \in Req, CommitFault(r) PROVE WriteInv'
    BY <1>13 DEF CommitFault
<1>14. ASSUME NEW r \in Req, DeadlockAbort(r) PROVE WriteInv'
    BY <1>14, DeadlockedWaits DEF DeadlockAbort
<1>15. ASSUME NEW r \in Req, Reap(r) PROVE WriteInv'
    BY <1>15 DEF Reap, Discard, Apply, Unlock, NoWrite, LockInv
<1>16. ASSUME NEW i \in Id, AddCard(i) \/ RemoveCard(i) PROVE WriteInv'
    BY <1>16 DEF AddCard, RemoveCard, Writes
<1>17. CASE UNCHANGED vars
    BY <1>17 DEF vars
<1> QED
    BY <1>1, <1>2, <1>3, <1>4, <1>5, <1>6, <1>7, <1>8, <1>9, <1>10, <1>11,
       <1>12, <1>13, <1>14, <1>15, <1>16, <1>17
    DEF Next, Handle, Statement, Fault

\* Locks and the unique index keep rows and keys apart.
LEMMA LockStep ==
    TypeOK /\ ArgInv /\ WriteInv /\ LockInv /\ UniqueNames /\ [Next]_vars
        => LockInv' /\ UniqueNames'
<1> SUFFICES ASSUME TypeOK, ArgInv, WriteInv, LockInv, UniqueNames, [Next]_vars
             PROVE  LockInv' /\ UniqueNames'
    OBVIOUS
<1>0. brands' = brands => UniqueNames' /\ (write' = write => LockInv')
    BY DEF LockInv, InTx, UniqueNames, Registry!UniqueNames, Registry!Exists
<1>1. ASSUME NEW r \in Req, Arrive(r) PROVE LockInv' /\ UniqueNames'
    BY <1>1, <1>0 DEF Arrive
<1>2. ASSUME NEW r \in Req, Read(r) PROVE LockInv' /\ UniqueNames'
    BY <1>2, <1>0 DEF Read
<1>3. ASSUME NEW r \in Req, Begin(r) PROVE LockInv' /\ UniqueNames'
    BY <1>3, <1>0 DEF Begin
<1>4. ASSUME NEW r \in Req, Insert(r) PROVE LockInv' /\ UniqueNames'
  <2>1. \/ UNCHANGED write
        \/ /\ ~Violates(r, NilId, arg[r].name) /\ pc[r] = "row"
           /\ arg[r].op = "create" /\ Waits(r) = {}
           /\ \E i \in Id : /\ brands[i] = NoBrand
                           /\ \A o \in Req : ~Writes(o, i)
                           /\ write' = [write EXCEPT ![r] = [id |-> i, name |-> arg[r].name]]
    BY <1>4, Zenon DEF Insert
  <2>2. brands' = brands
    BY <1>4 DEF Insert
  <2>3. CASE UNCHANGED write
    BY <1>0, <2>2, <2>3
  <2>4. ASSUME ~Violates(r, NilId, arg[r].name), pc[r] = "row", arg[r].op = "create",
               Waits(r) = {}, NEW i \in Id, \A o \in Req : ~Writes(o, i),
               write' = [write EXCEPT ![r] = [id |-> i, name |-> arg[r].name]]
        PROVE  LockInv'
    <3>1. arg[r].name \in Name
        BY <2>4 DEF ArgInv
    <3>2. /\ \A o \in Req \ {r} : InTx(o) /\ write[o].name # NoBrand =>
                 Key[arg[r].name] # Key[write[o].name]
          /\ \A j \in Id \ {NilId} : brands[j] # NoBrand => Key[brands[j]] # Key[arg[r].name]
        BY <2>4, <3>1, KeyFree
    <3>3. \A o \in Req \ {r} : InTx(o) => write[o].id # i
        BY <2>4 DEF Writes
    <3>4. /\ write'[r].id = i /\ write'[r].name = arg[r].name
          /\ \A o \in Req \ {r} : write'[o] = write[o]
        BY <2>4, <3>1 DEF TypeOK
    <3>5. \A o \in Req \ {r} : InTx(o) =>
             /\ write'[r].id # write[o].id
             /\ write'[r].name # NoBrand /\ write[o].name # NoBrand =>
                   Key[write'[r].name] # Key[write[o].name]
        BY <3>2, <3>3, <3>4
    <3>6. \A j \in Id \ {write'[r].id} :
             brands[j] # NoBrand /\ write'[r].name # NoBrand =>
                Key[brands[j]] # Key[write'[r].name]
        BY <3>2, <3>4, BrandAssumption
    <3> QED
        BY <2>2, <3>4, <3>5, <3>6, Written
  <2> QED
    BY <1>0, <2>1, <2>2, <2>3, <2>4
<1>5. ASSUME NEW r \in Req, LockRow(r) PROVE LockInv' /\ UniqueNames'
  <2>1. \/ UNCHANGED write
        \/ /\ pc[r] = "row" /\ arg[r].op = "update" /\ Waits(r) = {}
           /\ brands[arg[r].id] # NoBrand
           /\ write' = [write EXCEPT ![r] = [id |-> arg[r].id, name |-> brands[arg[r].id]]]
    BY <1>5, Zenon DEF LockRow
  <2>2. brands' = brands
    BY <1>5 DEF LockRow
  <2>3. CASE UNCHANGED write
    BY <1>0, <2>2, <2>3
  <2>4. ASSUME pc[r] = "row", arg[r].op = "update", Waits(r) = {}, brands[arg[r].id] # NoBrand,
               write' = [write EXCEPT ![r] = [id |-> arg[r].id, name |-> brands[arg[r].id]]]
        PROVE  LockInv'
    <3>1. arg[r].id \in Id /\ brands[arg[r].id] \in Name \cup {NoBrand}
        BY <2>4 DEF ArgInv, TypeOK
    <3>2. \A o \in Req \ {r} : InTx(o) => write[o].id # arg[r].id
        BY <2>4, RowFree
    <3>3. /\ write'[r].id = arg[r].id /\ write'[r].name = brands[arg[r].id]
          /\ \A o \in Req \ {r} : write'[o] = write[o]
        BY <2>4, <3>1 DEF TypeOK
    <3>4. \A o \in Req \ {r} : InTx(o) =>
             /\ write'[r].id # write[o].id
             /\ write'[r].name # NoBrand /\ write[o].name # NoBrand =>
                   Key[write'[r].name] # Key[write[o].name]
        BY <2>4, <3>1, <3>2, <3>3 DEF LockInv
    <3>5. \A j \in Id \ {write'[r].id} :
             brands[j] # NoBrand /\ write'[r].name # NoBrand =>
                Key[brands[j]] # Key[write'[r].name]
        BY <2>4, <3>1, <3>3 DEF UniqueNames, Registry!UniqueNames, Registry!Exists
    <3> QED
        BY <2>2, <3>3, <3>4, <3>5, Written
  <2> QED
    BY <1>0, <2>1, <2>2, <2>3, <2>4
<1>6. ASSUME NEW r \in Req, WriteKey(r) PROVE LockInv' /\ UniqueNames'
  <2>1. \/ UNCHANGED write
        \/ /\ ~Violates(r, arg[r].id, arg[r].name) /\ pc[r] = "key" /\ Waits(r) = {}
           /\ write' = [write EXCEPT ![r].name = arg[r].name]
    BY <1>6, Zenon DEF WriteKey
  <2>2. brands' = brands
    BY <1>6 DEF WriteKey
  <2>3. CASE UNCHANGED write
    BY <1>0, <2>2, <2>3
  <2>4. ASSUME ~Violates(r, arg[r].id, arg[r].name), pc[r] = "key", Waits(r) = {},
               write' = [write EXCEPT ![r].name = arg[r].name]
        PROVE  LockInv'
    <3>1. /\ arg[r].id \in Id /\ arg[r].name \in Name
          /\ InTx(r) /\ write[r].id = arg[r].id
        BY <2>4 DEF ArgInv, WriteInv
    <3>2. /\ \A o \in Req \ {r} : InTx(o) /\ write[o].name # NoBrand =>
                 Key[arg[r].name] # Key[write[o].name]
          /\ \A j \in Id \ {arg[r].id} : brands[j] # NoBrand => Key[brands[j]] # Key[arg[r].name]
        BY <2>4, <3>1, KeyFree
    <3>3. \A o \in Req \ {r} : InTx(o) => write[o].id # arg[r].id
        BY <3>1 DEF LockInv
    <3>4. /\ write'[r].id = arg[r].id /\ write'[r].name = arg[r].name
          /\ \A o \in Req \ {r} : write'[o] = write[o]
        BY <2>4, <3>1 DEF TypeOK
    <3>5. \A o \in Req \ {r} : InTx(o) =>
             /\ write'[r].id # write[o].id
             /\ write'[r].name # NoBrand /\ write[o].name # NoBrand =>
                   Key[write'[r].name] # Key[write[o].name]
        BY <3>2, <3>3, <3>4
    <3>6. \A j \in Id \ {write'[r].id} :
             brands[j] # NoBrand /\ write'[r].name # NoBrand =>
                Key[brands[j]] # Key[write'[r].name]
        BY <3>2, <3>4
    <3> QED
        BY <2>2, <3>4, <3>5, <3>6, Written
  <2> QED
    BY <1>0, <2>1, <2>2, <2>3, <2>4
<1>7. ASSUME NEW r \in Req, Delete(r) PROVE LockInv' /\ UniqueNames'
  <2>1. \/ UNCHANGED write
        \/ /\ pc[r] = "row" /\ arg[r].op = "delete" /\ Waits(r) = {}
           /\ brands[arg[r].id] # NoBrand
           /\ write' = [write EXCEPT ![r] = [id |-> arg[r].id, name |-> NoBrand]]
    BY <1>7, Zenon DEF Delete
  <2>2. brands' = brands
    BY <1>7 DEF Delete
  <2>3. CASE UNCHANGED write
    BY <1>0, <2>2, <2>3
  <2>4. ASSUME pc[r] = "row", arg[r].op = "delete", Waits(r) = {}, brands[arg[r].id] # NoBrand,
               write' = [write EXCEPT ![r] = [id |-> arg[r].id, name |-> NoBrand]]
        PROVE  LockInv'
    <3>1. arg[r].id \in Id
        BY <2>4 DEF ArgInv
    <3>2. \A o \in Req \ {r} : InTx(o) => write[o].id # arg[r].id
        BY <2>4, RowFree
    <3>3. /\ write'[r].id = arg[r].id /\ write'[r].name = NoBrand
          /\ \A o \in Req \ {r} : write'[o] = write[o]
        BY <2>4, <3>1 DEF TypeOK
    <3>4. \A o \in Req \ {r} : InTx(o) =>
             /\ write'[r].id # write[o].id
             /\ write'[r].name # NoBrand /\ write[o].name # NoBrand =>
                   Key[write'[r].name] # Key[write[o].name]
        BY <3>2, <3>3
    <3>5. \A j \in Id \ {write'[r].id} :
             brands[j] # NoBrand /\ write'[r].name # NoBrand =>
                Key[brands[j]] # Key[write'[r].name]
        BY <3>3
    <3> QED
        BY <2>2, <3>3, <3>4, <3>5, Written
  <2> QED
    BY <1>0, <2>1, <2>2, <2>3, <2>4
<1>8. ASSUME NEW r \in Req, Commit(r) PROVE LockInv' /\ UniqueNames'
  <2>1. InTx(r) /\ write[r].id \in Id
    BY <1>8 DEF Commit, WriteInv
  <2> QED
    BY <1>8, <2>1, Committed DEF Commit
<1>9. ASSUME NEW r \in Req, Rollback(r) PROVE LockInv' /\ UniqueNames'
    BY <1>9, <1>0, Discarded DEF Rollback
<1>10. ASSUME NEW r \in Req, Unavailable(r) PROVE LockInv' /\ UniqueNames'
    BY <1>10, <1>0 DEF Unavailable
<1>11. ASSUME NEW r \in Req, StatementFault(r) PROVE LockInv' /\ UniqueNames'
    BY <1>11, <1>0 DEF StatementFault
<1>12. ASSUME NEW r \in Req, RollbackFault(r) PROVE LockInv' /\ UniqueNames'
    BY <1>12, <1>0 DEF RollbackFault
<1>13. ASSUME NEW r \in Req, CommitFault(r) PROVE LockInv' /\ UniqueNames'
    BY <1>13, <1>0 DEF CommitFault
<1>14. ASSUME NEW r \in Req, DeadlockAbort(r) PROVE LockInv' /\ UniqueNames'
    BY <1>14, <1>0 DEF DeadlockAbort
<1>15. ASSUME NEW r \in Req, Reap(r) PROVE LockInv' /\ UniqueNames'
  <2>1. InTx(r) /\ write[r].id \in Id /\ Unlock(r)
    BY <1>15 DEF Reap, WriteInv
  <2>2. CASE Discard
    BY <1>0, <2>1, <2>2, Discarded DEF Discard
  <2>3. CASE Apply(r)
    BY <2>1, <2>3, Committed
  <2> QED
    BY <1>15, <2>2, <2>3 DEF Reap
<1>16. ASSUME NEW i \in Id, AddCard(i) \/ RemoveCard(i) PROVE LockInv' /\ UniqueNames'
    BY <1>16, <1>0 DEF AddCard, RemoveCard
<1>17. CASE UNCHANGED vars
    BY <1>17, <1>0 DEF vars
<1> QED
    BY <1>1, <1>2, <1>3, <1>4, <1>5, <1>6, <1>7, <1>8, <1>9, <1>10, <1>11,
       <1>12, <1>13, <1>14, <1>15, <1>16, <1>17
    DEF Next, Handle, Statement, Fault

-----------------------------------------------------------------------------
(* What transactions commit, and what is known of their outcome *)

StepOf(r) ==
    Arrive(r) \/ Handle(r) \/ Fault(r) \/ DeadlockAbort(r) \/ Reap(r)

\* A step of one request leaves what belongs to the others alone.
LEMMA Frame ==
    ASSUME TypeOK, NEW r \in Req, StepOf(r), NEW o \in Req \ {r}
    PROVE  /\ pc'[o] = pc[o] /\ arg'[o] = arg[o] /\ failure'[o] = failure[o]
           /\ resp'[o] = resp[o] /\ write'[o] = write[o]
           /\ o \in applied' <=> o \in applied
<1> USE DEF TypeOK, Goto, Answer, Fails
<1>1. CASE Arrive(r) \/ Read(r) \/ Begin(r)
    BY <1>1 DEF Arrive, Read, Begin
<1>2. CASE Insert(r)
    BY <1>2 DEF Insert
<1>3. CASE LockRow(r) \/ WriteKey(r) \/ Delete(r)
    BY <1>3 DEF LockRow, WriteKey, Delete
<1>4. CASE Commit(r) \/ Rollback(r) \/ Reap(r)
    BY <1>4 DEF Commit, Rollback, Reap, Apply, Unlock, Discard
<1>5. CASE Fault(r) \/ DeadlockAbort(r)
    BY <1>5 DEF Fault, Unavailable, StatementFault, RollbackFault, CommitFault,
                DeadlockAbort
<1> QED
    BY <1>1, <1>2, <1>3, <1>4, <1>5 DEF StepOf, Handle, Statement

\* A step is one of a request, or of a card, or none.
LEMMA Steps ==
    ASSUME [Next]_vars
    PROVE  \/ \E r \in Req : StepOf(r)
           \/ /\ UNCHANGED <<brands, write, pc, arg, failure, resp, conns, applied>>
              /\ \/ refs' = refs
                 \/ \E i \in Id : AddCard(i) \/ RemoveCard(i)
    BY DEF Next, StepOf, AddCard, RemoveCard, vars

\* The rows that other transactions write stay as they were.
LEMMA OthersRows ==
    ASSUME TypeOK, WriteInv, LockInv, NEW r \in Req, StepOf(r),
           NEW o \in Req \ {r}, InTx(o)
    PROVE  brands'[write[o].id] = brands[write[o].id]
<1>1. brands' = brands \/ (InTx(r) /\ Apply(r))
  <2>1. CASE Commit(r) \/ Reap(r)
    BY <2>1 DEF Commit, Reap, Discard, WriteInv
  <2>2. CASE Arrive(r) \/ Read(r) \/ Begin(r) \/ Statement(r) \/ Rollback(r)
    BY <2>2 DEF Arrive, Read, Begin, Statement, Insert, LockRow, WriteKey, Delete,
                Rollback
  <2>3. CASE Fault(r) \/ DeadlockAbort(r)
    BY <2>3 DEF Fault, Unavailable, StatementFault, RollbackFault, CommitFault,
                DeadlockAbort
  <2> QED
    BY <2>1, <2>2, <2>3 DEF StepOf, Handle
<1>2. CASE InTx(r) /\ Apply(r)
  <2>1. write[o].id \in Id /\ write[o].id # write[r].id
    BY <1>2 DEF LockInv, WriteInv
  <2> QED
    BY <1>2, <2>1 DEF Apply, TypeOK
<1> QED
    BY <1>1, <1>2

\* What a step of r makes of what r has written.
LEMMA OwnEffect ==
    ASSUME TypeOK, ArgInv, WriteInv, OutcomeInv, EffectInv,
           NEW r \in Req, StepOf(r), InTx(r)'
    PROVE  /\ arg'[r].op = "create" =>
                 brands'[write'[r].id] = NoBrand /\ write'[r].name = arg'[r].name
           /\ arg'[r].op # "create" =>
                 write'[r].id = arg'[r].id /\ brands'[write'[r].id] # NoBrand
           /\ arg'[r].op = "delete" => write'[r].name = NoBrand
           /\ arg'[r].op = "update" /\ (pc'[r] = "commit" \/ failure'[r] = "commit") =>
                 write'[r].name = arg'[r].name
<1>0. NilId \notin Id /\ NoBrand \notin Name
    BY BrandAssumption
<1> USE DEF TypeOK, Goto, Answer, Fails, InTx
<1>1. CASE Arrive(r) \/ Read(r) \/ Begin(r) \/ Unavailable(r)
    BY <1>1 DEF Arrive, Read, Begin, Unavailable, WriteInv
<1>2. CASE Insert(r)
  <2>1. pc[r] = "row" /\ arg[r].op = "create" /\ arg' = arg /\ brands' = brands
    BY <1>2 DEF Insert
  <2>2. \/ UNCHANGED write
        \/ \E i \in Id :
              /\ brands[i] = NoBrand
              /\ write' = [write EXCEPT ![r] = [id |-> i, name |-> arg[r].name]]
    BY <1>2, ZenonT(30) DEF Insert
  <2>3. ~InTx(r)
    BY <2>1 DEF WriteInv
  <2> QED
    BY <2>1, <2>2, <2>3
<1>3. CASE LockRow(r)
  <2>1. /\ pc[r] = "row" /\ arg[r].op = "update" /\ arg' = arg /\ brands' = brands
        /\ failure[r] = "none" /\ ~InTx(r)
    BY <1>3 DEF LockRow, WriteInv, OutcomeInv
  <2>2. \/ UNCHANGED write
        \/ /\ pc' = [pc EXCEPT ![r] = "key"] /\ failure' = failure
           /\ brands[arg[r].id] # NoBrand
           /\ write' = [write EXCEPT ![r] = [id |-> arg[r].id, name |-> brands[arg[r].id]]]
    BY <1>3, Zenon DEF LockRow
  <2> QED
    BY <2>1, <2>2
<1>4. CASE WriteKey(r)
  <2>1. /\ pc[r] = "key" /\ arg[r].op = "update" /\ arg' = arg /\ brands' = brands
        /\ failure[r] = "none" /\ InTx(r)
        /\ write[r].id = arg[r].id /\ brands[write[r].id] # NoBrand
    BY <1>4 DEF WriteKey, WriteInv, OutcomeInv, ArgInv, EffectInv
  <2>2. \/ /\ UNCHANGED write /\ pc' = [pc EXCEPT ![r] = "rollback"]
           /\ failure' = [failure EXCEPT ![r] = "unique"]
        \/ write' = [write EXCEPT ![r].name = arg[r].name]
    BY <1>4, Zenon DEF WriteKey
  <2> QED
    BY <2>1, <2>2
<1>5. CASE Delete(r)
  <2>1. /\ pc[r] = "row" /\ arg[r].op = "delete" /\ arg' = arg /\ brands' = brands
        /\ ~InTx(r)
    BY <1>5 DEF Delete, WriteInv
  <2>2. \/ UNCHANGED write
        \/ /\ brands[arg[r].id] # NoBrand
           /\ write' = [write EXCEPT ![r] = [id |-> arg[r].id, name |-> NoBrand]]
    BY <1>5, Zenon DEF Delete
  <2> QED
    BY <2>1, <2>2
<1>6. CASE Commit(r) \/ Rollback(r) \/ Reap(r)
    BY <1>6 DEF Commit, Rollback, Reap, Unlock, NoWrite
<1>7. CASE StatementFault(r) \/ DeadlockAbort(r)
    BY <1>7, DeadlockedWaits DEF StatementFault, DeadlockAbort, WriteInv, EffectInv
<1>8. CASE RollbackFault(r)
    BY <1>8 DEF RollbackFault, EffectInv, OutcomeInv
<1>9. CASE CommitFault(r)
    BY <1>9 DEF CommitFault, EffectInv
<1> QED
    BY <1>1, <1>2, <1>3, <1>4, <1>5, <1>6, <1>7, <1>8, <1>9
    DEF StepOf, Handle, Statement, Fault

\* Transactions change no row but the one they hold.
LEMMA EffectStep ==
    /\ TypeOK /\ ArgInv /\ WriteInv /\ LockInv /\ OutcomeInv /\ EffectInv
    /\ [Next]_vars
    => EffectInv'
<1> SUFFICES ASSUME TypeOK, ArgInv, WriteInv, LockInv, OutcomeInv, EffectInv, [Next]_vars
             PROVE  EffectInv'
    OBVIOUS
<1>1. ASSUME NEW r \in Req, StepOf(r) PROVE EffectInv'
  <2> SUFFICES ASSUME NEW o \in Req, InTx(o)'
               PROVE  /\ arg'[o].op = "create" =>
                            brands'[write'[o].id] = NoBrand /\ write'[o].name = arg'[o].name
                      /\ arg'[o].op # "create" =>
                            write'[o].id = arg'[o].id /\ brands'[write'[o].id] # NoBrand
                      /\ arg'[o].op = "delete" => write'[o].name = NoBrand
                      /\ arg'[o].op = "update"
                            /\ (pc'[o] = "commit" \/ failure'[o] = "commit") =>
                            write'[o].name = arg'[o].name
    BY DEF EffectInv
  <2>1. CASE o = r
    BY <1>1, <2>1, OwnEffect
  <2>2. CASE o # r
    <3>1. /\ pc'[o] = pc[o] /\ arg'[o] = arg[o] /\ failure'[o] = failure[o]
          /\ write'[o] = write[o] /\ InTx(o)
        BY <1>1, <2>2, Frame DEF InTx
    <3>2. brands'[write[o].id] = brands[write[o].id]
        BY <1>1, <2>2, <3>1, OthersRows
    <3> QED
        BY <3>1, <3>2 DEF EffectInv
  <2> QED
    BY <2>1, <2>2
<1>2. CASE UNCHANGED <<brands, write, pc, arg, failure, resp, conns, applied>>
    BY <1>2 DEF EffectInv, InTx
<1> QED
    BY <1>1, <1>2, Steps

\* What is known of a request after a step of it.
LEMMA OwnOutcome ==
    ASSUME TypeOK, ArgInv, WriteInv, AppliedInv, OutcomeInv, NEW r \in Req, StepOf(r)
    PROVE  /\ pc'[r] = "new" <=> arg'[r] = NoArg
           /\ pc'[r] = "answered" <=> resp'[r] # 0
           /\ pc'[r] \in {"row", "key", "commit"} => failure'[r] = "none"
           /\ pc'[r] \in {"new", "begin", "read"} => failure'[r] = "none"
           /\ pc'[r] = "rollback" => failure'[r] \notin {"none", "commit"}
           /\ InTx(r)' \/ failure'[r] # "none" =>
                 arg'[r].op \in {"create", "update", "delete"}
           /\ failure'[r] = "unique" => arg'[r].op # "delete"
           /\ failure'[r] = "noRows" => arg'[r].op # "create"
           /\ failure'[r] = "foreignKey" => arg'[r].op = "delete"
           /\ failure'[r] = "commit" => resp'[r] = 500
           /\ failure'[r] = "none" /\ resp'[r] = 200 /\ arg'[r].op # "get" =>
                 r \in applied'
           /\ r \in applied' => failure'[r] \in {"none", "commit"}
           /\ pc'[r] = "answered" /\ failure'[r] \notin {"none", "commit"} =>
                 resp'[r] = Refusal(arg'[r].op, failure'[r])
<1> USE DEF TypeOK, Goto, Answer, Fails, InTx
<1>1. CASE Arrive(r)
  <2>1. NoArg \notin Work
    BY WorkType DEF NoArg, Ops
  <2> QED
    BY <1>1, <2>1 DEF Arrive, OutcomeInv, WriteInv, AppliedInv
<1>2. CASE Read(r)
  <2>1. Refusal("get", "noRows") = 404
    BY DEF Refusal, Status, RepoError, GetError, GetStatus
  <2> QED
    BY <1>2, <2>1 DEF Read, OutcomeInv, WriteInv, AppliedInv, ArgInv
<1>3. CASE Begin(r) \/ Unavailable(r)
    BY <1>3 DEF Begin, Unavailable, OutcomeInv, WriteInv, AppliedInv
<1>4. CASE Insert(r)
  <2>1. /\ pc[r] = "row" /\ arg[r].op = "create" /\ r \notin applied /\ failure[r] = "none"
        /\ UNCHANGED <<arg, resp, applied>>
    BY <1>4 DEF Insert, AppliedInv, OutcomeInv
  <2>2. \/ /\ pc' = [pc EXCEPT ![r] = "rollback"]
           /\ failure' = [failure EXCEPT ![r] = "unique"]
        \/ pc' = [pc EXCEPT ![r] = "commit"] /\ failure' = failure
    BY <1>4, Zenon DEF Insert
  <2> QED
    BY <2>1, <2>2 DEF OutcomeInv
<1>5. CASE LockRow(r)
    BY <1>5 DEF LockRow, OutcomeInv, AppliedInv
<1>6. CASE WriteKey(r)
    BY <1>6 DEF WriteKey, OutcomeInv, AppliedInv, ArgInv
<1>7. CASE Delete(r)
    BY <1>7 DEF Delete, OutcomeInv, AppliedInv
<1>8. CASE Commit(r)
    BY <1>8 DEF Commit, Apply, Unlock, NoWrite, OutcomeInv
<1>9. CASE Rollback(r) \/ RollbackFault(r)
  <2>1. Refusal(arg[r].op, failure[r]) \in {404, 409, 500}
    BY <1>9, Refusals DEF Rollback, RollbackFault, ArgInv, Ops
  <2> QED
    BY <1>9, <2>1
    DEF Rollback, RollbackFault, Unlock, NoWrite, OutcomeInv, AppliedInv
<1>10. CASE StatementFault(r) \/ DeadlockAbort(r)
    BY <1>10, DeadlockedWaits
    DEF StatementFault, DeadlockAbort, OutcomeInv, AppliedInv, ArgInv
<1>11. CASE CommitFault(r)
    BY <1>11 DEF CommitFault, OutcomeInv, AppliedInv, ArgInv
<1>12. CASE Reap(r)
    BY <1>12 DEF Reap, Discard, Apply, Unlock, NoWrite, OutcomeInv
<1> QED
    BY <1>1, <1>2, <1>3, <1>4, <1>5, <1>6, <1>7, <1>8, <1>9, <1>10, <1>11, <1>12
    DEF StepOf, Handle, Statement, Fault

\* The failure of a request decides its answer, and nothing comes of a failed write.
LEMMA OutcomeStep ==
    TypeOK /\ ArgInv /\ WriteInv /\ AppliedInv /\ OutcomeInv /\ [Next]_vars
        => OutcomeInv'
<1> SUFFICES ASSUME TypeOK, ArgInv, WriteInv, AppliedInv, OutcomeInv, [Next]_vars
             PROVE  OutcomeInv'
    OBVIOUS
<1>1. ASSUME NEW r \in Req, StepOf(r) PROVE OutcomeInv'
  <2>1. ASSUME NEW o \in Req \ {r}
        PROVE  /\ pc'[o] = pc[o] /\ arg'[o] = arg[o] /\ failure'[o] = failure[o]
               /\ resp'[o] = resp[o] /\ write'[o] = write[o]
               /\ o \in applied' <=> o \in applied
    BY <1>1, Frame
  <2> QED
    BY <1>1, <2>1, OwnOutcome DEF OutcomeInv, InTx
<1>2. CASE UNCHANGED <<brands, write, pc, arg, failure, resp, conns, applied>>
    BY <1>2 DEF OutcomeInv, InTx
<1> QED
    BY <1>1, <1>2, Steps

-----------------------------------------------------------------------------
(* Effects and answers *)

\* A write is committed once, at the end of its transaction.
LEMMA AppliedStep ==
    TypeOK /\ WriteInv /\ AppliedInv /\ [Next]_vars => AppliedInv'
<1> SUFFICES ASSUME TypeOK, WriteInv, AppliedInv, [Next]_vars PROVE AppliedInv'
    OBVIOUS
<1> USE DEF TypeOK, AppliedInv, InTx, Goto, Answer, Fails
<1>1. ASSUME NEW r \in Req, Arrive(r) PROVE AppliedInv'
    BY <1>1 DEF Arrive
<1>2. ASSUME NEW r \in Req, Read(r) PROVE AppliedInv'
    BY <1>2 DEF Read
<1>3. ASSUME NEW r \in Req, Begin(r) PROVE AppliedInv'
    BY <1>3 DEF Begin
<1>4. ASSUME NEW r \in Req, Insert(r) PROVE AppliedInv'
    BY <1>4 DEF Insert
<1>5. ASSUME NEW r \in Req, LockRow(r) PROVE AppliedInv'
    BY <1>5 DEF LockRow
<1>6. ASSUME NEW r \in Req, WriteKey(r) PROVE AppliedInv'
    BY <1>6 DEF WriteKey
<1>7. ASSUME NEW r \in Req, Delete(r) PROVE AppliedInv'
    BY <1>7 DEF Delete
<1>8. ASSUME NEW r \in Req, Commit(r) PROVE AppliedInv'
    BY <1>8 DEF Commit, Apply, Unlock, NoWrite
<1>9. ASSUME NEW r \in Req, Rollback(r) PROVE AppliedInv'
    BY <1>9 DEF Rollback, Unlock, NoWrite
<1>10. ASSUME NEW r \in Req, Unavailable(r) PROVE AppliedInv'
    BY <1>10 DEF Unavailable
<1>11. ASSUME NEW r \in Req, StatementFault(r) PROVE AppliedInv'
    BY <1>11 DEF StatementFault
<1>12. ASSUME NEW r \in Req, RollbackFault(r) PROVE AppliedInv'
    BY <1>12 DEF RollbackFault
<1>13. ASSUME NEW r \in Req, CommitFault(r) PROVE AppliedInv'
    BY <1>13 DEF CommitFault
<1>14. ASSUME NEW r \in Req, DeadlockAbort(r) PROVE AppliedInv'
    BY <1>14, DeadlockedWaits DEF DeadlockAbort
<1>15. ASSUME NEW r \in Req, Reap(r) PROVE AppliedInv'
    BY <1>15 DEF Reap, Discard, Apply, Unlock, NoWrite
<1>16. ASSUME NEW i \in Id, AddCard(i) \/ RemoveCard(i) PROVE AppliedInv'
    BY <1>16 DEF AddCard, RemoveCard
<1>17. CASE UNCHANGED vars
    BY <1>17 DEF vars
<1> QED
    BY <1>1, <1>2, <1>3, <1>4, <1>5, <1>6, <1>7, <1>8, <1>9, <1>10, <1>11,
       <1>12, <1>13, <1>14, <1>15, <1>16, <1>17
    DEF Next, Handle, Statement, Fault

\* A row that cards refer to is not removed.
LEMMA ReferenceStep ==
    TypeOK /\ WriteInv /\ NoDanglingReference /\ [Next]_vars
        => NoDanglingReference'
<1> SUFFICES ASSUME TypeOK, WriteInv, NoDanglingReference, [Next]_vars
             PROVE  NoDanglingReference'
    OBVIOUS
<1> USE DEF TypeOK, NoDanglingReference, Registry!NoDanglingReference, Registry!Exists
<1>1. ASSUME NEW r \in Req, Arrive(r) PROVE NoDanglingReference'
    BY <1>1 DEF Arrive
<1>2. ASSUME NEW r \in Req, Read(r) PROVE NoDanglingReference'
    BY <1>2 DEF Read
<1>3. ASSUME NEW r \in Req, Begin(r) PROVE NoDanglingReference'
    BY <1>3 DEF Begin
<1>4. ASSUME NEW r \in Req, Insert(r) PROVE NoDanglingReference'
    BY <1>4 DEF Insert
<1>5. ASSUME NEW r \in Req, LockRow(r) PROVE NoDanglingReference'
    BY <1>5 DEF LockRow
<1>6. ASSUME NEW r \in Req, WriteKey(r) PROVE NoDanglingReference'
    BY <1>6 DEF WriteKey
<1>7. ASSUME NEW r \in Req, Delete(r) PROVE NoDanglingReference'
    BY <1>7 DEF Delete
<1>8. ASSUME NEW r \in Req, Commit(r) PROVE NoDanglingReference'
    BY <1>8 DEF Commit, Apply, WriteInv
<1>9. ASSUME NEW r \in Req, Rollback(r) PROVE NoDanglingReference'
    BY <1>9 DEF Rollback
<1>10. ASSUME NEW r \in Req, Unavailable(r) PROVE NoDanglingReference'
    BY <1>10 DEF Unavailable
<1>11. ASSUME NEW r \in Req, StatementFault(r) PROVE NoDanglingReference'
    BY <1>11 DEF StatementFault
<1>12. ASSUME NEW r \in Req, RollbackFault(r) PROVE NoDanglingReference'
    BY <1>12 DEF RollbackFault
<1>13. ASSUME NEW r \in Req, CommitFault(r) PROVE NoDanglingReference'
    BY <1>13 DEF CommitFault
<1>14. ASSUME NEW r \in Req, DeadlockAbort(r) PROVE NoDanglingReference'
    BY <1>14 DEF DeadlockAbort
<1>15. ASSUME NEW r \in Req, Reap(r) PROVE NoDanglingReference'
    BY <1>15 DEF Reap, Discard, Apply, WriteInv
<1>16. ASSUME NEW i \in Id, AddCard(i) \/ RemoveCard(i) PROVE NoDanglingReference'
    BY <1>16 DEF AddCard, RemoveCard
<1>17. CASE UNCHANGED vars
    BY <1>17 DEF vars
<1> QED
    BY <1>1, <1>2, <1>3, <1>4, <1>5, <1>6, <1>7, <1>8, <1>9, <1>10, <1>11,
       <1>12, <1>13, <1>14, <1>15, <1>16, <1>17
    DEF Next, Handle, Statement, Fault

\* A failed write is answered with an error.
LEMMA RefusedNot200 ==
    ASSUME ArgInv, NEW r \in Req, pc[r] = "rollback"
    PROVE  Refusal(arg[r].op, failure[r]) # 200
<1>1. arg[r].op \in Ops
    BY DEF ArgInv, Ops
<1>2. Refusal(arg[r].op, failure[r]) \in {404, 409, 500}
    BY <1>1, Refusals DEF Ops
<1> QED
    BY <1>2

\* A request is answered 200 exactly for a write that was committed, but for a lost COMMIT.
LEMMA AnswerStep ==
    TypeOK /\ ArgInv /\ WriteInv /\ AppliedInv /\ AnswersAreTruthful /\ [Next]_vars
        => AnswersAreTruthful'
<1> SUFFICES ASSUME TypeOK, ArgInv, WriteInv, AppliedInv, AnswersAreTruthful, [Next]_vars
             PROVE  AnswersAreTruthful'
    OBVIOUS
<1> USE DEF TypeOK, AppliedInv, AnswersAreTruthful, Goto, Answer, Fails
<1>1. ASSUME NEW r \in Req, Arrive(r) PROVE AnswersAreTruthful'
    BY <1>1 DEF Arrive
<1>2. ASSUME NEW r \in Req, Read(r) PROVE AnswersAreTruthful'
    BY <1>2 DEF Read, ArgInv
<1>3. ASSUME NEW r \in Req, Begin(r) PROVE AnswersAreTruthful'
    BY <1>3 DEF Begin
<1>4. ASSUME NEW r \in Req, Insert(r) PROVE AnswersAreTruthful'
    BY <1>4 DEF Insert
<1>5. ASSUME NEW r \in Req, LockRow(r) PROVE AnswersAreTruthful'
    BY <1>5 DEF LockRow
<1>6. ASSUME NEW r \in Req, WriteKey(r) PROVE AnswersAreTruthful'
    BY <1>6 DEF WriteKey
<1>7. ASSUME NEW r \in Req, Delete(r) PROVE AnswersAreTruthful'
    BY <1>7 DEF Delete
<1>8. ASSUME NEW r \in Req, Commit(r) PROVE AnswersAreTruthful'
    BY <1>8 DEF Commit, Apply
<1>9. ASSUME NEW r \in Req, Rollback(r) PROVE AnswersAreTruthful'
  <2>1. Refusal(arg[r].op, failure[r]) # 200
    BY <1>9, RefusedNot200 DEF Rollback
  <2> QED
    BY <1>9, <2>1 DEF Rollback
<1>10. ASSUME NEW r \in Req, Unavailable(r) PROVE AnswersAreTruthful'
    BY <1>10 DEF Unavailable
<1>11. ASSUME NEW r \in Req, StatementFault(r) PROVE AnswersAreTruthful'
    BY <1>11 DEF StatementFault
<1>12. ASSUME NEW r \in Req, RollbackFault(r) PROVE AnswersAreTruthful'
  <2>1. Refusal(arg[r].op, failure[r]) # 200
    BY <1>12, RefusedNot200 DEF RollbackFault
  <2> QED
    BY <1>12, <2>1 DEF RollbackFault
<1>13. ASSUME NEW r \in Req, CommitFault(r) PROVE AnswersAreTruthful'
    BY <1>13 DEF CommitFault
<1>14. ASSUME NEW r \in Req, DeadlockAbort(r) PROVE AnswersAreTruthful'
    BY <1>14, DeadlockedWaits DEF DeadlockAbort
<1>15. ASSUME NEW r \in Req, Reap(r) PROVE AnswersAreTruthful'
    BY <1>15 DEF Reap, Discard, Apply
<1>16. ASSUME NEW i \in Id, AddCard(i) \/ RemoveCard(i) PROVE AnswersAreTruthful'
    BY <1>16 DEF AddCard, RemoveCard
<1>17. CASE UNCHANGED vars
    BY <1>17 DEF vars
<1> QED
    BY <1>1, <1>2, <1>3, <1>4, <1>5, <1>6, <1>7, <1>8, <1>9, <1>10, <1>11,
       <1>12, <1>13, <1>14, <1>15, <1>16, <1>17
    DEF Next, Handle, Statement, Fault

-----------------------------------------------------------------------------
(* Theorems *)

\* The inductive invariant holds in every state of every behaviour.
THEOREM Invariance == Spec => []IInv
<1>1. IInv /\ [Next]_vars => IInv'
  <2> SUFFICES ASSUME IInv, [Next]_vars PROVE IInv'
    OBVIOUS
  <2>1. TypeOK' /\ ArgInv' /\ WriteInv'
    BY TypeStep, ArgStep, WriteStep DEF IInv
  <2>2. LockInv' /\ UniqueNames' /\ ConnectionInv'
    BY LockStep, ConnectionStep DEF IInv
  <2>3. AppliedInv' /\ NoDanglingReference' /\ AnswersAreTruthful'
    BY AppliedStep, ReferenceStep, AnswerStep DEF IInv
  <2>4. EffectInv' /\ OutcomeInv'
    BY EffectStep, OutcomeStep DEF IInv
  <2> QED
    BY <2>1, <2>2, <2>3, <2>4 DEF IInv
<1> QED
    BY InitIInv, <1>1, PTL DEF Spec

\* No two committed brands have names that differ only in case, for any number of
\* requests, brands and names: the unique index and the waits for it are enough.
THEOREM NamesAreUnique == Spec => []UniqueNames
<1>1. IInv => UniqueNames
    BY DEF IInv
<1> QED
    BY Invariance, <1>1, PTL

\* A brand is never removed under a card.
THEOREM ReferencesHold == Spec => []NoDanglingReference
<1>1. IInv => NoDanglingReference
    BY DEF IInv
<1> QED
    BY Invariance, <1>1, PTL

\* WithTx gives every connection back, and the pool is never exceeded.
THEOREM PoolIsRespected == Spec => []ConnectionsAreReturned
<1>1. IInv => ConnectionsAreReturned
    BY DEF IInv, TypeOK, ConnectionInv, ConnectionsAreReturned
<1> QED
    BY Invariance, <1>1, PTL

\* What a client is told of a write is what became of it.
THEOREM AnswersHold == Spec => []AnswersAreTruthful
<1>1. IInv => AnswersAreTruthful
    BY DEF IInv
<1> QED
    BY Invariance, <1>1, PTL

-----------------------------------------------------------------------------
(* The registry *)

\* What became of a request, in the cases the steps tell apart.
LEMMA Outcomes ==
    ASSUME NEW r \in Req
    PROVE  /\ r \in applied => outcome[r] = "done"
           /\ r \notin applied /\ failure[r] = "unique" => outcome[r] = "taken"
           /\ r \notin applied /\ failure[r] = "noRows" => outcome[r] = "missing"
           /\ r \notin applied /\ failure[r] = "foreignKey" => outcome[r] = "referenced"
           /\ r \notin applied /\ failure[r] = "other" => outcome[r] = "failed"
           /\ r \notin applied /\ failure[r] = "commit" => outcome[r] = "open"
           /\ r \notin applied /\ failure[r] = "none" =>
                 /\ resp[r] = 200 => outcome[r] = "done"
                 /\ resp[r] = 404 => outcome[r] = "missing"
                 /\ resp[r] \in {422, 500} => outcome[r] = "failed"
                 /\ resp[r] = 0 => outcome[r] = "open"
    BY DEF Outcome, outcome

\* The same, after a step.
LEMMA OutcomesNext ==
    ASSUME NEW r \in Req
    PROVE  /\ r \in applied' => outcome'[r] = "done"
           /\ r \notin applied' /\ failure'[r] = "unique" => outcome'[r] = "taken"
           /\ r \notin applied' /\ failure'[r] = "noRows" => outcome'[r] = "missing"
           /\ r \notin applied' /\ failure'[r] = "foreignKey" => outcome'[r] = "referenced"
           /\ r \notin applied' /\ failure'[r] = "other" => outcome'[r] = "failed"
           /\ r \notin applied' /\ failure'[r] = "commit" => outcome'[r] = "open"
           /\ r \notin applied' /\ failure'[r] = "none" =>
                 /\ resp'[r] = 200 => outcome'[r] = "done"
                 /\ resp'[r] = 404 => outcome'[r] = "missing"
                 /\ resp'[r] \in {422, 500} => outcome'[r] = "failed"
                 /\ resp'[r] = 0 => outcome'[r] = "open"
    BY DEF Outcome, outcome

\* A step of r settles no other request, and leaves r open until something is known.
LEMMA SettlesOwn ==
    ASSUME TypeOK, NEW r \in Req, StepOf(r)
    PROVE  /\ outcome' = [outcome EXCEPT ![r] = outcome'[r]]
           /\ outcome'[r] = outcome[r] => outcome' = outcome
<1>1. \A o \in Req \ {r} : outcome'[o] = outcome[o]
  <2> TAKE o \in Req \ {r}
  <2>1. /\ failure'[o] = failure[o] /\ resp'[o] = resp[o]
        /\ o \in applied' <=> o \in applied
    BY Frame
  <2> QED
    BY <2>1 DEF Outcome, outcome
<1> QED
    BY <1>1 DEF outcome

\* A request that is at work has not been settled.
LEMMA AtWorkIsOpen ==
    ASSUME TypeOK, AppliedInv, OutcomeInv, NEW r \in Req,
           \/ pc[r] \in {"new", "begin", "read", "row", "key", "commit"}
           \/ failure[r] = "commit" /\ InTx(r)
    PROVE  r \notin applied /\ outcome[r] = "open"
<1>1. r \notin applied
    BY DEF AppliedInv
<1>2. failure[r] = "commit" \/ (failure[r] = "none" /\ resp[r] = 0)
    BY DEF OutcomeInv
<1> QED
    BY <1>1, <1>2, Outcomes

\* A request that was asked is one the registry knows.
LEMMA IsAsked ==
    ASSUME TypeOK, OutcomeInv, NEW r \in Req, pc[r] # "new"
    PROVE  arg[r] # NoArg /\ arg[r] \in Work
    BY DEF OutcomeInv, TypeOK

\* What a transaction commits is what the registry would do at that instant.
LEMMA AppliedIsServed ==
    ASSUME IInv, NEW r \in Req, StepOf(r), InTx(r), Apply(r), UNCHANGED arg,
           pc[r] = "commit" \/ failure[r] = "commit"
    PROVE  Registry!Create(r) \/ Registry!Rename(r) \/ Registry!Remove(r)
<1>1. /\ write[r].id \in Id
      /\ \A j \in Id \ {write[r].id} : brands[j] # NoBrand /\ write[r].name # NoBrand =>
            Key[brands[j]] # Key[write[r].name]
    BY DEF IInv, WriteInv, LockInv
<1>2. r \in applied'
    BY DEF Apply
<1>3. Registry!Set(r, write[r].id, write[r].name)
  <2>1. Registry!Settle(r, "done")
    BY <1>2, OutcomesNext, SettlesOwn DEF IInv, Registry!Settle
  <2> QED
    BY <2>1 DEF Registry!Set, Apply
<1>4. arg[r].op \in {"create", "update", "delete"}
    BY DEF IInv, OutcomeInv
<1>5. CASE arg[r].op = "create"
  <2>1. /\ brands[write[r].id] = NoBrand /\ write[r].name = arg[r].name
        /\ write[r].name # NoBrand
    BY <1>5 DEF IInv, EffectInv, WriteInv
  <2>2. ~Registry!Exists(write[r].id) /\ Registry!Holders(arg[r].name) = {}
    BY <1>1, <2>1 DEF Registry!Exists, Registry!Holders
  <2> QED
    BY <1>1, <1>3, <1>5, <2>1, <2>2 DEF Registry!Create
<1>6. CASE arg[r].op = "update"
  <2>1. /\ write[r].id = arg[r].id /\ write[r].name = arg[r].name
        /\ brands[write[r].id] # NoBrand /\ write[r].name # NoBrand
    BY <1>6 DEF IInv, EffectInv, WriteInv
  <2>2. /\ Registry!Exists(arg[r].id)
        /\ Registry!Holders(arg[r].name) \subseteq {arg[r].id}
    BY <1>1, <2>1 DEF Registry!Exists, Registry!Holders
  <2> QED
    BY <1>3, <1>6, <2>1, <2>2 DEF Registry!Rename
<1>7. CASE arg[r].op = "delete"
  <2>1. /\ write[r].id = arg[r].id /\ write[r].name = NoBrand
        /\ brands[write[r].id] # NoBrand /\ write[r].id \notin refs
    BY <1>7 DEF IInv, EffectInv, WriteInv
  <2> QED
    BY <1>1, <1>3, <1>7, <2>1 DEF Registry!Remove, Registry!Exists
<1> QED
    BY <1>4, <1>5, <1>6, <1>7

\* An answer says what became of the request.
LEMMA Told ==
    ASSUME TypeOK, OutcomeInv, NEW r \in Req, pc[r] # "answered",
           NEW c, resp' = [resp EXCEPT ![r] = c], <<outcome'[r], c>> \in Registry!Answers
    PROVE  Registry!Tell(r)
<1>1. resp[r] = 0
    BY DEF OutcomeInv
<1>2. c \in Registry!Codes
    BY DEF Registry!Codes
<1> QED
    BY <1>1, <1>2 DEF Registry!Tell

LEMMA ArriveIsAsk ==
    ASSUME IInv, NEW r \in Req, Arrive(r) PROVE Registry!Next
<1>1. /\ arg[r] = NoArg /\ pc[r] = "new" /\ r \notin applied /\ outcome[r] = "open"
      /\ failure[r] = "none" /\ resp[r] = 0
    BY AtWorkIsOpen DEF Arrive, IInv, OutcomeInv
<1>2. /\ \E w \in Work : arg' = [arg EXCEPT ![r] = w]
      /\ UNCHANGED <<brands, refs>>
      /\ failure' = failure /\ applied' = applied
    BY DEF Arrive
<1>3. /\ outcome' = [outcome EXCEPT ![r] = outcome'[r]]
      /\ outcome'[r] = outcome[r] => outcome' = outcome
    BY SettlesOwn DEF StepOf, IInv
<1>4. ASSUME resp' = resp PROVE UNCHANGED <<outcome, resp>>
    BY <1>1, <1>2, <1>3, <1>4, OutcomesNext
<1>5. ASSUME NEW c, c = 422 \/ c = 500, resp' = [resp EXCEPT ![r] = c]
      PROVE  Registry!Fail(r) /\ Registry!Tell(r)
  <2>1. resp'[r] = c
    BY <1>5 DEF IInv, TypeOK
  <2>2. outcome'[r] = "failed"
    BY <1>1, <1>2, <1>5, <2>1, OutcomesNext
  <2>3. <<outcome'[r], c>> \in Registry!Answers
    BY <1>5, <2>2 DEF Registry!Answers
  <2>4. Registry!Tell(r)
    BY <1>1, <1>5, <2>3, Told, ZenonT(30) DEF IInv
  <2> QED
    BY <1>3, <2>2, <2>4 DEF Registry!Fail, Registry!Settle
<1>6. UNCHANGED <<outcome, resp>> \/ (Registry!Fail(r) /\ Registry!Tell(r))
    BY <1>4, <1>5 DEF Arrive, Answer
<1>7. Registry!Ask(r)
    BY <1>1, <1>2, <1>6 DEF Registry!Ask
<1> QED
    BY <1>7 DEF Registry!Next

\* Reads, and requests that get no connection, are settled and answered at once.
LEMMA ReadIsDecide ==
    ASSUME IInv, NEW r \in Req, Read(r) \/ Unavailable(r) PROVE Registry!Next
<1>1. /\ arg[r] # NoArg /\ r \notin applied /\ outcome[r] = "open"
      /\ failure[r] = "none" /\ pc[r] \in {"begin", "read"}
    BY AtWorkIsOpen, IsAsked DEF Read, Unavailable, IInv, OutcomeInv, outcome
<1>2. UNCHANGED <<brands, refs, arg, failure, applied>>
    BY DEF Read, Unavailable
<1>3. outcome' = [outcome EXCEPT ![r] = outcome'[r]]
    BY SettlesOwn DEF StepOf, Handle, Fault, IInv
<1>4. ASSUME NEW c \in {200, 404, 500}, resp' = [resp EXCEPT ![r] = c]
      PROVE  /\ Registry!Tell(r)
             /\ c = 200 => Registry!Settle(r, "done")
             /\ c = 404 => Registry!Settle(r, "missing")
             /\ c = 500 => Registry!Settle(r, "failed")
  <2>1. resp'[r] = c
    BY <1>4 DEF IInv, TypeOK
  <2>2. /\ c = 200 => outcome'[r] = "done"
        /\ c = 404 => outcome'[r] = "missing"
        /\ c = 500 => outcome'[r] = "failed"
    BY <1>1, <1>2, <2>1, OutcomesNext
  <2>3. <<outcome'[r], c>> \in Registry!Answers
    BY <2>2 DEF Registry!Answers
  <2>4. Registry!Tell(r)
    BY <1>1, <1>4, <2>3, Told DEF IInv
  <2> QED
    BY <1>3, <2>2, <2>4 DEF Registry!Settle
<1>5. /\ UNCHANGED brands
      /\ Registry!Find(r) \/ Registry!Miss(r) \/ Registry!Fail(r)
      /\ Registry!Tell(r)
  <2>1. CASE Read(r)
    <3> DEFINE found == arg[r].id \in Id /\ brands[arg[r].id] # NoBrand
    <3>1. arg[r].op = "get" /\ Refusal("get", "noRows") = 404
        BY <2>1 DEF Read, IInv, ArgInv, Refusal, Status, RepoError, GetError, GetStatus
    <3>2. /\ found => resp' = [resp EXCEPT ![r] = 200]
          /\ ~found => resp' = [resp EXCEPT ![r] = 404]
        BY <2>1, <3>1 DEF Read, Answer
    <3> QED
        BY <1>2, <1>4, <3>1, <3>2 DEF Registry!Find, Registry!Miss, Registry!Exists
  <2>2. CASE Unavailable(r)
    BY <1>2, <1>4, <2>2 DEF Unavailable, Answer, Registry!Fail
  <2> QED
    BY <2>1, <2>2
<1>6. Registry!Decide(r)
    BY <1>1, <1>2, <1>5 DEF Registry!Decide
<1> QED
    BY <1>6 DEF Registry!Next

\* Steps that settle and answer nobody are no steps of the registry.
LEMMA NothingKnown ==
    ASSUME UNCHANGED <<brands, refs, arg, failure, resp, applied>>
    PROVE  UNCHANGED Registry!vars
    BY DEF Registry!vars, outcome, Outcome

\* A statement that fails settles its request.
LEMMA FailureSettles ==
    ASSUME IInv, NEW r \in Req, StepOf(r), pc[r] \in {"row", "key"}, NEW why, Fails(r, why),
           UNCHANGED <<brands, refs, arg, resp, applied>>
    PROVE  /\ arg[r] # NoArg /\ outcome[r] = "open"
           /\ why = "unique" => Registry!Settle(r, "taken")
           /\ why = "noRows" => Registry!Settle(r, "missing")
           /\ why = "foreignKey" => Registry!Settle(r, "referenced")
           /\ why = "other" => Registry!Settle(r, "failed")
<1>1. arg[r] # NoArg /\ outcome[r] = "open" /\ r \notin applied
    BY AtWorkIsOpen, IsAsked DEF IInv
<1>2. failure'[r] = why /\ r \notin applied'
    BY <1>1 DEF Fails, IInv, TypeOK
<1>3. outcome' = [outcome EXCEPT ![r] = outcome'[r]]
    BY SettlesOwn DEF IInv
<1> QED
    BY <1>1, <1>2, <1>3, OutcomesNext DEF Registry!Settle

\* A name that violates the index is taken.
LEMMA ViolatedIsTaken ==
    ASSUME NEW r, NEW i, NEW n, Violates(r, i, n)
    PROVE  \E j \in Registry!Holders(n) : j # i
    BY DEF Violates, Rivals, Registry!Holders, Registry!Exists

\* A statement settles its request or leaves the registry alone.
LEMMA StatementIsDecide ==
    ASSUME IInv, NEW r \in Req, Statement(r) \/ StatementFault(r) \/ DeadlockAbort(r)
    PROVE  [Registry!Next]_(Registry!vars)
<1>0. StepOf(r)
    BY DEF StepOf, Handle, Fault
<1>1. pc[r] \in {"row", "key"} /\ UNCHANGED <<brands, refs, arg, resp, applied>>
    BY DeadlockedWaits DEF Statement, Insert, LockRow, WriteKey, Delete, StatementFault,
        DeadlockAbort
<1>2. /\ arg[r].op \in {"create", "update", "delete"}
      /\ arg[r].op # "create" => arg[r].id \in Id
    BY <1>1 DEF IInv, ArgInv
<1>3. \/ UNCHANGED failure
      \/ Fails(r, "other")
      \/ Fails(r, "noRows") /\ arg[r].op # "create" /\ brands[arg[r].id] = NoBrand
      \/ Fails(r, "foreignKey") /\ arg[r].op = "delete" /\ arg[r].id \in refs
      \/ Fails(r, "unique") /\ arg[r].op = "create" /\ Violates(r, NilId, arg[r].name)
      \/ Fails(r, "unique") /\ arg[r].op = "update" /\ Violates(r, arg[r].id, arg[r].name)
  <2>1. CASE Insert(r)
    BY <2>1, Zenon DEF Insert
  <2>2. CASE LockRow(r)
    BY <2>2 DEF LockRow
  <2>3. CASE WriteKey(r)
    BY <2>3 DEF WriteKey, IInv, ArgInv
  <2>4. CASE Delete(r)
    BY <2>4 DEF Delete
  <2>5. CASE StatementFault(r) \/ DeadlockAbort(r)
    BY <2>5 DEF StatementFault, DeadlockAbort
  <2> QED
    BY <2>1, <2>2, <2>3, <2>4, <2>5 DEF Statement
<1>4. CASE UNCHANGED failure
    BY <1>1, <1>4, NothingKnown
<1>5. ASSUME NEW why, Fails(r, why),
             Registry!Miss(r) \/ Registry!Taken(r) \/ Registry!Referenced(r) \/ Registry!Fail(r)
      PROVE  Registry!Next
  <2>1. Registry!Decide(r)
    BY <1>0, <1>1, <1>5, FailureSettles DEF Registry!Decide
  <2> QED
    BY <2>1 DEF Registry!Next
<1>6. CASE Fails(r, "other")
    BY <1>0, <1>1, <1>5, <1>6, FailureSettles DEF Registry!Fail
<1>7. CASE Fails(r, "noRows") /\ arg[r].op # "create" /\ brands[arg[r].id] = NoBrand
    BY <1>0, <1>1, <1>5, <1>7, FailureSettles DEF Registry!Miss, Registry!Exists
<1>8. CASE Fails(r, "foreignKey") /\ arg[r].op = "delete" /\ arg[r].id \in refs
    BY <1>0, <1>1, <1>5, <1>8, FailureSettles DEF Registry!Referenced
<1>9. CASE Fails(r, "unique") /\ arg[r].op = "create" /\ Violates(r, NilId, arg[r].name)
  <2>1. Registry!Holders(arg[r].name) # {}
    BY <1>9, ViolatedIsTaken
  <2> QED
    BY <1>0, <1>1, <1>5, <1>9, <2>1, FailureSettles DEF Registry!Taken
<1>10. CASE /\ Fails(r, "unique") /\ arg[r].op = "update"
            /\ Violates(r, arg[r].id, arg[r].name)
  <2>1. ~(Registry!Holders(arg[r].name) \subseteq {arg[r].id})
    BY <1>10, ViolatedIsTaken
  <2> QED
    BY <1>0, <1>1, <1>5, <1>10, <2>1, FailureSettles DEF Registry!Taken
<1> QED
    BY <1>3, <1>4, <1>6, <1>7, <1>8, <1>9, <1>10

\* A commit settles and answers its request.
LEMMA CommitIsDecide ==
    ASSUME IInv, NEW r \in Req, Commit(r) PROVE Registry!Next
<1>1. /\ arg[r] # NoArg /\ outcome[r] = "open" /\ pc[r] = "commit" /\ InTx(r)
      /\ UNCHANGED <<refs, arg>> /\ Apply(r) /\ StepOf(r)
    BY AtWorkIsOpen, IsAsked DEF Commit, StepOf, Handle, IInv, WriteInv
<1>2. Registry!Create(r) \/ Registry!Rename(r) \/ Registry!Remove(r)
    BY <1>1, AppliedIsServed
<1>3. r \in applied' /\ resp' = [resp EXCEPT ![r] = 200]
    BY DEF Commit, Apply, Answer
<1>4. <<outcome'[r], 200>> \in Registry!Answers
    BY <1>3, OutcomesNext DEF Registry!Answers
<1>5. Registry!Tell(r)
    BY <1>1, <1>3, <1>4, Told DEF IInv
<1>6. Registry!Decide(r)
    BY <1>1, <1>2, <1>5 DEF Registry!Decide
<1> QED
    BY <1>6 DEF Registry!Next

\* The error of a failed write says why it failed; a lost COMMIT says nothing.
LEMMA RefusalIsAnswer ==
    ASSUME IInv, NEW r \in Req, Rollback(r) \/ RollbackFault(r) \/ CommitFault(r)
    PROVE  Registry!Next
<1>1. /\ arg[r] # NoArg /\ UNCHANGED <<brands, refs, arg, applied>> /\ StepOf(r)
      /\ pc[r] \in {"commit", "rollback"} /\ r \notin applied
    BY IsAsked DEF Rollback, RollbackFault, CommitFault, StepOf, Handle, Fault, IInv,
        AppliedInv
<1>2. CASE Rollback(r) \/ RollbackFault(r)
  <2>1. /\ pc[r] = "rollback" /\ failure' = failure
        /\ resp' = [resp EXCEPT ![r] = Refusal(arg[r].op, failure[r])]
    BY <1>2 DEF Rollback, RollbackFault, Answer
  <2>2. outcome' = outcome
    BY <1>1, <2>1, Outcomes, OutcomesNext, SettlesOwn DEF IInv, OutcomeInv, TypeOK, Failure
  <2>3. \/ failure[r] = "unique" /\ arg[r].op \in {"create", "update"}
        \/ failure[r] = "noRows" /\ arg[r].op \in {"update", "delete"}
        \/ failure[r] = "foreignKey" /\ arg[r].op = "delete"
        \/ failure[r] = "other" /\ arg[r].op \in {"create", "update", "delete"}
    BY <2>1 DEF IInv, OutcomeInv, ArgInv, TypeOK, Failure
  <2>4. /\ failure[r] = "unique" => Refusal(arg[r].op, failure[r]) = 409
        /\ failure[r] = "noRows" => Refusal(arg[r].op, failure[r]) = 404
        /\ failure[r] \in {"foreignKey", "other"} => Refusal(arg[r].op, failure[r]) = 500
    BY <2>3
    DEF Refusal, Status, RepoError, InsertError, UpdateError, DeleteError, CreateStatus,
        UpdateStatus, DeleteStatus
  <2>5. <<outcome[r], Refusal(arg[r].op, failure[r])>> \in Registry!Answers
    BY <1>1, <2>3, <2>4, Outcomes DEF Registry!Answers
  <2>6. Registry!Tell(r)
    BY <2>1, <2>2, <2>5, Told DEF IInv
  <2> QED
    BY <1>1, <2>2, <2>6 DEF Registry!Answer, Registry!Next
<1>3. CASE CommitFault(r)
  <2>1. /\ failure'[r] = "commit" /\ pc[r] = "commit"
        /\ resp' = [resp EXCEPT ![r] = 500]
    BY <1>3 DEF CommitFault, Answer, IInv, TypeOK
  <2>2. outcome[r] = "open" /\ outcome'[r] = "open"
    BY <1>1, <2>1, AtWorkIsOpen, OutcomesNext DEF IInv
  <2>3. outcome' = outcome
    BY <1>1, <2>2, SettlesOwn DEF IInv
  <2>4. <<outcome'[r], 500>> \in Registry!Answers
    BY <2>2 DEF Registry!Answers
  <2>5. Registry!Tell(r)
    BY <2>1, <2>4, Told, ZenonT(30) DEF IInv
  <2> QED
    BY <1>1, <2>3, <2>5 DEF Registry!Answer, Registry!Next
<1> QED
    BY <1>2, <1>3

\* A COMMIT whose acknowledgement was lost takes effect late, or never.
LEMMA ReapIsDecide ==
    ASSUME IInv, NEW r \in Req, Reap(r) PROVE [Registry!Next]_(Registry!vars)
<1>1. /\ InTx(r) /\ pc[r] = "answered" /\ UNCHANGED <<refs, arg, failure, resp>>
      /\ StepOf(r)
    BY DEF Reap, StepOf
<1>2. CASE Discard
    BY <1>1, <1>2, NothingKnown DEF Discard
<1>3. CASE failure[r] = "commit" /\ Apply(r)
  <2>1. arg[r] # NoArg /\ outcome[r] = "open"
    BY <1>1, <1>3, AtWorkIsOpen, IsAsked DEF IInv
  <2>2. Registry!Create(r) \/ Registry!Rename(r) \/ Registry!Remove(r)
    BY <1>1, <1>3, AppliedIsServed
  <2>3. Registry!Decide(r)
    BY <1>1, <2>1, <2>2 DEF Registry!Decide
  <2> QED
    BY <2>3 DEF Registry!Next
<1> QED
    BY <1>2, <1>3 DEF Reap

\* What may become of a request.
Fates == {"open", "done", "missing", "taken", "referenced", "failed"}

\* What the registry itself keeps, and never takes back.
Kept ==
    /\ brands \in [Id -> Name \cup {NoBrand, EmptyName}]
    /\ arg \in [Req -> Work \cup {NoArg}]
    /\ outcome \in [Req -> Fates] /\ resp \in [Req -> Int]
    /\ UniqueNames /\ NoDanglingReference

AnswersStand ==
    \A r \in Req : resp[r] \notin {0, 500} => <<outcome[r], resp[r]>> \in Registry!Answers

\* A request is settled by at most one change of one brand.
LEMMA DecideKeeps ==
    ASSUME Kept, NEW r \in Req, Registry!Decide(r)
    PROVE  /\ brands' \in [Id -> Name \cup {NoBrand, EmptyName}]
           /\ UniqueNames' /\ NoDanglingReference'
<1>0. /\ brands \in [Id -> Name \cup {NoBrand, EmptyName}]
      /\ arg[r] \in Work \/ arg[r] = NoArg
      /\ refs' = refs
    BY DEF Kept, Registry!Decide
<1>1. arg[r].name \in Name \cup {EmptyName} /\ NoBrand \notin Name \cup {EmptyName}
    BY <1>0, BrandAssumption DEF NoArg
<1>2. CASE Registry!Create(r)
  <2>1. PICK i \in Id : /\ ~Registry!Exists(i) /\ Registry!Holders(arg[r].name) = {}
                        /\ brands' = [brands EXCEPT ![i] = arg[r].name]
    BY <1>2 DEF Registry!Create, Registry!Set
  <2>2. \A j \in Id : brands[j] # NoBrand => Key[brands[j]] # Key[arg[r].name]
    BY <2>1 DEF Registry!Holders, Registry!Exists
  <2> QED
    BY <1>0, <1>1, <2>1, <2>2
       DEF Kept, UniqueNames, Registry!UniqueNames, NoDanglingReference,
           Registry!NoDanglingReference, Registry!Exists
<1>3. CASE Registry!Rename(r)
  <2> DEFINE i == arg[r].id
  <2>1. /\ i \in Id /\ brands[i] # NoBrand
        /\ brands' = [brands EXCEPT ![i] = arg[r].name]
    BY <1>3 DEF Registry!Rename, Registry!Set, Registry!Exists
  <2>2. \A j \in Id \ {i} : brands[j] # NoBrand => Key[brands[j]] # Key[arg[r].name]
    BY <1>3 DEF Registry!Rename, Registry!Holders, Registry!Exists
  <2> HIDE DEF i
  <2> QED
    BY <1>0, <1>1, <2>1, <2>2
       DEF Kept, UniqueNames, Registry!UniqueNames, NoDanglingReference,
           Registry!NoDanglingReference, Registry!Exists
<1>4. CASE Registry!Remove(r)
    BY <1>0, <1>4
       DEF Kept, Registry!Remove, Registry!Set, UniqueNames, Registry!UniqueNames,
           NoDanglingReference, Registry!NoDanglingReference, Registry!Exists
<1>5. CASE UNCHANGED brands
    BY <1>0, <1>5
       DEF Kept, UniqueNames, Registry!UniqueNames, NoDanglingReference,
           Registry!NoDanglingReference, Registry!Exists
<1> QED
    BY <1>2, <1>3, <1>4, <1>5 DEF Registry!Decide

\* The answer given in a step fits the outcome it leaves.
LEMMA TellStands ==
    ASSUME Kept, AnswersStand, NEW r \in Req, Registry!Tell(r),
           \A q \in Req \ {r} : outcome'[q] = outcome[q]
    PROVE  AnswersStand' /\ resp' \in [Req -> Int]
<1>1. PICK c \in Registry!Codes : /\ <<outcome'[r], c>> \in Registry!Answers
                                  /\ resp' = [resp EXCEPT ![r] = c]
    BY DEF Registry!Tell
<1>2. c \in Int
    BY <1>1 DEF Registry!Codes, Registry!Answers
<1>3. /\ resp'[r] = c /\ resp' \in [Req -> Int]
      /\ \A q \in Req \ {r} : resp'[q] = resp[q]
    BY <1>1, <1>2 DEF Kept
<1>4. ASSUME NEW q \in Req, resp'[q] \notin {0, 500}
      PROVE  <<outcome'[q], resp'[q]>> \in Registry!Answers
  <2>1. CASE q = r
    BY <1>1, <1>3, <2>1
  <2>2. CASE q # r
    <3>1. outcome'[q] = outcome[q] /\ resp'[q] = resp[q]
        BY <1>3, <2>2
    <3> QED
        BY <1>4, <3>1 DEF AnswersStand
  <2> QED
    BY <2>1, <2>2
<1> QED
    BY <1>3, <1>4 DEF AnswersStand

\* An answer says what became of the request, or 500.
LEMMA OpenIsUnsaid ==
    ASSUME AnswersStand, NEW r \in Req, outcome[r] = "open"
    PROVE  resp[r] \in {0, 500}
<1> SUFFICES ASSUME resp[r] \notin {0, 500} PROVE FALSE
    OBVIOUS
<1>1. <<outcome[r], resp[r]>> \in Registry!Answers
    BY DEF AnswersStand
<1> QED
    BY <1>1 DEF Registry!Answers

\* Every step of the registry keeps its promises.
LEMMA RegistryStep ==
    Kept /\ AnswersStand /\ [Registry!Next]_(Registry!vars) => (Kept /\ AnswersStand)'
<1> SUFFICES ASSUME Kept, AnswersStand, [Registry!Next]_(Registry!vars)
             PROVE  (Kept /\ AnswersStand)'
    OBVIOUS
<1>0. /\ arg \in [Req -> Work \cup {NoArg}] /\ outcome \in [Req -> Fates]
      /\ resp \in [Req -> Int]
    BY DEF Kept
<1>1. ASSUME NEW r \in Req,
             \/ Registry!Settle(r, "done") \/ Registry!Settle(r, "missing")
             \/ Registry!Settle(r, "taken") \/ Registry!Settle(r, "referenced")
             \/ Registry!Settle(r, "failed")
      PROVE  /\ outcome' \in [Req -> Fates]
             /\ \A q \in Req \ {r} : outcome'[q] = outcome[q]
    BY <1>0, <1>1 DEF Registry!Settle, Fates
<1>2. ASSUME UNCHANGED <<brands, refs>>
      PROVE  UniqueNames' /\ NoDanglingReference'
             /\ brands' \in [Id -> Name \cup {NoBrand, EmptyName}]
    BY <1>2 DEF Kept, UniqueNames, Registry!UniqueNames, NoDanglingReference,
                Registry!NoDanglingReference, Registry!Exists
<1>3. ASSUME NEW r \in Req, Registry!Ask(r) PROVE (Kept /\ AnswersStand)'
  <2>1. arg' \in [Req -> Work \cup {NoArg}] /\ UNCHANGED <<brands, refs>>
    BY <1>0, <1>3 DEF Registry!Ask
  <2>2. CASE UNCHANGED <<outcome, resp>>
    BY <1>0, <1>2, <2>1, <2>2 DEF Kept, AnswersStand
  <2>3. CASE Registry!Fail(r) /\ Registry!Tell(r)
    <3>1. /\ outcome' \in [Req -> Fates]
          /\ \A q \in Req \ {r} : outcome'[q] = outcome[q]
        BY <1>1, <2>3 DEF Registry!Fail
    <3>2. AnswersStand' /\ resp' \in [Req -> Int]
        BY <2>3, <3>1, TellStands
    <3> QED
        BY <1>2, <2>1, <3>1, <3>2 DEF Kept
  <2> QED
    BY <1>3, <2>2, <2>3 DEF Registry!Ask
<1>4. ASSUME NEW r \in Req, Registry!Decide(r) PROVE (Kept /\ AnswersStand)'
  <2>1. \/ Registry!Settle(r, "done") \/ Registry!Settle(r, "missing")
        \/ Registry!Settle(r, "taken") \/ Registry!Settle(r, "referenced")
        \/ Registry!Settle(r, "failed")
    BY <1>4 DEF Registry!Decide, Registry!Create, Registry!Rename, Registry!Remove,
                Registry!Set, Registry!Find, Registry!Miss, Registry!Taken,
                Registry!Referenced, Registry!Fail
  <2>2. /\ outcome' \in [Req -> Fates]
        /\ \A q \in Req \ {r} : outcome'[q] = outcome[q]
    BY <1>1, <2>1
  <2>3. outcome[r] = "open" /\ arg' = arg
    BY <1>4 DEF Registry!Decide
  <2>4. AnswersStand' /\ resp' \in [Req -> Int]
    <3>1. CASE Registry!Tell(r)
        BY <2>2, <3>1, TellStands
    <3>2. CASE resp' = resp
      <4>1. ASSUME NEW q \in Req, resp'[q] \notin {0, 500}
            PROVE  <<outcome'[q], resp'[q]>> \in Registry!Answers
        <5>1. q # r
            BY <2>3, <3>2, <4>1, OpenIsUnsaid
        <5>2. outcome'[q] = outcome[q] /\ resp'[q] = resp[q]
            BY <2>2, <3>2, <5>1
        <5> QED
            BY <4>1, <5>2 DEF AnswersStand
      <4> QED
        BY <1>0, <3>2, <4>1 DEF AnswersStand
    <3> QED
        BY <1>4, <3>1, <3>2 DEF Registry!Decide
  <2> QED
    BY <1>0, <1>4, <2>2, <2>3, <2>4, DecideKeeps DEF Kept
<1>5. ASSUME NEW r \in Req, Registry!Answer(r) PROVE (Kept /\ AnswersStand)'
  <2>1. UNCHANGED <<brands, refs, arg, outcome>> /\ Registry!Tell(r)
    BY <1>5 DEF Registry!Answer
  <2>2. AnswersStand' /\ resp' \in [Req -> Int]
    BY <2>1, TellStands
  <2> QED
    BY <1>0, <1>2, <2>1, <2>2 DEF Kept
<1>6. ASSUME NEW i \in Id, Registry!Refer(i) PROVE (Kept /\ AnswersStand)'
  <2>1. /\ UNCHANGED <<brands, arg, outcome, resp>> /\ brands[i] # NoBrand
        /\ refs' \subseteq refs \cup {i}
    BY <1>6 DEF Registry!Refer, Registry!Exists
  <2>2. UniqueNames' /\ NoDanglingReference'
    BY <2>1 DEF Kept, UniqueNames, Registry!UniqueNames, NoDanglingReference,
                Registry!NoDanglingReference, Registry!Exists
  <2> QED
    BY <2>1, <2>2 DEF Kept, AnswersStand
<1>7. CASE UNCHANGED Registry!vars
  <2>1. UNCHANGED <<brands, refs, arg, outcome, resp>>
    BY <1>7 DEF Registry!vars
  <2> QED
    BY <1>0, <1>2, <2>1 DEF Kept, AnswersStand
<1> QED
    BY <1>3, <1>4, <1>5, <1>6, <1>7 DEF Registry!Next

\* What the registry promises is enough: in whatever implements it, names are unique, no
\* card refers to a brand that is gone, and no answer but 500 is ever contradicted by
\* what becomes of the request.
THEOREM RegistryIsConsistent ==
    RegistrySpec => [](UniqueNames /\ NoDanglingReference /\ AnswersStand)
<1>1. Registry!Init => Kept /\ AnswersStand
  <2> SUFFICES ASSUME Registry!Init PROVE Kept /\ AnswersStand
    OBVIOUS
  <2>1. /\ brands \in [Id -> Name \cup {NoBrand, EmptyName}]
        /\ UniqueNames /\ NoDanglingReference
    BY DEF Registry!Init, UniqueNames, NoDanglingReference, Registry!NoDanglingReference
  <2>2. /\ arg = [r \in Req |-> NoArg] /\ outcome = [r \in Req |-> "open"]
        /\ resp = [r \in Req |-> 0]
    BY DEF Registry!Init
  <2>3. /\ arg \in [Req -> Work \cup {NoArg}] /\ outcome \in [Req -> Fates]
        /\ resp \in [Req -> Int] /\ \A r \in Req : resp[r] = 0
    BY <2>2 DEF Fates
  <2> QED
    BY <2>1, <2>3 DEF Kept, AnswersStand
<1>2. Kept => UniqueNames /\ NoDanglingReference
    BY DEF Kept
<1> QED
    BY <1>1, <1>2, RegistryStep, PTL DEF RegistrySpec, Registry!Spec

\* The endpoints implement the registry: however requests interleave, wait and fail, they
\* are settled as if they were served one at a time, and answered accordingly.
THEOREM ImplementsRegistry == Spec => RegistrySpec
<1>1. Init => Registry!Init
  <2> SUFFICES ASSUME Init PROVE Registry!Init
    OBVIOUS
  <2>1. outcome = [r \in Req |-> "open"]
    BY DEF Init, outcome, Outcome
  <2> QED
    BY <2>1, InitIInv, BrandAssumption DEF Init, Registry!Init, IInv, UniqueNames
<1>2. IInv /\ [Next]_vars => [Registry!Next]_(Registry!vars)
  <2> SUFFICES ASSUME IInv, [Next]_vars PROVE [Registry!Next]_(Registry!vars)
    OBVIOUS
  <2>1. CASE UNCHANGED vars
    BY <2>1, NothingKnown DEF vars
  <2>2. ASSUME NEW r \in Req, StepOf(r) PROVE [Registry!Next]_(Registry!vars)
    <3>1. CASE Begin(r)
        BY <3>1, NothingKnown DEF Begin
    <3> QED
        BY <2>2, <3>1, ArriveIsAsk, ReadIsDecide, StatementIsDecide, CommitIsDecide,
           RefusalIsAnswer, ReapIsDecide DEF StepOf, Handle, Fault
  <2>3. ASSUME NEW i \in Id, AddCard(i) \/ RemoveCard(i) PROVE Registry!Next
    <3>1. UNCHANGED <<brands, arg, resp, outcome>>
        BY <2>3 DEF AddCard, RemoveCard, outcome, Outcome
    <3>2. brands[i] # NoBrand /\ refs' \in {refs \cup {i}, refs \ {i}}
        BY <2>3 DEF AddCard, RemoveCard, IInv, NoDanglingReference,
            Registry!NoDanglingReference, Registry!Exists
    <3> QED
        BY <3>1, <3>2 DEF Registry!Next, Registry!Refer, Registry!Exists
  <2> QED
    BY <2>1, <2>2, <2>3 DEF Next, StepOf
<1> QED
    BY Invariance, <1>1, <1>2, PTL DEF Spec, RegistrySpec, Registry!Spec

-----------------------------------------------------------------------------
(* Nobody is stuck *)

\* A closed set of waiters contains a smallest one: a cycle.
LEMMA SmallestCycle ==
    ASSUME NEW S \in WaitCycles
    PROVE  \E T \in WaitCycles :
              /\ T \subseteq S
              /\ \A U \in WaitCycles : U \subseteq T => U = T
<1> DEFINE Below == {T \in WaitCycles : T \subseteq S}
<1>1. IsWellFoundedOn(StrictSubsetOrdering(Req), SUBSET Req)
    BY BrandAssumption, FS_StrictSubsetOrderingWellFounded, FS_FiniteSubsetsOfFinite
<1>2. Below \subseteq SUBSET Req /\ S \in Below
    BY DEF WaitCycles
<1>3. \E T \in Below : \A U \in Below : <<U, T>> \notin StrictSubsetOrdering(Req)
  <2> HIDE DEF Below
  <2> QED
    BY <1>1, <1>2, WFMin
<1>4. PICK T \in Below : \A U \in Below : <<U, T>> \notin StrictSubsetOrdering(Req)
    BY <1>3
<1>5. ASSUME NEW U \in WaitCycles, U \subseteq T PROVE U = T
  <2>1. U \in Below /\ U \in SUBSET Req /\ T \in SUBSET Req
    BY <1>4, <1>5 DEF WaitCycles
  <2>2. <<U, T>> \notin StrictSubsetOrdering(Req)
    BY <1>4, <2>1
  <2> QED
    BY <1>5, <2>1, <2>2 DEF StrictSubsetOrdering
<1> QED
    BY <1>4, <1>5

\* A statement waits for transactions that have written.
LEMMA WaitsForWriters ==
    ASSUME NEW r \in Req, NEW o \in Waits(r) PROVE o \in Req /\ InTx(o)
<1>1. \A i : \A q \in RowBlockers(r, i) : q \in Req /\ InTx(q)
    BY DEF RowBlockers, Writes
<1>2. \A i, n : \A q \in KeyBlockers(r, i, n) : q \in Req /\ InTx(q)
    BY DEF KeyBlockers, Writes
<1> QED
    BY <1>1, <1>2 DEF Waits

\* If every statement waits, for statements that wait, some of them are deadlocked.
LEMMA WaitersDeadlock ==
    ASSUME NEW W \in SUBSET Req, W # {},
           \A r \in W : Waits(r) # {} /\ Waits(r) \subseteq W
    PROVE  \E r \in W : Deadlocked(r)
<1>1. W \in WaitCycles
    BY DEF WaitCycles
<1>2. PICK S \in WaitCycles :
          S \subseteq W /\ \A T \in WaitCycles : T \subseteq S => T = S
    BY <1>1, SmallestCycle
<1>3. PICK r \in S : TRUE
    BY <1>2 DEF WaitCycles
<1> QED
    BY <1>2, <1>3 DEF Deadlocked

\* Of the requests in a transaction, one can go on.
LEMMA TransactionsMove ==
    ASSUME IInv, NEW q \in Req, pc[q] \in {"row", "key", "commit", "rollback"} \/ InTx(q)
    PROVE  \E r \in Req : CanProceed(r)
<1> SUFFICES ASSUME \A r \in Req : ~CanProceed(r) PROVE FALSE
    OBVIOUS
<1> DEFINE W == {r \in Req : pc[r] \in {"row", "key"}}
<1>1. \A r \in Req : pc[r] \notin {"commit", "rollback"} /\ (InTx(r) => r \in W)
    BY DEF CanProceed, IInv, WriteInv, TypeOK, PC
<1>2. q \in W
    BY <1>1
<1>3. \A r \in W : Waits(r) # {} /\ Waits(r) \subseteq W /\ ~Deadlocked(r)
    BY <1>1, WaitsForWriters DEF CanProceed
<1> HIDE DEF W
<1>4. W \in SUBSET Req
    BY DEF W
<1> QED
    BY <1>2, <1>3, <1>4, WaitersDeadlock

\* Whoever is stuck, somebody can go on: for any number of requests and any size of the
\* pool, waits for connections and locks never close a circle the detector misses.
THEOREM SomebodyCanProceed == Spec => []NobodyIsStuck
<1>1. IInv => NobodyIsStuck
  <2> SUFFICES ASSUME IInv, NEW q \in Req, pc[q] \notin {"new", "answered"} \/ InTx(q)
               PROVE  \E r \in Req : CanProceed(r)
    BY DEF NobodyIsStuck
  <2>1. CASE pc[q] \in {"row", "key", "commit", "rollback"} \/ InTx(q)
    BY <2>1, TransactionsMove
  <2>2. CASE pc[q] \in {"begin", "read"}
    <3>1. CASE Cardinality(conns) < MaxConns
        BY <2>2, <3>1 DEF CanProceed
    <3>2. CASE conns = {}
        BY <3>1, <3>2, BrandAssumption, FS_EmptySet
    <3>3. CASE conns # {}
      <4>1. PICK o \in Req : o \in conns
        BY <3>3 DEF IInv, TypeOK
      <4> QED
        BY <4>1, TransactionsMove DEF IInv, ConnectionInv
    <3> QED
        BY <3>2, <3>3
  <2> QED
    BY <2>1, <2>2 DEF IInv, TypeOK, PC
<1> QED
    BY Invariance, <1>1, PTL
=============================================================================

----------------------------- MODULE BrandRegistry -----------------------------
(***************************************************************************)
(* What the card brand endpoints promise: a registry of brands whose names *)
(* differ by more than case, which settles one request at a time.  What a  *)
(* client is told is true of the registry at one instant between its       *)
(* request and its answer; only a request answered 500 while it was open   *)
(* may still take effect.                                                  *)
(***************************************************************************)
CONSTANTS
    Req, Id, Name, NoBrand, Key,
    Work,    \* what requests ask for: [op, id, name]
    NoTask   \* has not asked yet

VARIABLES
    brands,   \* the name of each brand, or NoBrand
    refs,     \* the brands that cards refer to
    task,     \* what each request asked for
    outcome,  \* what became of it
    told      \* the status code of its answer; 0: none yet

vars == <<brands, refs, task, outcome, told>>

Exists(i) == i \in Id /\ brands[i] # NoBrand

\* The brands that have the name n, up to case.
Holders(n) == {j \in Id : Exists(j) /\ Key[brands[j]] = Key[n]}

\* No two brands have names that differ only in case.
UniqueNames ==
    \A i, j \in Id : Exists(i) /\ Exists(j) /\ Key[brands[i]] = Key[brands[j]]
                        => i = j

\* Cards refer to existing brands only.
NoDanglingReference == \A i \in refs : Exists(i)

Init ==
    /\ brands \in [Id -> Name \cup {NoBrand}]
    /\ UniqueNames
    /\ refs = {}
    /\ task = [r \in Req |-> NoTask]
    /\ outcome = [r \in Req |-> "open"]
    /\ told = [r \in Req |-> 0]

-----------------------------------------------------------------------------
(* Outcomes *)

Settle(r, o) == outcome' = [outcome EXCEPT ![r] = o]

\* The registry gives i the name n, or none, on behalf of r.
Set(r, i, n) == brands' = [brands EXCEPT ![i] = n] /\ Settle(r, "done")

Create(r) ==
    /\ task[r].op = "create"
    /\ \E i \in Id : /\ ~Exists(i) /\ Holders(task[r].name) = {}
                     /\ Set(r, i, task[r].name)

Rename(r) ==
    /\ task[r].op = "update"
    /\ Exists(task[r].id) /\ Holders(task[r].name) \subseteq {task[r].id}
    /\ Set(r, task[r].id, task[r].name)

Remove(r) ==
    /\ task[r].op = "delete"
    /\ Exists(task[r].id) /\ task[r].id \notin refs
    /\ Set(r, task[r].id, NoBrand)

Find(r) == task[r].op = "get" /\ Exists(task[r].id) /\ Settle(r, "done")

Miss(r) == task[r].op # "create" /\ ~Exists(task[r].id) /\ Settle(r, "missing")

Taken(r) ==
    /\ \/ task[r].op = "create" /\ Holders(task[r].name) # {}
       \/ task[r].op = "update" /\ ~(Holders(task[r].name) \subseteq {task[r].id})
    /\ Settle(r, "taken")

Referenced(r) ==
    task[r].op = "delete" /\ task[r].id \in refs /\ Settle(r, "referenced")

\* An error that has nothing to do with the registry.
Fail(r) == Settle(r, "failed")

\* What a client may be told of each outcome.
Answers ==
    {<<"done", 200>>, <<"missing", 404>>, <<"taken", 409>>, <<"referenced", 500>>,
     <<"failed", 422>>, <<"failed", 500>>, <<"open", 500>>}

Codes == {a[2] : a \in Answers}

Tell(r) ==
    /\ told[r] = 0
    /\ \E c \in Codes :
          <<outcome'[r], c>> \in Answers /\ told' = [told EXCEPT ![r] = c]

-----------------------------------------------------------------------------
(* Steps *)

\* A request comes in; it may be refused at once.
Ask(r) ==
    /\ task[r] = NoTask
    /\ \E w \in Work : task' = [task EXCEPT ![r] = w]
    /\ \/ UNCHANGED <<outcome, told>>
       \/ Fail(r) /\ Tell(r)
    /\ UNCHANGED <<brands, refs>>

\* A request is settled, once, and may be answered in the same step.
Decide(r) ==
    /\ task[r] # NoTask /\ outcome[r] = "open"
    /\ \/ Create(r) \/ Rename(r) \/ Remove(r)
       \/ UNCHANGED brands /\ (Find(r) \/ Miss(r) \/ Taken(r) \/ Referenced(r) \/ Fail(r))
    /\ UNCHANGED told \/ Tell(r)
    /\ UNCHANGED <<refs, task>>

\* It is answered, once, by what became of it so far.
Answer(r) == task[r] # NoTask /\ Tell(r) /\ UNCHANGED <<brands, refs, task, outcome>>

\* Cards come and go.
Refer(i) ==
    /\ Exists(i)
    /\ refs' \in {refs \cup {i}, refs \ {i}}
    /\ UNCHANGED <<brands, task, outcome, told>>

Next ==
    \/ \E r \in Req : Ask(r) \/ Decide(r) \/ Answer(r)
    \/ \E i \in Id : Refer(i)

Spec == Init /\ [][Next]_vars
================================================================================

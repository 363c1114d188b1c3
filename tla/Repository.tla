------------------------------ MODULE Repository ------------------------------
(***************************************************************************)
(* src/ports/database/typeorm/base-repository.ts: sessions load aggregates *)
(* through TypeormRepositoryBase, change them and save, add or delete      *)
(* them.  One session, Runner, does so in the operations of a transaction  *)
(* run (TransactionMonad); the others use a repository of their own        *)
(* outside of any transaction, as handlers of other requests do.           *)
(*                                                                         *)
(* An aggregate is abstracted to the set of sessions whose change it has;  *)
(* toData puts the whole aggregate over the stored row.  typeorm's save    *)
(* updates the row, or inserts it when it is gone; PostgreSQL makes a      *)
(* write wait for the transaction that wrote the row before.               *)
(*                                                                         *)
(* The definitions called Bug... are not part of the model.                *)
(***************************************************************************)
EXTENDS TransactionMonad, FiniteSets

CONSTANTS
  Runner,   \* the session that runs the transaction
  Others,   \* the other sessions
  Nobody,   \* no session, the mark of a row that does not exist
  Existing, \* the rows there are at first
  MaxCalls  \* bound: how many calls each session makes

Sessions == Others \cup {Runner}

\* A row that does not exist, or an aggregate that was not loaded.
NoRow == {Nobody}

ASSUME RepositoryAssumption ==
  /\ Runner \notin Others /\ Nobody \notin Sessions /\ MaxCalls \in [Sessions -> Nat]
  /\ Rows = (SUBSET Sessions) \cup {NoRow} /\ Existing \subseteq Ids

VARIABLES
  bound, \* the concrete repository binds its methods
  held,  \* the aggregate a session has loaded of each row
  call,  \* the repository call a session is making
  found, \* the rows that call has found
  calls, \* how many calls a session has made
  saved, \* history: the sessions that saved a row since
  spoilt \* history: the rows two sessions held at a time, or that were added or deleted

repoVars == <<bound, held, call, found, calls, saved, spoilt>>
vars == <<txVars, repoVars>>

Ops == {"save", "saveMultiple", "delete", "add"}
NoCall == [op |-> "none", ids |-> {}]

Init ==
  /\ TxInit /\ rows = [id \in Ids |-> IF id \in Existing THEN {} ELSE NoRow]
  /\ bound \in BOOLEAN
  /\ held = [s \in Sessions |-> [id \in Ids |-> NoRow]]
  /\ call = [s \in Sessions |-> NoCall]
  /\ found = [s \in Sessions |-> {}]
  /\ calls = [s \in Sessions |-> 0]
  /\ saved = [id \in Ids |-> {}] /\ spoilt = {}

-----------------------------------------------------------------------------
\* What a session sees of a row, and whether it may use the repository now.
Sees(s, id) == IF s = Runner THEN View(id) ELSE rows[id]
MayCall(s) == call[s] = NoCall /\ (s = Runner => pc = "op")

\* A call answers: a Left or an exception ends the operation of a run.
CallAnswers(s, r) ==
  /\ call' = [call EXCEPT ![s] = NoCall] /\ found' = [found EXCEPT ![s] = {}]
  /\ IF s # Runner \/ r = "right" THEN UNCHANGED txVars
     ELSE IF r = "threw" THEN OpThrows
     ELSE OpAnswers("left")

\* findOneOrThrow and findMany: the aggregate of a row, when there is one.
Load(s, id) ==
  /\ MayCall(s) /\ bound /\ calls[s] < MaxCalls[s] /\ Sees(s, id) # NoRow
  /\ held' = [held EXCEPT ![s][id] = Sees(s, id)]
  /\ spoilt' = IF \/ \E other \in Sessions \ {s} : held[other][id] # NoRow
                  \/ s # Runner /\ id \in DOMAIN pending
                 THEN spoilt \cup {id} ELSE spoilt
  /\ UNCHANGED <<txVars, bound, call, found, calls, saved>>

\* save, saveMultiple and delete take aggregates that were loaded, add a new one.
CanCall(s, op, ids) ==
  /\ MayCall(s) /\ calls[s] < MaxCalls[s]
  /\ op # "saveMultiple" => Cardinality(ids) = 1
  /\ bound /\ op # "add" => \A id \in ids : held[s][id] # NoRow

\* A call begins.  The methods are passed on without their object (this.findOneDataModelById,
\* this.repository.save).  A repository that does not bind them throws at the
\* first, within the call, and answers a Left for the second.
Call(s, op, ids) ==
  /\ CanCall(s, op, ids)
  /\ calls' = [calls EXCEPT ![s] = @ + 1]
  /\ IF ~ bound
       THEN CallAnswers(s, IF op = "add" THEN "left" ELSE "threw")
       ELSE /\ call' = [call EXCEPT ![s] = [op |-> op, ids |-> ids]]
            /\ UNCHANGED <<txVars, found>>
  /\ UNCHANGED <<bound, held, saved, spoilt>>

\* findOneDataModelByIdOrThrow: ENTITY_NOT_FOUND, and nothing is saved.
Find(s, id) ==
  /\ call[s].op \in {"save", "saveMultiple", "delete"} /\ id \in call[s].ids \ found[s]
  /\ IF Sees(s, id) = NoRow
       THEN CallAnswers(s, "left")
       ELSE /\ found' = [found EXCEPT ![s] = @ \cup {id}]
            /\ UNCHANGED <<txVars, call>>
  /\ UNCHANGED <<bound, held, calls, saved, spoilt>>

\* Bug: the row is made of the change alone.
BugToData(s, op, id) == IF op = "delete" THEN NoRow ELSE {s}

\* toData: the aggregate as the session loaded and changed it, or a new one.
ToData(s, op, id) ==
  IF op = "delete" THEN NoRow
  ELSE IF op = "add" \/ held[s][id] = NoRow THEN {s} ELSE held[s][id] \cup {s}

\* Bug: save does not wait for the row it looks up.
BugFoundAll(s) == call[s].op \in Ops

\* All rows were found; add looks none up.
FoundAll(s) == call[s].op \in Ops /\ (call[s].op = "add" \/ found[s] = call[s].ids)

\* repository.save and remove, once every row was found: all of them or none.
Write(s) ==
  LET op == call[s].op
      ids == call[s].ids
      new == [id \in ids |-> ToData(s, op, id)]
  IN  /\ FoundAll(s)
      /\ IF s = Runner THEN OpWrites(new) ELSE OthersWrite(new)
      /\ held' = [held EXCEPT ![s] = [id \in Ids |-> IF id \in ids THEN NoRow ELSE @[id]]]
      /\ saved' = [id \in Ids |-> IF id \in ids THEN saved[id] \cup {s} ELSE saved[id]]
      /\ spoilt' = IF op \in {"add", "delete"} THEN spoilt \cup ids ELSE spoilt
      /\ call' = [call EXCEPT ![s] = NoCall] /\ found' = [found EXCEPT ![s] = {}]
      /\ UNCHANGED <<bound, calls>>

\* A call waits for a look-up or for its write, and that statement fails; outside
\* of a transaction that is all.
CallFails(s) ==
  /\ call[s] # NoCall
  /\ IF s = Runner THEN StatementFails ELSE UNCHANGED txVars
  /\ call' = [call EXCEPT ![s] = NoCall] /\ found' = [found EXCEPT ![s] = {}]
  /\ UNCHANGED <<bound, held, calls, saved, spoilt>>

\* toData refuses the aggregate: nothing was written.
MapFails(s) ==
  /\ FoundAll(s) /\ call[s].op # "delete"
  /\ CallAnswers(s, "left")
  /\ UNCHANGED <<bound, held, calls, saved, spoilt>>

\* The operation of a run answers or rejects between two calls.
OperationEnds ==
  /\ call[Runner] = NoCall
  /\ OpThrows \/ \E r \in {"left", "right"} : OpAnswers(r)
  /\ UNCHANGED repoVars

Step(s) ==
  \/ \E id \in Ids : Load(s, id) \/ Find(s, id)
  \/ \E op \in Ops, ids \in (SUBSET Ids) \ {{}} : Call(s, op, ids)
  \/ Write(s) \/ CallFails(s) \/ MapFails(s)

Next ==
  \/ \E s \in Sessions : Step(s)
  \/ OperationEnds
  \/ Control /\ UNCHANGED repoVars

Spec == Init /\ [][Next]_vars

\* Every call that was made goes on, and so does the run.
Continue(s) == (\E id \in Ids : Find(s, id)) \/ Write(s)

FairSpec ==
  /\ Spec
  /\ WF_vars(Control /\ UNCHANGED repoVars) /\ WF_vars(OperationEnds)
  /\ \A s \in Sessions : WF_vars(Continue(s))

-----------------------------------------------------------------------------
(* Properties.                                                             *)

\* Two sessions can overwrite each other: save looks the row up and puts the
\* whole aggregate over it, with no version.  But they have to hold the row at
\* the same time; otherwise a change that was saved stays, in whatever order
\* the sessions, the run's savepoints and its rollbacks come.
SavedChangesStay ==
  \A id \in Ids \ spoilt :
    /\ \A s \in saved[id] \ {Runner} : s \in rows[id]
    /\ outcome = "right" /\ ~ commitFailed /\ Runner \in saved[id] => Runner \in rows[id]

\* A row comes into being by add, by the run that commits, or by a save that
\* had found it before another session deleted it: a save never creates a row
\* its session did not see (base-repository.ts:150).
RowsCreated ==
  [][\A id \in Ids : rows[id] = NoRow /\ rows'[id] # NoRow =>
       \/ id \in DOMAIN pending
       \/ \E s \in Others : /\ id \in call[s].ids
                            /\ \/ call[s].op = "add"
                               \/ id \in found[s] /\ id \in spoilt]_vars

\* The other sessions get their answers, unless the operation of the run
\* rejected: the rows it wrote stay locked.
OthersAnswer ==
  \A s \in Others : call[s] # NoCall ~> call[s] = NoCall \/ outcome = "threw"
=============================================================================

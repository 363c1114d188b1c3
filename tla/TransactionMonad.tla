--------------------------- MODULE TransactionMonad ---------------------------
(***************************************************************************)
(* src/application/transaction-monad.ts: run begins a transaction on the   *)
(* entity manager, performs the operation, commits whatever the operation  *)
(* came to, and only then looks at its result and rolls a Left back.  What *)
(* is chained to an operation is run the same way, on the same entity      *)
(* manager, inside the run of that operation, so the runs nest.            *)
(*                                                                         *)
(* The entity manager is an interface; it is modelled as typeorm's query   *)
(* runner on PostgreSQL: a nested begin is a savepoint, a nested commit    *)
(* releases it, a rollback goes back to the savepoint of the depth the     *)
(* runner has by then, and without a transaction commit and rollback fail. *)
(* A failed statement aborts the transaction: releasing a savepoint then   *)
(* fails and leaves the depth, a COMMIT rolls back.                        *)
(*                                                                         *)
(* The definitions called Bug... are not part of the model.                *)
(***************************************************************************)
EXTENDS Integers, Sequences

CONSTANTS
  Ids,      \* the rows an operation may write
  Rows,     \* what a row may hold
  MaxRuns,  \* bound: how many runs, the nested ones included
  MaxFaults \* bound: how many statements fail

ASSUME TransactionAssumption == MaxRuns \in Nat \ {0} /\ MaxFaults \in Nat

VARIABLES
  rows,       \* what the database keeps
  pending,    \* the rows written in the transaction
  savepoints, \* what was pending when each nested transaction began
  depth,      \* transactionDepth of the entity manager
  aborted,    \* a statement failed since the last savepoint
  runs,       \* how many runs are under way, each inside the one before
  started,    \* how many runs have begun
  pc,         \* where the innermost of them is
  result,     \* what its operation came to
  outcome,    \* what unsafeRun answered
  faults,
  commitFailed, \* history: a COMMIT failed
  failure,    \* history: how the first failure happened
  written,    \* history: the rows the operations wrote
  kept        \* history: the rows the transaction's COMMITs made permanent

store == <<rows, pending, savepoints, depth, aborted, kept>>
control == <<runs, started, pc, result, outcome>>
history == <<failure, commitFailed, written>>
txVars == <<store, control, faults, history>>

Nothing == [id \in {} |-> id]
Written == UNION {[D -> Rows] : D \in SUBSET Ids}
NoFailure == [depth |-> 0, kind |-> "none", outer |-> Nothing]

TxInit ==
  /\ rows \in [Ids -> Rows]
  /\ pending = Nothing /\ savepoints = <<>> /\ depth = 0 /\ aborted = FALSE
  /\ runs = 1 /\ started = 1 /\ pc = "begin" /\ result = "none" /\ outcome = "none"
  /\ faults = 0 /\ kept = Nothing
  /\ failure = NoFailure /\ commitFailed = FALSE /\ written = Nothing

Overlay(new, old) ==
  [id \in DOMAIN new \cup DOMAIN old |-> IF id \in DOMAIN new THEN new[id] ELSE old[id]]

\* What the transaction sees of a row.
View(id) == IF id \in DOMAIN pending THEN pending[id] ELSE rows[id]

Fault == faults < MaxFaults /\ faults' = faults + 1

-----------------------------------------------------------------------------
(* The entity manager.                                                     *)

Begin ==
  /\ depth' = depth + 1
  /\ savepoints' = IF depth = 0 THEN <<>> ELSE Append(savepoints, pending)
  /\ UNCHANGED <<rows, pending, aborted, kept>>

\* COMMIT or RELEASE SAVEPOINT.
Commit ==
  \/ /\ depth = 1
     /\ rows' = IF aborted THEN rows ELSE Overlay(pending, rows)
     /\ kept' = IF aborted THEN kept ELSE Overlay(pending, kept)
     /\ pending' = Nothing /\ depth' = 0 /\ aborted' = FALSE
     /\ UNCHANGED savepoints
  \/ /\ depth > 1 /\ ~ aborted
     /\ depth' = depth - 1
     /\ savepoints' = SubSeq(savepoints, 1, depth - 2)
     /\ UNCHANGED <<rows, pending, aborted, kept>>
  \/ /\ depth = 0 \/ (depth > 1 /\ aborted)
     /\ UNCHANGED store

\* ROLLBACK or ROLLBACK TO SAVEPOINT.
Rollback ==
  \/ /\ depth = 1
     /\ pending' = Nothing /\ depth' = 0 /\ aborted' = FALSE
     /\ UNCHANGED <<rows, savepoints, kept>>
  \/ /\ depth > 1
     /\ pending' = savepoints[depth - 1]
     /\ depth' = depth - 1 /\ aborted' = FALSE
     /\ savepoints' = SubSeq(savepoints, 1, depth - 2)
     /\ UNCHANGED <<rows, kept>>
  \/ /\ depth = 0
     /\ UNCHANGED store

-----------------------------------------------------------------------------
(* run.                                                                    *)

Goto(place) == pc' = place /\ UNCHANGED <<runs, started, outcome>>

FailsWith(kind) ==
  /\ result' = "left"
  /\ failure' = IF failure # NoFailure THEN failure ELSE
                 [depth |-> depth, kind |-> kind,
                  outer |-> IF depth > 1 THEN savepoints[1] ELSE pending]

RunBegins ==
  /\ pc = "begin"
  /\ Begin /\ Goto("op")
  /\ UNCHANGED <<result, faults, history>>

\* begin answers a Left: the operation is left out, commit and rollback are not.  A
\* savepoint that failed was a statement of the transaction around it.
BeginFails ==
  /\ pc = "begin" /\ Fault
  /\ aborted' = (depth > 0)
  /\ FailsWith("begin") /\ Goto("commit")
  /\ UNCHANGED <<rows, pending, savepoints, depth, kept, commitFailed, written>>

\* The operation writes rows through the entity manager.
OpWrites(new) ==
  /\ pc = "op"
  /\ pending' = Overlay(new, pending) /\ written' = Overlay(new, written)
  /\ UNCHANGED <<rows, savepoints, depth, aborted, kept, control, faults, failure, commitFailed>>

\* It answers: what it decided itself, or that a statement failed.
OpAnswers(r) ==
  /\ pc = "op"
  /\ IF r = "left" THEN FailsWith("domain") ELSE result' = r /\ UNCHANGED failure
  /\ Goto("answered")
  /\ UNCHANGED <<store, faults, commitFailed, written>>

StatementFails ==
  /\ pc = "op" /\ Fault
  /\ aborted' = TRUE
  /\ FailsWith("statement") /\ Goto("answered")
  /\ UNCHANGED <<rows, pending, savepoints, depth, kept, commitFailed, written>>

\* The task rejects: no run commits or rolls back.
OpThrows ==
  /\ pc = "op"
  /\ pc' = "done" /\ outcome' = "threw"
  /\ UNCHANGED <<store, runs, started, result, faults, history>>

\* chain runs what the function makes of a result, inside this run; a Left, or
\* the last of a chain, is the result of the run.
Chain ==
  /\ pc = "answered" /\ result = "right" /\ started < MaxRuns
  /\ runs' = runs + 1 /\ started' = started + 1 /\ pc' = "begin" /\ result' = "none"
  /\ UNCHANGED <<store, outcome, faults, history>>

RunEnds ==
  /\ pc = "answered"
  /\ Goto("commit")
  /\ UNCHANGED <<store, result, faults, history>>

\* Bug: only a Right is committed.
BugRunCommits ==
  /\ pc = "commit"
  /\ IF result = "right" THEN Commit ELSE UNCHANGED store
  /\ Goto("evaluate")
  /\ UNCHANGED <<result, faults, history>>

\* Task.tap: commit runs, nobody looks at what it answers.
RunCommits ==
  /\ pc = "commit"
  /\ Commit /\ Goto("evaluate")
  /\ UNCHANGED <<result, faults, history>>

\* COMMIT fails, and saves nothing.
CommitFails ==
  /\ pc = "commit" /\ depth = 1 /\ ~ aborted /\ Fault
  /\ pending' = Nothing /\ commitFailed' = TRUE
  /\ Goto("evaluate")
  /\ UNCHANGED <<rows, savepoints, depth, aborted, kept, result, failure, written>>

\* The run answers the run it is in, whose chain ends or goes on with it, or
\* unsafeRun, which resolves or rejects.
Answer(r) ==
  IF runs = 1
    THEN /\ pc' = "done" /\ outcome' = r
         /\ UNCHANGED <<runs, started, result>>
    ELSE /\ runs' = runs - 1 /\ pc' = "answered"
         /\ UNCHANGED <<started, result, outcome>>

\* Bug: a Left is answered without a rollback.
BugRunEvaluates ==
  /\ pc = "evaluate"
  /\ Answer(result)
  /\ UNCHANGED <<store, faults, history>>

\* Bug: the branches are swapped.
BugEvaluateSwapped ==
  /\ pc = "evaluate"
  /\ IF result = "right" THEN Rollback ELSE UNCHANGED store
  /\ Answer(result)
  /\ UNCHANGED <<faults, history>>

\* The result is evaluated: a Right is answered, a Left rolled back first.
RunEvaluates ==
  /\ pc = "evaluate"
  /\ IF result = "left" THEN Rollback ELSE UNCHANGED store
  /\ Answer(result)
  /\ UNCHANGED <<faults, history>>

\* A function given to map runs only now; when it throws, so does unsafeRun.
MapThrows ==
  /\ pc = "evaluate" /\ result = "right"
  /\ pc' = "done" /\ outcome' = "threw"
  /\ UNCHANGED <<store, runs, started, result, faults, history>>

\* Another session writes rows this transaction has not locked.
OthersWrite(new) ==
  /\ DOMAIN new \cap DOMAIN pending = {}
  /\ rows' = Overlay(new, rows)
  /\ UNCHANGED <<pending, savepoints, depth, aborted, kept, control, faults, history>>

Control ==
  \/ RunBegins \/ BeginFails
  \/ Chain \/ RunEnds
  \/ RunCommits \/ CommitFails
  \/ RunEvaluates \/ MapThrows

Operation ==
  \/ \E new \in Written : OpWrites(new)
  \/ \E r \in {"left", "right"} : OpAnswers(r)
  \/ StatementFails \/ OpThrows

Other == \E new \in Written : OthersWrite(new)

TxNext == Control \/ Operation \/ Other

TxSpec == TxInit /\ [][TxNext]_txVars

-----------------------------------------------------------------------------
(* Properties.                                                             *)

Odd(n) == n % 2 = 1

\* What a run that answers a Left leaves in the database.  A failing run first
\* commits and then rolls back, so every level of the unwinding takes two off
\* the depth: a Left of an operation at an odd depth ends with a COMMIT of what
\* the outermost run wrote before it called the failing ones (of everything at
\* depth one), at an even depth with a rollback of all; a failed statement, a
\* savepoint included, keeps the first commit from happening, which turns it round.
FailureKeeps ==
  outcome = "left" /\ ~ commitFailed =>
    kept = IF failure.kind = "domain" <=> Odd(failure.depth)
             THEN failure.outer ELSE Nothing

\* A run that resolves has saved all that its operations wrote, at any depth,
\* or nothing: when the COMMIT failed it resolves all the same.
SuccessKeeps ==
  outcome = "right" => kept = IF commitFailed THEN Nothing ELSE written

\* Only a rejecting operation leaves the transaction, and its locks, open.
OpenOnlyAfterThrow == pc = "done" => pending = Nothing \/ outcome = "threw"

-----------------------------------------------------------------------------
(* The inductive invariant: where depth, pending and kept are while runs   *)
(* succeed, and while the runs around a failed operation unwind.           *)

TxTypeOK ==
  /\ pending \in Written /\ kept \in Written /\ written \in Written
  /\ savepoints \in Seq(Written) /\ Len(savepoints) = (IF depth = 0 THEN 0 ELSE depth - 1)
  /\ depth \in Nat /\ runs \in Nat \ {0} /\ started \in Nat
  /\ aborted \in BOOLEAN /\ commitFailed \in BOOLEAN
  /\ pc \in {"begin", "op", "answered", "commit", "evaluate", "done"}
  /\ result \in {"none", "left", "right"} /\ outcome \in {"none", "left", "right", "threw"}
  /\ failure \in {NoFailure} \cup
                 [depth : Nat, kind : {"begin", "domain", "statement"}, outer : Written]

Failed == failure.kind # "none"

\* No operation failed so far: a transaction for every run that has begun, and
\* what the runs wrote is pending in the outermost.
Forward ==
  ~ Failed /\ pc # "done" =>
    /\ ~ aborted
    /\ result = IF pc \in {"begin", "op"} THEN "none" ELSE "right"
    /\ ~ commitFailed =>
         /\ depth = IF pc \in {"begin", "evaluate"} THEN runs - 1 ELSE runs
         /\ depth > 0 => pending = written /\ kept = Nothing
         /\ depth = 0 => pending = Nothing /\ kept = written /\ (pc = "begin" => kept = Nothing)
    /\ commitFailed => runs = 1 /\ pc = "evaluate"

\* The number of levels a failure unwinds by two at a time: a statement costs
\* the innermost run its commit, and a failing begin leaves one run more than
\* there are levels.
Level ==
  CASE failure.kind = "statement" -> failure.depth - 1
    [] failure.kind = "begin" -> IF failure.depth > 1 THEN failure.depth + 1 ELSE 0
    [] OTHER -> failure.depth

Left == 2 * runs - Level - (IF pc = "evaluate" THEN 1 ELSE 0)

Kept == IF Odd(Level) THEN failure.outer ELSE Nothing

Unwinding ==
  Failed /\ pc # "done" =>
    /\ result = "left" /\ pc \in {"answered", "commit", "evaluate"}
    /\ failure.kind # "begin" => failure.depth > 0
    /\ failure.kind = "begin" /\ failure.depth = 0 => failure.outer = Nothing
    /\ ~ commitFailed =>
         /\ aborted =>
              /\ failure.kind # "domain" /\ depth = failure.depth /\ depth > 0
              /\ runs = IF failure.kind = "begin" THEN depth + 1 ELSE depth
              /\ kept = Nothing /\ (pc = "evaluate" => depth > 1)
         /\ ~ aborted /\ Level = 0 => depth = 0 /\ pending = Nothing /\ kept = Nothing
         /\ ~ aborted /\ Level > 0 =>
              /\ runs <= Level /\ depth = (IF Left > 0 THEN Left ELSE 0)
              /\ pc # "evaluate" /\ depth = 1 => pending = failure.outer
              /\ depth = 0 => pending = Nothing
              /\ kept = IF depth > 0 THEN Nothing ELSE Kept
         /\ depth > 1 => savepoints[1] = failure.outer

\* A COMMIT failed: the last rollback finds nothing.
NothingLeft ==
  commitFailed =>
    /\ pending = Nothing /\ kept = Nothing /\ ~ aborted
    /\ pc \in {"answered", "commit"} => depth = 0
    /\ depth <= 1

TxInv ==
  /\ TxTypeOK /\ Forward /\ Unwinding /\ NothingLeft
  /\ pc # "done" => outcome = "none"
  /\ FailureKeeps /\ SuccessKeeps /\ OpenOnlyAfterThrow
=============================================================================

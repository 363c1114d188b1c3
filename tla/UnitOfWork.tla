------------------------------ MODULE UnitOfWork ------------------------------
(***************************************************************************)
(* src/ports/database/typeorm/unit-of-work.ts: TypeormUnitOfWork.execute   *)
(* runs a callback in a transaction on a query runner of its own, which it *)
(* registers under the correlation id.  The callback's repositories, the   *)
(* rollback and the final release find the runner through that id, the     *)
(* commit does not; every await lets other calls of execute move.          *)
(*                                                                         *)
(* The runner of a call is named by the call.  typeorm, PostgreSQL and the *)
(* pool are external: a runner takes a connection from the pool when its   *)
(* transaction starts and gives it back when it is released; on a runner   *)
(* without a transaction a write saves at once, commit and rollback fail;  *)
(* a rollback that fails has lost its connection, so the server aborts;    *)
(* a commit that fails may have been applied.                              *)
(*                                                                         *)
(* The definitions called Bug... are not part of the model: each is a      *)
(* plausible mistake in the code of the definition that follows it, and is *)
(* there to show which property notices it.                                *)
(***************************************************************************)
EXTENDS Integers, FiniteSets

CONSTANTS
  Calls,          \* calls of execute
  NoCall,         \* no call
  CorrelationIds, \* the correlation ids
  NoId,           \* the empty correlation id
  CorrelationId,  \* the id a call is given
  Parent,         \* the call whose callback makes this one, or NoCall
  MaxWrites,      \* bound: how many writes a callback makes
  PoolSize,       \* connections of the datasource (maxConnections)
  Faults,         \* the kinds of failure that may happen
  MaxFaults       \* bound: how many failures happen in a behaviour

ASSUME UnitOfWorkAssumption ==
  /\ NoCall \notin Calls /\ NoId \notin CorrelationIds
  /\ CorrelationId \in [Calls -> CorrelationIds \cup {NoId}]
  /\ Parent \in [Calls -> Calls \cup {NoCall}]
  /\ MaxWrites \in Nat /\ PoolSize \in Nat /\ MaxFaults \in Nat
  /\ Faults \subseteq {"start", "commit", "rollback"}

VARIABLES
  pc,           \* where a call of execute is
  queryRunners, \* the map: the runner registered under an id, or NoCall
  conn,         \* a runner's connection: none yet, held, given back (released),
                \* or taken after the runner was released, so never given back (lost)
  tx,           \* a runner's transaction
  target,       \* the runner a call is rolling back
  path,         \* how a call got to its cleanup: commit, result (an Err), caught
  failed,       \* the calls whose cleanup is failing
  outcome,      \* what a call answered
  made,         \* how many writes its callback has made
  pending,      \* the writes made in a runner's transaction
  saved,        \* the writes the database keeps
  faults        \* how many failures have happened

vars == <<pc, queryRunners, conn, tx, target, path, failed, outcome, made,
          pending, saved, faults>>

PC == {"idle", "starting", "running", "committing", "rolling", "deleting",
       "retrying", "done"}

WriteIds == Calls \X (1 .. MaxWrites)

TypeOK ==
  /\ pc \in [Calls -> PC]
  /\ queryRunners \in [CorrelationIds -> Calls \cup {NoCall}]
  /\ conn \in [Calls -> {"none", "held", "released", "lost"}]
  /\ tx \in [Calls -> {"none", "active", "committed", "aborted"}]
  /\ target \in [Calls -> Calls \cup {NoCall}]
  /\ path \in [Calls -> {"none", "commit", "result", "caught"}]
  /\ failed \subseteq Calls
  /\ outcome \in [Calls -> {"none", "ok", "err", "threw"}]
  /\ made \in [Calls -> 0 .. MaxWrites]
  /\ pending \in [Calls -> SUBSET WriteIds]
  /\ saved \subseteq WriteIds
  /\ faults \in 0 .. MaxFaults

Init ==
  /\ pc = [x \in Calls |-> "idle"]
  /\ queryRunners = [i \in CorrelationIds |-> NoCall]
  /\ conn = [x \in Calls |-> "none"]
  /\ tx = [x \in Calls |-> "none"]
  /\ target = [x \in Calls |-> NoCall]
  /\ path = [x \in Calls |-> "none"]
  /\ failed = {}
  /\ outcome = [x \in Calls |-> "none"]
  /\ made = [x \in Calls |-> 0]
  /\ pending = [x \in Calls |-> {}]
  /\ saved = {}
  /\ faults = 0

-----------------------------------------------------------------------------
(* The map, the pool and the transactions.                                 *)

Fault(kind) == kind \in Faults /\ faults < MaxFaults /\ faults' = faults + 1

\* getQueryRunner: NoCall stands for the "Query runner not found" it throws.
GetQueryRunner(x) == queryRunners[CorrelationId[x]]

PoolHasConnection ==
  Cardinality({r \in Calls : conn[r] \in {"held", "lost"}}) < PoolSize

\* A statement of the runner reaches its own transaction.
InTransaction(r) == tx[r] = "active" /\ conn[r] = "held"

\* The callback of a call waits for the calls it made.
Waits(x) == \E y \in Calls : Parent[y] = x /\ pc[y] \notin {"idle", "done"}

Answer(x, o) ==
  /\ pc' = [pc EXCEPT ![x] = "done"]
  /\ outcome' = [outcome EXCEPT ![x] = o]

\* A look-up without a runner throws, and the call rejects; but what the rollback
\* of an Err throws is caught by execute, which rolls back again.
NotFound(x, p) ==
  IF p = "result" THEN pc' = [pc EXCEPT ![x] = "retrying"] /\ UNCHANGED outcome
                  ELSE Answer(x, "threw")

\* rollbackTransaction up to its await.
StartRollback(x, p) ==
  /\ path' = [path EXCEPT ![x] = p]
  /\ IF GetQueryRunner(x) = NoCall
       THEN NotFound(x, p) /\ UNCHANGED target
       ELSE /\ target' = [target EXCEPT ![x] = GetQueryRunner(x)]
            /\ pc' = [pc EXCEPT ![x] = "rolling"]
            /\ UNCHANGED outcome

\* finish only deletes the entry of the map.
BugFinish(x, bad) ==
  /\ pc' = [pc EXCEPT ![x] = "deleting"]
  /\ failed' = IF bad THEN failed \cup {x} ELSE failed \ {x}
  /\ UNCHANGED <<conn, outcome>>

\* finish up to its await, in the finally of a commit or a rollback: whatever
\* runner the id has now is released.
Finish(x, bad) ==
  IF GetQueryRunner(x) = NoCall
    THEN NotFound(x, path[x]) /\ UNCHANGED <<conn, failed>>
    ELSE /\ conn' = [conn EXCEPT ![GetQueryRunner(x)] =
                       IF @ = "lost" THEN "lost" ELSE "released"]
         /\ pc' = [pc EXCEPT ![x] = "deleting"]
         /\ failed' = IF bad THEN failed \cup {x} ELSE failed \ {x}
         /\ UNCHANGED outcome

Abort(r) ==
  /\ tx' = [tx EXCEPT ![r] = "aborted"]
  /\ pending' = [pending EXCEPT ![r] = {}]

Commit(r) ==
  /\ tx' = [tx EXCEPT ![r] = "committed"]
  /\ saved' = saved \cup pending[r]
  /\ pending' = [pending EXCEPT ![r] = {}]

-----------------------------------------------------------------------------
(* The steps of execute.                                                   *)

\* execute up to its first await.  A nested call is made by a running callback.
Execute(x) ==
  /\ pc[x] = "idle"
  /\ Parent[x] # NoCall => pc[Parent[x]] = "running" /\ ~Waits(Parent[x])
  /\ IF CorrelationId[x] = NoId
       THEN Answer(x, "threw") /\ UNCHANGED queryRunners
       ELSE /\ queryRunners' = [queryRunners EXCEPT ![CorrelationId[x]] = x]
            /\ pc' = [pc EXCEPT ![x] = "starting"]
            /\ UNCHANGED outcome
  /\ UNCHANGED <<conn, tx, target, path, failed, made, pending, saved, faults>>

\* The transaction starts on the registered runner only.
BugStartOk(x) ==
  /\ pc[x] = "starting" /\ PoolHasConnection /\ GetQueryRunner(x) = x
  /\ conn' = [conn EXCEPT ![x] = IF conn[x] = "released" THEN "lost" ELSE "held"]
  /\ tx' = [tx EXCEPT ![x] = "active"]
  /\ pc' = [pc EXCEPT ![x] = "running"]
  /\ UNCHANGED <<queryRunners, target, path, failed, outcome, made, pending, saved, faults>>

StartOk(x) ==
  /\ pc[x] = "starting" /\ PoolHasConnection
  /\ conn' = [conn EXCEPT ![x] = IF conn[x] = "released" THEN "lost" ELSE "held"]
  /\ tx' = [tx EXCEPT ![x] = "active"]
  /\ pc' = [pc EXCEPT ![x] = "running"]
  /\ UNCHANGED <<queryRunners, target, path, failed, outcome, made, pending, saved, faults>>

\* startTransaction rejects, with or without a connection: it is outside of
\* both try blocks, so the runner stays registered and is not released.
StartFail(x) ==
  /\ pc[x] = "starting" /\ Fault("start")
  /\ \/ UNCHANGED conn
     \/ /\ PoolHasConnection /\ conn[x] = "none"
        /\ conn' = [conn EXCEPT ![x] = "held"]
  /\ Answer(x, "threw")
  /\ UNCHANGED <<queryRunners, tx, target, path, failed, made, pending, saved>>

\* The callback is called without waiting for startTransaction.
BugWrite(x) ==
  LET w == <<x, made[x] + 1>> IN
  /\ pc[x] \in {"starting", "running"} /\ ~Waits(x) /\ made[x] < MaxWrites
  /\ made' = [made EXCEPT ![x] = @ + 1]
  /\ IF InTransaction(x)
       THEN pending' = [pending EXCEPT ![x] = @ \cup {w}] /\ UNCHANGED saved
       ELSE saved' = saved \cup {w} /\ UNCHANGED pending
  /\ UNCHANGED <<pc, queryRunners, conn, tx, target, path, failed, outcome, faults>>

\* The callback writes through getOrmRepository; what it is given is the
\* runner registered at that moment.  A write on a runner that is starting
\* waits for it, one on a released runner throws.
Write(x) ==
  LET r == GetQueryRunner(x)
      w == <<x, made[x] + 1>> IN
  /\ pc[x] = "running" /\ ~Waits(x) /\ made[x] < MaxWrites
  /\ r # NoCall
  /\ pc[r] # "starting" /\ conn[r] \in {"none", "held"}
  /\ made' = [made EXCEPT ![x] = @ + 1]
  /\ IF InTransaction(r)
       THEN pending' = [pending EXCEPT ![r] = @ \cup {w}] /\ UNCHANGED saved
       ELSE saved' = saved \cup {w} /\ UNCHANGED pending
  /\ UNCHANGED <<pc, queryRunners, conn, tx, target, path, failed, outcome, faults>>

\* The callback resolves, with anything but an Err: commit.
CallbackOk(x) ==
  /\ pc[x] = "running" /\ ~Waits(x)
  /\ pc' = [pc EXCEPT ![x] = "committing"]
  /\ path' = [path EXCEPT ![x] = "commit"]
  /\ UNCHANGED <<queryRunners, conn, tx, target, failed, outcome, made, pending, saved, faults>>

\* An Err is committed like any value; the runner is released without a rollback.
BugErrCommits(x) ==
  /\ pc[x] = "running" /\ ~Waits(x)
  /\ pc' = [pc EXCEPT ![x] = "committing"]
  /\ path' = [path EXCEPT ![x] = "result"]
  /\ UNCHANGED <<queryRunners, conn, tx, target, failed, outcome, made, pending, saved, faults>>

BugNoRollback(x) ==
  /\ pc[x] = "running" /\ ~Waits(x)
  /\ path' = [path EXCEPT ![x] = "caught"] /\ Finish(x, FALSE)
  /\ UNCHANGED <<queryRunners, tx, target, made, pending, saved, faults>>

\* It resolves with an Err, or rejects: roll back.
CallbackFail(x) ==
  /\ pc[x] = "running" /\ ~Waits(x)
  /\ \E p \in {"result", "caught"} : StartRollback(x, p)
  /\ UNCHANGED <<queryRunners, conn, tx, failed, made, pending, saved, faults>>

\* The runner to commit is looked up, as the runner to roll back is.
BugCommitLooksUp(x) ==
  /\ pc[x] = "committing"
  /\ GetQueryRunner(x) # NoCall /\ InTransaction(GetQueryRunner(x))
  /\ Commit(GetQueryRunner(x)) /\ Finish(x, FALSE)
  /\ UNCHANGED <<queryRunners, target, path, made, faults>>

CommitOk(x) ==
  /\ pc[x] = "committing" /\ InTransaction(x)
  /\ Commit(x) /\ Finish(x, FALSE)
  /\ UNCHANGED <<queryRunners, target, path, made, faults>>

\* A commit that fails is not followed by finish.
BugNoFinally(x) ==
  /\ pc[x] = "committing" /\ InTransaction(x)
  /\ Fault("commit") /\ Abort(x) /\ Answer(x, "threw")
  /\ UNCHANGED <<queryRunners, conn, target, path, failed, made, saved>>

\* The commit rejects: always when the runner has no transaction any more or
\* was released, and otherwise by a failure.
CommitFail(x) ==
  /\ pc[x] = "committing"
  /\ IF InTransaction(x)
       THEN Fault("commit") /\ (Commit(x) \/ (Abort(x) /\ UNCHANGED saved))
       ELSE UNCHANGED <<tx, pending, saved, faults>>
  /\ Finish(x, TRUE)
  /\ UNCHANGED <<queryRunners, target, path, made>>

RollbackOk(x) ==
  /\ pc[x] = "rolling" /\ pc[target[x]] # "starting" /\ InTransaction(target[x])
  /\ Abort(target[x]) /\ Finish(x, FALSE)
  /\ UNCHANGED <<queryRunners, target, path, made, saved, faults>>

RollbackFail(x) ==
  /\ pc[x] = "rolling" /\ pc[target[x]] # "starting"
  /\ IF InTransaction(target[x])
       THEN Fault("rollback") /\ Abort(target[x])
       ELSE UNCHANGED <<tx, pending, faults>>
  /\ Finish(x, TRUE)
  /\ UNCHANGED <<queryRunners, target, path, made, saved>>

\* The entry of the map is left there.
BugDelete(x) ==
  /\ pc[x] = "deleting"
  /\ IF x \in failed /\ path[x] = "result"
       THEN pc' = [pc EXCEPT ![x] = "retrying"] /\ UNCHANGED outcome
       ELSE Answer(x, IF path[x] = "result" THEN "err" ELSE "ok")
  /\ UNCHANGED <<queryRunners, conn, tx, target, path, failed, made, pending, saved, faults>>

\* finish after its await: the id is deleted from the map, and execute answers.
\* An Err whose rollback failed is caught by execute, which rolls back again.
Delete(x) ==
  /\ pc[x] = "deleting"
  /\ queryRunners' = [queryRunners EXCEPT ![CorrelationId[x]] = NoCall]
  /\ IF x \in failed /\ path[x] = "result"
       THEN pc' = [pc EXCEPT ![x] = "retrying"] /\ UNCHANGED outcome
       ELSE Answer(x, CASE x \in failed \/ path[x] = "caught" -> "threw"
                        [] path[x] = "result" -> "err"
                        [] OTHER -> "ok")
  /\ UNCHANGED <<conn, tx, target, path, failed, made, pending, saved, faults>>

RollbackAgain(x) ==
  /\ pc[x] = "retrying"
  /\ StartRollback(x, "caught")
  /\ UNCHANGED <<queryRunners, conn, tx, failed, made, pending, saved, faults>>

-----------------------------------------------------------------------------
Callback(x) == CallbackOk(x) \/ CallbackFail(x)

Cleanup(x) ==
  \/ CommitOk(x) \/ CommitFail(x) \/ RollbackOk(x) \/ RollbackFail(x)
  \/ Delete(x) \/ RollbackAgain(x)

Next ==
  \E x \in Calls :
    \/ Execute(x) \/ StartOk(x) \/ StartFail(x)
    \/ Write(x) \/ Callback(x) \/ Cleanup(x)

Spec == Init /\ [][Next]_vars

\* Callbacks end, the database answers, and a call that can have a connection
\* of the pool gets it.
Fairness ==
  \A x \in Calls : WF_vars(StartOk(x)) /\ WF_vars(Callback(x)) /\ WF_vars(Cleanup(x))

FairSpec == Spec /\ Fairness

-----------------------------------------------------------------------------
(* Properties.                                                             *)

\* Every call is given an id of its own.
DistinctIds ==
  \A x, y \in Calls : CorrelationId[x] = CorrelationId[y] /\ CorrelationId[x] # NoId => x = y

MadeBy(x) == {x} \X (1 .. made[x])

SavedBy(x) == {w \in saved : w[1] = x}

\* What the comment on execute says: everything its callback wrote gets saved,
\* or nothing at all - never a part, at any moment.
AllOrNothing == \A x \in Calls : SavedBy(x) \in {{}, MadeBy(x)}

\* A caller that is told its call succeeded finds all its writes saved, one
\* that gets the Err back finds none.
TruthfulAnswer ==
  \A x \in Calls :
    /\ outcome[x] = "ok" => SavedBy(x) = MadeBy(x)
    /\ outcome[x] = "err" => SavedBy(x) = {}

\* Whatever ids are shared, a caller is told of success only when the
\* transaction its own call started was committed.
SuccessIsOwnCommit == \A x \in Calls : outcome[x] = "ok" => tx[x] = "committed"

\* No runner goes back to the pool in the middle of its transaction.
NoReleaseInTransaction == \A x \in Calls : conn[x] = "released" => tx[x] # "active"

\* What a call that is over leaves behind - a connection of the pool, an entry
\* of the map - is left by a transaction that did not start, and by nothing else.
OnlyFailedStartsLeak ==
  \A x \in Calls :
    /\ pc[x] = "done" /\ CorrelationId[x] # NoId
    /\ conn[x] \in {"held", "lost"} \/ GetQueryRunner(x) = x
    => tx[x] = "none"

\* What a call with an id of its own relies on at each of its steps: its runner
\* is registered until its cleanup deletes it, and is in its transaction from
\* the start to the commit or the rollback.
OwnRunner(x) ==
  /\ pc[x] \notin {"idle", "done"} => CorrelationId[x] # NoId
  /\ CorrelationId[x] # NoId => GetQueryRunner(x) \in {x, NoCall}
  /\ pc[x] \in {"starting", "running", "committing", "rolling", "deleting"}
       => GetQueryRunner(x) = x
  /\ pc[x] = "retrying" => GetQueryRunner(x) = NoCall
  /\ pc[x] = "rolling" => target[x] = x

OwnTransaction(x) ==
  /\ pc[x] \in {"idle", "starting"} => conn[x] = "none" /\ tx[x] = "none"
  /\ pc[x] \in {"running", "committing", "rolling"} => conn[x] = "held" /\ tx[x] = "active"
  /\ pc[x] \in {"deleting", "retrying"}
       => conn[x] = "released" /\ tx[x] \in {"committed", "aborted"}
  /\ pc[x] = "done" => tx[x] # "active"
  /\ pc[x] = "done" /\ CorrelationId[x] # NoId /\ tx[x] # "none"
       => conn[x] = "released" /\ GetQueryRunner(x) = NoCall

OwnWrites(x) ==
  /\ tx[x] = "none" => made[x] = 0
  /\ pending[x] = IF tx[x] = "active" THEN MadeBy(x) ELSE {}
  /\ SavedBy(x) = IF tx[x] = "committed" THEN MadeBy(x) ELSE {}

OwnAnswer(x) ==
  /\ pc[x] # "done" => outcome[x] = "none"
  /\ pc[x] = "committing" => path[x] = "commit"
  /\ pc[x] = "rolling" => path[x] \in {"result", "caught"}
  /\ pc[x] = "deleting" => path[x] # "none"
  /\ pc[x] = "deleting" /\ path[x] = "commit" /\ x \notin failed => tx[x] = "committed"
  /\ pc[x] = "deleting" /\ path[x] \in {"result", "caught"} => tx[x] = "aborted"
  /\ outcome[x] = "ok" => tx[x] = "committed"
  /\ outcome[x] = "err" => tx[x] = "aborted"

CallInv(x) == OwnRunner(x) /\ OwnTransaction(x) /\ OwnWrites(x) /\ OwnAnswer(x)

UowInv == TypeOK /\ \A x \in Calls : CallInv(x)

\* A transaction that did not start has left its connection with nobody.
StartLeaked == \E x \in Calls : pc[x] = "done" /\ tx[x] = "none" /\ conn[x] = "held"

\* Every call answers: calls within calls do not use up the pool and wait for
\* each other for ever, unless a failed start has taken a connection from them.
EveryCallAnswers ==
  \A x \in Calls : pc[x] = "starting" ~> (pc[x] = "done" \/ StartLeaked)
=============================================================================

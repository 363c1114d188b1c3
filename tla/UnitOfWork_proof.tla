--------------------------- MODULE UnitOfWork_proof ---------------------------
(***************************************************************************)
(* Calls of execute that have correlation ids of their own are atomic,     *)
(* however many there are, whatever they nest and whatever fails: the      *)
(* inductive invariant UowInv and what it implies.  A step of a call       *)
(* changes nothing another call relies on, so each action is proved for    *)
(* the call that takes it and CallsAreSeparate carries the others over.    *)
(* The last part is about calls that share ids.                            *)
(***************************************************************************)
EXTENDS UnitOfWork, TLAPS

-----------------------------------------------------------------------------
(* Lemmas.                                                                 *)

\* One write more.
LEMMA MadeGrows ==
  ASSUME NEW x, NEW n \in Nat
  PROVE  ({x} \X (1 .. n)) \cup {<<x, n + 1>>} = {x} \X (1 .. (n + 1))
<1>1. 1 .. (n + 1) = (1 .. n) \cup {n + 1}
  OBVIOUS
<1>. QED
  BY <1>1

\* Saving the writes of one call changes nothing for another.
LEMMA SavedGrows ==
  ASSUME NEW x \in Calls, NEW y \in Calls, saved' = saved \cup MadeBy(x)
  PROVE  /\ y = x => SavedBy(y)' = SavedBy(x) \cup MadeBy(x)
         /\ y # x => SavedBy(y)' = SavedBy(y)
  BY DEF SavedBy, MadeBy

LEMMA FaultType ==
  ASSUME TypeOK, NEW kind, Fault(kind)
  PROVE  faults' \in 0 .. MaxFaults
  BY UnitOfWorkAssumption DEF Fault, TypeOK

\* A call whose own variables and whose entry of the map do not change keeps
\* its part of the invariant.
LEMMA CallsAreSeparate ==
  ASSUME NEW y \in Calls, CallInv(y),
         pc'[y] = pc[y], conn'[y] = conn[y], tx'[y] = tx[y], target'[y] = target[y],
         path'[y] = path[y], outcome'[y] = outcome[y], made'[y] = made[y],
         pending'[y] = pending[y], y \in failed' <=> y \in failed,
         SavedBy(y)' = SavedBy(y),
         CorrelationId[y] # NoId => GetQueryRunner(y)' = GetQueryRunner(y)
  PROVE  CallInv(y)'
<1>1. MadeBy(y)' = MadeBy(y)
  BY DEF MadeBy
<1>2. OwnRunner(y)'
  BY DEF CallInv, OwnRunner
<1>3. OwnTransaction(y)'
  BY DEF CallInv, OwnTransaction, OwnRunner
<1>4. OwnWrites(y)' /\ OwnAnswer(y)'
  BY <1>1 DEF CallInv, OwnWrites, OwnAnswer
<1>. QED
  BY <1>2, <1>3, <1>4 DEF CallInv

\* A step that registers or deletes a runner leaves the entries of other calls.
LEMMA OthersEntry ==
  ASSUME DistinctIds, TypeOK, NEW x \in Calls, NEW y \in Calls, y # x,
         CorrelationId[y] # NoId, NEW v,
         queryRunners' = [queryRunners EXCEPT ![CorrelationId[x]] = v]
  PROVE  GetQueryRunner(y)' = GetQueryRunner(y)
<1>1. CorrelationId[y] # CorrelationId[x]
  BY DEF DistinctIds
<1>. QED
  BY <1>1 DEF GetQueryRunner, TypeOK

\* A call whose runner is registered releases that runner, and
LEMMA FinishOwn ==
  ASSUME NEW x \in Calls, CallInv(x), pc[x] \in {"committing", "rolling"},
         NEW bad \in BOOLEAN, Finish(x, bad)
  PROVE  /\ conn' = [conn EXCEPT ![x] = "released"]
         /\ pc' = [pc EXCEPT ![x] = "deleting"]
         /\ failed' = IF bad THEN failed \cup {x} ELSE failed \ {x}
         /\ outcome' = outcome
<1>1. GetQueryRunner(x) = x /\ x # NoCall /\ conn[x] = "held"
  BY UnitOfWorkAssumption DEF CallInv, OwnRunner, OwnTransaction
<1>. QED
  BY <1>1 DEF Finish

\* rolls that runner back.
LEMMA StartRollbackOwn ==
  ASSUME NEW x \in Calls, CallInv(x), pc[x] = "running",
         NEW p, StartRollback(x, p)
  PROVE  /\ path' = [path EXCEPT ![x] = p]
         /\ target' = [target EXCEPT ![x] = x]
         /\ pc' = [pc EXCEPT ![x] = "rolling"]
         /\ outcome' = outcome
<1>1. GetQueryRunner(x) = x /\ x # NoCall
  BY UnitOfWorkAssumption DEF CallInv, OwnRunner
<1>. QED
  BY <1>1 DEF StartRollback

-----------------------------------------------------------------------------
(* Each action keeps the invariant, for the call that takes it and for the *)
(* others.                                                                 *)

LEMMA ExecuteStep ==
  ASSUME DistinctIds, UowInv, NEW x \in Calls, Execute(x)
  PROVE  UowInv'
<1>1. TypeOK /\ CallInv(x)
  BY DEF UowInv
<1>2. TypeOK'
  BY <1>1, UnitOfWorkAssumption DEF Execute, Answer, TypeOK, PC
<1>3. CallInv(x)'
  <2>1. MadeBy(x)' = MadeBy(x) /\ SavedBy(x)' = SavedBy(x)
    BY DEF Execute, MadeBy, SavedBy
  <2>2. OwnRunner(x)'
    BY <1>1, UnitOfWorkAssumption DEF Execute, Answer, CallInv, OwnRunner, GetQueryRunner, TypeOK
  <2>3. OwnTransaction(x)'
    BY <1>1 DEF Execute, Answer, CallInv, OwnTransaction, TypeOK
  <2>4. OwnWrites(x)' /\ OwnAnswer(x)'
    BY <1>1, <2>1 DEF Execute, Answer, CallInv, OwnWrites, OwnAnswer, OwnTransaction, TypeOK
  <2>. QED
    BY <2>2, <2>3, <2>4 DEF CallInv
<1>4. ASSUME NEW y \in Calls, y # x PROVE CallInv(y)'
  <2>1. SavedBy(y)' = SavedBy(y)
    BY DEF Execute, SavedBy
  <2>2. CorrelationId[y] # NoId => GetQueryRunner(y)' = GetQueryRunner(y)
    BY <1>1, <1>4, OthersEntry DEF Execute, GetQueryRunner
  <2>. QED
    BY <1>1, <1>4, <2>1, <2>2, CallsAreSeparate DEF Execute, Answer, UowInv, TypeOK
<1>. QED
  BY <1>2, <1>3, <1>4 DEF UowInv

LEMMA StartOkStep ==
  ASSUME DistinctIds, UowInv, NEW x \in Calls, StartOk(x)
  PROVE  UowInv'
<1>1. TypeOK /\ CallInv(x)
  BY DEF UowInv
<1>2. TypeOK'
  BY <1>1 DEF StartOk, TypeOK, PC
<1>3. CallInv(x)'
  <2>1. MadeBy(x)' = MadeBy(x) /\ SavedBy(x)' = SavedBy(x)
    BY DEF StartOk, MadeBy, SavedBy
  <2>2. conn[x] = "none" /\ tx[x] = "none" /\ made[x] = 0
    BY <1>1 DEF StartOk, CallInv, OwnTransaction, OwnWrites
  <2>3. OwnRunner(x)'
    BY <1>1 DEF StartOk, CallInv, OwnRunner, GetQueryRunner, TypeOK
  <2>4. OwnTransaction(x)'
    BY <1>1, <2>2 DEF StartOk, OwnTransaction, TypeOK
  <2>5. OwnWrites(x)'
    <3>1. MadeBy(x) = {}
      BY <2>2 DEF MadeBy
    <3>. QED
      BY <1>1, <2>1, <2>2, <3>1 DEF StartOk, CallInv, OwnWrites, TypeOK
  <2>6. OwnAnswer(x)'
    BY <1>1 DEF StartOk, CallInv, OwnAnswer, TypeOK
  <2>. QED
    BY <2>3, <2>4, <2>5, <2>6 DEF CallInv
<1>4. ASSUME NEW y \in Calls, y # x PROVE CallInv(y)'
  <2>1. SavedBy(y)' = SavedBy(y) /\ GetQueryRunner(y)' = GetQueryRunner(y)
    BY DEF StartOk, SavedBy, GetQueryRunner
  <2>. QED
    BY <1>1, <1>4, <2>1, CallsAreSeparate DEF StartOk, UowInv, TypeOK
<1>. QED
  BY <1>2, <1>3, <1>4 DEF UowInv

LEMMA StartFailStep ==
  ASSUME DistinctIds, UowInv, NEW x \in Calls, StartFail(x)
  PROVE  UowInv'
<1>1. TypeOK /\ CallInv(x)
  BY DEF UowInv
<1>2. TypeOK'
  <2>1. faults' \in 0 .. MaxFaults
    BY <1>1, FaultType DEF StartFail
  <2>. QED
    BY <1>1, <2>1 DEF StartFail, Answer, TypeOK, PC
<1>3. CallInv(x)'
  <2>1. MadeBy(x)' = MadeBy(x) /\ SavedBy(x)' = SavedBy(x)
    BY DEF StartFail, MadeBy, SavedBy
  <2>2. tx[x] = "none"
    BY <1>1 DEF StartFail, CallInv, OwnTransaction
  <2>3. OwnRunner(x)'
    BY <1>1 DEF StartFail, Answer, CallInv, OwnRunner, GetQueryRunner, TypeOK
  <2>4. OwnTransaction(x)'
    BY <1>1, <2>2 DEF StartFail, Answer, OwnTransaction, TypeOK
  <2>5. OwnWrites(x)' /\ OwnAnswer(x)'
    BY <1>1, <2>1 DEF StartFail, Answer, CallInv, OwnWrites, OwnAnswer, TypeOK
  <2>. QED
    BY <2>3, <2>4, <2>5 DEF CallInv
<1>4. ASSUME NEW y \in Calls, y # x PROVE CallInv(y)'
  <2>1. SavedBy(y)' = SavedBy(y) /\ GetQueryRunner(y)' = GetQueryRunner(y)
    BY DEF StartFail, SavedBy, GetQueryRunner
  <2>. QED
    BY <1>1, <1>4, <2>1, CallsAreSeparate DEF StartFail, Answer, UowInv, TypeOK
<1>. QED
  BY <1>2, <1>3, <1>4 DEF UowInv

LEMMA WriteStep ==
  ASSUME DistinctIds, UowInv, NEW x \in Calls, Write(x)
  PROVE  UowInv'
<1>. DEFINE w == <<x, made[x] + 1>>
<1>1. TypeOK /\ CallInv(x)
  BY DEF UowInv
<1>2. GetQueryRunner(x) = x /\ InTransaction(x) /\ tx[x] = "active"
  BY <1>1 DEF Write, CallInv, OwnRunner, OwnTransaction, InTransaction
<1>3. /\ pc[x] = "running" /\ made[x] < MaxWrites
      /\ made' = [made EXCEPT ![x] = @ + 1]
      /\ pending' = [pending EXCEPT ![x] = @ \cup {w}]
      /\ UNCHANGED <<saved, pc, queryRunners, conn, tx, target, path, failed, outcome, faults>>
  BY <1>2 DEF Write
<1>4. TypeOK'
  <2>1. w \in WriteIds /\ made[x] + 1 \in 0 .. MaxWrites
    BY <1>1, <1>3, UnitOfWorkAssumption DEF TypeOK, WriteIds
  <2>. QED
    BY <1>1, <1>3, <2>1 DEF TypeOK
<1>5. CallInv(x)'
  <2>1. OwnRunner(x)' /\ OwnTransaction(x)' /\ OwnAnswer(x)'
    BY <1>1, <1>3 DEF CallInv, OwnRunner, OwnTransaction, OwnAnswer, GetQueryRunner
  <2>2. MadeBy(x)' = MadeBy(x) \cup {w}
    BY <1>1, <1>3, MadeGrows DEF MadeBy, TypeOK
  <2>3. SavedBy(x)' = SavedBy(x)
    BY <1>3 DEF SavedBy
  <2>4. OwnWrites(x)'
    BY <1>1, <1>2, <1>3, <2>2, <2>3 DEF CallInv, OwnWrites, TypeOK
  <2>. QED
    BY <2>1, <2>4 DEF CallInv
<1>6. ASSUME NEW y \in Calls, y # x PROVE CallInv(y)'
  <2>1. SavedBy(y)' = SavedBy(y) /\ GetQueryRunner(y)' = GetQueryRunner(y)
    BY <1>3 DEF SavedBy, GetQueryRunner
  <2>. QED
    BY <1>1, <1>3, <1>6, <2>1, CallsAreSeparate DEF UowInv, TypeOK
<1>. QED
  BY <1>4, <1>5, <1>6 DEF UowInv

LEMMA CallbackOkStep ==
  ASSUME DistinctIds, UowInv, NEW x \in Calls, CallbackOk(x)
  PROVE  UowInv'
<1>1. TypeOK /\ CallInv(x)
  BY DEF UowInv
<1>2. TypeOK'
  BY <1>1 DEF CallbackOk, TypeOK, PC
<1>3. CallInv(x)'
  <2>1. MadeBy(x)' = MadeBy(x) /\ SavedBy(x)' = SavedBy(x)
    BY DEF CallbackOk, MadeBy, SavedBy
  <2>2. OwnRunner(x)' /\ OwnTransaction(x)'
    BY <1>1 DEF CallbackOk, CallInv, OwnRunner, OwnTransaction, GetQueryRunner, TypeOK
  <2>3. OwnWrites(x)' /\ OwnAnswer(x)'
    BY <1>1, <2>1 DEF CallbackOk, CallInv, OwnWrites, OwnAnswer, TypeOK
  <2>. QED
    BY <2>2, <2>3 DEF CallInv
<1>4. ASSUME NEW y \in Calls, y # x PROVE CallInv(y)'
  <2>1. SavedBy(y)' = SavedBy(y) /\ GetQueryRunner(y)' = GetQueryRunner(y)
    BY DEF CallbackOk, SavedBy, GetQueryRunner
  <2>. QED
    BY <1>1, <1>4, <2>1, CallsAreSeparate DEF CallbackOk, UowInv, TypeOK
<1>. QED
  BY <1>2, <1>3, <1>4 DEF UowInv

LEMMA CallbackFailStep ==
  ASSUME DistinctIds, UowInv, NEW x \in Calls, CallbackFail(x)
  PROVE  UowInv'
<1>1. TypeOK /\ CallInv(x) /\ pc[x] = "running"
  BY DEF UowInv, CallbackFail
<1>2. PICK p \in {"result", "caught"} : StartRollback(x, p)
  BY DEF CallbackFail
<1>3. /\ path' = [path EXCEPT ![x] = p]
      /\ target' = [target EXCEPT ![x] = x]
      /\ pc' = [pc EXCEPT ![x] = "rolling"]
      /\ UNCHANGED <<outcome, queryRunners, conn, tx, failed, made, pending, saved, faults>>
  BY <1>1, <1>2, StartRollbackOwn DEF CallbackFail
<1>4. TypeOK'
  BY <1>1, <1>2, <1>3 DEF TypeOK, PC
<1>5. CallInv(x)'
  <2>1. MadeBy(x)' = MadeBy(x) /\ SavedBy(x)' = SavedBy(x)
    BY <1>3 DEF MadeBy, SavedBy
  <2>2. OwnRunner(x)' /\ OwnTransaction(x)'
    BY <1>1, <1>3 DEF CallInv, OwnRunner, OwnTransaction, GetQueryRunner, TypeOK
  <2>3. OwnWrites(x)' /\ OwnAnswer(x)'
    BY <1>1, <1>2, <1>3, <2>1 DEF CallInv, OwnWrites, OwnAnswer, TypeOK
  <2>. QED
    BY <2>2, <2>3 DEF CallInv
<1>6. ASSUME NEW y \in Calls, y # x PROVE CallInv(y)'
  <2>1. SavedBy(y)' = SavedBy(y) /\ GetQueryRunner(y)' = GetQueryRunner(y)
    BY <1>3 DEF SavedBy, GetQueryRunner
  <2>. QED
    BY <1>1, <1>3, <1>6, <2>1, CallsAreSeparate DEF UowInv, TypeOK
<1>. QED
  BY <1>4, <1>5, <1>6 DEF UowInv

\* The transaction of a call in its cleanup ends; its writes are saved or gone.
LEMMA CommitOwn ==
  ASSUME NEW x \in Calls, TypeOK, CallInv(x), tx[x] = "active", Commit(x), made' = made
  PROVE  /\ tx' = [tx EXCEPT ![x] = "committed"]
         /\ pending' = [pending EXCEPT ![x] = {}]
         /\ saved' = saved \cup MadeBy(x) /\ saved' \subseteq WriteIds
         /\ SavedBy(x)' = MadeBy(x)'
<1>1. pending[x] = MadeBy(x) /\ SavedBy(x) = {}
  BY DEF CallInv, OwnWrites
<1>2. pending[x] \subseteq WriteIds
  BY DEF TypeOK
<1>3. saved' = saved \cup MadeBy(x) /\ MadeBy(x)' = MadeBy(x)
  BY <1>1 DEF Commit, MadeBy
<1>4. SavedBy(x)' = MadeBy(x)
  BY <1>1, <1>3, SavedGrows
<1>. QED
  BY <1>1, <1>2, <1>3, <1>4 DEF Commit, TypeOK

\* What commits and rollbacks have in common: x's transaction is over, its
\* runner released, its entry still there.
LEMMA EndOwn ==
  ASSUME NEW x \in Calls, UowInv, pc[x] \in {"committing", "rolling"},
         NEW state \in {"committed", "aborted"}, NEW bad \in BOOLEAN, Finish(x, bad),
         tx' = [tx EXCEPT ![x] = state],
         pending' = [pending EXCEPT ![x] = {}],
         saved' = IF state = "committed" THEN saved \cup MadeBy(x) ELSE saved,
         SavedBy(x)' = IF state = "committed" THEN MadeBy(x)' ELSE {},
         saved' \subseteq WriteIds, faults' \in 0 .. MaxFaults,
         pc[x] = "committing" /\ ~bad => state = "committed",
         pc[x] = "rolling" => state = "aborted",
         UNCHANGED <<queryRunners, target, path, made>>
  PROVE  UowInv'
<1>1. TypeOK /\ CallInv(x)
  BY DEF UowInv
<1>2. /\ conn' = [conn EXCEPT ![x] = "released"]
      /\ pc' = [pc EXCEPT ![x] = "deleting"]
      /\ failed' = IF bad THEN failed \cup {x} ELSE failed \ {x}
      /\ outcome' = outcome
  BY <1>1, FinishOwn
<1>3. TypeOK'
  BY <1>1, <1>2 DEF TypeOK, PC
<1>4. CallInv(x)'
  <2>1. pc'[x] = "deleting" /\ conn'[x] = "released" /\ tx'[x] = state /\ pending'[x] = {}
    BY <1>1, <1>2 DEF TypeOK
  <2>2. OwnRunner(x)'
    BY <1>1, <2>1 DEF CallInv, OwnRunner, GetQueryRunner
  <2>3. OwnTransaction(x)'
    BY <2>1 DEF OwnTransaction
  <2>4. OwnWrites(x)'
    BY <2>1 DEF OwnWrites
  <2>5. OwnAnswer(x)'
    BY <1>1, <1>2, <2>1 DEF CallInv, OwnAnswer
  <2>. QED
    BY <2>2, <2>3, <2>4, <2>5 DEF CallInv
<1>5. ASSUME NEW y \in Calls, y # x PROVE CallInv(y)'
  <2>1. SavedBy(y)' = SavedBy(y)
    BY <1>5 DEF SavedBy, MadeBy
  <2>2. GetQueryRunner(y)' = GetQueryRunner(y)
    BY DEF GetQueryRunner
  <2>. QED
    BY <1>1, <1>2, <1>5, <2>1, <2>2, CallsAreSeparate DEF UowInv, TypeOK
<1>. QED
  BY <1>3, <1>4, <1>5 DEF UowInv

LEMMA CommitStep ==
  ASSUME DistinctIds, UowInv, NEW x \in Calls, CommitOk(x) \/ CommitFail(x)
  PROVE  UowInv'
<1>1. /\ TypeOK /\ CallInv(x) /\ pc[x] = "committing" /\ tx[x] = "active" /\ InTransaction(x)
      /\ UNCHANGED <<queryRunners, target, path, made>>
  BY DEF UowInv, CommitOk, CommitFail, CallInv, OwnTransaction, InTransaction
<1>2. faults' \in 0 .. MaxFaults
  BY <1>1, FaultType DEF CommitOk, CommitFail, TypeOK
<1>3. PICK bad \in BOOLEAN :
        /\ Finish(x, bad)
        /\ Commit(x) \/ (bad /\ Abort(x) /\ UNCHANGED saved)
  BY <1>1 DEF CommitOk, CommitFail
<1>4. CASE Commit(x)
  <2>1. /\ tx' = [tx EXCEPT ![x] = "committed"]
        /\ pending' = [pending EXCEPT ![x] = {}]
        /\ saved' = saved \cup MadeBy(x) /\ saved' \subseteq WriteIds
        /\ SavedBy(x)' = MadeBy(x)'
    BY <1>1, <1>4, CommitOwn
  <2>. QED
    BY <1>1, <1>2, <1>3, <2>1, EndOwn
<1>5. CASE bad /\ Abort(x) /\ UNCHANGED saved
  <2>1. SavedBy(x)' = {} /\ saved' \subseteq WriteIds
    BY <1>1, <1>5 DEF CallInv, OwnWrites, SavedBy, TypeOK
  <2>2. tx' = [tx EXCEPT ![x] = "aborted"] /\ pending' = [pending EXCEPT ![x] = {}]
    BY <1>5 DEF Abort
  <2>. QED
    BY <1>1, <1>2, <1>3, <1>5, <2>1, <2>2, EndOwn
<1>. QED
  BY <1>3, <1>4, <1>5

LEMMA RollbackStep ==
  ASSUME DistinctIds, UowInv, NEW x \in Calls, RollbackOk(x) \/ RollbackFail(x)
  PROVE  UowInv'
<1>1. /\ TypeOK /\ CallInv(x) /\ pc[x] = "rolling"
      /\ UNCHANGED <<queryRunners, target, path, made, saved>>
  BY DEF UowInv, RollbackOk, RollbackFail
<1>2. target[x] = x /\ tx[x] = "active" /\ InTransaction(x)
  BY <1>1 DEF CallInv, OwnRunner, OwnTransaction, InTransaction
<1>3. faults' \in 0 .. MaxFaults
  BY <1>1, <1>2, FaultType DEF RollbackOk, RollbackFail, TypeOK
<1>4. PICK bad \in BOOLEAN : Finish(x, bad) /\ Abort(x)
  BY <1>2 DEF RollbackOk, RollbackFail
<1>5. tx' = [tx EXCEPT ![x] = "aborted"] /\ pending' = [pending EXCEPT ![x] = {}]
  BY <1>4 DEF Abort
<1>6. SavedBy(x)' = {} /\ saved' \subseteq WriteIds
  BY <1>1, <1>2 DEF CallInv, OwnWrites, SavedBy, TypeOK
<1>. QED
  BY <1>1, <1>3, <1>4, <1>5, <1>6, EndOwn

LEMMA DeleteStep ==
  ASSUME DistinctIds, UowInv, NEW x \in Calls, Delete(x)
  PROVE  UowInv'
<1>1. TypeOK /\ CallInv(x) /\ pc[x] = "deleting" /\ CorrelationId[x] \in CorrelationIds
  BY UnitOfWorkAssumption DEF UowInv, Delete, CallInv, OwnRunner
<1>2. TypeOK'
  BY <1>1 DEF Delete, Answer, TypeOK, PC
<1>3. CallInv(x)'
  <2>1. MadeBy(x)' = MadeBy(x) /\ SavedBy(x)' = SavedBy(x)
    BY DEF Delete, MadeBy, SavedBy
  <2>2. GetQueryRunner(x)' = NoCall
    BY <1>1 DEF Delete, GetQueryRunner, TypeOK
  <2>3. OwnRunner(x)'
    BY <1>1, <2>2 DEF Delete, Answer, CallInv, OwnRunner, TypeOK
  <2>4. OwnTransaction(x)'
    BY <1>1, <2>2 DEF Delete, Answer, CallInv, OwnTransaction, TypeOK
  <2>5. OwnWrites(x)'
    BY <1>1, <2>1 DEF Delete, CallInv, OwnWrites
  <2>6. OwnAnswer(x)'
    BY <1>1 DEF Delete, Answer, CallInv, OwnAnswer, TypeOK
  <2>. QED
    BY <2>3, <2>4, <2>5, <2>6 DEF CallInv
<1>4. ASSUME NEW y \in Calls, y # x PROVE CallInv(y)'
  <2>1. SavedBy(y)' = SavedBy(y)
    BY DEF Delete, SavedBy
  <2>2. CorrelationId[y] # NoId => GetQueryRunner(y)' = GetQueryRunner(y)
    BY <1>1, <1>4, OthersEntry DEF Delete
  <2>. QED
    BY <1>1, <1>4, <2>1, <2>2, CallsAreSeparate DEF Delete, Answer, UowInv, TypeOK
<1>. QED
  BY <1>2, <1>3, <1>4 DEF UowInv

LEMMA RollbackAgainStep ==
  ASSUME DistinctIds, UowInv, NEW x \in Calls, RollbackAgain(x)
  PROVE  UowInv'
<1>1. /\ TypeOK /\ CallInv(x) /\ pc[x] = "retrying" /\ GetQueryRunner(x) = NoCall
  BY DEF UowInv, RollbackAgain, CallInv, OwnRunner
<1>2. /\ path' = [path EXCEPT ![x] = "caught"]
      /\ pc' = [pc EXCEPT ![x] = "done"]
      /\ outcome' = [outcome EXCEPT ![x] = "threw"]
      /\ UNCHANGED <<queryRunners, conn, tx, target, failed, made, pending, saved, faults>>
  BY <1>1 DEF RollbackAgain, StartRollback, NotFound, Answer
<1>3. TypeOK'
  BY <1>1, <1>2 DEF TypeOK, PC
<1>4. CallInv(x)'
  <2>1. MadeBy(x)' = MadeBy(x) /\ SavedBy(x)' = SavedBy(x) /\ GetQueryRunner(x)' = NoCall
    BY <1>1, <1>2 DEF MadeBy, SavedBy, GetQueryRunner
  <2>2. OwnRunner(x)' /\ OwnTransaction(x)'
    BY <1>1, <1>2, <2>1 DEF CallInv, OwnRunner, OwnTransaction, TypeOK
  <2>3. OwnWrites(x)' /\ OwnAnswer(x)'
    BY <1>1, <1>2, <2>1 DEF CallInv, OwnWrites, OwnAnswer, TypeOK
  <2>. QED
    BY <2>2, <2>3 DEF CallInv
<1>5. ASSUME NEW y \in Calls, y # x PROVE CallInv(y)'
  <2>1. SavedBy(y)' = SavedBy(y) /\ GetQueryRunner(y)' = GetQueryRunner(y)
    BY <1>2 DEF SavedBy, GetQueryRunner
  <2>. QED
    BY <1>1, <1>2, <1>5, <2>1, CallsAreSeparate DEF UowInv, TypeOK
<1>. QED
  BY <1>3, <1>4, <1>5 DEF UowInv

LEMMA UowInit == ASSUME Init PROVE UowInv
<1>1. TypeOK
  BY UnitOfWorkAssumption DEF Init, TypeOK, PC
<1>2. ASSUME NEW x \in Calls PROVE CallInv(x)
  <2>1. OwnRunner(x)
    BY <1>2, UnitOfWorkAssumption DEF Init, OwnRunner, GetQueryRunner
  <2>2. OwnTransaction(x) /\ OwnAnswer(x)
    BY <1>2 DEF Init, OwnTransaction, OwnAnswer
  <2>3. OwnWrites(x)
    BY <1>2 DEF Init, OwnWrites, SavedBy
  <2>. QED
    BY <2>1, <2>2, <2>3 DEF CallInv
<1>. QED
  BY <1>1, <1>2 DEF UowInv

LEMMA UowStep ==
  ASSUME DistinctIds, UowInv, [Next]_vars
  PROVE  UowInv'
<1>1. CASE UNCHANGED vars
  <2>1. TypeOK'
    BY <1>1 DEF vars, UowInv, TypeOK
  <2>2. ASSUME NEW y \in Calls PROVE CallInv(y)'
    <3>1. SavedBy(y)' = SavedBy(y) /\ GetQueryRunner(y)' = GetQueryRunner(y)
      BY <1>1 DEF vars, SavedBy, GetQueryRunner
    <3>. QED
      BY <1>1, <2>2, <3>1, CallsAreSeparate DEF vars, UowInv
  <2>. QED
    BY <2>1, <2>2 DEF UowInv
<1>2. ASSUME NEW x \in Calls, Execute(x) PROVE UowInv'
  BY <1>2, ExecuteStep
<1>3. ASSUME NEW x \in Calls, StartOk(x) PROVE UowInv'
  BY <1>3, StartOkStep
<1>4. ASSUME NEW x \in Calls, StartFail(x) PROVE UowInv'
  BY <1>4, StartFailStep
<1>5. ASSUME NEW x \in Calls, Write(x) PROVE UowInv'
  BY <1>5, WriteStep
<1>6. ASSUME NEW x \in Calls, Callback(x) PROVE UowInv'
  BY <1>6, CallbackOkStep, CallbackFailStep DEF Callback
<1>7. ASSUME NEW x \in Calls, Cleanup(x) PROVE UowInv'
  BY <1>7, CommitStep, RollbackStep, DeleteStep, RollbackAgainStep DEF Cleanup
<1>. QED
  BY <1>1, <1>2, <1>3, <1>4, <1>5, <1>6, <1>7 DEF Next

-----------------------------------------------------------------------------
(* Theorems on calls that have ids of their own.                           *)

\* Between the steps of execute a call with an id of its own finds its runner
\* registered, in its transaction, with exactly its writes pending or saved.
THEOREM UnitOfWorkCorrect ==
  ASSUME DistinctIds
  PROVE  Spec => []UowInv
<1>1. Init => UowInv
  BY UowInit
<1>2. UowInv /\ [Next]_vars => UowInv'
  BY UowStep
<1>. QED
  BY <1>1, <1>2, PTL DEF Spec

\* What the comment on execute promises: at every moment the database keeps
\* all the writes of a call or none of them.
THEOREM Atomic ==
  ASSUME DistinctIds
  PROVE  Spec => []AllOrNothing
<1>1. UowInv => AllOrNothing
  BY DEF UowInv, CallInv, OwnWrites, AllOrNothing
<1>. QED
  BY <1>1, UnitOfWorkCorrect, PTL

\* The answer of execute tells what became of the writes: all are saved when it
\* resolves with a value, none when it resolves with the Err.
THEOREM AnswersAreTruthful ==
  ASSUME DistinctIds
  PROVE  Spec => []TruthfulAnswer
<1>1. UowInv => TruthfulAnswer
  BY DEF UowInv, CallInv, OwnWrites, OwnAnswer, TruthfulAnswer
<1>. QED
  BY <1>1, UnitOfWorkCorrect, PTL

\* finish gives no runner back to the pool while its transaction is open.
THEOREM ReleaseIsClean ==
  ASSUME DistinctIds
  PROVE  Spec => []NoReleaseInTransaction
<1>1. UowInv => NoReleaseInTransaction
  BY DEF UowInv, TypeOK, PC, CallInv, OwnTransaction, NoReleaseInTransaction
<1>. QED
  BY <1>1, UnitOfWorkCorrect, PTL

\* Whatever fails in the cleanup, a call that is over keeps a connection or an
\* entry of the map only when its transaction did not start.
THEOREM CleanupIsComplete ==
  ASSUME DistinctIds
  PROVE  Spec => []OnlyFailedStartsLeak
<1>1. UowInv => OnlyFailedStartsLeak
  BY UnitOfWorkAssumption DEF UowInv, CallInv, OwnTransaction, OnlyFailedStartsLeak
<1>. QED
  BY <1>1, UnitOfWorkCorrect, PTL

-----------------------------------------------------------------------------
(* Calls that share correlation ids roll back and release one another's    *)
(* runners, so UowInv does not hold of them.  What is left is that a       *)
(* caller is told of success only after its own commit.  The inductive     *)
(* invariant says what a call has decided itself, and that only its own    *)
(* commit leads it to an answer of success.                                *)

OwnDecision(x) ==
  /\ pc[x] \notin {"idle", "done"} => CorrelationId[x] # NoId
  /\ pc[x] # "done" => outcome[x] = "none"
  /\ pc[x] = "committing" => path[x] = "commit"
  /\ pc[x] = "rolling" => path[x] \in {"result", "caught"} /\ target[x] \in Calls
  /\ pc[x] = "deleting" => path[x] # "none"
  /\ pc[x] = "deleting" /\ path[x] = "commit" /\ x \notin failed => tx[x] = "committed"
  /\ outcome[x] = "ok" => tx[x] = "committed"

SharedInv == TypeOK /\ \A x \in Calls : OwnDecision(x)

-----------------------------------------------------------------------------
(* Lemmas about shared ids.                                                *)

\* A call whose own variables do not change keeps its part, when its transaction,
\* if committed, stays so.
LEMMA DecisionsAreSeparate ==
  ASSUME NEW y \in Calls, OwnDecision(y),
         pc'[y] = pc[y], path'[y] = path[y], outcome'[y] = outcome[y],
         target'[y] = target[y], y \in failed' <=> y \in failed, tx[y] = "committed" => tx'[y] = "committed"
  PROVE  OwnDecision(y)'
  BY DEF OwnDecision

\* The runner registered under a call's id is that of some call, or none.
LEMMA RunnerType ==
  ASSUME TypeOK, NEW x \in Calls, CorrelationId[x] # NoId
  PROVE  GetQueryRunner(x) \in Calls \cup {NoCall}
<1>1. CorrelationId[x] \in CorrelationIds
  BY UnitOfWorkAssumption
<1>. QED
  BY <1>1 DEF GetQueryRunner, TypeOK

\* finish releases whatever runner the id has, or throws; of the call that awaits
\* it, it changes this.
LEMMA FinishAny ==
  ASSUME SharedInv, NEW x \in Calls, pc[x] \in {"committing", "rolling"},
         NEW bad \in BOOLEAN, Finish(x, bad)
  PROVE  /\ \/ /\ pc' = [pc EXCEPT ![x] = "deleting"] /\ outcome' = outcome
               /\ failed' = IF bad THEN failed \cup {x} ELSE failed \ {x}
            \/ /\ pc' = [pc EXCEPT ![x] = "done"] /\ outcome' = [outcome EXCEPT ![x] = "threw"]
               /\ failed' = failed
            \/ /\ pc' = [pc EXCEPT ![x] = "retrying"] /\ outcome' = outcome
               /\ failed' = failed /\ path[x] = "result"
         /\ pc' \in [Calls -> PC] /\ conn' \in [Calls -> {"none", "held", "released", "lost"}]
         /\ failed' \subseteq Calls /\ outcome' \in [Calls -> {"none", "ok", "err", "threw"}]
<1>. TypeOK
  BY DEF SharedInv
<1>1. CASE GetQueryRunner(x) = NoCall
  BY <1>1 DEF Finish, NotFound, Answer, TypeOK, PC
<1>2. CASE GetQueryRunner(x) # NoCall
  BY <1>2 DEF Finish, TypeOK, PC
<1>. QED
  BY <1>1, <1>2

\* A rollback is of whatever runner the id has, or throws.
LEMMA StartRollbackAny ==
  ASSUME SharedInv, NEW x \in Calls, pc[x] \in {"running", "retrying"},
         NEW p \in {"result", "caught"}, StartRollback(x, p)
  PROVE  /\ path' = [path EXCEPT ![x] = p]
         /\ \/ pc' = [pc EXCEPT ![x] = "rolling"] /\ outcome' = outcome
            \/ pc' = [pc EXCEPT ![x] = "done"] /\ outcome' = [outcome EXCEPT ![x] = "threw"]
            \/ pc' = [pc EXCEPT ![x] = "retrying"] /\ outcome' = outcome
         /\ pc' \in [Calls -> PC] /\ path' \in [Calls -> {"none", "commit", "result", "caught"}]
         /\ outcome' \in [Calls -> {"none", "ok", "err", "threw"}]
         /\ target' \in [Calls -> Calls \cup {NoCall}]
         /\ pc'[x] = "rolling" => target'[x] \in Calls
         /\ \A y \in Calls \ {x} : target'[y] = target[y]
<1>0. TypeOK /\ GetQueryRunner(x) \in Calls \cup {NoCall}
  BY RunnerType DEF SharedInv, OwnDecision
<1>1. CASE GetQueryRunner(x) = NoCall
  BY <1>0, <1>1 DEF StartRollback, NotFound, Answer, TypeOK, PC
<1>2. CASE GetQueryRunner(x) # NoCall
  <2>1. target' = [target EXCEPT ![x] = GetQueryRunner(x)] /\ pc' = [pc EXCEPT ![x] = "rolling"]
        /\ UNCHANGED outcome /\ path' = [path EXCEPT ![x] = p]
    BY <1>2 DEF StartRollback
  <2>2. GetQueryRunner(x) \in Calls
    BY <1>0, <1>2
  <2>3. target' \in [Calls -> Calls \cup {NoCall}] /\ target'[x] \in Calls
    BY <1>0, <2>1, <2>2 DEF TypeOK
  <2>4. \A y \in Calls \ {x} : target'[y] = target[y]
    BY <1>0, <2>1 DEF TypeOK
  <2>5. pc' \in [Calls -> PC] /\ path' \in [Calls -> {"none", "commit", "result", "caught"}]
    BY <1>0, <2>1 DEF TypeOK, PC
  <2>. QED
    BY <1>0, <2>1, <2>3, <2>4, <2>5 DEF TypeOK
<1>. QED
  BY <1>1, <1>2

-----------------------------------------------------------------------------
(* Each action, with shared ids.                                           *)

LEMMA SharedInit == Init => SharedInv
  BY UnitOfWorkAssumption DEF Init, SharedInv, TypeOK, PC, OwnDecision

LEMMA BeginShared ==
  ASSUME SharedInv, NEW x \in Calls, Execute(x) \/ StartOk(x) \/ StartFail(x)
  PROVE  SharedInv'
<1>. TypeOK /\ OwnDecision(x)
  BY DEF SharedInv
<1>1. CASE Execute(x)
  <2>1. TypeOK'
    BY <1>1, UnitOfWorkAssumption DEF Execute, Answer, TypeOK, PC
  <2>2. OwnDecision(x)'
    BY <1>1 DEF Execute, Answer, TypeOK, OwnDecision
  <2>3. \A y \in Calls \ {x} : OwnDecision(y)'
    BY <1>1, DecisionsAreSeparate DEF Execute, Answer, TypeOK, SharedInv
  <2>. QED
    BY <2>1, <2>2, <2>3 DEF SharedInv
<1>2. CASE StartOk(x)
  <2>1. TypeOK'
    BY <1>2 DEF StartOk, TypeOK, PC
  <2>2. OwnDecision(x)'
    BY <1>2 DEF StartOk, TypeOK, OwnDecision
  <2>3. \A y \in Calls \ {x} : OwnDecision(y)'
    BY <1>2, DecisionsAreSeparate DEF StartOk, TypeOK, SharedInv
  <2>. QED
    BY <2>1, <2>2, <2>3 DEF SharedInv
<1>3. CASE StartFail(x)
  <2>1. TypeOK'
    <3>1. faults' \in 0 .. MaxFaults
      BY <1>3, FaultType DEF StartFail
    <3>. QED
      BY <1>3, <3>1 DEF StartFail, Answer, TypeOK, PC
  <2>2. OwnDecision(x)'
    BY <1>3 DEF StartFail, Answer, TypeOK, OwnDecision
  <2>3. \A y \in Calls \ {x} : OwnDecision(y)'
    BY <1>3, DecisionsAreSeparate DEF StartFail, Answer, TypeOK, SharedInv
  <2>. QED
    BY <2>1, <2>2, <2>3 DEF SharedInv
<1>. QED
  BY <1>1, <1>2, <1>3

LEMMA CallbackShared ==
  ASSUME SharedInv, NEW x \in Calls, Write(x) \/ Callback(x) \/ RollbackAgain(x)
  PROVE  SharedInv'
<1>. TypeOK /\ OwnDecision(x)
  BY DEF SharedInv
<1>1. CASE Write(x)
  <2>1. made[x] < MaxWrites /\ <<x, made[x] + 1>> \in WriteIds
    BY <1>1, UnitOfWorkAssumption DEF Write, TypeOK, WriteIds
  <2>2. GetQueryRunner(x) \in Calls
    <3>1. pc[x] = "running" /\ GetQueryRunner(x) # NoCall
      BY <1>1 DEF Write
    <3>. QED
      BY <3>1, RunnerType DEF OwnDecision
  <2>3. made' \in [Calls -> 0 .. MaxWrites]
    BY <1>1, <2>1, UnitOfWorkAssumption DEF Write, TypeOK
  <2>4. pending' \in [Calls -> SUBSET WriteIds] /\ saved' \subseteq WriteIds
    <3>1. CASE InTransaction(GetQueryRunner(x))
      BY <1>1, <2>1, <2>2, <3>1 DEF Write, TypeOK
    <3>2. CASE ~ InTransaction(GetQueryRunner(x))
      BY <1>1, <2>1, <3>2 DEF Write, TypeOK
    <3>. QED
      BY <3>1, <3>2
  <2>5. TypeOK'
    BY <1>1, <2>3, <2>4 DEF Write, TypeOK
  <2>6. \A y \in Calls : OwnDecision(y)'
    BY <1>1, DecisionsAreSeparate DEF Write, SharedInv
  <2>. QED
    BY <2>5, <2>6 DEF SharedInv
<1>2. CASE CallbackOk(x)
  <2>1. TypeOK'
    BY <1>2 DEF CallbackOk, TypeOK, PC
  <2>2. OwnDecision(x)'
    BY <1>2 DEF CallbackOk, TypeOK, OwnDecision
  <2>3. \A y \in Calls \ {x} : OwnDecision(y)'
    BY <1>2, DecisionsAreSeparate DEF CallbackOk, TypeOK, SharedInv
  <2>. QED
    BY <2>1, <2>2, <2>3 DEF SharedInv
<1>3. CASE CallbackFail(x) \/ RollbackAgain(x)
  <2>1. PICK p \in {"result", "caught"} : StartRollback(x, p)
    BY <1>3 DEF CallbackFail, RollbackAgain
  <2>2. pc[x] \in {"running", "retrying"}
    BY <1>3 DEF CallbackFail, RollbackAgain
  <2>3. UNCHANGED <<queryRunners, conn, tx, failed, made, pending, saved, faults>>
    BY <1>3 DEF CallbackFail, RollbackAgain
  <2>4. TypeOK'
    BY <2>1, <2>2, <2>3, StartRollbackAny DEF TypeOK
  <2>5. OwnDecision(x)'
    BY <2>1, <2>2, <2>3, StartRollbackAny DEF TypeOK, OwnDecision
  <2>6. ASSUME NEW y \in Calls, y # x PROVE OwnDecision(y)'
    <3>1. pc'[y] = pc[y] /\ path'[y] = path[y] /\ outcome'[y] = outcome[y] /\ target'[y] = target[y]
      BY <2>1, <2>2, <2>6, StartRollbackAny DEF TypeOK
    <3>. QED
      BY <2>3, <3>1, DecisionsAreSeparate DEF SharedInv
  <2>. QED
    BY <2>4, <2>5, <2>6 DEF SharedInv
<1>. QED
  BY <1>1, <1>2, <1>3 DEF Callback

\* The transaction that ends: of the call itself, or of the runner it found.
\* One that was committed stays so.
LEMMA EndShared ==
  ASSUME SharedInv, NEW x \in Calls,
         CommitOk(x) \/ CommitFail(x) \/ RollbackOk(x) \/ RollbackFail(x)
  PROVE  SharedInv'
<1>. TypeOK /\ OwnDecision(x)
  BY DEF SharedInv
<1>. DEFINE ends == /\ tx' \in [Calls -> {"none", "active", "committed", "aborted"}]
                    /\ pending' \in [Calls -> SUBSET WriteIds] /\ saved' \subseteq WriteIds
                    /\ \A y \in Calls : tx[y] = "committed" => tx'[y] = "committed"
<1>1. ASSUME NEW r \in Calls, InTransaction(r), Abort(r), UNCHANGED saved PROVE ends
  BY <1>1 DEF InTransaction, Abort, TypeOK
<1>2. ASSUME NEW r \in Calls, Commit(r) PROVE ends /\ tx'[r] = "committed"
  BY <1>2 DEF Commit, TypeOK
<1>3. ASSUME UNCHANGED <<tx, pending, saved>> PROVE ends
  BY <1>3 DEF TypeOK
<1>4. pc[x] \in {"committing", "rolling"} /\ UNCHANGED <<queryRunners, target, path, made>>
  BY DEF CommitOk, CommitFail, RollbackOk, RollbackFail
<1>5. pc[x] = "rolling" => target[x] \in Calls
  BY DEF OwnDecision
<1>6. ends /\ faults' \in 0 .. MaxFaults
  <2>1. CASE CommitOk(x)
    BY <2>1, <1>2 DEF CommitOk, TypeOK
  <2>2. CASE CommitFail(x)
    <3>1. CASE InTransaction(x)
      <4>1. faults' \in 0 .. MaxFaults
        BY <2>2, <3>1, FaultType DEF CommitFail
      <4>. QED
        BY <2>2, <3>1, <4>1, <1>1, <1>2 DEF CommitFail
    <3>2. CASE ~ InTransaction(x)
      BY <2>2, <3>2, <1>3 DEF CommitFail, TypeOK
    <3>. QED
      BY <3>1, <3>2
  <2>3. CASE RollbackOk(x)
    <3>1. UNCHANGED saved /\ InTransaction(target[x]) /\ Abort(target[x]) /\ target[x] \in Calls
      BY <2>3, <1>5 DEF RollbackOk
    <3>2. ends
      BY <3>1, <1>1
    <3>. QED
      BY <2>3, <3>2 DEF RollbackOk, TypeOK
  <2>4. CASE RollbackFail(x)
    <3>0. target[x] \in Calls /\ UNCHANGED saved
      BY <2>4, <1>5 DEF RollbackFail
    <3>1. CASE InTransaction(target[x])
      <4>1. faults' \in 0 .. MaxFaults
        BY <2>4, <3>1, FaultType DEF RollbackFail
      <4>2. ends
        BY <2>4, <3>0, <3>1, <1>1 DEF RollbackFail
      <4>. QED
        BY <4>1, <4>2
    <3>2. CASE ~ InTransaction(target[x])
      BY <2>4, <3>2, <1>3 DEF RollbackFail, TypeOK
    <3>. QED
      BY <3>1, <3>2
  <2>. QED
    BY <2>1, <2>2, <2>3, <2>4
<1>7. PICK bad \in BOOLEAN : Finish(x, bad)
  BY DEF CommitOk, CommitFail, RollbackOk, RollbackFail
<1>8. TypeOK'
  BY <1>4, <1>6, <1>7, FinishAny DEF TypeOK
<1>9. OwnDecision(x)'
  <2>1. path[x] = "commit" /\ pc'[x] = "deleting" /\ x \notin failed' => tx'[x] = "committed"
    <3>1. SUFFICES ASSUME path[x] = "commit", pc'[x] = "deleting", x \notin failed'
                   PROVE  tx'[x] = "committed"
      OBVIOUS
    <3>2. CASE CommitOk(x)
      BY <3>2, <1>2 DEF CommitOk
    <3>3. CASE CommitFail(x)
      <4>1. Finish(x, TRUE) /\ pc[x] = "committing"
        BY <3>3 DEF CommitFail
      <4>2. \/ pc' = [pc EXCEPT ![x] = "done"] \/ pc' = [pc EXCEPT ![x] = "retrying"]
            \/ failed' = failed \cup {x}
        BY <4>1, FinishAny
      <4>3. pc'[x] \in {"done", "retrying"} \/ x \in failed'
        BY <4>2 DEF TypeOK
      <4>. QED
        BY <3>1, <4>3
    <3>4. CASE RollbackOk(x) \/ RollbackFail(x)
      BY <3>1, <3>4 DEF RollbackOk, RollbackFail, OwnDecision
    <3>. QED
      BY <3>2, <3>3, <3>4
  <2>0. outcome[x] = "none"
    BY <1>4 DEF OwnDecision
  <2>2. \/ pc'[x] \in {"deleting", "retrying"} /\ outcome'[x] = "none"
        \/ pc'[x] = "done" /\ outcome'[x] = "threw"
    <3>1. \/ pc' = [pc EXCEPT ![x] = "deleting"] /\ outcome' = outcome
          \/ pc' = [pc EXCEPT ![x] = "retrying"] /\ outcome' = outcome
          \/ pc' = [pc EXCEPT ![x] = "done"] /\ outcome' = [outcome EXCEPT ![x] = "threw"]
      BY <1>4, <1>7, FinishAny
    <3>. QED
      BY <2>0, <3>1 DEF TypeOK
  <2>3. path'[x] = path[x] /\ path[x] # "none" /\ CorrelationId[x] # NoId
    BY <1>4 DEF OwnDecision
  <2>. QED
    BY <2>1, <2>2, <2>3 DEF OwnDecision
<1>10. ASSUME NEW y \in Calls, y # x PROVE OwnDecision(y)'
  <2>1. pc'[y] = pc[y] /\ outcome'[y] = outcome[y] /\ (y \in failed' <=> y \in failed)
    BY <1>4, <1>7, <1>10, FinishAny DEF TypeOK
  <2>. QED
    BY <2>1, <1>4, <1>6, DecisionsAreSeparate DEF SharedInv
<1>. QED
  BY <1>8, <1>9, <1>10 DEF SharedInv

LEMMA DeleteShared ==
  ASSUME SharedInv, NEW x \in Calls, Delete(x)
  PROVE  SharedInv'
<1>. TypeOK /\ OwnDecision(x) /\ pc[x] = "deleting"
  BY DEF SharedInv, Delete
<1>1. CASE x \in failed /\ path[x] = "result"
  <2>1. TypeOK'
    BY <1>1 DEF Delete, TypeOK, PC
  <2>2. OwnDecision(x)'
    BY <1>1 DEF Delete, TypeOK, OwnDecision
  <2>3. \A y \in Calls \ {x} : OwnDecision(y)'
    BY <1>1, DecisionsAreSeparate DEF Delete, TypeOK, SharedInv
  <2>. QED
    BY <2>1, <2>2, <2>3 DEF SharedInv
<1>2. CASE ~ (x \in failed /\ path[x] = "result")
  <2>. DEFINE o == CASE x \in failed \/ path[x] = "caught" -> "threw"
                     [] path[x] = "result" -> "err"
                     [] OTHER -> "ok"
  <2>0. Answer(x, o)
    BY <1>2 DEF Delete
  <2>1. o \in {"threw", "err", "ok"}
    OBVIOUS
  <2>2. o = "ok" => tx[x] = "committed"
    BY DEF OwnDecision, TypeOK
  <2>. HIDE DEF o
  <2>3. TypeOK'
    BY <2>0, <2>1 DEF Delete, Answer, TypeOK, PC
  <2>4. OwnDecision(x)'
    BY <2>0, <2>1, <2>2 DEF Delete, Answer, TypeOK, OwnDecision
  <2>5. \A y \in Calls \ {x} : OwnDecision(y)'
    BY <2>0, DecisionsAreSeparate DEF Delete, Answer, TypeOK, SharedInv
  <2>. QED
    BY <2>3, <2>4, <2>5 DEF SharedInv
<1>. QED
  BY <1>1, <1>2

LEMMA SharedStep == SharedInv /\ [Next]_vars => SharedInv'
<1>1. ASSUME SharedInv, UNCHANGED vars PROVE SharedInv'
  BY <1>1 DEF SharedInv, TypeOK, OwnDecision, vars
<1>2. ASSUME SharedInv, Next PROVE SharedInv'
  <2>1. PICK x \in Calls : \/ Execute(x) \/ StartOk(x) \/ StartFail(x)
                           \/ Write(x) \/ Callback(x) \/ Cleanup(x)
    BY <1>2 DEF Next
  <2>. QED
    BY <1>2, <2>1, BeginShared, CallbackShared, EndShared, DeleteShared DEF Cleanup
<1>. QED
  BY <1>1, <1>2

\* Whatever ids calls share, and whoever rolls back or releases whose runner, a
\* caller that is told of success has had its own transaction committed: the
\* commit is the one step that uses the runner the call has made.
THEOREM SuccessIsOwn == Spec => []SuccessIsOwnCommit
<1>1. SharedInv => SuccessIsOwnCommit
  BY DEF SharedInv, OwnDecision, SuccessIsOwnCommit
<1>. QED
  BY <1>1, SharedInit, SharedStep, PTL DEF Spec
=============================================================================

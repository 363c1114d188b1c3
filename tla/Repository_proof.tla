--------------------------- MODULE Repository_proof ---------------------------
(***************************************************************************)
(* The sessions of Repository make only steps a transaction run allows, so *)
(* what TransactionMonad_proof says of runs holds among any number of      *)
(* sessions that load, save, add and delete; no save creates a row its     *)
(* session did not find, and none loses a change unless two sessions held  *)
(* the row.                                                                *)
(***************************************************************************)
EXTENDS Repository, TransactionMonad_proof

-----------------------------------------------------------------------------
(* The inductive invariant.                                                *)

RepoTypeOK ==
  /\ rows \in [Ids -> Rows]
  /\ held \in [Sessions -> [Ids -> Rows]]
  /\ call \in [Sessions -> [op : Ops, ids : (SUBSET Ids) \ {{}}] \cup {NoCall}]
  /\ found \in [Sessions -> SUBSET Ids]

\* Every deletion that is pending, or that a savepoint goes back to, is known.
Known(new) == \A id \in DOMAIN new : new[id] = NoRow => id \in spoilt

\* A row that was found and is gone was deleted meanwhile.
GoneIsSpoilt ==
  /\ Known(pending) /\ \A i \in DOMAIN savepoints : Known(savepoints[i])
  /\ \A s \in Others, id \in Ids : id \in found[s] /\ rows[id] = NoRow => id \in spoilt

RepoInv == TxInv /\ RepoTypeOK /\ GoneIsSpoilt

-----------------------------------------------------------------------------
(* Lemmas.                                                                 *)

LEMMA OverlayRows ==
  ASSUME NEW x \in Written, NEW y \in [Ids -> Rows]
  PROVE  /\ Overlay(x, y) \in [Ids -> Rows]
         /\ \A id \in Ids : Overlay(x, y)[id] = IF id \in DOMAIN x THEN x[id] ELSE y[id]
         /\ DOMAIN x \subseteq Ids
<1>1. PICK D \in SUBSET Ids : x \in [D -> Rows]
  BY DEF Written
<1> QED
  BY <1>1 DEF Overlay

\* The rows are the sets of sessions and the mark of a row that does not exist.
LEMMA RowsAre ==
  /\ NoRow \in Rows
  /\ \A S \in Rows : S # NoRow => S \in SUBSET Sessions
  /\ \A S \in SUBSET Sessions : S \in Rows /\ S # NoRow
<1>1. \A S \in SUBSET Sessions : S # {Nobody}
  BY RepositoryAssumption
<1>2. \A S \in SUBSET Sessions : S # NoRow
  BY <1>1 DEF NoRow
<1>3. Rows = (SUBSET Sessions) \cup {NoRow}
  BY RepositoryAssumption
<1>4. \A S \in SUBSET Sessions : S \in Rows
  BY <1>3
<1>5. NoRow \in Rows
  BY <1>3
<1>6. \A S \in Rows : S # NoRow => S \in SUBSET Sessions
  BY <1>3
<1> QED
  BY <1>2, <1>4, <1>5, <1>6

LEMMA RunnerIsSession == Runner \in Sessions /\ Runner \notin Others /\ Others \subseteq Sessions
  BY RepositoryAssumption DEF Sessions

\* What save, add and delete write is a row, and only delete writes none.
LEMMA ToDataIsRow ==
  ASSUME RepoTypeOK, NEW s \in Sessions, NEW op \in Ops, NEW id \in Ids
  PROVE  ToData(s, op, id) \in Rows /\ (ToData(s, op, id) = NoRow => op = "delete")
<1>1. held[s][id] \in Rows
  BY DEF RepoTypeOK
<1>2. held[s][id] # NoRow => held[s][id] \cup {s} \in SUBSET Sessions
  BY <1>1, RowsAre
<1>3. {s} \in SUBSET Sessions
  OBVIOUS
<1>4. CASE op = "delete"
  BY <1>4, RowsAre DEF ToData
<1>5. CASE op # "delete"
  <2>1. CASE op = "add" \/ held[s][id] = NoRow
    BY <2>1, <1>3, <1>5, RowsAre DEF ToData
  <2>2. CASE ~ (op = "add" \/ held[s][id] = NoRow)
    <3>1. ToData(s, op, id) = held[s][id] \cup {s}
      BY <1>5, <2>2 DEF ToData
    <3> QED
      BY <3>1, <2>2, <1>2, RowsAre
  <2> QED
    BY <2>1, <2>2
<1> QED
  BY <1>4, <1>5

LEMMA ToDataWritten ==
  ASSUME RepoTypeOK, NEW s \in Sessions, NEW op \in Ops, NEW ids \in SUBSET Ids
  PROVE  [id \in ids |-> ToData(s, op, id)] \in Written
<1>1. [id \in ids |-> ToData(s, op, id)] \in [ids -> Rows]
  BY ToDataIsRow
<1> QED
  BY <1>1 DEF Written

\* What a session sees of a row is a row.
LEMMA SeesRow ==
  ASSUME TxTypeOK, RepoTypeOK, NEW s \in Sessions, NEW id \in Ids
  PROVE  Sees(s, id) \in Rows
<1>1. rows[id] \in Rows
  BY DEF RepoTypeOK
<1>2. id \in DOMAIN pending => pending[id] \in Rows
  <2>1. PICK D \in SUBSET Ids : pending \in [D -> Rows]
    BY DEF TxTypeOK, Written
  <2> QED
    BY <2>1
<1> QED
  BY <1>1, <1>2 DEF Sees, View

-----------------------------------------------------------------------------
(* Every step of the sessions is a step of the transaction.                *)

LEMMA InitRepo == Init => RepoInv /\ TxInit
<1> SUFFICES ASSUME Init PROVE RepoInv /\ TxInit
  OBVIOUS
<1>1. TxInit /\ TxInv
  BY InitInv DEF Init
<1>2. RepoTypeOK
  <2>1. {} \in Rows /\ NoRow \in Rows
    BY RowsAre
  <2>2. rows \in [Ids -> Rows] /\ held \in [Sessions -> [Ids -> Rows]]
    BY <2>1 DEF Init
  <2>3. call \in [Sessions -> [op : Ops, ids : (SUBSET Ids) \ {{}}] \cup {NoCall}]
    BY DEF Init
  <2>4. found \in [Sessions -> SUBSET Ids]
    BY DEF Init
  <2> QED
    BY <2>2, <2>3, <2>4 DEF RepoTypeOK
<1>3. GoneIsSpoilt
  <2>1. pending = Nothing /\ savepoints = <<>>
    BY DEF Init, TxInit
  <2>2. DOMAIN pending = {} /\ DOMAIN savepoints = {}
    BY <2>1 DEF Nothing
  <2>3. \A s \in Others : found[s] = {}
    BY RunnerIsSession DEF Init
  <2> QED
    BY <2>2, <2>3 DEF GoneIsSpoilt, Known
<1> QED
  BY <1>1, <1>2, <1>3 DEF RepoInv

LEMMA AnswersRefine ==
  ASSUME NEW s, NEW r \in {"left", "right", "threw"}, CallAnswers(s, r)
  PROVE  Operation \/ UNCHANGED txVars
  BY DEF CallAnswers, Operation

LEMMA WriteRefines ==
  ASSUME RepoTypeOK, NEW s \in Sessions, Write(s)
  PROVE  Operation \/ Other
<1>1. call[s].op \in Ops /\ call[s].ids \in SUBSET Ids
  BY DEF Write, FoundAll, RepoTypeOK, NoCall
<1>2. [id \in call[s].ids |-> ToData(s, call[s].op, id)] \in Written
  BY <1>1, ToDataWritten
<1> QED
  BY <1>2 DEF Write, Operation, Other

LEMMA StepRefines ==
  ASSUME RepoTypeOK, [Next]_vars
  PROVE  [TxNext]_txVars
<1>1. ASSUME NEW s \in Sessions, Step(s) PROVE [TxNext]_txVars
  <2>1. ASSUME NEW id \in Ids, Load(s, id) PROVE UNCHANGED txVars
    BY <2>1 DEF Load
  <2>2. ASSUME NEW id \in Ids, Find(s, id) PROVE Operation \/ UNCHANGED txVars
    BY <2>2, AnswersRefine DEF Find
  <2>3. ASSUME NEW op \in Ops, NEW ids \in (SUBSET Ids) \ {{}}, Call(s, op, ids)
        PROVE  Operation \/ UNCHANGED txVars
    BY <2>3, AnswersRefine DEF Call
  <2>4. ASSUME CallFails(s) PROVE Operation \/ UNCHANGED txVars
    BY <2>4 DEF CallFails, Operation
  <2>5. ASSUME MapFails(s) PROVE Operation \/ UNCHANGED txVars
    BY <2>5, AnswersRefine DEF MapFails
  <2> QED
    BY <1>1, <2>1, <2>2, <2>3, <2>4, <2>5, WriteRefines DEF Step, TxNext
<1>2. CASE OperationEnds
  BY <1>2 DEF OperationEnds, TxNext, Operation
<1>3. CASE Control /\ UNCHANGED repoVars
  BY <1>3 DEF TxNext
<1>4. CASE UNCHANGED vars
  BY <1>4 DEF vars
<1> QED
  BY <1>1, <1>2, <1>3, <1>4 DEF Next

-----------------------------------------------------------------------------
(* Preservation of RepoTypeOK and GoneIsSpoilt.                            *)

\* Nothing is lost from GoneIsSpoilt when less is found and more is spoilt.
LEMMA SpoiltGrows ==
  ASSUME GoneIsSpoilt, spoilt \subseteq spoilt',
         UNCHANGED <<rows, pending, savepoints>>,
         \A s \in Others : \A id \in found'[s] \ found[s] : rows[id] # NoRow
  PROVE  GoneIsSpoilt'
  BY DEF GoneIsSpoilt, Known

\* The session's control state after a call answers.
LEMMA AnswersKeep ==
  ASSUME RepoTypeOK, GoneIsSpoilt, NEW s \in Sessions, NEW r, CallAnswers(s, r),
         UNCHANGED <<held, spoilt>>
  PROVE  RepoTypeOK' /\ GoneIsSpoilt'
<1>1. UNCHANGED <<rows, pending, savepoints>>
  BY DEF CallAnswers, OpThrows, OpAnswers, txVars, store
<1>2. call' = [call EXCEPT ![s] = NoCall] /\ found' = [found EXCEPT ![s] = {}]
  BY DEF CallAnswers
<1>3. RepoTypeOK'
  BY <1>1, <1>2 DEF RepoTypeOK
<1>4. \A x \in Others : \A id \in found'[x] \ found[x] : rows[id] # NoRow
  BY <1>2, RunnerIsSession DEF RepoTypeOK
<1> QED
  BY <1>1, <1>3, <1>4, SpoiltGrows

LEMMA LoadKeeps ==
  ASSUME TxTypeOK, RepoTypeOK, GoneIsSpoilt,
         NEW s \in Sessions, NEW id \in Ids, Load(s, id)
  PROVE  RepoTypeOK' /\ GoneIsSpoilt'
<1>1. UNCHANGED <<rows, pending, savepoints, call, found>> /\ spoilt \subseteq spoilt'
  BY DEF Load, txVars, store
<1>2. held' = [held EXCEPT ![s][id] = Sees(s, id)] /\ Sees(s, id) \in Rows
  BY SeesRow DEF Load
<1>3. RepoTypeOK'
  BY <1>1, <1>2 DEF RepoTypeOK
<1> QED
  BY <1>1, <1>3, SpoiltGrows

LEMMA CallKeeps ==
  ASSUME RepoTypeOK, GoneIsSpoilt, NEW s \in Sessions,
         NEW op \in Ops, NEW ids \in (SUBSET Ids) \ {{}}, Call(s, op, ids)
  PROVE  RepoTypeOK' /\ GoneIsSpoilt'
<1>0. UNCHANGED <<held, spoilt>>
  BY DEF Call
<1>1. CASE ~ bound
  BY <1>0, <1>1, AnswersKeep DEF Call
<1>2. CASE bound
  <2>1. /\ call' = [call EXCEPT ![s] = [op |-> op, ids |-> ids]]
        /\ UNCHANGED <<rows, pending, savepoints, found>>
    BY <1>2 DEF Call, txVars, store
  <2>2. RepoTypeOK'
    BY <1>0, <2>1 DEF RepoTypeOK
  <2> QED
    BY <1>0, <2>1, <2>2, SpoiltGrows
<1> QED
  BY <1>1, <1>2

LEMMA FindKeeps ==
  ASSUME RepoTypeOK, GoneIsSpoilt, NEW s \in Sessions, NEW id \in Ids, Find(s, id)
  PROVE  RepoTypeOK' /\ GoneIsSpoilt'
<1>0. UNCHANGED <<held, spoilt>>
  BY DEF Find
<1>1. CASE Sees(s, id) = NoRow
  BY <1>0, <1>1, AnswersKeep DEF Find
<1>2. CASE Sees(s, id) # NoRow
  <2>1. /\ found' = [found EXCEPT ![s] = @ \cup {id}]
        /\ UNCHANGED <<rows, pending, savepoints, call>>
    BY <1>2 DEF Find, txVars, store
  <2>2. RepoTypeOK'
    BY <1>0, <2>1 DEF RepoTypeOK
  <2>3. \A x \in Others : \A y \in found'[x] \ found[x] : rows[y] # NoRow
    <3> SUFFICES ASSUME NEW x \in Others, NEW y \in found'[x] \ found[x]
                 PROVE  rows[y] # NoRow
      OBVIOUS
    <3>1. x = s /\ y = id
      BY <2>1, RunnerIsSession DEF RepoTypeOK
    <3> QED
      BY <3>1, <1>2, RunnerIsSession DEF Sees
  <2> QED
    BY <1>0, <2>1, <2>2, <2>3, SpoiltGrows
<1> QED
  BY <1>1, <1>2

\* A write that deletes a row spoils it, in the transaction and outside.
LEMMA WriteKeeps ==
  ASSUME TxTypeOK, RepoTypeOK, GoneIsSpoilt, NEW s \in Sessions, Write(s)
  PROVE  RepoTypeOK' /\ GoneIsSpoilt'
<1> DEFINE ids == call[s].ids
           new == [id \in ids |-> ToData(s, call[s].op, id)]
<1>1. call[s].op \in Ops /\ ids \in SUBSET Ids
  BY DEF Write, FoundAll, RepoTypeOK, NoCall
<1>2. new \in Written /\ new \in [ids -> Rows]
  BY <1>1, ToDataWritten, ToDataIsRow
<1>3. \A id \in ids : new[id] = NoRow => id \in spoilt'
  <2> SUFFICES ASSUME NEW id \in ids, new[id] = NoRow PROVE id \in spoilt'
    OBVIOUS
  <2>1. call[s].op = "delete"
    BY <1>1, ToDataIsRow
  <2> QED
    BY <2>1 DEF Write
<1>4. /\ spoilt \subseteq spoilt'
      /\ call' = [call EXCEPT ![s] = NoCall] /\ found' = [found EXCEPT ![s] = {}]
      /\ held' = [held EXCEPT ![s] = [id \in Ids |-> IF id \in ids THEN NoRow ELSE @[id]]]
  BY DEF Write
<1>5. held' \in [Sessions -> [Ids -> Rows]]
  <2>1. [id \in Ids |-> IF id \in ids THEN NoRow ELSE held[s][id]] \in [Ids -> Rows]
    BY RowsAre DEF RepoTypeOK
  <2> QED
    BY <1>4, <2>1 DEF RepoTypeOK
<1>6. /\ call' \in [Sessions -> [op : Ops, ids : (SUBSET Ids) \ {{}}] \cup {NoCall}]
      /\ found' \in [Sessions -> SUBSET Ids]
      /\ \A x \in Others : found'[x] \subseteq found[x]
  BY <1>4, RunnerIsSession DEF RepoTypeOK
<1>7. CASE s = Runner
  <2>1. UNCHANGED <<rows, savepoints>> /\ pending' = Overlay(new, pending)
    BY <1>7 DEF Write, OpWrites
  <2>2. rows' \in [Ids -> Rows]
    BY <2>1 DEF RepoTypeOK
  <2>3. \A id \in DOMAIN pending' : pending'[id] = NoRow => id \in spoilt'
    <3>1. DOMAIN new = ids
      OBVIOUS
    <3> HIDE DEF new
    <3> QED
      BY <2>1, <3>1, <1>3, <1>4 DEF Overlay, GoneIsSpoilt, Known
  <2>4. GoneIsSpoilt'
    BY <2>1, <2>3, <1>4, <1>6 DEF GoneIsSpoilt, Known
  <2> QED
    BY <2>2, <2>4, <1>5, <1>6 DEF RepoTypeOK
<1>8. CASE s # Runner
  <2>1. UNCHANGED <<pending, savepoints>> /\ rows' = Overlay(new, rows)
    BY <1>8 DEF Write, OthersWrite
  <2>2. /\ rows' \in [Ids -> Rows]
        /\ \A id \in Ids : rows'[id] = IF id \in ids THEN new[id] ELSE rows[id]
    <3>1. DOMAIN new = ids
      OBVIOUS
    <3> HIDE DEF new
    <3> QED
      BY <2>1, <3>1, <1>2, OverlayRows DEF RepoTypeOK
  <2>3. \A x \in Others, id \in Ids : id \in found'[x] /\ rows'[id] = NoRow => id \in spoilt'
    <3> HIDE DEF new
    <3> QED
      BY <2>2, <1>3, <1>4, <1>6 DEF GoneIsSpoilt
  <2>4. GoneIsSpoilt'
    BY <2>1, <2>3, <1>4 DEF GoneIsSpoilt, Known
  <2> QED
    BY <2>2, <2>4, <1>5, <1>6 DEF RepoTypeOK
<1> QED
  BY <1>7, <1>8

\* The steps that leave the database and the repositories alone.
LEMMA QuietKeeps ==
  ASSUME RepoTypeOK, GoneIsSpoilt, UNCHANGED <<rows, pending, savepoints, repoVars>>
  PROVE  RepoTypeOK' /\ GoneIsSpoilt'
  BY DEF repoVars, RepoTypeOK, GoneIsSpoilt, Known

LEMMA CallFailsKeeps ==
  ASSUME RepoTypeOK, GoneIsSpoilt, NEW s \in Sessions, CallFails(s)
  PROVE  RepoTypeOK' /\ GoneIsSpoilt'
<1>1. /\ UNCHANGED <<rows, pending, savepoints, held, spoilt>>
      /\ call' = [call EXCEPT ![s] = NoCall] /\ found' = [found EXCEPT ![s] = {}]
  BY DEF CallFails, StatementFails, txVars, store
<1>2. RepoTypeOK'
  BY <1>1 DEF RepoTypeOK
<1>3. \A x \in Others : found'[x] \subseteq found[x]
  BY <1>1, RunnerIsSession DEF RepoTypeOK
<1> QED
  BY <1>1, <1>2, <1>3, SpoiltGrows

LEMMA MapFailsKeeps ==
  ASSUME RepoTypeOK, GoneIsSpoilt, NEW s \in Sessions, MapFails(s)
  PROVE  RepoTypeOK' /\ GoneIsSpoilt'
  BY AnswersKeep DEF MapFails

\* A commit moves what is pending to the rows, a rollback takes the savepoint.
LEMMA ControlKeeps ==
  ASSUME TxTypeOK, RepoTypeOK, GoneIsSpoilt, Control, UNCHANGED repoVars
  PROVE  RepoTypeOK' /\ GoneIsSpoilt'
<1> USE DEF repoVars
<1>1. ASSUME Commit PROVE RepoTypeOK' /\ GoneIsSpoilt'
  <2>1. CASE depth = 1
    <3>1. /\ pending' = Nothing /\ UNCHANGED savepoints
          /\ rows' = rows \/ rows' = Overlay(pending, rows)
      BY <1>1, <2>1 DEF Commit, store
    <3>2. rows' \in [Ids -> Rows]
      BY <3>1, OverlayRows DEF RepoTypeOK, TxTypeOK
    <3>3. \A id \in Ids : rows'[id] = NoRow => rows[id] = NoRow \/ id \in spoilt
      BY <3>1, OverlayRows DEF RepoTypeOK, TxTypeOK, GoneIsSpoilt, Known
    <3>4. GoneIsSpoilt'
      BY <3>1, <3>3 DEF GoneIsSpoilt, Known, Nothing
    <3> QED
      BY <3>2, <3>4 DEF RepoTypeOK
  <2>2. CASE depth # 1
    <3>1. UNCHANGED <<rows, pending>>
      BY <1>1, <2>2 DEF Commit, store
    <3>2. savepoints' = savepoints \/ (savepoints' = SubSeq(savepoints, 1, depth - 2) /\ depth > 1)
      BY <1>1, <2>2 DEF Commit, store
    <3>3. \A i \in DOMAIN savepoints' : i \in DOMAIN savepoints /\ savepoints'[i] = savepoints[i]
      BY <3>2 DEF TxTypeOK
    <3> QED
      BY <3>1, <3>3 DEF RepoTypeOK, GoneIsSpoilt, Known
  <2> QED
    BY <2>1, <2>2
<1>2. ASSUME Rollback PROVE RepoTypeOK' /\ GoneIsSpoilt'
  <2>1. UNCHANGED rows
    BY <1>2 DEF Rollback, store
  <2>2. /\ savepoints' = savepoints \/ (savepoints' = SubSeq(savepoints, 1, depth - 2) /\ depth > 1)
        /\ \/ pending' = Nothing \/ pending' = pending
           \/ (depth > 1 /\ pending' = savepoints[depth - 1])
    BY <1>2 DEF Rollback, store
  <2>3. \A i \in DOMAIN savepoints' : i \in DOMAIN savepoints /\ savepoints'[i] = savepoints[i]
    BY <2>2 DEF TxTypeOK
  <2>4. depth > 1 => depth - 1 \in DOMAIN savepoints
    BY DEF TxTypeOK
  <2>5. Known(pending)'
    BY <2>2, <2>4 DEF GoneIsSpoilt, Known, Nothing
  <2> QED
    BY <2>1, <2>3, <2>5 DEF RepoTypeOK, GoneIsSpoilt, Known
<1>3. CASE RunBegins
  <2>1. UNCHANGED <<rows, pending>>
    BY <1>3 DEF RunBegins, Begin
  <2>2. savepoints' = <<>> \/ savepoints' = Append(savepoints, pending)
    BY <1>3 DEF RunBegins, Begin
  <2>3. \A i \in DOMAIN savepoints' : Known(savepoints'[i])
    <3>1. CASE savepoints' = <<>>
      BY <3>1
    <3>2. CASE savepoints' = Append(savepoints, pending)
      <4>1. \A i \in DOMAIN savepoints' : savepoints'[i] = pending
              \/ (i \in DOMAIN savepoints /\ savepoints'[i] = savepoints[i])
        BY <3>2 DEF TxTypeOK
      <4> QED
        BY <4>1 DEF GoneIsSpoilt
    <3> QED
      BY <2>2, <3>1, <3>2
  <2> QED
    BY <2>1, <2>3 DEF RepoTypeOK, GoneIsSpoilt, Known
<1>4. CASE BeginFails \/ Chain \/ RunEnds \/ MapThrows
  BY <1>4, QuietKeeps DEF BeginFails, Chain, RunEnds, MapThrows, store
<1>5. CASE RunCommits
  BY <1>1, <1>5 DEF RunCommits
<1>6. CASE CommitFails
  BY <1>6 DEF CommitFails, RepoTypeOK, GoneIsSpoilt, Known, Nothing
<1>7. CASE RunEvaluates
  BY <1>2, <1>7, QuietKeeps DEF RunEvaluates, store
<1> QED
  BY <1>3, <1>4, <1>5, <1>6, <1>7 DEF Control

LEMMA RepoStep == RepoInv /\ [Next]_vars => RepoInv'
<1> SUFFICES ASSUME RepoInv, [Next]_vars PROVE RepoInv'
  OBVIOUS
<1>0. TxInv /\ TxTypeOK /\ RepoTypeOK /\ GoneIsSpoilt
  BY DEF RepoInv, TxInv
<1>1. TxInv'
  BY <1>0, StepRefines, TxStep
<1>2. RepoTypeOK' /\ GoneIsSpoilt'
  <2>1. CASE \E s \in Sessions : Step(s)
    <3>1. PICK s \in Sessions : Step(s)
      BY <2>1
    <3> QED
      BY <1>0, <3>1, LoadKeeps, FindKeeps, CallKeeps, WriteKeeps, CallFailsKeeps, MapFailsKeeps
      DEF Step
  <2>2. CASE OperationEnds
    BY <1>0, <2>2, QuietKeeps DEF OperationEnds, OpThrows, OpAnswers, store
  <2>3. CASE Control /\ UNCHANGED repoVars
    BY <1>0, <2>3, ControlKeeps
  <2>4. CASE UNCHANGED vars
    BY <1>0, <2>4, QuietKeeps DEF vars, txVars, store
  <2> QED
    BY <2>1, <2>2, <2>3, <2>4 DEF Next
<1> QED
  BY <1>1, <1>2 DEF RepoInv

-----------------------------------------------------------------------------
(* Rows come into being only as RowsCreated says.                          *)

\* The step formula of RowsCreated.
CreatedStep ==
  \A id \in Ids : rows[id] = NoRow /\ rows'[id] # NoRow =>
    \/ id \in DOMAIN pending
    \/ \E s \in Others : /\ id \in call[s].ids
                         /\ \/ call[s].op = "add"
                            \/ id \in found[s] /\ id \in spoilt

LEMMA CreatedByStep == RepoInv /\ [Next]_vars => CreatedStep
<1> SUFFICES ASSUME RepoInv, [Next]_vars, NEW id \in Ids,
                    rows[id] = NoRow, rows'[id] # NoRow, id \notin DOMAIN pending
             PROVE  \E s \in Others : /\ id \in call[s].ids
                                     /\ \/ call[s].op = "add"
                                        \/ id \in found[s] /\ id \in spoilt
  BY DEF CreatedStep
<1>0. TxTypeOK /\ RepoTypeOK /\ GoneIsSpoilt
  BY DEF RepoInv, TxInv
<1>1. ASSUME NEW s \in Sessions, CallAnswers(s, "left") \/ CallAnswers(s, "threw") PROVE FALSE
  BY <1>1 DEF CallAnswers, OpThrows, OpAnswers, txVars, store
<1>2. ASSUME NEW s \in Sessions, Write(s)
      PROVE  /\ s \in Others /\ id \in call[s].ids
             /\ \/ call[s].op = "add"
                \/ id \in found[s] /\ id \in spoilt
  <2> DEFINE ids == call[s].ids
             new == [x \in ids |-> ToData(s, call[s].op, x)]
  <2>1. s \in Others /\ rows' = Overlay(new, rows)
    BY <1>2 DEF Write, OpWrites, OthersWrite, Sessions
  <2>2. call[s].op \in Ops /\ ids \in SUBSET Ids
    BY <1>2, <1>0 DEF Write, FoundAll, RepoTypeOK, NoCall
  <2>3. id \in ids
    <3>1. new \in Written
      BY <2>2, <1>0, ToDataWritten
    <3>2. DOMAIN new = ids
      OBVIOUS
    <3> HIDE DEF new
    <3> QED
      BY <2>1, <3>1, <3>2, <1>0, OverlayRows DEF RepoTypeOK
  <2>4. call[s].op = "add" \/ found[s] = ids
    BY <1>2 DEF Write, FoundAll
  <2> QED
    BY <2>1, <2>3, <2>4, <1>0 DEF GoneIsSpoilt
<1>3. ASSUME NEW s \in Sessions, Step(s), ~ Write(s) PROVE FALSE
  <2>1. CASE \E x \in Ids : Load(s, x)
    BY <2>1 DEF Load, txVars, store
  <2>2. CASE \E x \in Ids : Find(s, x)
    BY <2>2, <1>1 DEF Find, txVars, store
  <2>3. CASE \E op \in Ops, ids \in (SUBSET Ids) \ {{}} : Call(s, op, ids)
    BY <2>3, <1>1 DEF Call, txVars, store
  <2>4. CASE CallFails(s)
    BY <2>4 DEF CallFails, StatementFails, txVars, store
  <2>5. CASE MapFails(s)
    BY <2>5, <1>1 DEF MapFails
  <2> QED
    BY <1>3, <2>1, <2>2, <2>3, <2>4, <2>5 DEF Step
<1>4. ASSUME Commit PROVE FALSE
  <2>1. rows' = rows \/ rows' = Overlay(pending, rows)
    BY <1>4 DEF Commit, store
  <2> QED
    BY <1>0, <2>1, OverlayRows DEF TxTypeOK, RepoTypeOK
<1>5. ASSUME Control PROVE FALSE
  BY <1>4, <1>5 DEF Control, RunBegins, Begin, BeginFails, Chain, RunEnds, RunCommits,
       CommitFails, RunEvaluates, Rollback, MapThrows, store
<1>6. CASE \E s \in Sessions : Step(s)
  BY <1>2, <1>3, <1>6
<1>7. ~ OperationEnds /\ ~ UNCHANGED vars
  BY DEF OperationEnds, OpThrows, OpAnswers, vars, txVars, store
<1> QED
  BY <1>5, <1>6, <1>7 DEF Next

-----------------------------------------------------------------------------
(* Theorems.                                                               *)

\* What the sessions do is what operations of a run and other writers do.
LEMMA RunsImplementTransaction == Spec => TxSpec
<1>1. Init => RepoInv /\ TxInit
  BY InitRepo
<1>2. RepoInv /\ [Next]_vars => RepoInv' /\ [TxNext]_txVars
  BY RepoStep, StepRefines DEF RepoInv
<1> QED
  BY <1>1, <1>2, PTL DEF Spec, TxSpec

\* So a failing run keeps what the parity of the depth says, a run that
\* resolves keeps everything or, when its COMMIT failed, nothing, and only a
\* rejecting operation leaves the transaction open (transaction-monad.ts:74-95).
THEOREM RunsKeepByParity == Spec => [](FailureKeeps /\ SuccessKeeps /\ OpenOnlyAfterThrow)
<1>1. TxInv => FailureKeeps /\ SuccessKeeps /\ OpenOnlyAfterThrow
  BY DEF TxInv
<1> QED
  BY <1>1, RunsImplementTransaction, TransactionCorrect, PTL

\* No save creates a row its session did not find: a row comes into being by
\* add, by the commit of the run, or by a save overtaken by a deletion
\* (base-repository.ts:76-121).
THEOREM SavesCreateNoRows == Spec => RowsCreated
<1>1. Init => RepoInv
  BY InitRepo
<1>2. RepoInv /\ [Next]_vars => RepoInv' /\ [CreatedStep]_vars
  BY RepoStep, CreatedByStep
<1> QED
  BY <1>1, <1>2, PTL DEF Spec, RowsCreated, CreatedStep

-----------------------------------------------------------------------------
(* Lost updates.                                                           *)

\* The run still goes well.
Going == ~ Failed /\ pc # "done" /\ ~ commitFailed

\* What a savepoint goes back to was written later too.
SavepointsNest ==
  \A i \in DOMAIN savepoints :
    /\ DOMAIN savepoints[i] \subseteq DOMAIN pending
    /\ \A j \in DOMAIN savepoints : i <= j => DOMAIN savepoints[i] \subseteq DOMAIN savepoints[j]

Held(s, id) == held[s][id] # NoRow

\* A session that holds a row holds it alone and as it is: no other session
\* writes it, and the run has not.
OneHolder(id) ==
  \A s, t \in Sessions : Held(s, id) /\ Held(t, id) => s = t

HeldIsCurrent(id) ==
  /\ \A s \in Others : Held(s, id) => held[s][id] = rows[id] /\ id \notin DOMAIN pending
  /\ Going /\ Held(Runner, id) => held[Runner][id] = View(id)

\* save, saveMultiple and delete are called with rows the session holds.
CallerHolds(id) ==
  \A s \in Sessions :
    call[s].op \in {"save", "saveMultiple", "delete"} /\ id \in call[s].ids => Held(s, id)

\* A change that was saved is in the row, and wherever a commit or a rollback
\* may take the row from.
SavedIsThere(id) ==
  /\ \A s \in saved[id] \ {Runner} :
       /\ s \in rows[id]
       /\ id \in DOMAIN pending => s \in pending[id]
       /\ \A i \in DOMAIN savepoints : id \in DOMAIN savepoints[i] => s \in savepoints[i][id]
  /\ Runner \in saved[id] => id \in DOMAIN written /\ Runner \in written[id]
  /\ id \in DOMAIN kept /\ Runner \in kept[id] => Runner \in rows[id]

Clean(id) == OneHolder(id) /\ HeldIsCurrent(id) /\ CallerHolds(id) /\ SavedIsThere(id)

UpdatesInv == SavepointsNest /\ \A id \in Ids \ spoilt : Clean(id)

LEMMA UpdatesInit == Init => UpdatesInv
<1> SUFFICES ASSUME Init PROVE UpdatesInv
  OBVIOUS
<1>1. savepoints = <<>> /\ DOMAIN kept = {} /\ \A id \in Ids : saved[id] = {}
  BY DEF Init, TxInit, Nothing
<1>2. \A s \in Sessions : call[s] = NoCall /\ \A id \in Ids : ~ Held(s, id)
  BY DEF Init, Held
<1>3. SavepointsNest
  BY <1>1 DEF SavepointsNest
<1>4. ASSUME NEW id \in Ids PROVE Clean(id)
  BY <1>1, <1>2, RunnerIsSession
  DEF Clean, OneHolder, HeldIsCurrent, CallerHolds, SavedIsThere, NoCall
<1> QED
  BY <1>3, <1>4 DEF UpdatesInv

\* Steps that touch neither rows nor what sessions hold.
LEMMA QuietUpdates ==
  ASSUME UpdatesInv, Going' => Going,
         UNCHANGED <<rows, pending, savepoints, kept, written, held, saved, spoilt>>,
         \A id \in Ids \ spoilt : CallerHolds(id)'
  PROVE  UpdatesInv'
<1>1. SavepointsNest'
  BY DEF UpdatesInv, SavepointsNest
<1>2. ASSUME NEW id \in Ids \ spoilt PROVE Clean(id)'
  <2>1. Clean(id)
    BY DEF UpdatesInv
  <2> QED
    BY <2>1 DEF Clean, OneHolder, HeldIsCurrent, Held, SavedIsThere, View
<1> QED
  BY <1>1, <1>2 DEF UpdatesInv

\* A call that is over holds nothing up.
LEMMA CallOver ==
  ASSUME RepoTypeOK, UpdatesInv, NEW s \in Sessions, UNCHANGED <<held, spoilt>>,
         call' = call \/ call' = [call EXCEPT ![s] = NoCall]
  PROVE  \A id \in Ids \ spoilt : CallerHolds(id)'
<1>1. \A t \in Sessions : call'[t] = call[t] \/ call'[t] = NoCall
  BY DEF RepoTypeOK
<1> QED
  BY <1>1 DEF UpdatesInv, Clean, CallerHolds, Held, NoCall

LEMMA AnswersUpdates ==
  ASSUME RepoTypeOK, UpdatesInv, NEW s \in Sessions, NEW r, CallAnswers(s, r),
         UNCHANGED <<held, saved, spoilt>>
  PROVE  UpdatesInv'
<1>1. UNCHANGED <<rows, pending, savepoints, kept, written>> /\ (Going' => Going)
  BY DEF CallAnswers, OpThrows, OpAnswers, FailsWith, Goto, txVars, store, control, history, Going,
    Failed, NoFailure
<1>2. \A id \in Ids \ spoilt : CallerHolds(id)'
  BY CallOver DEF CallAnswers
<1> QED
  BY <1>1, <1>2, QuietUpdates

LEMMA CallUpdates ==
  ASSUME RepoTypeOK, UpdatesInv, NEW s \in Sessions,
         NEW op \in Ops, NEW ids \in (SUBSET Ids) \ {{}}, Call(s, op, ids)
  PROVE  UpdatesInv'
<1>0. UNCHANGED <<held, saved, spoilt>>
  BY DEF Call
<1>1. CASE ~ bound
  BY <1>0, <1>1, AnswersUpdates DEF Call
<1>2. CASE bound
  <2>1. call' = [call EXCEPT ![s] = [op |-> op, ids |-> ids]] /\ UNCHANGED txVars
    BY <1>2 DEF Call
  <2>2. op # "add" => \A id \in ids : Held(s, id)
    BY <1>2 DEF Call, CanCall, Held
  <2>3. \A t \in Sessions : call'[t] = IF t = s THEN [op |-> op, ids |-> ids] ELSE call[t]
    BY <2>1 DEF RepoTypeOK
  <2>4. \A id \in Ids \ spoilt : CallerHolds(id)'
    BY <1>0, <2>2, <2>3 DEF UpdatesInv, Clean, CallerHolds, Held
  <2> QED
    BY <1>0, <2>1, <2>4, QuietUpdates DEF txVars, store, control, history, Going, Failed
<1> QED
  BY <1>1, <1>2

LEMMA FindUpdates ==
  ASSUME RepoTypeOK, UpdatesInv, NEW s \in Sessions, NEW id \in Ids, Find(s, id)
  PROVE  UpdatesInv'
<1>0. UNCHANGED <<held, saved, spoilt>>
  BY DEF Find
<1>1. CASE Sees(s, id) = NoRow
  BY <1>0, <1>1, AnswersUpdates DEF Find
<1>2. CASE Sees(s, id) # NoRow
  <2>1. UNCHANGED <<txVars, call>>
    BY <1>2 DEF Find
  <2>2. \A x \in Ids \ spoilt : CallerHolds(x)'
    BY <1>0, <2>1, CallOver
  <2> QED
    BY <1>0, <2>1, <2>2, QuietUpdates DEF txVars, store, control, history, Going, Failed
<1> QED
  BY <1>1, <1>2

LEMMA CallFailsUpdates ==
  ASSUME RepoTypeOK, UpdatesInv, NEW s \in Sessions, CallFails(s)
  PROVE  UpdatesInv'
<1>1. /\ UNCHANGED <<rows, pending, savepoints, kept, written, held, saved, spoilt>>
      /\ call' = [call EXCEPT ![s] = NoCall]
      /\ Going' => Going
  BY DEF CallFails, StatementFails, FailsWith, Goto, txVars, store, control, history, Going,
    Failed, NoFailure
<1> QED
  BY <1>1, CallOver, QuietUpdates

LEMMA MapFailsUpdates ==
  ASSUME RepoTypeOK, UpdatesInv, NEW s \in Sessions, MapFails(s)
  PROVE  UpdatesInv'
  BY AnswersUpdates DEF MapFails

\* Who loads a row that another holds, or that the run has written, spoils it.
LEMMA LoadUpdates ==
  ASSUME TxTypeOK, RepoTypeOK, UpdatesInv, NEW s \in Sessions, NEW x \in Ids, Load(s, x)
  PROVE  UpdatesInv'
<1>1. /\ UNCHANGED <<txVars, call, saved>> /\ call[s] = NoCall /\ Sees(s, x) # NoRow
      /\ held' = [held EXCEPT ![s][x] = Sees(s, x)]
      /\ spoilt \subseteq spoilt'
      /\ x \notin spoilt' => /\ \A t \in Sessions \ {s} : ~ Held(t, x)
                             /\ s # Runner => x \notin DOMAIN pending
  BY DEF Load, MayCall, Held
<1>2. \A t \in Sessions, id \in Ids : held'[t][id] = IF t = s /\ id = x THEN Sees(s, x) ELSE held[t][id]
  BY <1>1 DEF RepoTypeOK
<1>3. UNCHANGED <<rows, pending, savepoints, kept, written>> /\ Going' = Going
  BY <1>1 DEF txVars, store, control, history, Going, Failed
<1>4. SavepointsNest'
  BY <1>3 DEF UpdatesInv, SavepointsNest
<1>5. ASSUME NEW id \in Ids \ spoilt' PROVE Clean(id)'
  <2>1. Clean(id) /\ id \in Ids
    BY <1>1 DEF UpdatesInv
  <2>2. OneHolder(id)'
    BY <1>1, <1>2, <2>1 DEF Clean, OneHolder, Held
  <2>3. HeldIsCurrent(id)'
    BY <1>1, <1>2, <1>3, <2>1, RunnerIsSession DEF Clean, HeldIsCurrent, Held, Sees, View
  <2>4. CallerHolds(id)'
    BY <1>1, <1>2, <2>1 DEF Clean, CallerHolds, Held
  <2>5. SavedIsThere(id)'
    BY <1>1, <1>3, <2>1 DEF Clean, SavedIsThere
  <2> QED
    BY <2>2, <2>3, <2>4, <2>5 DEF Clean
<1> QED
  BY <1>4, <1>5 DEF UpdatesInv

\* Who writes a row that is not spoilt holds it, and nobody else does.
LEMMA WriterHolds ==
  ASSUME RepoTypeOK, UpdatesInv, NEW s \in Sessions, Write(s),
         NEW id \in call[s].ids, id \notin spoilt'
  PROVE  /\ Clean(id) /\ Held(s, id) /\ \A t \in Sessions \ {s} : ~ Held(t, id)
         /\ ToData(s, call[s].op, id) = held[s][id] \cup {s}
<1>1. call[s].op \in {"save", "saveMultiple"} /\ spoilt \subseteq spoilt'
  BY DEF Write, FoundAll, Ops
<1>2. id \in Ids \ spoilt
  BY <1>1 DEF RepoTypeOK, NoCall
<1>3. Clean(id)
  BY <1>2 DEF UpdatesInv
<1>4. Held(s, id)
  BY <1>1, <1>3 DEF Clean, CallerHolds
<1> QED
  BY <1>1, <1>3, <1>4 DEF Clean, OneHolder, Held, ToData

\* A write gives up the rows it wrote and ends the call.
LEMMA WriteReleases ==
  ASSUME RepoTypeOK, UpdatesInv, NEW s \in Sessions, Write(s)
  PROVE  /\ \A t \in Sessions, id \in Ids :
              held'[t][id] = IF t = s /\ id \in call[s].ids THEN NoRow ELSE held[t][id]
         /\ \A id \in Ids :
              saved'[id] = IF id \in call[s].ids THEN saved[id] \cup {s} ELSE saved[id]
         /\ \A id \in Ids \ spoilt' : Clean(id) /\ OneHolder(id)' /\ CallerHolds(id)'
<1>1. /\ call' = [call EXCEPT ![s] = NoCall]
      /\ held' = [held EXCEPT ![s] = [id \in Ids |-> IF id \in call[s].ids THEN NoRow ELSE @[id]]]
      /\ saved' = [id \in Ids |-> IF id \in call[s].ids THEN saved[id] \cup {s} ELSE saved[id]]
      /\ spoilt \subseteq spoilt'
  BY DEF Write
<1>2. \A t \in Sessions, id \in Ids :
        held'[t][id] = IF t = s /\ id \in call[s].ids THEN NoRow ELSE held[t][id]
  BY <1>1 DEF RepoTypeOK
<1>3. \A t \in Sessions : call'[t] = IF t = s THEN NoCall ELSE call[t]
  BY <1>1 DEF RepoTypeOK
<1>4. ASSUME NEW id \in Ids \ spoilt'
      PROVE  Clean(id) /\ OneHolder(id)' /\ CallerHolds(id)'
  <2>1. Clean(id)
    BY <1>1 DEF UpdatesInv
  <2>2. OneHolder(id)'
    BY <1>2, <2>1 DEF Clean, OneHolder, Held
  <2>3. CallerHolds(id)'
    BY <1>2, <1>3, <2>1 DEF Clean, CallerHolds, Held, NoCall
  <2> QED
    BY <2>1, <2>2, <2>3
<1> QED
  BY <1>1, <1>2, <1>4

\* Outside of the run: the run has not written the row, nor will it restore it.
LEMMA OthersWriteUpdates ==
  ASSUME TxTypeOK, RepoTypeOK, UpdatesInv, NEW s \in Others, Write(s)
  PROVE  UpdatesInv'
<1> DEFINE ids == call[s].ids
           new == [id \in ids |-> ToData(s, call[s].op, id)]
<1>0. s \in Sessions /\ s # Runner
  BY RunnerIsSession
<1>1. /\ rows' = Overlay(new, rows)
      /\ UNCHANGED <<pending, savepoints, kept, written>> /\ Going' = Going
  BY <1>0 DEF Write, OthersWrite, control, history, Going, Failed
<1>2. \A id \in Ids : rows'[id] = IF id \in ids THEN ToData(s, call[s].op, id) ELSE rows[id]
  <2>1. call[s].op \in Ops /\ ids \in SUBSET Ids
    BY <1>0 DEF Write, FoundAll, RepoTypeOK, NoCall
  <2>2. new \in Written
    BY <1>0, <2>1, ToDataWritten
  <2>3. DOMAIN new = ids /\ \A id \in ids : new[id] = ToData(s, call[s].op, id)
    OBVIOUS
  <2> HIDE DEF new
  <2> QED
    BY <1>1, <2>2, <2>3, OverlayRows DEF RepoTypeOK
<1>3. SavepointsNest'
  BY <1>1 DEF UpdatesInv, SavepointsNest
<1>4. ASSUME NEW id \in Ids \ spoilt' PROVE Clean(id)'
  <2>1. Clean(id) /\ OneHolder(id)' /\ CallerHolds(id)'
    BY <1>0, WriteReleases
  <2>2. \A t \in Sessions : held'[t][id] = IF t = s /\ id \in ids THEN NoRow ELSE held[t][id]
    BY <1>0, WriteReleases
  <2>3. saved'[id] = IF id \in ids THEN saved[id] \cup {s} ELSE saved[id]
    BY <1>0, WriteReleases
  <2>4. CASE id \in ids
    <3>1. /\ Held(s, id) /\ \A t \in Sessions \ {s} : ~ Held(t, id)
          /\ rows'[id] = held[s][id] \cup {s}
      BY <1>0, <1>2, <2>4, WriterHolds
    <3>2. held[s][id] = rows[id] /\ id \notin DOMAIN pending
      BY <2>1, <3>1 DEF Clean, HeldIsCurrent
    <3>3. \A i \in DOMAIN savepoints : id \notin DOMAIN savepoints[i]
      BY <3>2 DEF UpdatesInv, SavepointsNest
    <3>4. HeldIsCurrent(id)'
      BY <1>0, <2>2, <2>4, <3>1, RunnerIsSession DEF HeldIsCurrent, Held
    <3>5. SavedIsThere(id)'
      BY <1>0, <1>1, <2>1, <2>3, <2>4, <3>1, <3>2, <3>3 DEF Clean, SavedIsThere
    <3> QED
      BY <2>1, <3>4, <3>5 DEF Clean
  <2>5. CASE id \notin ids
    BY <1>1, <1>2, <2>1, <2>2, <2>3, <2>5, RunnerIsSession
    DEF Clean, HeldIsCurrent, Held, View, SavedIsThere
  <2> QED
    BY <2>4, <2>5
<1> QED
  BY <1>3, <1>4 DEF UpdatesInv

\* In the run: it writes over what it sees of the row.
LEMMA RunnerWriteUpdates ==
  ASSUME TxInv, RepoTypeOK, UpdatesInv, Write(Runner)
  PROVE  UpdatesInv'
<1> DEFINE ids == call[Runner].ids
           new == [id \in ids |-> ToData(Runner, call[Runner].op, id)]
<1>0. Runner \in Sessions
  BY RunnerIsSession
<1>1. /\ pc = "op" /\ UNCHANGED <<rows, savepoints, kept>>
      /\ pending' = Overlay(new, pending) /\ written' = Overlay(new, written)
      /\ Going' = Going
  BY DEF Write, OpWrites, control, history, Going, Failed
<1>2. Going
  BY <1>1 DEF TxInv, Forward, Unwinding, Going
<1>3. /\ DOMAIN pending' = ids \cup DOMAIN pending /\ DOMAIN written' = ids \cup DOMAIN written
      /\ \A id \in ids : /\ pending'[id] = ToData(Runner, call[Runner].op, id)
                         /\ written'[id] = ToData(Runner, call[Runner].op, id)
      /\ \A id \in DOMAIN pending \ ids : pending'[id] = pending[id]
      /\ \A id \in DOMAIN written \ ids : written'[id] = written[id]
  BY <1>1 DEF Overlay
<1>4. SavepointsNest'
  BY <1>1, <1>3 DEF UpdatesInv, SavepointsNest
<1>5. ASSUME NEW id \in Ids \ spoilt' PROVE Clean(id)'
  <2>1. Clean(id) /\ OneHolder(id)' /\ CallerHolds(id)'
    BY <1>0, WriteReleases
  <2>2. \A t \in Sessions : held'[t][id] = IF t = Runner /\ id \in ids THEN NoRow ELSE held[t][id]
    BY <1>0, WriteReleases
  <2>3. saved'[id] = IF id \in ids THEN saved[id] \cup {Runner} ELSE saved[id]
    BY <1>0, WriteReleases
  <2>4. CASE id \in ids
    <3>1. /\ Held(Runner, id) /\ \A t \in Sessions \ {Runner} : ~ Held(t, id)
          /\ ToData(Runner, call[Runner].op, id) = held[Runner][id] \cup {Runner}
      BY <1>0, <2>4, WriterHolds
    <3>2. held[Runner][id] = View(id)
      BY <1>2, <2>1, <3>1 DEF Clean, HeldIsCurrent
    <3>3. HeldIsCurrent(id)'
      BY <2>2, <2>4, <3>1, RunnerIsSession DEF HeldIsCurrent, Held
    <3>4. SavedIsThere(id)'
      BY <1>1, <1>3, <2>1, <2>3, <2>4, <3>1, <3>2 DEF Clean, SavedIsThere, View
    <3> QED
      BY <2>1, <3>3, <3>4 DEF Clean
  <2>5. CASE id \notin ids
    <3>1. HeldIsCurrent(id)'
      BY <1>1, <1>3, <2>1, <2>2, <2>5, RunnerIsSession DEF Clean, HeldIsCurrent, Held, View
    <3>2. SavedIsThere(id)'
      BY <1>1, <1>3, <2>1, <2>3, <2>5 DEF Clean, SavedIsThere
    <3> QED
      BY <2>1, <3>1, <3>2 DEF Clean
  <2> QED
    BY <2>4, <2>5
<1> QED
  BY <1>4, <1>5 DEF UpdatesInv

\* The run forgets what is pending, or savepoints, and goes well only if it did.
LEMMA ForgetUpdates ==
  ASSUME UpdatesInv, UNCHANGED <<rows, kept, written, repoVars>>,
         \A i \in DOMAIN savepoints' : i \in DOMAIN savepoints /\ savepoints'[i] = savepoints[i],
         \/ pending' = pending /\ (Going' => Going)
         \/ pending' = Nothing /\ DOMAIN savepoints = {} /\ ~ Going'
  PROVE  UpdatesInv'
<1>1. SavepointsNest'
  BY DEF UpdatesInv, SavepointsNest
<1>2. \A id \in DOMAIN pending' : id \in DOMAIN pending /\ pending'[id] = pending[id]
  BY DEF Nothing
<1>3. ASSUME NEW id \in Ids \ spoilt' PROVE Clean(id)'
  <2>1. Clean(id)
    BY DEF UpdatesInv, repoVars
  <2>2. HeldIsCurrent(id)'
    BY <1>2, <2>1 DEF Clean, HeldIsCurrent, Held, View, repoVars
  <2>3. SavedIsThere(id)'
    BY <1>2, <2>1 DEF Clean, SavedIsThere, repoVars
  <2> QED
    BY <2>1, <2>2, <2>3 DEF Clean, OneHolder, Held, CallerHolds, repoVars
<1> QED
  BY <1>1, <1>3 DEF UpdatesInv

\* A COMMIT puts what the run sees of a row in its place.
LEMMA CommitUpdates ==
  ASSUME TxInv, RepoTypeOK, UpdatesInv, Commit, UNCHANGED <<written, repoVars>>,
         Going' => Going
  PROVE  UpdatesInv'
<1>0. TxTypeOK /\ (Going => ~ aborted)
  BY DEF TxInv, Forward, Going
<1>1. CASE depth = 1
  <2>1. DOMAIN savepoints = {} /\ savepoints' = savepoints /\ pending' = Nothing
    BY <1>0, <1>1 DEF TxTypeOK, Commit, store
  <2>2. CASE aborted
    BY <1>0, <1>1, <2>1, <2>2, ForgetUpdates DEF Commit, store
  <2>3. CASE ~ aborted
    <3>1. rows' = Overlay(pending, rows) /\ kept' = Overlay(pending, kept)
      BY <1>1, <2>3 DEF Commit, store
    <3>2. \A id \in Ids : rows'[id] = View(id)
      BY <1>0, <3>1, OverlayRows DEF TxTypeOK, RepoTypeOK, View
    <3>3. /\ DOMAIN kept' = DOMAIN pending \cup DOMAIN kept
          /\ \A id \in DOMAIN kept' : kept'[id] = IF id \in DOMAIN pending THEN pending[id] ELSE kept[id]
      BY <3>1 DEF Overlay
    <3>4. SavepointsNest'
      BY <2>1 DEF SavepointsNest
    <3>5. ASSUME NEW id \in Ids \ spoilt' PROVE Clean(id)'
      <4>1. Clean(id)
        BY DEF UpdatesInv, repoVars
      <4>2. id \notin DOMAIN pending' /\ View(id)' = View(id)
        BY <2>1, <3>2 DEF Nothing, View
      <4>3. HeldIsCurrent(id)'
        BY <3>2, <4>1, <4>2 DEF Clean, HeldIsCurrent, Held, View, repoVars
      <4>4. SavedIsThere(id)'
        BY <2>1, <3>2, <3>3, <4>1, <4>2 DEF Clean, SavedIsThere, View, repoVars
      <4> QED
        BY <4>1, <4>3, <4>4 DEF Clean, OneHolder, Held, CallerHolds, repoVars
    <3> QED
      BY <3>4, <3>5 DEF UpdatesInv
  <2> QED
    BY <2>2, <2>3
<1>2. CASE depth # 1
  <2>1. /\ UNCHANGED <<rows, pending, kept>>
        /\ savepoints' = savepoints \/ (savepoints' = SubSeq(savepoints, 1, depth - 2) /\ depth > 1)
    BY <1>2 DEF Commit, store
  <2>2. \A i \in DOMAIN savepoints' : i \in DOMAIN savepoints /\ savepoints'[i] = savepoints[i]
    BY <1>0, <2>1 DEF TxTypeOK
  <2> QED
    BY <2>1, <2>2, ForgetUpdates
<1> QED
  BY <1>1, <1>2

\* What a rollback goes back to, the others saw and left alone too.
LEMMA RollbackUpdates ==
  ASSUME TxTypeOK, UpdatesInv, Rollback, UNCHANGED <<written, repoVars>>, ~ Going'
  PROVE  UpdatesInv'
<1>1. UNCHANGED <<rows, kept>>
  BY DEF Rollback, store
<1>2. CASE depth = 0
  BY <1>1, <1>2, ForgetUpdates DEF Rollback, store
<1>3. CASE depth = 1
  <2>1. DOMAIN savepoints = {} /\ savepoints' = savepoints /\ pending' = Nothing
    BY <1>3 DEF TxTypeOK, Rollback, store
  <2> QED
    BY <1>1, <2>1, ForgetUpdates
<1>4. CASE depth > 1
  <2>1. pending' = savepoints[depth - 1] /\ savepoints' = SubSeq(savepoints, 1, depth - 2)
    BY <1>4 DEF Rollback, store
  <2>2. depth - 1 \in DOMAIN savepoints
    BY <1>4 DEF TxTypeOK
  <2>3. \A i \in DOMAIN savepoints' :
          i \in DOMAIN savepoints /\ i <= depth - 1 /\ savepoints'[i] = savepoints[i]
    BY <1>4, <2>1 DEF TxTypeOK
  <2>4. SavepointsNest'
    BY <2>1, <2>2, <2>3 DEF UpdatesInv, SavepointsNest
  <2>5. ASSUME NEW id \in Ids \ spoilt' PROVE Clean(id)'
    <3>1. Clean(id)
      BY DEF UpdatesInv, repoVars
    <3>2. id \in DOMAIN pending' => id \in DOMAIN pending
      BY <2>1, <2>2 DEF UpdatesInv, SavepointsNest
    <3>3. HeldIsCurrent(id)'
      BY <1>1, <3>1, <3>2 DEF Clean, HeldIsCurrent, Held, repoVars
    <3>4. SavedIsThere(id)'
      BY <1>1, <2>1, <2>2, <2>3, <3>1 DEF Clean, SavedIsThere, repoVars
    <3> QED
      BY <3>1, <3>3, <3>4 DEF Clean, OneHolder, Held, CallerHolds, repoVars
  <2> QED
    BY <2>4, <2>5 DEF UpdatesInv
<1> QED
  BY <1>2, <1>3, <1>4 DEF TxTypeOK

\* A savepoint is what is pending.
LEMMA BeginUpdates ==
  ASSUME TxTypeOK, UpdatesInv, RunBegins, UNCHANGED repoVars
  PROVE  UpdatesInv'
<1>1. UNCHANGED <<rows, pending, kept, written>> /\ Going' = Going
  BY DEF RunBegins, Begin, Goto, history, Going, Failed
<1>2. \A i \in DOMAIN savepoints' :
        \/ savepoints'[i] = pending /\ \A j \in DOMAIN savepoints' : j <= i
        \/ i \in DOMAIN savepoints /\ savepoints'[i] = savepoints[i]
  BY DEF RunBegins, Begin, TxTypeOK
<1>3. SavepointsNest'
  <2> SUFFICES ASSUME NEW i \in DOMAIN savepoints'
               PROVE  /\ DOMAIN savepoints'[i] \subseteq DOMAIN pending
                      /\ \A j \in DOMAIN savepoints' :
                           i <= j => DOMAIN savepoints'[i] \subseteq DOMAIN savepoints'[j]
    BY <1>1 DEF SavepointsNest
  <2>1. DOMAIN savepoints'[i] \subseteq DOMAIN pending
    BY <1>2 DEF UpdatesInv, SavepointsNest
  <2>2. ASSUME NEW j \in DOMAIN savepoints', i <= j
        PROVE  DOMAIN savepoints'[i] \subseteq DOMAIN savepoints'[j]
    <3>1. CASE savepoints'[j] = pending
      BY <2>1, <3>1
    <3>2. CASE j \in DOMAIN savepoints /\ savepoints'[j] = savepoints[j] /\ savepoints'[j] # pending
      <4>1. i = j \/ (i \in DOMAIN savepoints /\ savepoints'[i] = savepoints[i])
        BY <1>2, <2>2, <3>2 DEF RunBegins, Begin, TxTypeOK
      <4> QED
        BY <2>2, <3>2, <4>1 DEF UpdatesInv, SavepointsNest
    <3> QED
      BY <1>2, <3>1, <3>2
  <2> QED
    BY <2>1, <2>2
<1>4. ASSUME NEW id \in Ids \ spoilt' PROVE Clean(id)'
  <2>1. Clean(id)
    BY DEF UpdatesInv, repoVars
  <2>2. SavedIsThere(id)'
    BY <1>1, <1>2, <2>1 DEF Clean, SavedIsThere, repoVars
  <2> QED
    BY <1>1, <2>1, <2>2 DEF Clean, OneHolder, HeldIsCurrent, Held, View, CallerHolds, repoVars
<1> QED
  BY <1>3, <1>4 DEF UpdatesInv

LEMMA ControlUpdates ==
  ASSUME TxInv, RepoTypeOK, UpdatesInv, Control, UNCHANGED repoVars
  PROVE  UpdatesInv'
<1>0. TxTypeOK /\ UNCHANGED <<held, saved, spoilt>>
  BY DEF TxInv, repoVars
<1>1. \A id \in Ids \ spoilt : CallerHolds(id)'
  BY <1>0, RunnerIsSession, CallOver DEF repoVars
<1>2. CASE RunBegins
  BY <1>0, <1>2, BeginUpdates
<1>3. CASE BeginFails \/ Chain \/ RunEnds \/ MapThrows
  <2>1. UNCHANGED <<rows, pending, savepoints, kept, written>>
    BY <1>3 DEF BeginFails, Chain, RunEnds, MapThrows, store, history
  <2>2. Going' => Going
    BY <1>3 DEF BeginFails, Chain, RunEnds, MapThrows, FailsWith, NoFailure, Goto, history, Going, Failed
  <2> QED
    BY <1>0, <1>1, <2>1, <2>2, QuietUpdates
<1>4. CASE RunCommits
  <2>1. Commit /\ UNCHANGED written /\ (Going' => Going)
    BY <1>4 DEF RunCommits, Goto, history, Going, Failed
  <2> QED
    BY <2>1, CommitUpdates
<1>5. CASE CommitFails
  <2>1. /\ UNCHANGED <<rows, kept, written, savepoints>> /\ pending' = Nothing
        /\ DOMAIN savepoints = {} /\ ~ Going'
    BY <1>0, <1>5 DEF CommitFails, TxTypeOK, Going
  <2> QED
    BY <2>1, ForgetUpdates
<1>6. CASE RunEvaluates
  <2>1. CASE result = "left"
    <3>1. Rollback /\ UNCHANGED written
      BY <1>6, <2>1 DEF RunEvaluates, history
    <3>2. ~ Going'
      BY <1>6, <2>1 DEF RunEvaluates, Answer, history, Going, Failed, TxInv, Forward
    <3> QED
      BY <1>0, <3>1, <3>2, RollbackUpdates
  <2>2. CASE result # "left"
    <3>1. UNCHANGED <<rows, pending, savepoints, kept, written>> /\ (Going' => Going)
      BY <1>6, <2>2 DEF RunEvaluates, Answer, store, history, Going, Failed
    <3> QED
      BY <1>0, <1>1, <3>1, QuietUpdates
  <2> QED
    BY <2>1, <2>2
<1> QED
  BY <1>2, <1>3, <1>4, <1>5, <1>6 DEF Control

LEMMA UpdatesStep == RepoInv /\ UpdatesInv /\ [Next]_vars => UpdatesInv'
<1> SUFFICES ASSUME RepoInv, UpdatesInv, [Next]_vars PROVE UpdatesInv'
  OBVIOUS
<1>0. TxInv /\ TxTypeOK /\ RepoTypeOK
  BY DEF RepoInv, TxInv
<1>1. ASSUME NEW s \in Sessions, Step(s) PROVE UpdatesInv'
  <2>1. CASE \E id \in Ids : Load(s, id) \/ Find(s, id)
    BY <1>0, <2>1, LoadUpdates, FindUpdates
  <2>2. CASE \E op \in Ops, ids \in (SUBSET Ids) \ {{}} : Call(s, op, ids)
    BY <1>0, <2>2, CallUpdates
  <2>3. CASE Write(s)
    BY <1>0, <2>3, OthersWriteUpdates, RunnerWriteUpdates DEF Sessions
  <2>4. CASE CallFails(s)
    BY <1>0, <2>4, CallFailsUpdates
  <2>5. CASE MapFails(s)
    BY <1>0, <2>5, MapFailsUpdates
  <2> QED
    BY <1>1, <2>1, <2>2, <2>3, <2>4, <2>5 DEF Step
<1>2. CASE OperationEnds
  <2>1. UNCHANGED <<rows, pending, savepoints, kept, written, held, saved, spoilt, call>>
    BY <1>2 DEF OperationEnds, OpThrows, OpAnswers, store, history, repoVars
  <2>2. Going' => Going
    BY <1>2 DEF OperationEnds, OpThrows, OpAnswers, FailsWith, NoFailure, Goto, history, Going, Failed
  <2> QED
    BY <1>0, <2>1, <2>2, RunnerIsSession, CallOver, QuietUpdates
<1>3. CASE Control /\ UNCHANGED repoVars
  BY <1>0, <1>3, ControlUpdates
<1>4. CASE UNCHANGED vars
  <2>1. UNCHANGED <<rows, pending, savepoints, kept, written, held, saved, spoilt, call>> /\ Going' = Going
    BY <1>4 DEF vars, txVars, repoVars, store, control, history, Going, Failed
  <2> QED
    BY <1>0, <2>1, RunnerIsSession, CallOver, QuietUpdates
<1> QED
  BY <1>1, <1>2, <1>3, <1>4 DEF Next

\* With any number of sessions, in whatever order they load and save and the
\* run begins, commits and rolls back, a saved change stays in its row as long
\* as no two sessions held the row at a time: merging the whole aggregate over
\* a row looked up without a version (base-repository.ts:64-74) loses changes
\* in that case only.
THEOREM SavedChangesAreKept == Spec => []SavedChangesStay
<1>1. Init => RepoInv /\ UpdatesInv
  BY InitRepo, UpdatesInit
<1>2. RepoInv /\ UpdatesInv /\ [Next]_vars => RepoInv' /\ UpdatesInv'
  BY RepoStep, UpdatesStep
<1>3. RepoInv /\ UpdatesInv => SavedChangesStay
  <2> SUFFICES ASSUME RepoInv, UpdatesInv, NEW id \in Ids \ spoilt
               PROVE  /\ \A s \in saved[id] \ {Runner} : s \in rows[id]
                      /\ outcome = "right" /\ ~ commitFailed /\ Runner \in saved[id] =>
                           Runner \in rows[id]
    BY DEF SavedChangesStay
  <2>1. SavedIsThere(id)
    BY DEF UpdatesInv, Clean
  <2>2. outcome = "right" /\ ~ commitFailed => kept = written
    BY DEF RepoInv, TxInv, SuccessKeeps
  <2> QED
    BY <2>1, <2>2 DEF SavedIsThere
<1> QED
  BY <1>1, <1>2, <1>3, PTL DEF Spec
=============================================================================

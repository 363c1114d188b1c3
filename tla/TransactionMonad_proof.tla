------------------------- MODULE TransactionMonad_proof -------------------------
(***************************************************************************)
(* What a transaction run keeps, for any number of nested runs, any rows   *)
(* and any failures: TxInv is inductive.                                   *)
(***************************************************************************)
EXTENDS TransactionMonad, TLAPS

LEMMA OverlayWritten ==
  ASSUME NEW x \in Written, NEW y \in Written
  PROVE  Overlay(x, y) \in Written
<1>1. PICK D \in SUBSET Ids : x \in [D -> Rows]
  BY DEF Written
<1>2. PICK E \in SUBSET Ids : y \in [E -> Rows]
  BY DEF Written
<1>3. Overlay(x, y) \in [D \cup E -> Rows]
  BY <1>1, <1>2 DEF Overlay
<1> QED
  BY <1>3 DEF Written

LEMMA OverlayNothing ==
  ASSUME NEW x \in Written
  PROVE  Overlay(x, Nothing) = x
<1>1. PICK D \in SUBSET Ids : x \in [D -> Rows]
  BY DEF Written
<1> QED
  BY <1>1 DEF Overlay, Nothing

LEMMA NothingWritten == Nothing \in Written
<1>1. Nothing \in [{} -> Rows]
  BY DEF Nothing
<1> QED
  BY <1>1 DEF Written

\* SubSeq(s, 1, n) keeps the first n elements.
LEMMA Prefix ==
  ASSUME NEW S, NEW s \in Seq(S), NEW n \in Nat, n <= Len(s)
  PROVE  /\ SubSeq(s, 1, n) \in Seq(S) /\ Len(SubSeq(s, 1, n)) = n
         /\ n > 0 => SubSeq(s, 1, n)[1] = s[1]
  OBVIOUS

\* The parities the unwinding rests on.
LEMMA Parity ==
  ASSUME NEW f \in Int, NEW m \in Int
  PROVE  /\ 2 * f - m = 1 => Odd(m)
         /\ 2 * f - m = 0 => ~ Odd(m)
         /\ Odd(m - 1) <=> ~ Odd(m)
         /\ Odd(m + 1) <=> ~ Odd(m)
         /\ ~ Odd(0) /\ Odd(1)
  BY DEF Odd
-----------------------------------------------------------------------------
(* One lemma for every action.                                             *)

\* The properties ask nothing of a run that has not answered.
LEMMA Unanswered ==
  ASSUME TxTypeOK', Forward', Unwinding', NothingLeft', outcome' = "none", pc' # "done"
  PROVE  TxInv'
  BY DEF TxInv, FailureKeeps, SuccessKeeps, OpenOnlyAfterThrow

LEMMA InitInv == TxInit => TxInv
<1> SUFFICES ASSUME TxInit PROVE TxInv
  OBVIOUS
<1> USE DEF TxInit
<1>1. TxTypeOK
  <2>1. savepoints \in Seq(Written) /\ Len(savepoints) = 0 /\ savepoints = <<>>
    OBVIOUS
  <2>2. failure \in {NoFailure} \cup
                    [depth : Nat, kind : {"begin", "domain", "statement"}, outer : Written]
    OBVIOUS
  <2>3. depth = 0 /\ runs = 1 /\ started = 1 /\ aborted \in BOOLEAN /\ commitFailed \in BOOLEAN
    OBVIOUS
  <2>4. pending \in Written /\ kept \in Written /\ written \in Written
    BY NothingWritten
  <2> HIDE DEF TxInit
  <2>5. pc = "begin" /\ result = "none" /\ outcome = "none"
    BY DEF TxInit
  <2> QED
    BY <2>1, <2>2, <2>3, <2>4, <2>5 DEF TxTypeOK
<1>2. ~ Failed
  BY DEF Failed, NoFailure
<1>3. Forward /\ Unwinding /\ NothingLeft
  BY <1>2 DEF Forward, Unwinding, NothingLeft
<1> QED
  BY <1>1, <1>3 DEF TxInv, FailureKeeps, SuccessKeeps, OpenOnlyAfterThrow

LEMMA RunBeginsInv ==
  ASSUME TxInv, RunBegins
  PROVE  TxInv'
<1> USE DEF TxInv, RunBegins, Begin, Goto, history
<1>1. TxTypeOK'
  <2>1. savepoints' \in Seq(Written) /\ Len(savepoints') = depth
    <3>1. CASE depth = 0
      BY <3>1
    <3>2. CASE depth > 0
      BY <3>2 DEF TxTypeOK
    <3> QED
      BY <3>1, <3>2 DEF TxTypeOK
  <2> QED
    BY <2>1 DEF TxTypeOK
<1>2. Forward'
  BY DEF TxTypeOK, Forward, Unwinding, Failed
<1>3. Unwinding' /\ NothingLeft'
  BY DEF TxTypeOK, Forward, Unwinding, Failed, NothingLeft
<1> QED
  BY <1>1, <1>2, <1>3, Unanswered

\* Where the first failure happens.
LEMMA FirstFailure ==
  ASSUME TxInv, pc \in {"begin", "op"}, NEW kind \in {"begin", "domain", "statement"}, FailsWith(kind)
  PROVE  /\ ~ Failed /\ ~ aborted /\ ~ commitFailed
         /\ depth = IF pc = "begin" THEN runs - 1 ELSE runs
         /\ pending = (IF depth > 0 THEN written ELSE Nothing) /\ (depth > 0 => kept = Nothing)
         /\ Failed' /\ result' = "left" /\ failure'.kind = kind /\ failure'.depth = depth
         /\ failure'.outer = IF depth > 1 THEN savepoints[1] ELSE pending
         /\ failure' \in [depth : Nat, kind : {"begin", "domain", "statement"}, outer : Written]
<1>1. ~ Failed /\ failure = NoFailure
  BY DEF TxInv, TxTypeOK, Unwinding, Failed, NoFailure
<1>2. /\ ~ aborted /\ ~ commitFailed /\ depth = IF pc = "begin" THEN runs - 1 ELSE runs
      /\ pending = (IF depth > 0 THEN written ELSE Nothing) /\ (depth > 0 => kept = Nothing)
  BY <1>1 DEF TxInv, Forward, TxTypeOK
<1>3. failure' = [depth |-> depth, kind |-> kind,
                  outer |-> IF depth > 1 THEN savepoints[1] ELSE pending]
  BY <1>1 DEF FailsWith
<1>4. depth > 1 => savepoints[1] \in Written
  BY DEF TxInv, TxTypeOK
<1>5. failure' \in [depth : Nat, kind : {"begin", "domain", "statement"}, outer : Written]
  BY <1>3, <1>4 DEF TxInv, TxTypeOK
<1> QED
  BY <1>1, <1>2, <1>3, <1>5 DEF Failed, FailsWith

LEMMA BeginFailsInv ==
  ASSUME TxInv, BeginFails
  PROVE  TxInv'
<1> USE DEF BeginFails, Goto
<1>1. /\ ~ commitFailed /\ depth = runs - 1 /\ result' = "left" /\ Failed'
      /\ failure'.kind = "begin" /\ failure'.depth = depth
      /\ pending = (IF depth > 0 THEN written ELSE Nothing)
      /\ failure'.outer = IF depth > 1 THEN savepoints[1] ELSE pending
      /\ failure' \in [depth : Nat, kind : {"begin", "domain", "statement"}, outer : Written]
  BY FirstFailure DEF TxInv, TxTypeOK
<1>2. kept = Nothing
  BY <1>1, FirstFailure DEF TxInv, TxTypeOK, Forward
<1>3. TxTypeOK' /\ Forward' /\ NothingLeft'
  BY <1>1 DEF TxInv, TxTypeOK, Forward, NothingLeft, Failed
<1>4. Unwinding'
  <2>1. depth = 0 => Level' = 0 /\ pending' = Nothing /\ failure'.outer = Nothing
    BY <1>1 DEF Level
  <2>2. /\ aborted' <=> depth > 0
        /\ pc' = "commit" /\ depth' = depth /\ runs' = runs /\ savepoints' = savepoints
        /\ kept' = Nothing /\ depth \in Nat
    BY <1>2 DEF TxInv, TxTypeOK
  <2>3. CASE depth = 0
    <3>1. Level' = 0 /\ ~ aborted' /\ depth' = 0 /\ pending' = Nothing /\ kept' = Nothing
      BY <2>1, <2>2, <2>3
    <3>2. failure'.kind = "begin" /\ failure'.depth = 0 /\ failure'.outer = Nothing
      BY <1>1, <2>1, <2>3
    <3> HIDE DEF BeginFails, Goto
    <3> QED
      BY <1>1, <2>2, <3>1, <3>2 DEF Unwinding
  <2>4. CASE depth > 0
    <3>1. runs' = depth + 1
      BY <1>1, <2>2 DEF TxInv, TxTypeOK
    <3> QED
      BY <1>1, <2>2, <2>4, <3>1 DEF Unwinding
  <2> QED
    BY <2>2, <2>3, <2>4
<1> QED
  BY <1>3, <1>4, Unanswered DEF TxInv

LEMMA OpWritesInv ==
  ASSUME TxInv, NEW new \in Written, OpWrites(new)
  PROVE  TxInv'
<1> USE DEF TxInv, OpWrites, control
<1>1. TxTypeOK'
  BY OverlayWritten DEF TxTypeOK
<1>2. Forward'
  BY DEF TxTypeOK, Forward, Unwinding, Failed
<1>3. Unwinding' /\ NothingLeft'
  BY DEF TxTypeOK, Forward, Unwinding, Failed, NothingLeft
<1> QED
  BY <1>1, <1>2, <1>3, Unanswered

LEMMA OpAnswersInv ==
  ASSUME TxInv, NEW r \in {"left", "right"}, OpAnswers(r)
  PROVE  TxInv'
<1> USE DEF OpAnswers, Goto, store
<1>1. CASE r = "right"
  <2>0. ~ Failed /\ ~ commitFailed
    BY DEF TxInv, TxTypeOK, Forward, Unwinding
  <2>1. TxTypeOK' /\ Forward' /\ NothingLeft'
    BY <1>1, <2>0 DEF TxInv, TxTypeOK, Forward, NothingLeft, Failed
  <2>2. Unwinding'
    BY <1>1, <2>0 DEF TxInv, TxTypeOK, Unwinding, Failed
  <2> QED
    BY <2>1, <2>2, <1>1, Unanswered DEF TxInv
<1>2. CASE r = "left"
  <2>1. /\ ~ aborted /\ ~ commitFailed /\ depth = runs /\ pending = written /\ kept = Nothing
        /\ Failed' /\ result' = "left" /\ failure'.kind = "domain" /\ failure'.depth = depth
        /\ failure'.outer = IF depth > 1 THEN savepoints[1] ELSE pending
        /\ failure' \in [depth : Nat, kind : {"begin", "domain", "statement"}, outer : Written]
    BY <1>2, FirstFailure DEF TxInv, TxTypeOK
  <2>2. TxTypeOK' /\ Forward' /\ NothingLeft'
    BY <2>1, <1>2 DEF TxInv, TxTypeOK, Forward, NothingLeft, Failed
  <2>3. Level' = depth /\ Left' = depth
    BY <2>1, <1>2 DEF Level, Left, TxInv, TxTypeOK
  <2>4. Unwinding'
    BY <2>1, <2>3, <1>2 DEF TxInv, TxTypeOK, Unwinding
  <2> QED
    BY <2>2, <2>4, <1>2, Unanswered DEF TxInv
<1> QED
  BY <1>1, <1>2

LEMMA StatementFailsInv ==
  ASSUME TxInv, StatementFails
  PROVE  TxInv'
<1> USE DEF StatementFails, Goto
<1>1. /\ ~ commitFailed /\ depth = runs /\ kept = Nothing
      /\ Failed' /\ result' = "left" /\ failure'.kind = "statement" /\ failure'.depth = depth
      /\ failure'.outer = IF depth > 1 THEN savepoints[1] ELSE pending
      /\ failure' \in [depth : Nat, kind : {"begin", "domain", "statement"}, outer : Written]
  BY FirstFailure DEF TxInv, TxTypeOK
<1>2. TxTypeOK' /\ Forward' /\ NothingLeft'
  BY <1>1 DEF TxInv, TxTypeOK, Forward, NothingLeft, Failed
<1>3. Unwinding'
  BY <1>1 DEF TxInv, TxTypeOK, Unwinding
<1> QED
  BY <1>2, <1>3, Unanswered DEF TxInv

LEMMA OpThrowsInv ==
  ASSUME TxInv, OpThrows
  PROVE  TxInv'
  BY DEF TxInv, OpThrows, store, history, TxTypeOK, Forward, Unwinding, NothingLeft, Failed,
     FailureKeeps, SuccessKeeps, OpenOnlyAfterThrow

LEMMA ChainInv ==
  ASSUME TxInv, Chain
  PROVE  TxInv'
<1> USE DEF TxInv, Chain, store, history
<1>1. TxTypeOK'
  BY DEF TxTypeOK
<1>2. Forward'
  BY DEF TxTypeOK, Forward, Unwinding, Failed
<1>3. Unwinding' /\ NothingLeft'
  BY DEF TxTypeOK, Forward, Unwinding, Failed, NothingLeft
<1> QED
  BY <1>1, <1>2, <1>3, Unanswered

LEMMA RunEndsInv ==
  ASSUME TxInv, RunEnds
  PROVE  TxInv'
<1> USE DEF TxInv, RunEnds, Goto, store, history
<1>1. TxTypeOK' /\ Forward' /\ NothingLeft'
  BY DEF TxTypeOK, Forward, Failed, NothingLeft
<1>2. Unwinding'
  BY DEF TxTypeOK, Unwinding, Failed, Level, Left, Kept
<1> QED
  BY <1>1, <1>2, Unanswered

LEMMA MapThrowsInv ==
  ASSUME TxInv, MapThrows
  PROVE  TxInv'
  BY DEF TxInv, MapThrows, store, history, TxTypeOK, Forward, Unwinding, NothingLeft, Failed,
     FailureKeeps, SuccessKeeps, OpenOnlyAfterThrow

LEMMA OthersWriteInv ==
  ASSUME TxInv, NEW new \in Written, OthersWrite(new)
  PROVE  TxInv'
  BY DEF TxInv, OthersWrite, control, history, TxTypeOK, Forward, Unwinding, NothingLeft, Failed,
     Level, Left, Kept, FailureKeeps, SuccessKeeps, OpenOnlyAfterThrow
-----------------------------------------------------------------------------
(* Commits and rollbacks.                                                  *)

\* What becomes of the savepoints when the depth goes down by one.
LEMMA Shorter ==
  ASSUME TxTypeOK, depth > 1
  PROVE  /\ SubSeq(savepoints, 1, depth - 2) \in Seq(Written)
         /\ Len(SubSeq(savepoints, 1, depth - 2)) = depth - 2
         /\ depth > 2 => SubSeq(savepoints, 1, depth - 2)[1] = savepoints[1]
         /\ savepoints[depth - 1] \in Written
<1>1. depth \in Nat /\ depth - 2 \in Nat /\ savepoints \in Seq(Written) /\ Len(savepoints) = depth - 1
  BY DEF TxTypeOK
<1>2. savepoints[depth - 1] \in Written
  BY <1>1
<1>3. depth - 2 <= Len(savepoints)
  BY <1>1
<1> HIDE DEF TxTypeOK
<1> DEFINE n == depth - 2
<1>4. n \in Nat /\ n <= Len(savepoints) /\ (depth > 2 => n > 0)
  BY <1>1, <1>3
<1> HIDE DEF n
<1>5. /\ SubSeq(savepoints, 1, n) \in Seq(Written) /\ Len(SubSeq(savepoints, 1, n)) = n
      /\ n > 0 => SubSeq(savepoints, 1, n)[1] = savepoints[1]
  BY <1>1, <1>4, Prefix
<1> QED
  BY <1>2, <1>4, <1>5 DEF n

StoreTypeOK ==
  /\ pending \in Written /\ kept \in Written /\ depth \in Nat /\ aborted \in BOOLEAN
  /\ savepoints \in Seq(Written) /\ Len(savepoints) = (IF depth = 0 THEN 0 ELSE depth - 1)

LEMMA CommitType ==
  ASSUME TxTypeOK, Commit
  PROVE  StoreTypeOK'
<1>1. CASE depth = 1
  <2>1. savepoints' = savepoints /\ pending' = Nothing /\ depth' = 0
        /\ (kept' = kept \/ kept' = Overlay(pending, kept)) /\ aborted' = FALSE
    BY <1>1 DEF Commit
  <2>2. pending \in Written /\ kept \in Written /\ savepoints \in Seq(Written) /\ Len(savepoints) = 0
    BY <1>1 DEF TxTypeOK
  <2>3. kept' \in Written
    BY <2>1, <2>2, OverlayWritten
  <2> QED
    BY <2>1, <2>2, <2>3, NothingWritten DEF StoreTypeOK
<1>2. CASE depth > 1 /\ ~ aborted
  <2>1. /\ savepoints' = SubSeq(savepoints, 1, depth - 2) /\ depth' = depth - 1
        /\ pending' = pending /\ kept' = kept /\ aborted' = aborted
    BY <1>2 DEF Commit, store
  <2>2. /\ depth \in Nat /\ pending \in Written /\ kept \in Written /\ aborted \in BOOLEAN
    BY DEF TxTypeOK
  <2>3. savepoints' \in Seq(Written) /\ Len(savepoints') = depth - 2
    BY <1>2, <2>1, Shorter
  <2>4. depth' \in Nat /\ depth' # 0 /\ depth - 2 = depth' - 1
    BY <1>2, <2>1, <2>2
  <2>5. Len(savepoints') = (IF depth' = 0 THEN 0 ELSE depth' - 1)
    BY <2>3, <2>4
  <2> QED
    BY <2>1, <2>2, <2>3, <2>4, <2>5 DEF StoreTypeOK
<1>3. CASE depth = 0 \/ (depth > 1 /\ aborted)
  BY <1>3 DEF Commit, store, TxTypeOK, StoreTypeOK
<1> QED
  BY <1>1, <1>2, <1>3 DEF TxTypeOK

LEMMA RollbackType ==
  ASSUME TxTypeOK, Rollback
  PROVE  StoreTypeOK'
<1>1. CASE depth = 1
  <2>1. savepoints' = savepoints /\ pending' = Nothing /\ depth' = 0 /\ kept' = kept /\ aborted' = FALSE
    BY <1>1 DEF Rollback, store
  <2>2. kept \in Written /\ savepoints \in Seq(Written) /\ Len(savepoints) = 0
    BY <1>1 DEF TxTypeOK
  <2> QED
    BY <2>1, <2>2, NothingWritten DEF StoreTypeOK
<1>2. CASE depth > 1
  <2>1. /\ savepoints' = SubSeq(savepoints, 1, depth - 2) /\ pending' = savepoints[depth - 1]
        /\ depth' = depth - 1 /\ kept' = kept /\ aborted' = FALSE
    BY <1>2 DEF Rollback, store
  <2>2. depth \in Nat /\ kept \in Written
    BY DEF TxTypeOK
  <2>3. /\ savepoints' \in Seq(Written) /\ Len(savepoints') = depth - 2
        /\ pending' \in Written
    BY <1>2, <2>1, Shorter
  <2>4. depth' \in Nat /\ depth' # 0 /\ depth - 2 = depth' - 1
    BY <1>2, <2>1, <2>2
  <2>5. Len(savepoints') = (IF depth' = 0 THEN 0 ELSE depth' - 1)
    BY <2>3, <2>4
  <2> QED
    BY <2>1, <2>2, <2>3, <2>4, <2>5 DEF StoreTypeOK
<1>3. CASE depth = 0
  BY <1>3 DEF Rollback, store, TxTypeOK, StoreTypeOK
<1> QED
  BY <1>1, <1>2, <1>3 DEF TxTypeOK

LEMMA RunCommitsInv ==
  ASSUME TxInv, RunCommits
  PROVE  TxInv'
<1> USE DEF RunCommits, Goto, history
<1>1. TxTypeOK'
  BY CommitType DEF TxInv, TxTypeOK, StoreTypeOK
<1>2. CASE ~ Failed
  <2>1. /\ ~ commitFailed /\ depth = runs /\ pending = written /\ kept = Nothing /\ ~ aborted
        /\ result = "right" /\ pending \in Written
    BY <1>2 DEF TxInv, TxTypeOK, Forward
  <2>2. CASE depth = 1
    <3>1. pending' = Nothing /\ depth' = 0 /\ aborted' = FALSE /\ kept' = Overlay(pending, kept)
      BY <2>1, <2>2 DEF Commit, store
    <3>2. kept' = written'
      BY <3>1, <2>1, OverlayNothing
    <3> QED
      BY <3>1, <3>2, <2>1, <2>2, <1>1, <1>2, Unanswered
         DEF TxInv, Forward, Unwinding, NothingLeft, Failed
  <2>3. CASE depth > 1
    <3>1. depth' = depth - 1 /\ UNCHANGED <<pending, kept, aborted>>
      BY <2>1, <2>3 DEF Commit, store
    <3> QED
      BY <3>1, <2>1, <2>3, <1>1, <1>2, Unanswered
         DEF TxInv, TxTypeOK, Forward, Unwinding, NothingLeft, Failed
  <2> QED
    BY <2>1, <2>2, <2>3 DEF TxInv, TxTypeOK
<1>3. CASE Failed /\ commitFailed
  <2>1. UNCHANGED store
    BY <1>3 DEF TxInv, NothingLeft, Commit
  <2> QED
    BY <2>1, <1>3, <1>1, Unanswered DEF TxInv, TxTypeOK, Forward, Unwinding, NothingLeft, Failed, store
<1>4. CASE Failed /\ ~ commitFailed
  <2>1. Failed' /\ Level' = Level /\ Kept' = Kept /\ Left' = Left - 1 /\ Left = 2 * runs - Level
        /\ failure.depth \in Nat /\ Level \in Int /\ failure.outer \in Written
    BY <1>4 DEF TxInv, TxTypeOK, Failed, Level, Kept, Left, NoFailure
  <2>2. Forward' /\ NothingLeft'
    BY <1>4, <2>1 DEF Forward, NothingLeft
  <2>3. /\ result = "left" /\ (failure.kind # "begin" => failure.depth > 0)
        /\ failure.kind = "begin" /\ failure.depth = 0 => failure.outer = Nothing
    BY <1>4 DEF TxInv, Unwinding
  <2>4. CASE aborted
    <3>1. /\ failure.kind # "domain" /\ depth = failure.depth /\ depth > 0 /\ kept = Nothing
          /\ runs = IF failure.kind = "begin" THEN depth + 1 ELSE depth
          /\ depth > 1 => savepoints[1] = failure.outer
      BY <2>4, <1>4 DEF TxInv, Unwinding
    <3>0. failure.kind \in {"begin", "statement"}
      BY <3>1, <1>4 DEF TxInv, TxTypeOK, Failed, NoFailure
    <3>2. CASE depth = 1
      <4>1. pending' = Nothing /\ depth' = 0 /\ aborted' = FALSE /\ kept' = kept
        BY <2>4, <3>2 DEF Commit, store
      <4>2. Unwinding'
        BY <4>1, <3>0, <3>1, <3>2, <2>1, <2>3 DEF Unwinding, Level
      <4> QED
        BY <4>2, <1>1, <2>2, Unanswered DEF TxInv
    <3>3. CASE depth > 1
      <4>1. UNCHANGED store
        BY <2>4, <3>3 DEF Commit
      <4>2. Unwinding'
        BY <4>1, <3>1, <3>3, <2>1, <2>3, <2>4, <1>4 DEF Unwinding, store
      <4> QED
        BY <4>2, <1>1, <2>2, Unanswered DEF TxInv
    <3> QED
      BY <3>2, <3>3, <3>1 DEF TxInv, TxTypeOK
  <2>5. CASE ~ aborted /\ Level = 0
    <3>1. depth = 0 /\ pending = Nothing /\ kept = Nothing
      BY <2>5, <1>4 DEF TxInv, Unwinding
    <3>2. UNCHANGED store
      BY <3>1 DEF Commit
    <3>3. Unwinding'
      BY <3>1, <3>2, <2>1, <2>3, <2>5, <1>4 DEF Unwinding, store
    <3> QED
      BY <3>3, <1>1, <2>2, Unanswered DEF TxInv
  <2>6. CASE ~ aborted /\ Level > 0
    <3>1. /\ runs <= Level /\ depth = (IF Left > 0 THEN Left ELSE 0)
          /\ depth = 1 => pending = failure.outer
          /\ depth = 0 => pending = Nothing
          /\ kept = IF depth > 0 THEN Nothing ELSE Kept
          /\ depth > 1 => savepoints[1] = failure.outer
      BY <2>6, <1>4 DEF TxInv, Unwinding
    <3>2. CASE depth = 1
      <4>1. pending' = Nothing /\ depth' = 0 /\ aborted' = FALSE /\ kept' = Overlay(pending, kept)
        BY <2>6, <3>2 DEF Commit, store
      <4>2. 2 * runs - Level = 1 /\ runs \in Int
        BY <3>1, <3>2, <2>1 DEF TxInv, TxTypeOK
      <4>3. Odd(Level)
        BY <4>2, <2>1, Parity
      <4>4. kept' = Kept
        BY <4>1, <4>3, <3>1, <3>2, <2>1, OverlayNothing DEF Kept
      <4>5. Unwinding'
        BY <4>1, <4>4, <4>2, <3>1, <2>1, <2>3, <2>6 DEF Unwinding
      <4> QED
        BY <4>5, <1>1, <2>2, Unanswered DEF TxInv
    <3>3. CASE depth > 1
      <4>1. depth' = depth - 1 /\ UNCHANGED <<pending, kept, aborted>>
            /\ savepoints' = SubSeq(savepoints, 1, depth - 2)
        BY <2>6, <3>3 DEF Commit, store
      <4>2. depth' > 1 => savepoints'[1] = failure.outer
        BY <4>1, <3>1, <3>3, Shorter DEF TxInv, TxTypeOK
      <4>3. Unwinding'
        BY <4>1, <4>2, <3>1, <3>3, <2>1, <2>3, <2>6 DEF Unwinding, TxInv, TxTypeOK
      <4> QED
        BY <4>3, <1>1, <2>2, Unanswered DEF TxInv
    <3>4. CASE depth = 0
      <4>1. UNCHANGED store
        BY <3>4 DEF Commit
      <4>2. Unwinding'
        BY <4>1, <3>1, <3>4, <2>1, <2>3, <2>6 DEF Unwinding, store, TxInv, TxTypeOK
      <4> QED
        BY <4>2, <1>1, <2>2, Unanswered DEF TxInv
    <3> QED
      BY <3>2, <3>3, <3>4 DEF TxInv, TxTypeOK
  <2>7. Level >= 0
    BY <2>1, <2>3, <1>4 DEF Level
  <2> QED
    BY <2>4, <2>5, <2>6, <2>7, <2>1 DEF TxInv, TxTypeOK
<1> QED
  BY <1>2, <1>3, <1>4

LEMMA CommitFailsInv ==
  ASSUME TxInv, CommitFails
  PROVE  TxInv'
<1> USE DEF CommitFails, Goto
<1>1. TxTypeOK'
  BY NothingWritten DEF TxInv, TxTypeOK
<1>2. ~ Failed => runs = 1 /\ kept = Nothing /\ ~ commitFailed
  BY DEF TxInv, TxTypeOK, Forward
<1>3. Failed => kept = Nothing
  <2>1. SUFFICES ASSUME Failed, ~ commitFailed PROVE kept = Nothing
    BY DEF TxInv, NothingLeft
  <2>2. Level >= 0
    BY <2>1 DEF TxInv, TxTypeOK, Unwinding, Level, Failed, NoFailure
  <2>3. Level \in Int
    BY <2>1 DEF TxInv, TxTypeOK, Level, Failed, NoFailure
  <2> QED
    BY <2>1, <2>2, <2>3 DEF TxInv, Unwinding
<1>4. Forward' /\ NothingLeft'
  BY <1>2, <1>3 DEF TxInv, TxTypeOK, Forward, NothingLeft, Failed
<1>5. Unwinding'
  BY <1>2, <1>3 DEF TxInv, Unwinding, Failed
<1> QED
  BY <1>1, <1>4, <1>5, Unanswered DEF TxInv
LEMMA RunEvaluatesInv ==
  ASSUME TxInv, RunEvaluates
  PROVE  TxInv'
<1> USE DEF RunEvaluates, history
<1>0. /\ runs' = (IF runs = 1 THEN runs ELSE runs - 1) /\ result' = result
      /\ pc' = (IF runs = 1 THEN "done" ELSE "answered")
      /\ outcome' = (IF runs = 1 THEN result ELSE outcome) /\ started' = started
  BY DEF Answer
<1>1. TxTypeOK'
  <2>1. StoreTypeOK'
    BY RollbackType DEF TxInv, TxTypeOK, StoreTypeOK, store
  <2> QED
    BY <2>1, <1>0 DEF TxInv, TxTypeOK, StoreTypeOK
<1>2. CASE ~ Failed
  <2>1. result = "right" /\ UNCHANGED store /\ ~ aborted
    BY <1>2 DEF TxInv, TxTypeOK, Forward
  <2>2. CASE commitFailed
    <3>1. runs = 1 /\ pending = Nothing /\ kept = Nothing
      BY <1>2, <2>2 DEF TxInv, TxTypeOK, Forward, NothingLeft
    <3> QED
      BY <3>1, <1>0, <1>1, <1>2, <2>1, <2>2 DEF TxInv, Forward, Unwinding, NothingLeft, Failed, store,
         FailureKeeps, SuccessKeeps, OpenOnlyAfterThrow
  <2>3. CASE ~ commitFailed
    <3>1. /\ depth = runs - 1 /\ (depth > 0 => pending = written /\ kept = Nothing)
          /\ (depth = 0 => pending = Nothing /\ kept = written) /\ runs \in Nat \ {0}
      BY <1>2, <2>3 DEF TxInv, TxTypeOK, Forward
    <3>2. CASE runs = 1
      BY <3>1, <3>2, <1>0, <1>1, <1>2, <2>1, <2>3 DEF TxInv, Forward, Unwinding, NothingLeft, Failed,
         store, FailureKeeps, SuccessKeeps, OpenOnlyAfterThrow
    <3>3. CASE runs # 1
      <4>1. outcome' = "none" /\ pc' = "answered" /\ runs' = runs - 1 /\ ~ Failed' /\ depth' = depth
        BY <3>3, <1>0, <1>2, <2>1 DEF TxInv, Failed, store
      <4>2. Forward' /\ Unwinding' /\ NothingLeft'
        BY <4>1, <3>1, <2>1, <2>3, <1>0 DEF Forward, Unwinding, NothingLeft, store
      <4> QED
        BY <4>1, <4>2, <1>1, Unanswered
    <3> QED
      BY <3>2, <3>3
  <2> QED
    BY <2>2, <2>3
<1>3. CASE Failed
  <2>1. /\ Failed' /\ Level' = Level /\ Kept' = Kept /\ Left = 2 * runs - Level - 1
        /\ failure.depth \in Nat /\ Level \in Int /\ failure.outer \in Written
        /\ result = "left" /\ (failure.kind # "begin" => failure.depth > 0) /\ Rollback
        /\ failure.kind = "begin" /\ failure.depth = 0 => failure.outer = Nothing
        /\ runs \in Nat \ {0} /\ depth \in Nat
    BY <1>3 DEF TxInv, TxTypeOK, Unwinding, Failed, Level, Kept, Left, NoFailure
  <2>2. runs # 1 => Left' = 2 * runs - 2 - Level
    BY <2>1, <1>0 DEF Left
  <2>3. CASE commitFailed
    <3>1. pending' = Nothing /\ kept' = Nothing /\ ~ aborted' /\ depth' = 0
      BY <2>1, <2>3 DEF TxInv, NothingLeft, Rollback, store
    <3> QED
      BY <3>1, <2>1, <2>3, <1>0, <1>1, <1>3 DEF TxInv, Forward, Unwinding, NothingLeft,
         FailureKeeps, SuccessKeeps, OpenOnlyAfterThrow
  <2>4. CASE ~ commitFailed /\ runs = 1
    <3>1. ~ aborted /\ depth = 0 /\ pending = Nothing /\ kept = Kept
      <4>1. ~ aborted
        BY <2>1, <2>4, <1>3 DEF TxInv, Unwinding
      <4>2. CASE Level = 0
        <5>1. ~ Odd(Level)
          BY <4>2, Parity
        <5> QED
          BY <4>1, <4>2, <5>1, <2>4, <1>3 DEF TxInv, Unwinding, Kept
      <4>3. CASE Level > 0
        BY <4>1, <4>3, <2>1, <2>4, <1>3 DEF TxInv, Unwinding
      <4>4. Level >= 0
        BY <2>1 DEF Level
      <4> QED
        BY <4>2, <4>3, <4>4, <2>1
    <3>2. UNCHANGED store
      BY <3>1, <2>1 DEF Rollback
    <3>3. Kept = IF failure.kind = "domain" <=> Odd(failure.depth)
                   THEN failure.outer ELSE Nothing
      <4>1. failure.kind \in {"begin", "domain", "statement"}
        BY <1>3 DEF TxInv, TxTypeOK, Failed, NoFailure
      <4>2. /\ Odd(failure.depth - 1) <=> ~ Odd(failure.depth)
            /\ Odd(failure.depth + 1) <=> ~ Odd(failure.depth)
            /\ ~ Odd(0) /\ Odd(1)
        BY <2>1, Parity
      <4>3. CASE failure.kind = "begin" /\ failure.depth <= 1
        <5>1. failure.depth = 0 \/ failure.depth = 1
          BY <4>3, <2>1
        <5> QED
          BY <5>1, <4>2, <4>3, <2>1 DEF Kept, Level
      <4>4. CASE failure.kind = "begin" /\ failure.depth > 1
        BY <4>2, <4>4 DEF Kept, Level
      <4>5. CASE failure.kind # "begin"
        BY <4>1, <4>2, <4>5 DEF Kept, Level
      <4> QED
        BY <4>3, <4>4, <4>5, <2>1
    <3>4. pc' = "done" /\ outcome' = "left" /\ pending' = Nothing /\ kept' = Kept /\ ~ commitFailed'
      BY <3>1, <3>2, <2>1, <2>4, <1>0 DEF store
    <3>5. FailureKeeps' /\ SuccessKeeps' /\ OpenOnlyAfterThrow'
      BY <3>3, <3>4 DEF FailureKeeps, SuccessKeeps, OpenOnlyAfterThrow
    <3>6. Forward' /\ Unwinding' /\ NothingLeft'
      BY <3>4 DEF Forward, Unwinding, NothingLeft
    <3> QED
      BY <3>4, <3>5, <3>6, <1>1 DEF TxInv
  <2>5. CASE ~ commitFailed /\ runs # 1
    <3>1. Forward' /\ NothingLeft' /\ outcome' = "none" /\ pc' = "answered" /\ runs' = runs - 1
      BY <2>1, <2>5, <1>0 DEF TxInv, Forward, NothingLeft
    <3>2. CASE aborted
      <4>1. /\ failure.kind # "domain" /\ depth = failure.depth /\ kept = Nothing
            /\ runs = IF failure.kind = "begin" THEN depth + 1 ELSE depth
            /\ depth > 1 /\ savepoints[1] = failure.outer
        BY <3>2, <2>1, <2>5, <1>3 DEF TxInv, Unwinding
      <4>0. failure.kind \in {"begin", "statement"}
        BY <4>1, <1>3 DEF TxInv, TxTypeOK, Failed, NoFailure
      <4>2. /\ savepoints' = SubSeq(savepoints, 1, depth - 2) /\ pending' = savepoints[depth - 1]
            /\ depth' = depth - 1 /\ kept' = kept /\ ~ aborted'
        BY <4>1, <2>1 DEF Rollback, store
      <4>3. Level = (IF failure.kind = "begin" THEN depth + 1 ELSE depth - 1) /\ Left' = depth - 1
        BY <4>0, <4>1, <2>1, <2>2, <2>5 DEF Level
      <4>4. depth' > 1 => savepoints'[1] = failure.outer
        BY <4>1, <4>2, <2>1, Shorter DEF TxInv
      <4>5. depth' = 1 => pending' = failure.outer
        BY <4>1, <4>2, <2>1
      <4>6. runs' <= Level' /\ Level' > 0 /\ depth' = Left' /\ Left' > 0
        <5>1. depth' = depth - 1 /\ Left' = depth - 1 /\ depth > 1 /\ depth \in Nat
          BY <4>1, <4>2, <4>3, <2>1
        <5>2. Level' = IF failure.kind = "begin" THEN depth + 1 ELSE depth - 1
          BY <4>3, <2>1
        <5>3. runs' = IF failure.kind = "begin" THEN depth ELSE depth - 1
          BY <4>1, <3>1, <5>1
        <5> HIDE DEF RunEvaluates
        <5> QED
          BY <5>1, <5>2, <5>3
      <4>7. Unwinding'
        <5>1. /\ result' = "left" /\ pc' = "answered" /\ ~ aborted' /\ kept' = Nothing
              /\ failure' = failure
          BY <4>1, <4>2, <3>1, <2>1, <1>0
        <5>2. depth' \in Nat /\ depth' > 0
          BY <4>1, <4>2, <2>1
        <5> HIDE DEF RunEvaluates
        <5> QED
          BY <5>1, <5>2, <4>4, <4>5, <4>6, <2>1 DEF Unwinding
      <4> QED
        BY <4>7, <3>1, <1>1, Unanswered
    <3>3. CASE ~ aborted /\ Level = 0
      <4>1. depth = 0 /\ pending = Nothing /\ kept = Nothing
        BY <3>3, <2>5, <1>3 DEF TxInv, Unwinding
      <4>2. UNCHANGED store
        BY <4>1, <2>1 DEF Rollback
      <4>3. Unwinding'
        BY <4>1, <4>2, <3>1, <3>3, <2>1, <2>5, <1>0 DEF Unwinding, store
      <4> QED
        BY <4>3, <3>1, <1>1, Unanswered
    <3>4. CASE ~ aborted /\ Level > 0
      <4>1. /\ runs <= Level /\ depth = (IF Left > 0 THEN Left ELSE 0)
            /\ depth = 0 => pending = Nothing
            /\ kept = IF depth > 0 THEN Nothing ELSE Kept
            /\ depth > 1 => savepoints[1] = failure.outer
        BY <3>4, <2>5, <1>3 DEF TxInv, Unwinding
      <4>2. Left' = Left - 1 /\ Left \in Int
        BY <2>1, <2>2, <2>5
      <4>3. CASE depth = 1
        <5>1. pending' = Nothing /\ depth' = 0 /\ ~ aborted' /\ kept' = Nothing
          BY <4>1, <4>3, <2>1 DEF Rollback, store
        <5>2. Left = 1 /\ 2 * (runs - 1) - Level = 0
          BY <4>1, <4>2, <4>3, <2>1
        <5>3. Kept = Nothing
          <6>1. runs - 1 \in Int
            BY <2>1
          <6>2. ~ Odd(Level)
            BY <5>2, <6>1, <2>1, Parity
          <6> QED
            BY <6>2 DEF Kept
        <5>4. Unwinding'
          BY <5>1, <5>2, <5>3, <4>1, <4>2, <3>1, <3>4, <2>1, <2>5, <1>0 DEF Unwinding
        <5> QED
          BY <5>4, <3>1, <1>1, Unanswered
      <4>4. CASE depth > 1
        <5>1. /\ savepoints' = SubSeq(savepoints, 1, depth - 2) /\ pending' = savepoints[depth - 1]
              /\ depth' = depth - 1 /\ kept' = kept /\ ~ aborted'
          BY <4>4, <2>1 DEF Rollback, store
        <5>2. depth' > 1 => savepoints'[1] = failure.outer
          BY <5>1, <4>1, <4>4, <2>1, Shorter DEF TxInv
        <5>3. depth' = 1 => pending' = failure.outer
          BY <5>1, <4>1, <4>4, <2>1
        <5>4. Unwinding'
          BY <5>1, <5>2, <5>3, <4>1, <4>2, <4>4, <3>1, <3>4, <2>1, <2>5, <1>0 DEF Unwinding
        <5> QED
          BY <5>4, <3>1, <1>1, Unanswered
      <4>5. CASE depth = 0
        <5>1. UNCHANGED store
          BY <4>5, <2>1 DEF Rollback
        <5>2. Unwinding'
          BY <5>1, <4>1, <4>2, <4>5, <3>1, <3>4, <2>1, <2>5, <1>0 DEF Unwinding, store
        <5> QED
          BY <5>2, <3>1, <1>1, Unanswered
      <4> QED
        BY <4>3, <4>4, <4>5, <2>1
    <3>5. Level >= 0
      BY <2>1 DEF Level
    <3> QED
      BY <3>2, <3>3, <3>4, <3>5, <2>1
  <2> QED
    BY <2>3, <2>4, <2>5
<1> QED
  BY <1>2, <1>3
-----------------------------------------------------------------------------
(* Theorems.                                                               *)

LEMMA TxStep == TxInv /\ [TxNext]_txVars => TxInv'
<1> SUFFICES ASSUME TxInv, [TxNext]_txVars PROVE TxInv'
  OBVIOUS
<1>1. CASE Control
  BY <1>1, RunBeginsInv, BeginFailsInv, ChainInv, RunEndsInv, RunCommitsInv, CommitFailsInv,
     RunEvaluatesInv, MapThrowsInv DEF Control
<1>2. CASE Operation
  BY <1>2, OpWritesInv, OpAnswersInv, StatementFailsInv, OpThrowsInv DEF Operation
<1>3. CASE Other
  BY <1>3, OthersWriteInv DEF Other
<1>4. CASE UNCHANGED txVars
  BY <1>4 DEF txVars, store, control, history, TxInv, TxTypeOK, Forward, Unwinding, NothingLeft,
     Failed, Level, Left, Kept, FailureKeeps, SuccessKeeps, OpenOnlyAfterThrow
<1> QED
  BY <1>1, <1>2, <1>3, <1>4 DEF TxNext

\* The invariant holds for any number of nested runs, rows and failures.
THEOREM TransactionCorrect == TxSpec => []TxInv
  BY InitInv, TxStep, PTL DEF TxSpec

\* What a failing operation leaves in the database is decided by how deep it
\* was: what the outermost run had written, or nothing (transaction-monad.ts:76).
THEOREM FailureIsParity == TxSpec => []FailureKeeps
<1>1. TxInv => FailureKeeps
  BY DEF TxInv
<1> QED
  BY <1>1, TransactionCorrect, PTL

\* A run that answers a Right has saved what all its operations wrote, unless
\* the COMMIT nobody looks at failed.
THEOREM SuccessSavesAll == TxSpec => []SuccessKeeps
<1>1. TxInv => SuccessKeeps
  BY DEF TxInv
<1> QED
  BY <1>1, TransactionCorrect, PTL

\* A transaction stays open only when an operation rejected.
THEOREM OpenAfterThrow == TxSpec => []OpenOnlyAfterThrow
<1>1. TxInv => OpenOnlyAfterThrow
  BY DEF TxInv
<1> QED
  BY <1>1, TransactionCorrect, PTL
=============================================================================

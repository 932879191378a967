--------------------------- MODULE ExecutorProofs ---------------------------
(***************************************************************************)
(* What the batch executor guarantees for every plan, batch size, number   *)
(* of invocations and combination of faults.                               *)
(***************************************************************************)
EXTENDS Executor, TLAPS

\* What an open batch holds: the statements it is past are in its errors or in
\* its tally, and a tallied one is in the transaction or already in MySQL.
BatchAccounts(r) ==
  /\ completed[r] <= idx[r] /\ idx[r] <= BatchEnd(r)
  /\ batchErrs[r] \cup batchRows[r] = (completed[r] .. idx[r] - 1) \ Empty
  /\ batchErrs[r] \cap batchRows[r] = {}
  /\ \A i \in batchRows[r] : i \in tx[r] \/ applied[i] > 0 \/ i \in undone

\* The inductive invariant: the files, every invocation and every open batch
\* account for what is behind them.
IInv ==
  /\ TypeOK
  /\ Accounted(cp.last, cp.errs, cp.rows)
  /\ Accounted(tmp.last, tmp.errs, tmp.rows)
  /\ \A r \in Runs : Accounted(completed[r], errs[r], rows[r])
  /\ \A r \in Runs : pc[r] = "exec" => BatchAccounts(r)

\* A batch ends at or after where it starts and inside the plan
\* (executor.go:118-121).
LEMMA BatchEndBounds ==
  ASSUME TypeOK, NEW r \in Runs
  PROVE  /\ BatchEnd(r) \in 0 .. N
         /\ completed[r] <= BatchEnd(r)
         /\ completed[r] < N => completed[r] < BatchEnd(r)
BY ConstantsAssumption DEF TypeOK, BatchEnd

\* A missing file and a file that Save wrote are both checkpoints.
LEMMA AbsentType == Absent \in Checkpoint
<1>1. 0 \in 0 .. N /\ {} \in SUBSET Stmts
  BY ConstantsAssumption
<1> QED
  BY <1>1 DEF Absent, Checkpoint

LEMMA CheckpointOfType ==
  ASSUME TypeOK, NEW r \in Runs
  PROVE  CheckpointOf(r) \in Checkpoint
BY DEF CheckpointOf, Checkpoint, TypeOK

\* Past a statement the index is still inside the plan.
LEMMA NextStatement ==
  ASSUME TypeOK, NEW r \in Runs, AtStatement(r)
  PROVE  /\ idx[r] \in Stmts
         /\ idx[r] + 1 \in 0 .. N
         /\ idx[r] + 1 <= BatchEnd(r)
<1>1. BatchEnd(r) \in 0 .. N /\ idx[r] \in 0 .. N
  BY BatchEndBounds DEF TypeOK
<1>2. idx[r] < BatchEnd(r)
  BY DEF AtStatement
<1> QED
  BY <1>1, <1>2, ConstantsAssumption DEF Stmts

\* Typing holds initially and every action keeps it.
LEMMA TypeInit == Init => TypeOK
<1> SUFFICES ASSUME Init PROVE TypeOK
  OBVIOUS
<1>1. 0 \in 0 .. N /\ 0 \in Nat
  BY ConstantsAssumption
<1>2. cancelled \in [Runs -> BOOLEAN] /\ auto \in [Runs -> BOOLEAN] /\ paused \in BOOLEAN
  BY Zenon DEF Init
<1> QED
  BY <1>1, <1>2, AbsentType DEF Init, TypeOK

LEMMA TypeNext == TypeOK /\ [Next]_vars => TypeOK'
<1> SUFFICES ASSUME TypeOK, [Next]_vars PROVE TypeOK'
  OBVIOUS
<1> USE DEF local
<1>1. ASSUME NEW r \in Runs, Run(r) PROVE TypeOK'
  BY <1>1, AbsentType DEF Run, TypeOK
<1>2. ASSUME NEW r \in Runs, Resume(r) PROVE TypeOK'
  BY <1>2 DEF Resume, LoadCheckpoint, TypeOK, Checkpoint
<1>3. ASSUME NEW r \in Runs, LoadFails(r) PROVE TypeOK'
  BY <1>3 DEF LoadFails, Return, TypeOK
<1>4. ASSUME NEW r \in Runs, OpenDB(r) PROVE TypeOK'
  BY <1>4 DEF OpenDB, Return, TypeOK
<1>5. ASSUME NEW r \in Runs, LoopHead(r) PROVE TypeOK'
  BY <1>5 DEF LoopHead, Return, TypeOK
<1>6. ASSUME NEW r \in Runs, Begin(r) PROVE TypeOK'
  <2>1. CASE Return(r, "error") /\ UNCHANGED <<idx, batchErrs, batchRows, tx, auto>>
    BY <1>6, <2>1 DEF Begin, Return, TypeOK
  <2>2. CASE pc' = [pc EXCEPT ![r] = "exec"] /\ auto' = [auto EXCEPT ![r] = FALSE]
    <3>1. auto' \in [Runs -> BOOLEAN]
      BY <2>2 DEF TypeOK
    <3> QED
      BY <1>6, <2>2, <3>1 DEF Begin, Return, TypeOK
  <2> QED
    BY <1>6, <2>1, <2>2 DEF Begin
<1>7. ASSUME NEW r \in Runs, Abort(r) PROVE TypeOK'
  BY <1>7 DEF Abort, Return, TypeOK
<1>8. ASSUME NEW r \in Runs, SkipEmpty(r) PROVE TypeOK'
  BY <1>8, NextStatement DEF SkipEmpty, Advance, TypeOK
<1>9. ASSUME NEW r \in Runs, ExecOK(r) PROVE TypeOK'
  <2>1. idx[r] \in Stmts /\ idx[r] + 1 \in 0 .. N
    BY <1>9, NextStatement DEF ExecOK
  <2>2. applied' \in [Stmts -> Nat] /\ tx' \in [Runs -> SUBSET Stmts]
    BY <1>9, <2>1 DEF ExecOK, TypeOK
  <2> QED
    BY <1>9, <2>1, <2>2 DEF ExecOK, Advance, TypeOK
<1>10. ASSUME NEW r \in Runs, ExecFails(r) PROVE TypeOK'
  <2>1. idx[r] \in Stmts /\ idx[r] + 1 \in 0 .. N
    BY <1>10, NextStatement DEF ExecFails
  <2> QED
    BY <1>10, <2>1 DEF ExecFails, Advance, TypeOK
<1>11. ASSUME NEW r \in Runs, Commit(r) PROVE TypeOK'
  <2>1. applied' \in [Stmts -> Nat]
    BY <1>11 DEF Commit, MakeDurable, TypeOK
  <2>2. /\ completed' \in [Runs -> 0 .. N]
        /\ errs' \in [Runs -> SUBSET Stmts]
        /\ rows' \in [Runs -> SUBSET Stmts]
    BY <1>11, BatchEndBounds DEF Commit, FinishBatch, TypeOK
  <2> QED
    BY <1>11, <2>1, <2>2 DEF Commit, Return, TypeOK
<1>12. ASSUME NEW r \in Runs, SaveWrite(r) PROVE TypeOK'
  BY <1>12, CheckpointOfType DEF SaveWrite, Return, TypeOK
<1>13. ASSUME NEW r \in Runs, SaveRename(r) PROVE TypeOK'
  BY <1>13, AbsentType DEF SaveRename, Return, TypeOK
<1>14. ASSUME NEW r \in Runs, Cancel(r) PROVE TypeOK'
  BY <1>14 DEF Cancel, TypeOK
<1>15. CASE Crash
  BY <1>15 DEF Crash, TypeOK
<1>16. CASE UNCHANGED vars
  BY <1>16 DEF vars, TypeOK
<1> QED
  BY <1>1, <1>2, <1>3, <1>4, <1>5, <1>6, <1>7, <1>8, <1>9, <1>10, <1>11, <1>12, <1>13,
     <1>14, <1>15, <1>16 DEF Next, Step, Finished

\* Every state of the executor is well typed; in particular no checkpoint and
\* no run ever stands beyond the plan.
THEOREM TypeCorrect == Spec => []TypeOK
BY TypeInit, TypeNext, PTL DEF Spec

-----------------------------------------------------------------------------
\* Nothing is behind a position of zero.
LEMMA NothingAccounted == Accounted(0, {}, {})
BY ConstantsAssumption DEF Accounted

\* A finished batch joins what was accounted for before it.
LEMMA BatchJoins ==
  ASSUME TypeOK, NEW r \in Runs,
         Accounted(completed[r], errs[r], rows[r]),
         BatchAccounts(r), idx[r] = BatchEnd(r)
  PROVE  /\ (errs[r] \cup batchErrs[r]) \cup (rows[r] \cup batchRows[r])
              = (0 .. BatchEnd(r) - 1) \ Empty
         /\ (errs[r] \cup batchErrs[r]) \cap (rows[r] \cup batchRows[r]) = {}
<1>1. /\ completed[r] \in 0 .. N
      /\ BatchEnd(r) \in 0 .. N
      /\ completed[r] <= BatchEnd(r)
  BY BatchEndBounds DEF TypeOK
<1>2. 0 .. BatchEnd(r) - 1
        = (0 .. completed[r] - 1) \cup (completed[r] .. BatchEnd(r) - 1)
  BY <1>1, ConstantsAssumption
<1>3. (0 .. completed[r] - 1) \cap (completed[r] .. BatchEnd(r) - 1) = {}
  BY <1>1, ConstantsAssumption
<1>4. /\ errs[r] \cup rows[r] = (0 .. completed[r] - 1) \ Empty
      /\ errs[r] \cap rows[r] = {}
      /\ batchErrs[r] \cup batchRows[r] = (completed[r] .. BatchEnd(r) - 1) \ Empty
      /\ batchErrs[r] \cap batchRows[r] = {}
  BY DEF Accounted, BatchAccounts
<1> QED
  BY <1>2, <1>3, <1>4

\* The invariant holds in the initial state.
LEMMA IInvInit == Init => IInv
<1> SUFFICES ASSUME Init PROVE IInv
  OBVIOUS
<1>1. TypeOK
  BY TypeInit
<1>2. /\ cp.last = 0 /\ cp.errs = {} /\ cp.rows = {}
      /\ tmp.last = 0 /\ tmp.errs = {} /\ tmp.rows = {}
      /\ \A r \in Runs : completed[r] = 0 /\ errs[r] = {} /\ rows[r] = {} /\ pc[r] # "exec"
  BY DEF Init, Absent
<1> QED
  BY <1>1, <1>2, NothingAccounted DEF IInv

\* What a step may do to one part of the invariant without touching the files
\* and the tallies of the invocations.
LEMMA Untouched ==
  ASSUME IInv, TypeOK',
         UNCHANGED <<completed, errs, rows>>,
         cp' \in {cp, tmp, Absent},
         tmp' \in {tmp, Absent},
         \A i \in Stmts : applied[i] > 0 => applied'[i] > 0,
         undone \subseteq undone'
  PROVE  /\ Accounted(cp.last, cp.errs, cp.rows)'
         /\ Accounted(tmp.last, tmp.errs, tmp.rows)'
         /\ \A r \in Runs : Accounted(completed[r], errs[r], rows[r])'
<1>1. TypeOK
  BY DEF IInv
<1>2. /\ cp.last \in 0 .. N /\ cp.errs \in SUBSET Stmts /\ cp.rows \in SUBSET Stmts
      /\ tmp.last \in 0 .. N /\ tmp.errs \in SUBSET Stmts /\ tmp.rows \in SUBSET Stmts
  BY <1>1 DEF TypeOK, Checkpoint
<1>3. /\ cp.errs \cup cp.rows = (0 .. cp.last - 1) \ Empty
      /\ cp.errs \cap cp.rows = {}
      /\ \A i \in cp.rows : applied'[i] > 0 \/ i \in undone'
  BY <1>1, <1>2 DEF IInv, Accounted
<1>4. /\ tmp.errs \cup tmp.rows = (0 .. tmp.last - 1) \ Empty
      /\ tmp.errs \cap tmp.rows = {}
      /\ \A i \in tmp.rows : applied'[i] > 0 \/ i \in undone'
  BY <1>1, <1>2 DEF IInv, Accounted
<1>5. /\ Absent.errs \cup Absent.rows = (0 .. Absent.last - 1) \ Empty
      /\ Absent.errs \cap Absent.rows = {}
      /\ Absent.rows = {}
  BY ConstantsAssumption DEF Absent
<1>6. Accounted(cp.last, cp.errs, cp.rows)'
  BY <1>3, <1>4, <1>5 DEF Accounted
<1>7. Accounted(tmp.last, tmp.errs, tmp.rows)'
  BY <1>4, <1>5 DEF Accounted
<1>8. ASSUME NEW r \in Runs PROVE Accounted(completed[r], errs[r], rows[r])'
  <2>1. rows[r] \in SUBSET Stmts
    BY <1>1 DEF TypeOK
  <2> QED
    BY <2>1 DEF IInv, Accounted
<1> QED
  BY <1>6, <1>7, <1>8

\* An open batch that a step does not touch stays accounted for.
LEMMA BatchKept ==
  ASSUME IInv, NEW q \in Runs, BatchAccounts(q),
         completed'[q] = completed[q], idx'[q] = idx[q], tx'[q] = tx[q],
         batchErrs'[q] = batchErrs[q], batchRows'[q] = batchRows[q],
         \A i \in Stmts : applied[i] > 0 => applied'[i] > 0,
         undone \subseteq undone'
  PROVE  BatchAccounts(q)'
<1>1. batchRows[q] \in SUBSET Stmts
  BY DEF IInv, TypeOK
<1>2. BatchEnd(q)' = BatchEnd(q)
  BY DEF BatchEnd
<1> QED
  BY <1>1, <1>2 DEF BatchAccounts

\* A step that opens no batch, touches no tally and no open batch.
LEMMA QuietStep ==
  ASSUME IInv, TypeOK',
         UNCHANGED <<completed, errs, rows, idx, batchErrs, batchRows, applied, undone>>,
         cp' \in {cp, tmp, Absent},
         tmp' \in {tmp, Absent},
         \A q \in Runs : pc'[q] = "exec" => pc[q] = "exec" /\ tx'[q] = tx[q]
  PROVE  IInv'
<1>1. ASSUME NEW q \in Runs, pc'[q] = "exec" PROVE BatchAccounts(q)'
  BY <1>1, BatchKept DEF IInv
<1> QED
  BY <1>1, Untouched DEF IInv

\* Executing a statement, whatever its outcome: the batch it belongs to stays
\* accounted for if the statement joins its errors or its tally.
LEMMA StatementStep ==
  ASSUME IInv, TypeOK', NEW r \in Runs, AtStatement(r), Advance(r),
         \/ idx[r] \in Empty /\ UNCHANGED <<batchErrs, batchRows>>
         \/ /\ idx[r] \notin Empty
            /\ batchErrs' = [batchErrs EXCEPT ![r] = batchErrs[r] \cup {idx[r]}]
            /\ UNCHANGED batchRows
         \/ /\ idx[r] \notin Empty
            /\ batchRows' = [batchRows EXCEPT ![r] = batchRows[r] \cup {idx[r]}]
            /\ UNCHANGED batchErrs,
         \A i \in Stmts : applied[i] > 0 => applied'[i] > 0,
         undone \subseteq undone',
         \A q \in Runs \ {r} : tx'[q] = tx[q],
         \A i \in batchRows'[r] :
            i \in tx[r] \/ i = idx[r] => i \in tx'[r] \/ applied'[i] > 0 \/ i \in undone'
  PROVE  IInv'
<1> USE DEF Advance
<1>1. TypeOK /\ pc[r] = "exec" /\ BatchAccounts(r)
  BY DEF IInv, AtStatement
<1>2. idx[r] \in Stmts /\ idx[r] + 1 <= BatchEnd(r)
  BY <1>1, NextStatement
<1>3. completed[r] \in Int /\ idx[r] \in Int /\ completed[r] <= idx[r]
  BY <1>1, <1>2, ConstantsAssumption DEF TypeOK, BatchAccounts, Stmts
<1>4. /\ completed[r] .. idx[r] = (completed[r] .. idx[r] - 1) \cup {idx[r]}
      /\ idx[r] \notin completed[r] .. idx[r] - 1
  BY <1>3
<1>5. idx'[r] = idx[r] + 1 /\ idx'[r] - 1 = idx[r]
  BY <1>1, <1>3 DEF TypeOK
<1>6. BatchAccounts(r)'
  <2>1. BatchEnd(r)' = BatchEnd(r) /\ completed'[r] = completed[r]
    BY DEF BatchEnd
  <2>2. /\ batchErrs[r] \cup batchRows[r] = (completed[r] .. idx[r] - 1) \ Empty
        /\ batchErrs[r] \cap batchRows[r] = {}
    BY <1>1 DEF BatchAccounts
  <2>3. batchErrs \in [Runs -> SUBSET Stmts] /\ batchRows \in [Runs -> SUBSET Stmts]
    BY <1>1 DEF TypeOK
  <2>4. /\ batchErrs'[r] \cup batchRows'[r] = (completed[r] .. idx[r]) \ Empty
        /\ batchErrs'[r] \cap batchRows'[r] = {}
        /\ batchRows'[r] \subseteq batchRows[r] \cup {idx[r]}
    BY <1>4, <2>2, <2>3
  <2>5. \A i \in batchRows'[r] : i \in tx'[r] \/ applied'[i] > 0 \/ i \in undone'
    BY <1>1, <2>3, <2>4 DEF BatchAccounts
  <2> QED
    BY <1>2, <1>3, <1>5, <2>1, <2>4, <2>5 DEF BatchAccounts
<1>7. ASSUME NEW q \in Runs \ {r}, pc'[q] = "exec" PROVE BatchAccounts(q)'
  <2>1. BatchAccounts(q)
    BY <1>7 DEF IInv
  <2>2. idx'[q] = idx[q] /\ batchErrs'[q] = batchErrs[q] /\ batchRows'[q] = batchRows[q]
    BY <1>1 DEF TypeOK
  <2> QED
    BY <2>1, <2>2, BatchKept
<1>8. ASSUME NEW q \in Runs, pc'[q] = "exec" PROVE BatchAccounts(q)'
  BY <1>6, <1>7, <1>8
<1> QED
  BY <1>8, Untouched DEF IInv

\* Opening a transaction starts an empty batch.
LEMMA BeginStep ==
  ASSUME IInv, TypeOK', NEW r \in Runs, Begin(r)
  PROVE  IInv'
<1> USE DEF Begin
<1>1. TypeOK
  BY DEF IInv
<1>2. CASE pc' = [pc EXCEPT ![r] = "exec"] /\ idx' = [idx EXCEPT ![r] = completed[r]]
           /\ batchErrs' = [batchErrs EXCEPT ![r] = {}]
           /\ batchRows' = [batchRows EXCEPT ![r] = {}]
           /\ tx' = [tx EXCEPT ![r] = {}]
  <2>1. BatchAccounts(r)'
    <3>1. BatchEnd(r)' = BatchEnd(r) /\ completed[r] <= BatchEnd(r) /\ completed[r] \in 0 .. N
      BY <1>1, BatchEndBounds DEF BatchEnd, TypeOK
    <3>2. idx'[r] = completed[r] /\ batchErrs'[r] = {} /\ batchRows'[r] = {}
      BY <1>1, <1>2 DEF TypeOK
    <3>3. completed[r] .. completed[r] - 1 = {} /\ completed[r] <= completed[r]
      BY <3>1, ConstantsAssumption
    <3> QED
      BY <3>1, <3>2, <3>3 DEF BatchAccounts
  <2>2. ASSUME NEW q \in Runs \ {r}, pc'[q] = "exec" PROVE BatchAccounts(q)'
    <3>1. pc[q] = "exec" /\ idx'[q] = idx[q] /\ tx'[q] = tx[q]
          /\ batchErrs'[q] = batchErrs[q] /\ batchRows'[q] = batchRows[q]
      BY <1>1, <1>2, <2>2 DEF TypeOK
    <3> QED
      BY <3>1, BatchKept DEF IInv
  <2>3. ASSUME NEW q \in Runs, pc'[q] = "exec" PROVE BatchAccounts(q)'
    BY <2>1, <2>2, <2>3
  <2> QED
    BY <2>3, Untouched DEF IInv
<1>3. CASE Return(r, "error") /\ UNCHANGED <<idx, batchErrs, batchRows, tx>>
  <2>1. \A q \in Runs : pc'[q] = "exec" => pc[q] = "exec" /\ tx'[q] = tx[q]
    BY <1>1, <1>3 DEF Return, TypeOK
  <2> QED
    BY <2>1, <1>3, QuietStep
<1> QED
  BY <1>2, <1>3

\* Every outcome of a COMMIT: what was in the transaction is in MySQL, or the
\* batch is forgotten.
LEMMA CommitStep ==
  ASSUME IInv, TypeOK', NEW r \in Runs, Commit(r)
  PROVE  IInv'
<1> USE DEF Commit
<1>1. TypeOK /\ BatchAccounts(r) /\ Accounted(completed[r], errs[r], rows[r])
  BY DEF IInv
<1>2. \A i \in Stmts : applied[i] > 0 => applied'[i] > 0
  BY <1>1 DEF MakeDurable, TypeOK
<1>3. ASSUME NEW q \in Runs \ {r}, pc'[q] = "exec" PROVE BatchAccounts(q)'
  <2>1. pc[q] = "exec" /\ tx'[q] = tx[q] /\ completed'[q] = completed[q]
    BY <1>1, <1>3 DEF TypeOK, FinishBatch, Return
  <2> QED
    BY <1>2, <2>1, BatchKept DEF IInv
<1>4. pc'[r] # "exec"
  BY <1>1 DEF TypeOK, Return
<1>5. ASSUME NEW q \in Runs, pc'[q] = "exec" PROVE BatchAccounts(q)'
  BY <1>3, <1>4, <1>5
<1>6. CASE UNCHANGED <<completed, errs, rows>>
  BY <1>2, <1>5, <1>6, Untouched DEF IInv
<1>7. CASE MakeDurable(r) /\ FinishBatch(r)
  <2>1. Accounted(completed[r], errs[r], rows[r])'
    <3>1. /\ completed'[r] = BatchEnd(r)
          /\ errs'[r] = errs[r] \cup batchErrs[r]
          /\ rows'[r] = rows[r] \cup batchRows[r]
      BY <1>1, <1>7 DEF FinishBatch, TypeOK
    <3>2. \A i \in rows[r] : applied'[i] > 0 \/ i \in undone
      BY <1>1, <1>2 DEF Accounted, TypeOK
    <3>3. \A i \in tx[r] : applied'[i] > 0
      BY <1>1, <1>7 DEF MakeDurable, TypeOK
    <3>4. \A i \in batchRows[r] : applied'[i] > 0 \/ i \in undone
      BY <1>1, <1>2, <3>3 DEF BatchAccounts, TypeOK
    <3> QED
      BY <1>1, <3>1, <3>2, <3>4, BatchJoins DEF Accounted
  <2>2. ASSUME NEW q \in Runs \ {r} PROVE Accounted(completed[q], errs[q], rows[q])'
    <3>1. completed'[q] = completed[q] /\ errs'[q] = errs[q] /\ rows'[q] = rows[q]
          /\ rows[q] \in SUBSET Stmts
      BY <1>1, <1>7 DEF FinishBatch, TypeOK
    <3> QED
      BY <3>1, <1>2 DEF IInv, Accounted
  <2>3. ASSUME NEW q \in Runs PROVE Accounted(completed[q], errs[q], rows[q])'
    BY <2>1, <2>2
  <2>4. cp.rows \in SUBSET Stmts /\ tmp.rows \in SUBSET Stmts
    BY <1>1 DEF TypeOK, Checkpoint
  <2>5. /\ Accounted(cp.last, cp.errs, cp.rows)'
        /\ Accounted(tmp.last, tmp.errs, tmp.rows)'
    BY <1>2, <2>4 DEF IInv, Accounted
  <2> QED
    BY <1>5, <2>3, <2>5 DEF IInv
<1> QED
  BY <1>6, <1>7

\* Resume takes over what the checkpoint accounts for.
LEMMA ResumeStep ==
  ASSUME IInv, TypeOK', NEW r \in Runs, Resume(r)
  PROVE  IInv'
<1> USE DEF Resume
<1>1. TypeOK
  BY DEF IInv
<1>2. ASSUME NEW q \in Runs PROVE Accounted(completed[q], errs[q], rows[q])'
  <2>1. /\ completed'[q] = IF q = r THEN cp.last ELSE completed[q]
        /\ errs'[q] = IF q = r THEN cp.errs ELSE errs[q]
        /\ rows'[q] = IF q = r THEN cp.rows ELSE rows[q]
    BY <1>1 DEF LoadCheckpoint, TypeOK
  <2> QED
    BY <2>1 DEF IInv, Accounted
<1>3. ASSUME NEW q \in Runs, pc'[q] = "exec" PROVE BatchAccounts(q)'
  <2>1. pc[q] = "exec" /\ completed'[q] = completed[q]
    BY <1>1, <1>3 DEF LoadCheckpoint, TypeOK
  <2> QED
    BY <2>1, BatchKept DEF IInv
<1>4. /\ Accounted(cp.last, cp.errs, cp.rows)'
      /\ Accounted(tmp.last, tmp.errs, tmp.rows)'
  BY DEF IInv, Accounted
<1> QED
  BY <1>2, <1>3, <1>4 DEF IInv

\* The temporary file holds what its writer accounts for.
LEMMA WriteStep ==
  ASSUME IInv, TypeOK', NEW r \in Runs, SaveWrite(r)
  PROVE  IInv'
<1> USE DEF SaveWrite, local
<1>1. TypeOK
  BY DEF IInv
<1>2. \A q \in Runs : pc'[q] = "exec" => pc[q] = "exec" /\ tx'[q] = tx[q]
  BY <1>1 DEF Return, TypeOK
<1>3. CASE UNCHANGED tmp
  BY <1>2, <1>3, QuietStep
<1>4. CASE tmp' = CheckpointOf(r)
  <2>1. Accounted(tmp.last, tmp.errs, tmp.rows)'
    BY <1>4 DEF CheckpointOf, IInv, Accounted
  <2>2. ASSUME NEW q \in Runs, pc'[q] = "exec" PROVE BatchAccounts(q)'
    BY <1>2, <2>2, BatchKept DEF IInv
  <2>3. ASSUME NEW q \in Runs PROVE Accounted(completed[q], errs[q], rows[q])'
    BY DEF IInv, Accounted
  <2>4. Accounted(cp.last, cp.errs, cp.rows)'
    BY DEF IInv, Accounted
  <2> QED
    BY <2>1, <2>2, <2>3, <2>4 DEF IInv
<1> QED
  BY <1>3, <1>4

\* Every step of every action keeps the invariant.
LEMMA IInvNext == IInv /\ [Next]_vars => IInv'
<1> SUFFICES ASSUME IInv, [Next]_vars PROVE IInv'
  OBVIOUS
<1>0. TypeOK /\ TypeOK'
  BY TypeNext DEF IInv
<1> USE <1>0 DEF local
<1>1. ASSUME NEW r \in Runs, Run(r) PROVE IInv'
  <2>1. \A q \in Runs : pc'[q] = "exec" => pc[q] = "exec"
    BY <1>1 DEF Run, TypeOK
  <2> QED
    BY <1>1, <2>1, QuietStep DEF Run
<1>2. ASSUME NEW r \in Runs, Resume(r) PROVE IInv'
  BY <1>2, ResumeStep
<1>3. ASSUME NEW r \in Runs, LoadFails(r) \/ OpenDB(r) \/ LoopHead(r) PROVE IInv'
  <2>1. \A q \in Runs : pc'[q] = "exec" => pc[q] = "exec"
    BY <1>3 DEF LoadFails, OpenDB, LoopHead, Return, TypeOK
  <2> QED
    BY <1>3, <2>1, QuietStep DEF LoadFails, OpenDB, LoopHead
<1>4. ASSUME NEW r \in Runs, Begin(r) PROVE IInv'
  BY <1>4, BeginStep
<1>5. ASSUME NEW r \in Runs, Abort(r) PROVE IInv'
  <2>1. \A q \in Runs : pc'[q] = "exec" => pc[q] = "exec" /\ tx'[q] = tx[q]
    BY <1>5 DEF Abort, Return, TypeOK
  <2> QED
    BY <1>5, <2>1, QuietStep DEF Abort
<1>6. ASSUME NEW r \in Runs, SkipEmpty(r) PROVE IInv'
  <2>1. idx[r] \notin batchRows[r]
    BY <1>6 DEF SkipEmpty, AtStatement, IInv, BatchAccounts
  <2> QED
    BY <1>6, <2>1, StatementStep DEF SkipEmpty
<1>7. ASSUME NEW r \in Runs, ExecOK(r) PROVE IInv'
  <2>1. idx[r] \in Stmts
    BY <1>7, NextStatement DEF ExecOK
  <2>2. \A i \in Stmts : applied[i] > 0 => applied'[i] > 0
    BY <1>7, <2>1 DEF ExecOK, TypeOK
  <2>3. idx[r] \in tx'[r] \/ applied'[idx[r]] > 0
    BY <1>7, <2>1 DEF ExecOK, TypeOK
  <2>4. tx[r] \subseteq tx'[r] /\ \A q \in Runs \ {r} : tx'[q] = tx[q]
    BY <1>7 DEF ExecOK, TypeOK
  <2> QED
    BY <1>7, <2>2, <2>3, <2>4, StatementStep DEF ExecOK
<1>8. ASSUME NEW r \in Runs, ExecFails(r) PROVE IInv'
  <2>1. idx[r] \notin batchRows[r]
    BY <1>8, NextStatement DEF ExecFails, AtStatement, IInv, BatchAccounts, Stmts
  <2>2. /\ undone \subseteq undone'
        /\ tx[r] \subseteq tx'[r] \cup undone'
        /\ \A q \in Runs \ {r} : tx'[q] = tx[q]
    BY <1>8 DEF ExecFails, TypeOK
  <2> QED
    BY <1>8, <2>1, <2>2, StatementStep DEF ExecFails
<1>9. ASSUME NEW r \in Runs, Commit(r) PROVE IInv'
  BY <1>9, CommitStep
<1>10. ASSUME NEW r \in Runs, SaveWrite(r) PROVE IInv'
  BY <1>10, WriteStep
<1>11. ASSUME NEW r \in Runs, SaveRename(r) PROVE IInv'
  <2>1. \A q \in Runs : pc'[q] = "exec" => pc[q] = "exec"
    BY <1>11 DEF SaveRename, Return, TypeOK
  <2> QED
    BY <1>11, <2>1, QuietStep DEF SaveRename
<1>12. ASSUME NEW r \in Runs, Cancel(r) PROVE IInv'
  BY <1>12, QuietStep DEF Cancel
<1>13. CASE Crash
  <2>1. \A q \in Runs : pc'[q] # "exec"
    BY <1>13 DEF Crash, Live, TypeOK
  <2> QED
    BY <1>13, <2>1, QuietStep DEF Crash
<1>14. CASE UNCHANGED vars
  BY <1>14, QuietStep DEF vars
<1> QED
  BY <1>1, <1>2, <1>3, <1>4, <1>5, <1>6, <1>7, <1>8, <1>9, <1>10, <1>11, <1>12, <1>13, <1>14
     DEF Next, Step, Finished

\* For every plan, batch size, set of invocations and combination of faults the
\* checkpoint never claims more than was done (executor.go:171-186).
THEOREM CheckpointSound == Spec => []CheckpointAccounts
<1>1. IInv => CheckpointAccounts
  BY DEF IInv, CheckpointAccounts
<1> QED
  BY <1>1, IInvInit, IInvNext, PTL DEF Spec

\* Likewise of every report of Run and Resume (executor.go:198-209).
THEOREM ReportSound == Spec => []ReportAccounts
<1>1. IInv => ReportAccounts
  BY DEF IInv, ReportAccounts
<1> QED
  BY <1>1, IInvInit, IInvNext, PTL DEF Spec

-----------------------------------------------------------------------------
(***************************************************************************)
(* Without faults the executor implements BatchPlan, for every plan, batch *)
(* size and number of invocations.                                         *)
(***************************************************************************)

Tally(w) == [i \in Stmts |-> IF i \in w THEN 1 ELSE 0]

\* One invocation at a time, which takes over what the one before it left.
OneLive == \A r, q \in Runs : Live(r) /\ Live(q) => r = q

Untried ==
  /\ \A r \in Runs : pc[r] = "new" => completed[r] = 0 /\ errs[r] = {} /\ rows[r] = {}
  /\ (\A r \in Runs : pc[r] = "new") => cp.last = 0 /\ cp.errs = {} /\ cp.rows = {}

\* Outside of Save the run stands where the file does.
AtFile(r) == completed[r] = cp.last /\ errs[r] = cp.errs /\ rows[r] = cp.rows

\* In an open batch nothing is durable yet, and MySQL holds what was tallied.
InBatch(r) == ~auto[r] /\ tx[r] = batchRows[r]

RunFits(r) ==
  /\ pc[r] \in {"open", "head", "begin", "exec"} => AtFile(r)
  /\ pc[r] \in {"begin", "exec"} => completed[r] < N
  /\ pc[r] = "exec" => InBatch(r)
  /\ pc[r] = "rename" => tmp = CheckpointOf(r)
  /\ Saving(r) => applied = Tally(rows[r]) /\ cp.last <= completed[r]

Calm ==
  /\ OneLive
  /\ Untried
  /\ \A r \in Runs : RunFits(r)
  /\ (\A r \in Runs : ~Saving(r)) => applied = Tally(cp.rows)

LEMMA CalmInit == Init => Calm
<1> SUFFICES ASSUME Init PROVE Calm
  OBVIOUS
<1>1. OneLive /\ Untried
  BY DEF Init, OneLive, Live, Untried, Absent
<1>2. \A r \in Runs : RunFits(r)
  BY DEF Init, RunFits, Saving
<1>3. applied = Tally(cp.rows)
  BY DEF Init, Tally, Absent
<1> QED
  BY <1>1, <1>2, <1>3 DEF Calm

\* Steps of one run that end it, or move it on outside of Save, and leave the
\* files, MySQL and what it holds behind it alone.
LEMMA MovesOn ==
  ASSUME TypeOK, Calm, NEW r \in Runs, pc[r] \notin {"new", "ended", "write", "rename"},
         NEW l \in {"head", "begin", "exec", "ended"},
         pc' = [pc EXCEPT ![r] = l],
         UNCHANGED <<completed, errs, rows, cp, tmp, applied>>,
         l \in {"begin", "exec"} => completed[r] < N,
         l = "exec" => InBatch(r)',
         \A q \in Runs : q # r => tx'[q] = tx[q] /\ auto'[q] = auto[q] /\ batchRows'[q] = batchRows[q]
  PROVE  Calm'
<1>1. OneLive'
  BY DEF OneLive, Calm, Live, TypeOK
<1>2. Untried'
  <2>1. pc[r] # "new" /\ pc'[r] # "new" /\ \A q \in Runs : pc'[q] = "new" => pc[q] = "new"
    BY DEF TypeOK
  <2> QED
    BY <2>1 DEF Untried, Calm
<1>3. ASSUME NEW q \in Runs PROVE RunFits(q)'
  <2>1. RunFits(q) /\ RunFits(r)
    BY DEF Calm
  <2>2. CASE q = r
    BY <2>1, <2>2 DEF RunFits, AtFile, Saving, TypeOK
  <2>3. CASE q # r
    BY <2>1, <2>3 DEF RunFits, AtFile, Saving, TypeOK, InBatch, CheckpointOf, Tally
  <2> QED
    BY <2>2, <2>3
<1>4. (\A q \in Runs : ~Saving(q)') => applied' = Tally(cp.rows)'
  <2>1. \A q \in Runs : Saving(q) => Saving(q)'
    BY DEF Saving, TypeOK
  <2> QED
    BY <2>1 DEF Calm, Tally
<1> QED
  BY <1>1, <1>2, <1>3, <1>4 DEF Calm

\* What Calm speaks of is unchanged.
LEMMA CalmKept ==
  ASSUME Calm, UNCHANGED <<pc, local, cp, tmp, applied>>
  PROVE  Calm'
BY DEF Calm, local, OneLive, Live, Untried, RunFits, AtFile, InBatch, Saving, CheckpointOf, Tally

\* An invocation starts only while no other one is going.
LEMMA Starts ==
  ASSUME TypeOK, Calm, Faults = {}, NEW r \in Runs, Run(r) \/ Resume(r) \/ LoadFails(r)
  PROVE  Calm'
<1> USE DEF local
<1>1. pc[r] = "new" /\ \A q \in Runs : ~Live(q) /\ ~Saving(q)
  BY DEF Run, Resume, LoadFails, MayRun, MayResume, Live, Saving, TypeOK
<1>2. /\ completed[r] = 0 /\ errs[r] = {} /\ rows[r] = {}
      /\ applied = Tally(cp.rows)
  BY <1>1 DEF Calm, Untried
<1>3. \E l \in {"write", "open", "ended"} : pc' = [pc EXCEPT ![r] = l]
  BY DEF Run, Resume, LoadFails, Return
<1>4. OneLive'
  BY <1>1, <1>3 DEF OneLive, Live, TypeOK
<1>5. Untried'
  <2>1. \A q \in Runs : pc'[q] = "new" => q # r /\ pc[q] = "new"
    BY <1>3 DEF TypeOK
  <2>2. \A q \in Runs : q # r => completed'[q] = completed[q] /\ errs'[q] = errs[q] /\ rows'[q] = rows[q]
    BY DEF Run, Resume, LoadFails, LoadCheckpoint, TypeOK
  <2> QED
    BY <2>1, <2>2 DEF Untried, Calm
<1>6. \A q \in Runs : q # r => pc'[q] = pc[q] /\ pc'[q] \in {"new", "ended"}
  BY <1>1, <1>3 DEF Live, TypeOK
<1>7. CASE Run(r)
  <2>1. cp.last = 0 /\ cp.errs = {} /\ cp.rows = {}
    <3>1. \A q \in Runs : pc[q] = "new"
      BY <1>7 DEF Run, MayRun
    <3> QED
      BY <3>1 DEF Calm, Untried
  <2>2. cp'.last = 0 /\ cp'.errs = {} /\ cp'.rows = {}
    BY <1>7, <2>1 DEF Run, Absent
  <2>3. pc'[r] = "write" /\ applied' = Tally(rows'[r]) /\ completed'[r] = 0
    BY <1>2, <1>7, <2>1 DEF Run, Tally, TypeOK
  <2>4. \A q \in Runs : RunFits(q)'
    BY <1>6, <2>2, <2>3 DEF RunFits, Saving
  <2>5. Saving(r)'
    BY <2>3 DEF Saving
  <2> QED
    BY <1>4, <1>5, <2>4, <2>5 DEF Calm
<1>8. CASE Resume(r)
  <2>1. pc'[r] = "open" /\ AtFile(r)' /\ UNCHANGED <<cp, applied>>
    BY <1>8 DEF Resume, LoadCheckpoint, AtFile, TypeOK
  <2>2. \A q \in Runs : RunFits(q)'
    BY <1>6, <2>1 DEF RunFits, Saving
  <2> QED
    BY <1>2, <1>4, <1>5, <2>1, <2>2 DEF Calm, Tally
<1>9. CASE LoadFails(r)
  <2>1. pc'[r] = "ended" /\ UNCHANGED <<cp, applied>>
    BY <1>9 DEF LoadFails, Return, TypeOK
  <2>2. \A q \in Runs : RunFits(q)'
    BY <1>6, <2>1 DEF RunFits, Saving
  <2> QED
    BY <1>2, <1>4, <1>5, <2>1, <2>2 DEF Calm, Tally
<1> QED
  BY <1>7, <1>8, <1>9

\* The loop outside of Save: nothing becomes durable.
LEMMA Loops ==
  ASSUME TypeOK, Calm, Faults = {}, NEW r \in Runs,
         OpenDB(r) \/ LoopHead(r) \/ Begin(r) \/ Abort(r)
  PROVE  Calm'
<1> USE DEF local
<1>1. CASE OpenDB(r)
  BY <1>1, MovesOn DEF OpenDB, Return
<1>2. CASE LoopHead(r)
  <2>1. completed[r] \in 0 .. N
    BY DEF TypeOK
  <2> QED
    BY <1>2, <2>1, MovesOn, ConstantsAssumption DEF LoopHead, Return
<1>3. CASE Begin(r)
  <2>1. completed[r] < N
    BY <1>3 DEF Begin, Calm, RunFits
  <2>2. CASE pc' = [pc EXCEPT ![r] = "exec"]
    <3>1. InBatch(r)'
      BY <1>3, <2>2 DEF Begin, Return, InBatch, TypeOK
    <3> QED
      BY <1>3, <2>1, <2>2, <3>1, MovesOn DEF Begin, TypeOK
  <2>3. CASE Return(r, "error") /\ UNCHANGED <<idx, batchErrs, batchRows, tx, auto>>
    BY <1>3, <2>3, MovesOn DEF Begin, Return
  <2> QED
    BY <1>3, <2>2, <2>3 DEF Begin
<1>4. CASE Abort(r)
  BY <1>4, MovesOn DEF Abort, AtStatement, Return, TypeOK
<1> QED
  BY <1>1, <1>2, <1>3, <1>4

\* Statements go into the transaction and the tally of the batch alike.
LEMMA Executes ==
  ASSUME TypeOK, Calm, Faults = {}, NEW r \in Runs,
         SkipEmpty(r) \/ ExecOK(r) \/ ExecFails(r)
  PROVE  Calm'
<1>1. pc[r] = "exec" /\ pc' = [pc EXCEPT ![r] = "exec"]
  BY DEF SkipEmpty, ExecOK, ExecFails, AtStatement, Advance, TypeOK
<1>2. completed[r] < N /\ InBatch(r)
  BY <1>1 DEF Calm, RunFits
<1>a. UNCHANGED auto
  BY Zenon DEF SkipEmpty, ExecOK, ExecFails
<1>b. UNCHANGED applied
  BY <1>2 DEF InBatch, SkipEmpty, ExecOK, ExecFails
<1>c. \/ UNCHANGED <<tx, batchRows>>
      \/ /\ tx' = [tx EXCEPT ![r] = tx[r] \cup {idx[r]}]
         /\ batchRows' = [batchRows EXCEPT ![r] = batchRows[r] \cup {idx[r]}]
  BY <1>2 DEF InBatch, SkipEmpty, ExecOK, ExecFails
<1>3. InBatch(r)'
  <2>1. ~auto'[r]
    BY <1>2, <1>a, Zenon DEF InBatch
  <2>2. tx[r] = batchRows[r]
    BY <1>2, Zenon DEF InBatch
  <2>3. tx'[r] = batchRows'[r]
    <3>1. CASE UNCHANGED <<tx, batchRows>>
      BY <2>2, <3>1
    <3>2. CASE /\ tx' = [tx EXCEPT ![r] = tx[r] \cup {idx[r]}]
               /\ batchRows' = [batchRows EXCEPT ![r] = batchRows[r] \cup {idx[r]}]
      <4>1. tx'[r] = tx[r] \cup {idx[r]} /\ batchRows'[r] = batchRows[r] \cup {idx[r]}
        BY <3>2 DEF TypeOK
      <4> QED
        BY <2>2, <4>1
    <3> QED
      BY <1>c, <3>1, <3>2
  <2> QED
    BY <2>1, <2>3, Zenon DEF InBatch
<1>4. \A q \in Runs : q # r => tx'[q] = tx[q] /\ auto'[q] = auto[q] /\ batchRows'[q] = batchRows[q]
  BY <1>a, <1>c DEF TypeOK
<1>5. UNCHANGED <<completed, errs, rows, cp, tmp>>
  BY DEF SkipEmpty, ExecOK, ExecFails, Advance
<1> QED
  BY <1>1, <1>2, <1>b, <1>3, <1>4, <1>5, MovesOn

\* A COMMIT makes the batch durable as a whole: nothing of it was so before.
LEMMA CommitCalm ==
  ASSUME IInv, Calm, Faults = {}, NEW r \in Runs, Commit(r)
  PROVE  Calm'
<1> USE DEF local
<1>1. TypeOK /\ pc[r] = "exec" /\ completed[r] < N /\ AtFile(r) /\ tx[r] = batchRows[r]
  BY DEF IInv, Commit, Calm, RunFits, InBatch
<1>2. CASE Return(r, "error") /\ UNCHANGED <<completed, errs, rows, applied>>
  <2>1. UNCHANGED <<auto, batchRows, cp, tmp>> /\ tx' = [tx EXCEPT ![r] = {}]
    BY DEF Commit
  <2> QED
    BY <1>1, <1>2, <2>1, MovesOn DEF Return, TypeOK
<1>3. CASE MakeDurable(r) /\ FinishBatch(r) /\ pc' = [pc EXCEPT ![r] = "write"]
  <2>1. \A q \in Runs : q # r => pc[q] \in {"new", "ended"} /\ pc'[q] = pc[q]
    BY <1>1, <1>3 DEF Calm, OneLive, Live, TypeOK
  <2>2. applied = Tally(rows[r])
    <3>1. \A q \in Runs : ~Saving(q)
      BY <1>1, <2>1 DEF Saving
    <3> QED
      BY <1>1, <3>1 DEF Calm, AtFile
  <2>3. rows[r] \cap tx[r] = {}
    <3>1. rows[r] \subseteq 0 .. completed[r] - 1
      BY DEF IInv, Accounted
    <3>2. tx[r] \subseteq completed[r] .. idx[r] - 1
      BY <1>1 DEF IInv, BatchAccounts
    <3>3. completed[r] \in Nat /\ idx[r] \in Nat
      BY <1>1, ConstantsAssumption DEF TypeOK
    <3> QED
      BY <3>1, <3>2, <3>3
  <2>4. rows'[r] = rows[r] \cup tx[r]
    BY <1>1, <1>3 DEF FinishBatch, TypeOK
  <2>5. applied' = Tally(rows[r] \cup tx[r])
    BY <1>3, <2>2, <2>3 DEF MakeDurable, Tally
  <2>6. cp' = cp /\ completed'[r] = BatchEnd(r) /\ cp.last <= completed'[r]
    <3>1. completed'[r] = BatchEnd(r) /\ cp' = cp
      BY <1>1, <1>3 DEF Commit, FinishBatch, TypeOK
    <3> QED
      BY <1>1, <3>1, BatchEndBounds DEF AtFile
  <2>7. pc'[r] = "write"
    BY <1>1, <1>3 DEF TypeOK
  <2>8. \A q \in Runs : RunFits(q)'
    BY <2>1, <2>4, <2>5, <2>6, <2>7 DEF RunFits, Saving, Tally
  <2>9. OneLive'
    BY <2>1 DEF OneLive, Live
  <2>10. Untried'
    BY <1>1, <1>3, <2>1, <2>7 DEF Untried, Calm, FinishBatch, TypeOK
  <2>11. Saving(r)'
    BY <2>7 DEF Saving
  <2> QED
    BY <2>8, <2>9, <2>10, <2>11 DEF Calm
<1> QED
  BY <1>2, <1>3 DEF Commit

\* The file follows the run.
LEMMA SaveCalm ==
  ASSUME TypeOK, Calm, Faults = {}, NEW r \in Runs, SaveWrite(r) \/ SaveRename(r)
  PROVE  Calm'
<1> USE DEF local
<1>1. /\ Saving(r) /\ pc[r] # "new" /\ Live(r)
      /\ applied = Tally(rows[r]) /\ cp.last <= completed[r]
  BY DEF SaveWrite, SaveRename, Calm, RunFits, Saving, Live
<1>2. \A q \in Runs : q # r => pc[q] \in {"new", "ended"}
  BY <1>1 DEF Calm, OneLive, Live, TypeOK
<1>3. UNCHANGED <<completed, errs, rows, applied>>
  BY DEF SaveWrite, SaveRename
<1>4. CASE SaveWrite(r)
  <2>1. pc' = [pc EXCEPT ![r] = "rename"] /\ tmp' = CheckpointOf(r) /\ cp' = cp
    BY <1>4 DEF SaveWrite
  <2>2. pc'[r] = "rename" /\ \A q \in Runs : q # r => pc'[q] \in {"new", "ended"} /\ pc'[q] = pc[q]
    BY <1>2, <2>1 DEF TypeOK
  <2>3. tmp' = CheckpointOf(r)'
    BY <1>3, <2>1 DEF CheckpointOf
  <2>4. \A q \in Runs : RunFits(q)'
    BY <1>1, <1>3, <2>1, <2>2, <2>3 DEF RunFits, Saving, Tally
  <2>5. OneLive' /\ Untried' /\ Saving(r)'
    BY <1>1, <1>3, <2>2 DEF OneLive, Live, Untried, Calm, Saving
  <2> QED
    BY <2>4, <2>5 DEF Calm
<1>5. CASE SaveRename(r)
  <2>1. tmp = CheckpointOf(r) /\ tmp.present
    BY <1>5 DEF SaveRename, Calm, RunFits, CheckpointOf
  <2>2. cp' = tmp /\ pc' = [pc EXCEPT ![r] = IF completed[r] = 0 THEN "open" ELSE "head"]
    BY <1>5, <2>1 DEF SaveRename
  <2>3. /\ pc'[r] \in {"open", "head"}
        /\ \A q \in Runs : q # r => pc'[q] \in {"new", "ended"} /\ pc'[q] = pc[q]
    BY <1>2, <2>2 DEF TypeOK
  <2>4. AtFile(r)'
    BY <1>3, <2>1, <2>2 DEF AtFile, CheckpointOf
  <2>5. applied' = Tally(cp.rows)'
    BY <1>1, <1>3, <2>1, <2>2 DEF CheckpointOf, Tally
  <2>6. \A q \in Runs : RunFits(q)'
    BY <2>3, <2>4 DEF RunFits, Saving
  <2>7. OneLive' /\ Untried'
    BY <1>1, <1>3, <2>3 DEF OneLive, Live, Untried, Calm
  <2> QED
    BY <2>5, <2>6, <2>7 DEF Calm
<1> QED
  BY <1>4, <1>5

LEMMA CalmNext ==
  ASSUME Faults = {}
  PROVE  IInv /\ Calm /\ [Next]_vars => Calm'
<1> SUFFICES ASSUME IInv, Calm, [Next]_vars PROVE Calm'
  OBVIOUS
<1>1. TypeOK
  BY DEF IInv
<1>2. CASE UNCHANGED vars
  BY <1>2, CalmKept DEF vars
<1>3. ASSUME NEW r \in Runs, Cancel(r) PROVE Calm'
  BY <1>3, CalmKept DEF Cancel
<1>4. ~Crash
  BY DEF Crash
<1> QED
  BY <1>1, <1>2, <1>3, <1>4, Starts, Loops, Executes, CommitCalm, SaveCalm DEF Next, Step, Finished

-----------------------------------------------------------------------------
(* The refinement mapping. *)

\* The run that is saving is the only one.
LEMMA ChosenSaver ==
  ASSUME NEW p, NEW r \in Runs, p[r] \in {"write", "rename"},
         \A q \in Runs : p[q] \in {"write", "rename"} => q = r
  PROVE  (CHOOSE q \in Runs : p[q] \in {"write", "rename"}) = r
OBVIOUS

LEMMA MappedSaving ==
  ASSUME OneLive, NEW r \in Runs, Saving(r)
  PROVE  Position = completed[r] /\ Failed = errs[r]
<1>1. \A q \in Runs : pc[q] \in {"write", "rename"} => q = r
  BY DEF OneLive, Live, Saving
<1>2. Saver = r
  BY <1>1, ChosenSaver DEF Saver, Saving
<1> QED
  BY <1>2 DEF Position, Failed

LEMMA MappedSavingNext ==
  ASSUME OneLive', NEW r \in Runs, Saving(r)'
  PROVE  Position' = completed'[r] /\ Failed' = errs'[r]
<1>1. \A q \in Runs : pc'[q] \in {"write", "rename"} => q = r
  BY DEF OneLive, Live, Saving
<1>2. Saver' = r
  BY <1>1, ChosenSaver DEF Saver, Saving
<1> QED
  BY <1>2 DEF Position, Failed

\* A step that neither starts nor ends a Save, and that leaves the file and the
\* runs alone, is not seen.
LEMMA Unseen ==
  ASSUME OneLive, OneLive', \A q \in Runs : Saving(q)' = Saving(q),
         UNCHANGED <<completed, errs, cp>>
  PROVE  UNCHANGED <<Position, Failed>>
<1>1. CASE \E q \in Runs : Saving(q)
  <2>1. PICK q \in Runs : Saving(q)
    BY <1>1
  <2> QED
    BY <2>1, MappedSaving, MappedSavingNext
<1>2. CASE \A q \in Runs : ~Saving(q)
  BY <1>2 DEF Position, Failed
<1> QED
  BY <1>1, <1>2

\* A COMMIT that succeeds is a step of BatchPlan.
LEMMA CommitIsBatch ==
  ASSUME IInv, Calm, Calm', NEW r \in Runs, pc[r] = "exec", idx[r] = BatchEnd(r),
         MakeDurable(r), FinishBatch(r), pc' = [pc EXCEPT ![r] = "write"]
  PROVE  Plan!Batch(tx[r])
<1>1. TypeOK /\ completed[r] < N /\ AtFile(r) /\ tx[r] = batchRows[r]
  BY DEF IInv, Calm, RunFits, InBatch
<1>2. Position = completed[r] /\ Failed = errs[r]
  <2>1. \A q \in Runs : ~Saving(q)
    BY DEF Calm, OneLive, Live, Saving
  <2> QED
    BY <1>1, <2>1 DEF Position, Failed, AtFile
<1>3. Position' = BatchEnd(r) /\ Failed' = errs[r] \cup batchErrs[r]
  <2>1. Saving(r)'
    BY <1>1 DEF Saving, TypeOK
  <2>2. completed'[r] = BatchEnd(r) /\ errs'[r] = errs[r] \cup batchErrs[r]
    BY <1>1 DEF FinishBatch, TypeOK
  <2> QED
    BY <2>1, <2>2, MappedSavingNext DEF Calm
<1>4. /\ batchErrs[r] \cup tx[r] = (completed[r] .. BatchEnd(r) - 1) \ Empty
      /\ batchErrs[r] \cap tx[r] = {}
  BY <1>1 DEF IInv, BatchAccounts
<1>5. batchErrs[r] = ((completed[r] .. BatchEnd(r) - 1) \ Empty) \ tx[r]
  BY <1>4
<1> QED
  BY <1>1, <1>2, <1>3, <1>4, <1>5 DEF Plan!Batch, BatchEnd, MakeDurable, Stmts

LEMMA RefinesInit == Init => Plan!PlanInit
<1> SUFFICES ASSUME Init PROVE Plan!PlanInit
  OBVIOUS
<1>1. \A r \in Runs : ~Saving(r)
  BY DEF Init, Saving
<1> QED
  BY <1>1 DEF Init, Plan!PlanInit, Position, Failed, Absent, Stmts

LEMMA RefinesNext ==
  ASSUME Faults = {}
  PROVE  IInv /\ Calm /\ Calm' /\ [Next]_vars
           => [\E ok \in SUBSET (0 .. N - 1) : Plan!Batch(ok)]_(Plan!planVars)
<1> SUFFICES ASSUME IInv, Calm, Calm', [Next]_vars
             PROVE  \/ \E ok \in SUBSET (0 .. N - 1) : Plan!Batch(ok)
                    \/ UNCHANGED <<Position, Failed, applied>>
  BY DEF Plan!planVars
<1> USE DEF local
<1>0. TypeOK /\ OneLive /\ OneLive'
  BY DEF IInv, Calm
<1>1. CASE UNCHANGED vars
  BY <1>0, <1>1, Unseen DEF vars, Saving
<1>2. ASSUME NEW r \in Runs, Cancel(r) PROVE UNCHANGED <<Position, Failed, applied>>
  BY <1>0, <1>2, Unseen DEF Cancel, Saving
<1>3. ASSUME NEW r \in Runs, Run(r) PROVE UNCHANGED <<Position, Failed, applied>>
  <2>1. \A q \in Runs : pc[q] = "new"
    BY <1>3 DEF Run, MayRun
  <2>2. Position = 0 /\ Failed = {} /\ completed[r] = 0 /\ errs[r] = {}
    BY <2>1 DEF Calm, Untried, Position, Failed, Saving
  <2>3. Saving(r)'
    BY <1>0, <1>3 DEF Run, Saving, TypeOK
  <2> QED
    BY <1>0, <1>3, <2>2, <2>3, MappedSavingNext DEF Run
<1>4. ASSUME NEW r \in Runs, Resume(r) \/ LoadFails(r) PROVE UNCHANGED <<Position, Failed, applied>>
  <2>1. \A q \in Runs : ~Saving(q) /\ ~Saving(q)'
    BY <1>0, <1>4 DEF Resume, LoadFails, Return, MayResume, Live, Saving, TypeOK
  <2> QED
    BY <1>4, <2>1 DEF Resume, LoadFails, Position, Failed
<1>5. ASSUME NEW r \in Runs, OpenDB(r) \/ LoopHead(r) \/ Begin(r) \/ Abort(r)
      PROVE UNCHANGED <<Position, Failed, applied>>
  <2>1. UNCHANGED <<completed, errs, cp, applied>>
    BY <1>5 DEF OpenDB, LoopHead, Begin, Abort
  <2>2. \A q \in Runs : Saving(q)' = Saving(q)
    BY <1>0, <1>5 DEF OpenDB, LoopHead, Begin, Abort, AtStatement, Return, Saving, TypeOK
  <2> QED
    BY <1>0, <2>1, <2>2, Unseen
<1>6. ASSUME NEW r \in Runs, SkipEmpty(r) \/ ExecOK(r) \/ ExecFails(r)
      PROVE UNCHANGED <<Position, Failed, applied>>
  <2>1. ~auto[r]
    BY <1>6 DEF SkipEmpty, ExecOK, ExecFails, AtStatement, Calm, RunFits, InBatch
  <2>2. UNCHANGED <<pc, completed, errs, cp, applied>>
    BY <1>6, <2>1 DEF SkipEmpty, ExecOK, ExecFails, Advance
  <2> QED
    BY <1>0, <2>2, Unseen DEF Saving
<1>7. ASSUME NEW r \in Runs, Commit(r)
      PROVE  \/ \E ok \in SUBSET (0 .. N - 1) : Plan!Batch(ok)
             \/ UNCHANGED <<Position, Failed, applied>>
  <2>1. CASE MakeDurable(r) /\ FinishBatch(r) /\ pc' = [pc EXCEPT ![r] = "write"]
    <3>1. Plan!Batch(tx[r])
      BY <1>7, <2>1, CommitIsBatch DEF Commit
    <3>2. tx[r] \in SUBSET (0 .. N - 1)
      BY <1>0 DEF TypeOK, Stmts
    <3> QED
      BY <3>1, <3>2
  <2>2. CASE Return(r, "error") /\ UNCHANGED <<completed, errs, rows, applied>>
    <3>1. \A q \in Runs : Saving(q)' = Saving(q)
      BY <1>0, <1>7, <2>2 DEF Commit, Return, Saving, TypeOK
    <3> QED
      BY <1>0, <1>7, <2>2, <3>1, Unseen DEF Commit
  <2> QED
    BY <1>7, <2>1, <2>2 DEF Commit
<1>8. ASSUME NEW r \in Runs, SaveWrite(r) PROVE UNCHANGED <<Position, Failed, applied>>
  <2>1. UNCHANGED <<completed, errs, cp, applied>> /\ \A q \in Runs : Saving(q)' = Saving(q)
    BY <1>0, <1>8 DEF SaveWrite, Saving, TypeOK
  <2> QED
    BY <1>0, <2>1, Unseen
<1>9. ASSUME NEW r \in Runs, SaveRename(r) PROVE UNCHANGED <<Position, Failed, applied>>
  <2>1. Saving(r) /\ tmp = CheckpointOf(r) /\ tmp.present
    BY <1>9 DEF SaveRename, Calm, RunFits, CheckpointOf, Saving
  <2>2. Position = completed[r] /\ Failed = errs[r]
    BY <1>0, <2>1, MappedSaving
  <2>3. cp' = tmp /\ \A q \in Runs : ~Saving(q)'
    BY <1>0, <1>9, <2>1 DEF SaveRename, Saving, TypeOK, OneLive, Live
  <2>4. Position' = completed[r] /\ Failed' = errs[r]
    BY <2>1, <2>3 DEF Position, Failed, CheckpointOf
  <2> QED
    BY <1>9, <2>2, <2>4 DEF SaveRename
<1>10. ~Crash
  BY DEF Crash
<1> QED
  BY <1>1, <1>2, <1>3, <1>4, <1>5, <1>6, <1>7, <1>8, <1>9, <1>10 DEF Next, Step, Finished

\* Without faults every batch takes effect as a whole, once, and with its
\* errors and the next position: the executor implements BatchPlan
\* (executor.go:112-196).
THEOREM ImplementsBatchPlan ==
  ASSUME Faults = {}
  PROVE  Spec => BatchesAreAtomic
<1>1. IInv /\ Calm /\ [Next]_vars => IInv' /\ Calm'
  BY IInvNext, CalmNext
<1>2. IInv /\ Calm /\ Calm' /\ [Next]_vars
        => [\E ok \in SUBSET (0 .. N - 1) : Plan!Batch(ok)]_(Plan!planVars)
  BY RefinesNext
<1> QED
  BY <1>1, <1>2, IInvInit, CalmInit, RefinesInit, PTL DEF Spec, BatchesAreAtomic, Plan!PlanSpec

\* Without faults no statement takes effect twice, and whenever nothing runs
\* MySQL holds exactly what the checkpoint tallies.
THEOREM ExactlyOnce ==
  ASSUME Faults = {}
  PROVE  Spec => []AppliedExactlyOnce
<1>1. IInv /\ Calm /\ [Next]_vars => IInv' /\ Calm'
  BY IInvNext, CalmNext
<1>2. IInv /\ Calm => AppliedExactlyOnce
  <2> SUFFICES ASSUME IInv, Calm PROVE AppliedExactlyOnce
    OBVIOUS
  <2>1. \E w : applied = Tally(w)
    BY DEF Calm, RunFits
  <2>2. \A i \in Stmts : applied[i] <= 1
    BY <2>1 DEF Tally
  <2>3. ASSUME \A r \in Runs : ~Live(r) PROVE cp.rows = {i \in Stmts : applied[i] = 1}
    <3>1. applied = Tally(cp.rows)
      BY <2>3 DEF Calm, Live, Saving
    <3>2. cp.rows \subseteq Stmts
      BY DEF IInv, TypeOK, Checkpoint
    <3> QED
      BY <3>1, <3>2 DEF Tally
  <2> QED
    BY <2>2, <2>3 DEF AppliedExactlyOnce
<1> QED
  BY <1>1, <1>2, IInvInit, CalmInit, PTL DEF Spec

\* Without faults a paused report stands at the checkpoint and before the end.
THEOREM PauseSound ==
  ASSUME Faults = {}
  PROVE  Spec => PausedAtCheckpoint
<1>1. IInv /\ Calm /\ [Next]_vars => IInv' /\ Calm'
  BY IInvNext, CalmNext
<1>2. IInv /\ Calm /\ [Next]_vars
        => [\A r \in Runs : report'[r] = "paused" /\ report[r] # "paused"
                               => completed[r] = cp.last /\ completed[r] < N]_vars
  <2> SUFFICES ASSUME IInv, Calm, Next, NEW r \in Runs, report'[r] = "paused", report[r] # "paused"
               PROVE  completed[r] = cp.last /\ completed[r] < N
    OBVIOUS
  <2>1. LoopHead(r) \/ Abort(r)
    BY DEF Next, Step, Finished, vars, local, Run, Resume, LoadFails, OpenDB, LoopHead, Begin, Abort,
           SkipEmpty, ExecOK, ExecFails, Advance, Commit, SaveWrite, SaveRename, Cancel, Crash,
           Return, IInv, TypeOK
  <2>2. CASE LoopHead(r)
    BY <2>2, ConstantsAssumption
       DEF LoopHead, Return, Calm, RunFits, AtFile, IInv, TypeOK
  <2>3. CASE Abort(r)
    BY <2>3 DEF Abort, AtStatement, Calm, RunFits, AtFile
  <2> QED
    BY <2>1, <2>2, <2>3
<1> QED
  BY <1>1, <1>2, IInvInit, CalmInit, PTL DEF Spec, PausedAtCheckpoint

\* Without faults the checkpoint only moves forward.
THEOREM AdvanceSound ==
  ASSUME Faults = {}
  PROVE  Spec => CheckpointAdvances
<1>1. IInv /\ Calm /\ [Next]_vars => IInv' /\ Calm'
  BY IInvNext, CalmNext
<1>2. IInv /\ Calm /\ [Next]_vars => [cp.last <= cp'.last]_cp
  <2> SUFFICES ASSUME IInv, Calm, Next, cp' # cp PROVE cp.last <= cp'.last
    BY DEF vars
  <2>1. \E r \in Runs : Run(r) \/ SaveRename(r)
    BY DEF Next, Step, Finished, vars, local, Run, Resume, LoadFails, OpenDB, LoopHead, Begin, Abort,
           SkipEmpty, ExecOK, ExecFails, Advance, Commit, SaveWrite, SaveRename, Cancel, Crash
  <2>2. ASSUME NEW r \in Runs, Run(r) PROVE cp.last <= cp'.last
    BY <2>2 DEF Run, MayRun, Calm, Untried, Absent
  <2>3. ASSUME NEW r \in Runs, SaveRename(r) PROVE cp.last <= cp'.last
    BY <2>3 DEF SaveRename, Calm, RunFits, Saving, CheckpointOf
  <2> QED
    BY <2>1, <2>2, <2>3
<1> QED
  BY <1>1, <1>2, IInvInit, CalmInit, PTL DEF Spec, CheckpointAdvances
=============================================================================

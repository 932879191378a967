------------------------------ MODULE Executor ------------------------------
(***************************************************************************)
(* The batch executor of the agent (internal/executor): one rollback plan  *)
(* of N statements is applied to MySQL in transactions of BatchSize        *)
(* statements, a checkpoint file is written after every commit, and a      *)
(* later Resume starts from that file.                                     *)
(*                                                                         *)
(* An element of Runs is one invocation of Run or Resume, that is one      *)
(* goroutine of the agent's daemon.  Statements are the numbers 0 .. N-1;  *)
(* a tally of affected rows is the set of the statements it counts.        *)
(***************************************************************************)
EXTENDS Integers

CONSTANTS
  N,          \* len(plan.Statements)
  BatchSize,  \* plan.BatchSize after normalizePlan
  Empty,      \* the statements whose SQL is the empty string
  Runs,       \* the invocations of Run and Resume
  Faults      \* what the environment may do, a subset of AllFaults

(***************************************************************************)
(* crash    the agent process dies; MySQL rolls back its open transactions *)
(* overlap  an invocation starts while an earlier one is still going       *)
(* save     a checkpoint write fails                                       *)
(* lost     a COMMIT takes effect but its answer is lost                   *)
(* victim   a statement error makes MySQL roll back the whole transaction  *)
(*          (a deadlock), and the session goes on in autocommit mode       *)
(***************************************************************************)
AllFaults == {"crash", "overlap", "save", "lost", "victim"}

ASSUME ConstantsAssumption ==
  /\ N \in Nat
  /\ BatchSize \in Nat \ {0}
  /\ Empty \subseteq 0 .. N - 1
  /\ Faults \subseteq AllFaults

Stmts == 0 .. N - 1

VARIABLES
  pc,         \* where each invocation is
  cancelled,  \* its context is cancelled
  report,     \* what it returned
  completed,  \* statements [0, completed) are behind it
  errs,       \* the statements recorded as failed
  rows,       \* the statements whose affected rows are tallied
  idx,        \* the statement at hand of the current batch
  batchErrs, batchRows,
  tx,         \* the effects of the open transaction
  auto,       \* MySQL rolled the transaction back; the session autocommits
  cp, tmp,    \* the checkpoint file and the temporary file beside it
  applied,    \* how often each statement's effect was made durable in MySQL
  paused,     \* the server holds the operation paused, so it may be resumed
  undone      \* history: statements that MySQL undid behind the executor's back

local == <<completed, errs, rows, idx, batchErrs, batchRows, tx, auto>>
vars == <<pc, cancelled, report, local, cp, tmp, applied, paused, undone>>

Absent == [present |-> FALSE, last |-> 0, errs |-> {}, rows |-> {}]

Checkpoint ==
  [present: BOOLEAN, last: 0 .. N, errs: SUBSET Stmts, rows: SUBSET Stmts]

TypeOK ==
  /\ pc \in [Runs -> {"new", "open", "head", "begin", "exec", "write", "rename", "ended"}]
  /\ cancelled \in [Runs -> BOOLEAN]
  /\ report \in [Runs -> {"none", "done", "paused", "error"}]
  /\ completed \in [Runs -> 0 .. N]
  /\ errs \in [Runs -> SUBSET Stmts]
  /\ rows \in [Runs -> SUBSET Stmts]
  /\ idx \in [Runs -> 0 .. N]
  /\ batchErrs \in [Runs -> SUBSET Stmts]
  /\ batchRows \in [Runs -> SUBSET Stmts]
  /\ tx \in [Runs -> SUBSET Stmts]
  /\ auto \in [Runs -> BOOLEAN]
  /\ cp \in Checkpoint
  /\ tmp \in Checkpoint
  /\ applied \in [Stmts -> Nat]
  /\ paused \in BOOLEAN
  /\ undone \in SUBSET Stmts

Init ==
  /\ pc = [r \in Runs |-> "new"]
  /\ cancelled = [r \in Runs |-> FALSE]
  /\ report = [r \in Runs |-> "none"]
  /\ completed = [r \in Runs |-> 0]
  /\ errs = [r \in Runs |-> {}]
  /\ rows = [r \in Runs |-> {}]
  /\ idx = [r \in Runs |-> 0]
  /\ batchErrs = [r \in Runs |-> {}]
  /\ batchRows = [r \in Runs |-> {}]
  /\ tx = [r \in Runs |-> {}]
  /\ auto = [r \in Runs |-> FALSE]
  /\ cp = Absent
  /\ tmp = Absent
  /\ applied = [i \in Stmts |-> 0]
  /\ paused = FALSE
  /\ undone = {}

-----------------------------------------------------------------------------
Live(r) == pc[r] \notin {"new", "ended"}

\* No other invocation was made yet, or concurrent requests are possible.
MayRun == \/ \A q \in Runs : pc[q] = "new"
          \/ "overlap" \in Faults

\* The server sends resume for a paused operation only.  It takes the agent's
\* acceptance of the cancellation for the pause, not the end of the run.
MayResume == \/ paused /\ \A q \in Runs : ~Live(q)
             \/ "overlap" \in Faults /\ \E q \in Runs : cancelled[q]

\* Mutant: the last batch is not clamped to the plan.
BatchEndUnclamped(r) == completed[r] + BatchSize

\* Mutant: the end of the batch is computed from a batch size of zero.
BatchEndZero(r) == completed[r]

BatchEnd(r) ==
  IF completed[r] + BatchSize > N THEN N ELSE completed[r] + BatchSize

Return(r, outcome) ==
  /\ pc' = [pc EXCEPT ![r] = "ended"]
  /\ report' = [report EXCEPT ![r] = outcome]

(***************************************************************************)
(* The checkpoint a run writes: what it has behind it, with the errors and *)
(* the rows accumulated so far.                                            *)
(***************************************************************************)
CheckpointOf(r) ==
  [present |-> TRUE, last |-> completed[r], errs |-> errs[r], rows |-> rows[r]]

\* Run clears the checkpoint (a failure is ignored) and goes on to write the
\* initial one.
Run(r) ==
  /\ pc[r] = "new"
  /\ MayRun
  /\ cp' \in {Absent, cp}
  /\ pc' = [pc EXCEPT ![r] = "write"]
  /\ UNCHANGED <<cancelled, report, local, tmp, applied, paused, undone>>

\* Mutant: the recorded errors are not carried over.
LoadCheckpointNoErrs(r) ==
  /\ completed' = [completed EXCEPT ![r] = cp.last]
  /\ errs' = [errs EXCEPT ![r] = {}]
  /\ rows' = [rows EXCEPT ![r] = cp.rows]

\* Mutant: the position in the checkpoint is ignored.
LoadCheckpointFromZero(r) ==
  /\ completed' = [completed EXCEPT ![r] = 0]
  /\ errs' = [errs EXCEPT ![r] = cp.errs]
  /\ rows' = [rows EXCEPT ![r] = cp.rows]

LoadCheckpoint(r) ==
  /\ completed' = [completed EXCEPT ![r] = cp.last]
  /\ errs' = [errs EXCEPT ![r] = cp.errs]
  /\ rows' = [rows EXCEPT ![r] = cp.rows]

\* Resume starts where the checkpoint stands, or from 0 without one.
Resume(r) ==
  /\ pc[r] = "new"
  /\ MayResume
  /\ LoadCheckpoint(r)
  /\ pc' = [pc EXCEPT ![r] = "open"]
  /\ paused' = FALSE
  /\ UNCHANGED <<cancelled, report, idx, batchErrs, batchRows, tx, auto, cp, tmp, applied, undone>>

\* A checkpoint that cannot be loaded ends Resume at once.
LoadFails(r) ==
  /\ pc[r] = "new"
  /\ MayResume
  /\ cp.present
  /\ Return(r, "error")
  /\ paused' = FALSE
  /\ UNCHANGED <<cancelled, local, cp, tmp, applied, undone>>

OpenDB(r) ==
  /\ pc[r] = "open"
  /\ \/ /\ pc' = [pc EXCEPT ![r] = "head"]
        /\ UNCHANGED report
     \/ Return(r, "error")
  /\ UNCHANGED <<cancelled, local, cp, tmp, applied, paused, undone>>

\* The head of the batch loop: finished, cancelled, or one more batch.
LoopHead(r) ==
  /\ pc[r] = "head"
  /\ IF completed[r] >= N
       THEN Return(r, "done")
       ELSE IF cancelled[r]
              THEN Return(r, "paused")
              ELSE /\ pc' = [pc EXCEPT ![r] = "begin"]
                   /\ UNCHANGED report
  /\ UNCHANGED <<cancelled, local, cp, tmp, applied, paused, undone>>

Begin(r) ==
  /\ pc[r] = "begin"
  /\ \/ /\ pc' = [pc EXCEPT ![r] = "exec"]
        /\ idx' = [idx EXCEPT ![r] = completed[r]]
        /\ batchErrs' = [batchErrs EXCEPT ![r] = {}]
        /\ batchRows' = [batchRows EXCEPT ![r] = {}]
        /\ tx' = [tx EXCEPT ![r] = {}]
        /\ auto' = [auto EXCEPT ![r] = FALSE]
        /\ UNCHANGED report
     \/ /\ Return(r, "error")
        /\ UNCHANGED <<idx, batchErrs, batchRows, tx, auto>>
  /\ UNCHANGED <<cancelled, completed, errs, rows, cp, tmp, applied, paused, undone>>

AtStatement(r) == pc[r] = "exec" /\ idx[r] < BatchEnd(r)

\* Mutant: an aborted batch is committed instead of rolled back.
AbortCommits(r) ==
  /\ AtStatement(r)
  /\ cancelled[r]
  /\ applied' = [i \in Stmts |-> IF i \in tx[r] THEN applied[i] + 1 ELSE applied[i]]
  /\ tx' = [tx EXCEPT ![r] = {}]
  /\ Return(r, "paused")
  /\ UNCHANGED <<cancelled, completed, errs, rows, idx, batchErrs, batchRows, auto,
                 cp, tmp, paused, undone>>

\* Cancellation is looked at before every statement; the batch is rolled back.
Abort(r) ==
  /\ AtStatement(r)
  /\ cancelled[r]
  /\ tx' = [tx EXCEPT ![r] = {}]
  /\ Return(r, "paused")
  /\ UNCHANGED <<cancelled, completed, errs, rows, idx, batchErrs, batchRows, auto,
                 cp, tmp, applied, paused, undone>>

Advance(r) ==
  /\ idx' = [idx EXCEPT ![r] = idx[r] + 1]
  /\ UNCHANGED <<pc, cancelled, report, completed, errs, rows, cp, tmp, paused>>

SkipEmpty(r) ==
  /\ AtStatement(r) /\ ~cancelled[r]
  /\ idx[r] \in Empty
  /\ Advance(r)
  /\ UNCHANGED <<batchErrs, batchRows, tx, auto, applied, undone>>

ExecOK(r) ==
  /\ AtStatement(r) /\ ~cancelled[r]
  /\ idx[r] \notin Empty
  /\ batchRows' = [batchRows EXCEPT ![r] = batchRows[r] \cup {idx[r]}]
  /\ IF auto[r]
       THEN /\ applied' = [applied EXCEPT ![idx[r]] = applied[idx[r]] + 1]
            /\ UNCHANGED tx
       ELSE /\ tx' = [tx EXCEPT ![r] = tx[r] \cup {idx[r]}]
            /\ UNCHANGED applied
  /\ Advance(r)
  /\ UNCHANGED <<batchErrs, auto, undone>>

\* A failing statement is recorded and the batch goes on.
ExecFails(r) ==
  /\ AtStatement(r) /\ ~cancelled[r]
  /\ idx[r] \notin Empty
  /\ batchErrs' = [batchErrs EXCEPT ![r] = batchErrs[r] \cup {idx[r]}]
  /\ \/ UNCHANGED <<tx, auto, undone>>
     \/ /\ "victim" \in Faults
        /\ undone' = undone \cup tx[r]
        /\ tx' = [tx EXCEPT ![r] = {}]
        /\ auto' = [auto EXCEPT ![r] = TRUE]
  /\ Advance(r)
  /\ UNCHANGED <<batchRows, applied>>

MakeDurable(r) ==
  applied' = [i \in Stmts |-> IF i \in tx[r] THEN applied[i] + 1 ELSE applied[i]]

\* Mutant: the errors of the batch are dropped.
FinishBatchNoErrs(r) ==
  /\ completed' = [completed EXCEPT ![r] = BatchEnd(r)]
  /\ rows' = [rows EXCEPT ![r] = rows[r] \cup batchRows[r]]
  /\ UNCHANGED errs

\* What the run holds of the batch after a successful COMMIT.
FinishBatch(r) ==
  /\ completed' = [completed EXCEPT ![r] = BatchEnd(r)]
  /\ errs' = [errs EXCEPT ![r] = errs[r] \cup batchErrs[r]]
  /\ rows' = [rows EXCEPT ![r] = rows[r] \cup batchRows[r]]

Commit(r) ==
  /\ pc[r] = "exec"
  /\ idx[r] = BatchEnd(r)
  /\ tx' = [tx EXCEPT ![r] = {}]
  /\ \/ /\ MakeDurable(r)
        /\ FinishBatch(r)
        /\ pc' = [pc EXCEPT ![r] = "write"]
        /\ UNCHANGED report
     \/ /\ Return(r, "error")
        /\ UNCHANGED <<completed, errs, rows, applied>>
     \/ /\ "lost" \in Faults
        /\ MakeDurable(r)
        /\ Return(r, "error")
        /\ UNCHANGED <<completed, errs, rows>>
  /\ UNCHANGED <<cancelled, idx, batchErrs, batchRows, auto, cp, tmp, paused, undone>>

(***************************************************************************)
(* FileCheckpointStore.Save: the temporary file has one name per operation *)
(* and is renamed over the checkpoint.  After Run's first write the        *)
(* connection is opened; after a batch the progress callback is called and *)
(* the loop goes on.                                                       *)
(***************************************************************************)
SaveWrite(r) ==
  /\ pc[r] = "write"
  /\ \/ /\ tmp' = CheckpointOf(r)
        /\ pc' = [pc EXCEPT ![r] = "rename"]
        /\ UNCHANGED report
     \/ /\ "save" \in Faults
        /\ Return(r, "error")
        /\ UNCHANGED tmp
  /\ UNCHANGED <<cancelled, local, cp, applied, paused, undone>>

SaveRename(r) ==
  /\ pc[r] = "rename"
  /\ \/ /\ tmp.present
        /\ cp' = tmp
        /\ tmp' = Absent
        /\ pc' = [pc EXCEPT ![r] = IF completed[r] = 0 THEN "open" ELSE "head"]
        /\ UNCHANGED report
     \/ /\ ~tmp.present \/ "save" \in Faults
        /\ Return(r, "error")
        /\ UNCHANGED <<cp, tmp>>
  /\ UNCHANGED <<cancelled, local, applied, paused, undone>>

-----------------------------------------------------------------------------
\* The daemon cancels the context; the server takes the operation for paused.
Cancel(r) ==
  /\ Live(r)
  /\ ~cancelled[r]
  /\ cancelled' = [cancelled EXCEPT ![r] = TRUE]
  /\ paused' = TRUE
  /\ UNCHANGED <<pc, report, local, cp, tmp, applied, undone>>

\* The agent dies: every invocation is gone, the files stay.
Crash ==
  /\ "crash" \in Faults
  /\ \E r \in Runs : Live(r)
  /\ pc' = [r \in Runs |-> IF Live(r) THEN "ended" ELSE pc[r]]
  /\ tx' = [r \in Runs |-> {}]
  /\ UNCHANGED <<cancelled, report, completed, errs, rows, idx, batchErrs, batchRows, auto,
                 cp, tmp, applied, paused, undone>>

\* The steps an invocation takes once it was started.
Step(r) ==
  \/ OpenDB(r) \/ LoopHead(r) \/ Begin(r)
  \/ Abort(r) \/ SkipEmpty(r) \/ ExecOK(r) \/ ExecFails(r)
  \/ Commit(r) \/ SaveWrite(r) \/ SaveRename(r)

Finished ==
  /\ \A r \in Runs : ~Live(r)
  /\ UNCHANGED vars

Next ==
  \/ \E r \in Runs : Run(r) \/ Resume(r) \/ LoadFails(r) \/ Step(r) \/ Cancel(r)
  \/ Crash
  \/ Finished

Spec == Init /\ [][Next]_vars

(***************************************************************************)
(* A goroutine that can go on does.  A statement that waits for a row lock *)
(* ends by InnoDB's lock wait timeout, so MySQL always answers.            *)
(***************************************************************************)
FairSpec == Spec /\ \A r \in Runs : WF_vars(Step(r))

-----------------------------------------------------------------------------
\* [0, last) is accounted for: a statement there is empty, or failed and is in
\* e, or is in w and its effect is durable in MySQL unless MySQL undid it as a
\* deadlock victim; never two of these.
Accounted(last, e, w) ==
  /\ e \cup w = (0 .. last - 1) \ Empty
  /\ e \cap w = {}
  /\ \A i \in w : applied[i] > 0 \/ i \in undone

(***************************************************************************)
(* The checkpoint file never claims more than was done: whatever crashes,  *)
(* failed writes, lost answers and overlapping invocations happen,         *)
(* everything before its position is in MySQL or recorded as failed, and   *)
(* its row tally counts just the former (executor.go:171-186).  The only   *)
(* exception is what MySQL takes back itself when it rolls a transaction   *)
(* back on a statement error, which the loop of executor.go:134-154 does   *)
(* not tell from an error of one statement.                                *)
(***************************************************************************)
CheckpointAccounts == Accounted(cp.last, cp.errs, cp.rows)

(***************************************************************************)
(* The same of what an invocation reports when it ends, finished, paused   *)
(* or failed, carried-over part included (executor.go:65-94, 198-209).     *)
(***************************************************************************)
ReportAccounts ==
  \A r \in Runs : report[r] # "none" => Accounted(completed[r], errs[r], rows[r])

(***************************************************************************)
(* With no crash, overlap, lost answer or failed checkpoint write, no      *)
(* statement takes effect twice over any sequence of pauses, commit        *)
(* failures and resumes, and whenever nothing runs MySQL holds exactly the *)
(* effects that the checkpoint counts.                                     *)
(***************************************************************************)
AppliedExactlyOnce ==
  /\ \A i \in Stmts : applied[i] <= 1
  /\ (\A r \in Runs : ~Live(r)) => cp.rows = {i \in Stmts : applied[i] = 1}

(***************************************************************************)
(* A paused report stands exactly at the checkpoint, so the Done that the  *)
(* server shows is where Resume goes on (executor.go:114-116, 156-160).    *)
(***************************************************************************)
PausedAtCheckpoint ==
  [][\A r \in Runs :
       report'[r] = "paused" /\ report[r] # "paused"
         => completed[r] = cp.last /\ completed[r] < N]_vars

(***************************************************************************)
(* The checkpoint only moves forward through any sequence of resumes       *)
(* (executor.go:57-64).                                                    *)
(***************************************************************************)
CheckpointAdvances == [][cp.last <= cp'.last]_cp

(***************************************************************************)
(* Every invocation ends, whatever fails (executor.go:112-198).            *)
(***************************************************************************)
RunEnds == \A r \in Runs : Live(r) ~> pc[r] = "ended"

-----------------------------------------------------------------------------
(* The executor implements BatchPlan.  Between a COMMIT and the rename of   *)
(* the checkpoint the run knows the position, at other times the file does. *)

Saving(r) == pc[r] \in {"write", "rename"}
Saver == CHOOSE r \in Runs : Saving(r)
Position == IF \E r \in Runs : Saving(r) THEN completed[Saver] ELSE cp.last
Failed == IF \E r \in Runs : Saving(r) THEN errs[Saver] ELSE cp.errs

Plan == INSTANCE BatchPlan WITH position <- Position, failed <- Failed

(***************************************************************************)
(* With no crash, overlap, lost answer, failed checkpoint write or         *)
(* deadlock, every batch takes effect as a whole and once, together with   *)
(* its errors and the position of the next one, through any sequence of    *)
(* cancellations, failed begins and commits, and resumes                   *)
(* (executor.go:112-196).                                                  *)
(***************************************************************************)
BatchesAreAtomic == Plan!PlanSpec
=============================================================================

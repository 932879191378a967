----------------------------- MODULE BatchPlan -----------------------------
(***************************************************************************)
(* What the batch executor promises when nothing crashes and no file or    *)
(* answer is lost: the plan is executed in batches, each of which takes    *)
(* effect as a whole, once, together with the note of what failed in it    *)
(* and with the position where the next one begins.  Pauses, errors and    *)
(* resumes do not show.                                                    *)
(***************************************************************************)
EXTENDS Integers

CONSTANTS N, BatchSize, Empty

VARIABLES
  position,  \* statements [0, position) are behind
  failed,    \* the statements recorded as failed
  applied    \* how often each statement took effect

planVars == <<position, failed, applied>>

PlanInit ==
  /\ position = 0
  /\ failed = {}
  /\ applied = [i \in 0 .. N - 1 |-> 0]

\* One batch: of its statements those in ok take effect and the others fail.
Batch(ok) ==
  LET end == IF position + BatchSize > N THEN N ELSE position + BatchSize
      stmts == (position .. end - 1) \ Empty
  IN  /\ position < N
      /\ ok \subseteq stmts
      /\ position' = end
      /\ failed' = failed \cup (stmts \ ok)
      /\ applied' = [i \in 0 .. N - 1 |-> IF i \in ok THEN applied[i] + 1 ELSE applied[i]]

PlanSpec == PlanInit /\ [][\E ok \in SUBSET (0 .. N - 1) : Batch(ok)]_planVars
=============================================================================

-------------------------- MODULE OperationStates --------------------------
(***************************************************************************)
(* The state machine of a recovery operation (internal/server/pitr/state). *)
(***************************************************************************)

States == {"created", "scanning", "ready", "executing", "paused",
           "done", "failed", "blocked", "cancelled"}

\* The states that may follow each state.
validTransitions ==
  [s \in States |->
     CASE s = "created"   -> {"scanning", "blocked", "failed"}
       [] s = "scanning"  -> {"ready", "failed", "cancelled", "blocked"}
       [] s = "ready"     -> {"executing", "cancelled", "scanning"}
       [] s = "executing" -> {"paused", "done", "failed", "blocked"}
       [] s = "paused"    -> {"executing", "cancelled"}
       [] OTHER           -> {}]

TransitionValid(from, to) == from \in States /\ to \in validTransitions[from]

Terminal == {"done", "failed", "cancelled", "blocked"}

IsTerminal(s) == s \in Terminal
=============================================================================

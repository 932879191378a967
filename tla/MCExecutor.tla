---------------------------- MODULE MCExecutor ----------------------------
(* Small instances of Executor. *)
EXTENDS Executor, TLC

Invocations == Permutations(Runs)
=============================================================================

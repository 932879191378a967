---------------------------- MODULE AgentDaemon ----------------------------
(***************************************************************************)
(* The agent's command layer (internal/daemon, cmd/agent/serve.go) as one  *)
(* recovery operation sees it.  The server sends every command of an       *)
(* operation under the operation's own ID, so the registry of running      *)
(* tasks has a single slot for it.                                         *)
(*                                                                         *)
(* A command is named by the server request that sent it, and so is the    *)
(* scan or execution goroutine it starts.  Events leave in one step: the   *)
(* hub hands each to a goroutine of its own, which may run at any time.    *)
(***************************************************************************)
EXTENDS Integers, Sequences, FiniteSets

CONSTANTS
  Requests,  \* the server's HTTP requests
  Kind,      \* what each request asks for
  Txs,       \* the transactions in the archive that pass the filter
  Mode,      \* the scan mode of the operation
  MaxPreview,      \* the number of transactions the operator asked for
  DefaultPreview,  \* the number where nobody asked
  Batches,   \* the number of batches an execution takes
  Faults,    \* what the environment may do
  None       \* no transaction, no task, no command

Kinds == {"start", "select", "execute", "resume", "pause", "cancel"}

(***************************************************************************)
(* drop     the connection is lost, at most MaxDrops times                 *)
(* restart  the server is restarted, once                                  *)
(* reject   the agent refuses a command                                    *)
(* fail     a scan or an execution ends with an error                      *)
(* timeout  the HTTP client goes away while the server waits for the agent *)
(***************************************************************************)
AllFaults == {"drop", "restart", "reject", "fail", "timeout"}

ASSUME DaemonAssumption ==
  /\ Kind \in [Requests -> Kinds]
  /\ Mode \in {"meta", "sql", "selected"}
  /\ {MaxPreview, DefaultPreview} \subseteq Nat
  /\ Batches \in Nat
  /\ Faults \subseteq AllFaults
  /\ None \notin Requests \cup Txs \cup {"running", "ended", "gone"}

VARIABLES
  conn,     \* the hub holds a live connection of the agent
  cmds,     \* commands on their way to the agent, in order
  ops,      \* the registry slot: the task that a cancel would reach
  task,     \* the goroutine each command started
  ctx,      \* whether its context is cancelled
  pos,      \* batches an execution has committed
  agentCp,  \* the position in the agent's checkpoint file
  events,   \* events on their way to, or being handled by, the server
  req       \* the server's requests; a command carries its sel and plan

agentVars == <<ops, task, ctx, pos, agentCp>>

IsScan(r) == Kind[r] \in {"start", "select"}
IsExec(r) == Kind[r] \in {"execute", "resume"}

\* A new event; the last three fields belong to the goroutine that handles it.
Event(r, kind, arg) ==
  [from |-> r, kind |-> kind, arg |-> arg, pc |-> "new", st |-> None, sel |-> {}]

\* An event sent while the connection is down is dropped.
Emit(E) == events' = IF conn THEN events \cup E ELSE events

DaemonInit ==
  /\ ops = None
  /\ task = [r \in Requests |-> None]
  /\ ctx = [r \in Requests |-> FALSE]
  /\ pos = [r \in Requests |-> 0]
  /\ agentCp = 0

-----------------------------------------------------------------------------
(* Command handlers.  Each gives the response that goes back. *)

\* Scan, Execute and Resume register the task and answer at once.  Execute
\* resets the checkpoint file, Resume starts from it.
StartTask(r) ==
  /\ Kind[r] \in {"start", "select", "execute", "resume"}
  /\ ops' = r
  /\ task' = [task EXCEPT ![r] = "running"]
  /\ pos' = [pos EXCEPT ![r] = IF Kind[r] = "resume" THEN agentCp ELSE 0]
  /\ agentCp' = IF Kind[r] = "execute" THEN 0 ELSE agentCp
  /\ UNCHANGED ctx

\* A cancel reaches whatever task the registry names.
CancelTask(r) ==
  /\ Kind[r] \in {"pause", "cancel"}
  /\ ops # None
  /\ ctx' = [ctx EXCEPT ![ops] = TRUE]
  /\ UNCHANGED <<ops, task, pos, agentCp>>

Refuse(r) ==
  /\ IF Kind[r] \in {"pause", "cancel"} THEN ops = None ELSE "reject" \in Faults
  /\ UNCHANGED agentVars

-----------------------------------------------------------------------------
(* Task goroutines. *)

\* The directed second scan looks at the selected transactions only.
Scope(r) == IF Kind[r] = "select" THEN req[r].sel ELSE Txs

\* A scan stops at its limit; the second one is sent without one.
Limit(r) == IF Kind[r] = "select" THEN DefaultPreview ELSE MaxPreview

\* The events of the transactions in S.
ScanEvents(r, S) ==
  {Event(r, "tx_meta", t) : t \in S}
    \cup (IF Mode = "meta" THEN {} ELSE {Event(r, "sql", t) : t \in S})

\* A scan ends with scan_done at its limit or at the end of the archive, or with
\* op_error before.  A cancelled scan may have been past its last transaction.
ScanEnds(r) ==
  /\ IsScan(r) /\ task[r] = "running"
  /\ \E S \in SUBSET Scope(r) :
       /\ Cardinality(S) <= Limit(r)
       /\ \/ /\ S = Scope(r) \/ Cardinality(S) = Limit(r)
             /\ Emit(ScanEvents(r, S) \cup {Event(r, "scan_done", None)})
          \/ /\ ctx[r] \/ "fail" \in Faults
             /\ Emit(ScanEvents(r, S) \cup {Event(r, "op_error", None)})
  /\ task' = [task EXCEPT ![r] = "ended"]
  /\ UNCHANGED <<ops, ctx, pos, agentCp>>

\* Mutant: the loop does not stop at the last statement.
ExecBatchPastEnd(r) ==
  /\ IsExec(r) /\ task[r] = "running" /\ ~ctx[r]
  /\ pos[r] <= Batches
  /\ pos' = [pos EXCEPT ![r] = pos[r] + 1]
  /\ agentCp' = pos[r] + 1
  /\ Emit({Event(r, "progress", pos[r] + 1)})
  /\ UNCHANGED <<ops, task, ctx>>

\* One batch: commit, checkpoint, progress.
ExecBatch(r) ==
  /\ IsExec(r) /\ task[r] = "running" /\ ~ctx[r]
  /\ pos[r] < Batches
  /\ pos' = [pos EXCEPT ![r] = pos[r] + 1]
  /\ agentCp' = pos[r] + 1
  /\ Emit({Event(r, "progress", pos[r] + 1)})
  /\ UNCHANGED <<ops, task, ctx>>

\* The execution is done, was cancelled before its last batch, or failed.
\* op_paused stands for an op_done whose report says paused.
ExecEnds(r) ==
  /\ IsExec(r) /\ task[r] = "running"
  /\ \/ pos[r] = Batches /\ Emit({Event(r, "op_done", None)})
     \/ pos[r] < Batches /\ ctx[r] /\ Emit({Event(r, "op_paused", None)})
     \/ "fail" \in Faults /\ Emit({Event(r, "op_error", None)})
  /\ task' = [task EXCEPT ![r] = "ended"]
  /\ UNCHANGED <<ops, ctx, pos, agentCp>>

\* The deferred unregisterOp empties the slot, whoever holds it by now.
Unregister(r) ==
  /\ task[r] = "ended"
  /\ task' = [task EXCEPT ![r] = "gone"]
  /\ ops' = None
  /\ ctx' = [ctx EXCEPT ![r] = FALSE]
  /\ UNCHANGED <<pos, agentCp, events>>

TaskStep(r) == ScanEnds(r) \/ ExecBatch(r) \/ ExecEnds(r) \/ Unregister(r)
=============================================================================

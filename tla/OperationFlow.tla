--------------------------- MODULE OperationFlow ---------------------------
(***************************************************************************)
(* One recovery operation as the server (internal/server/pitr, with the    *)
(* hub's command path) and the agent drive it together: HTTP handlers,     *)
(* the goroutines that handle the agent's events, the disconnect hook and  *)
(* the startup reconciliation, all working on one record of the store.     *)
(*                                                                         *)
(* A handler is cut where it touches shared state: it reads the record,    *)
(* sends a command and waits, and moves the status by compare-and-swap     *)
(* against the status it read.                                             *)
(***************************************************************************)
EXTENDS AgentDaemon, OperationStates

CONSTANT MaxDrops  \* bound: how often the connection is lost

VARIABLES
  status, selected, stmts, srvCp,  \* the record, its statements and checkpoint
  preview,                         \* the in-memory scan preview
  audit,                           \* entries written of each terminal state
  pending,                         \* whose channel gets the next response
  drops, hook, restarted           \* lost connections, the state the hook of the
                                   \* last one looks for, a restart

storeVars == <<status, selected, stmts, srvCp>>
linkVars == <<conn, cmds, pending, drops, hook, restarted>>
vars == <<storeVars, preview, audit, req, linkVars, agentVars, events>>

ASSUME FlowAssumption == MaxDrops \in Nat /\ None \notin States

NoPreview == [cap |-> None, metas |-> {}, sql |-> {}]

HasPreview == preview # NoPreview

EventKinds == {"tx_meta", "sql", "scan_done", "progress", "op_done", "op_paused", "op_error"}

RequestRecord ==
  [pc: {"idle", "created", "check", "snapshot", "save", "update", "clear", "send",
        "wait", "reply", "recheck", "rollback", "audit", "done"},
   st: States \cup {None}, resp: {None, "ok", "error", "closed"},
   epoch: Nat, sel: SUBSET Txs, plan: SUBSET Txs]

EventRecord ==
  {e \in [from: Requests, kind: EventKinds, arg: Txs \cup (1 .. Batches) \cup {None},
          pc: {"new", "fallback", "cas", "audit", "persist"}, st: States \cup {None},
          sel: SUBSET Txs] :
     /\ e.kind \in {"tx_meta", "sql"} => e.arg \in Txs
     /\ e.kind = "progress" => e.arg \in 1 .. Batches}

Preview == [cap: {None, MaxPreview, DefaultPreview}, metas: SUBSET Txs, sql: SUBSET Txs]

StoreOK ==
  /\ status \in States \cup {None}
  /\ selected \in SUBSET Txs /\ stmts \in SUBSET Txs
  /\ srvCp \in 0 .. Batches
  /\ preview \in Preview
  /\ audit \in [Terminal -> Nat]

LinkOK ==
  /\ conn \in BOOLEAN /\ restarted \in BOOLEAN
  /\ hook \in {None, "scanning", "executing"}
  /\ drops \in Nat
  /\ cmds \in Seq(Requests)
  /\ pending \in Requests \cup {None}

TaskOK ==
  /\ ops \in Requests \cup {None}
  /\ task \in [Requests -> {None, "running", "ended", "gone"}]
  /\ ctx \in [Requests -> BOOLEAN]
  /\ pos \in [Requests -> 0 .. Batches]
  /\ agentCp \in 0 .. Batches

TypeOK ==
  /\ StoreOK
  /\ req \in [Requests -> RequestRecord]
  /\ LinkOK
  /\ TaskOK
  /\ events \in SUBSET EventRecord

Init ==
  /\ status = None /\ selected = {} /\ stmts = {} /\ srvCp = 0
  /\ preview = NoPreview
  /\ audit = [s \in Terminal |-> 0]
  /\ req = [r \in Requests |->
              [pc |-> "idle", st |-> None, resp |-> None, epoch |-> 0,
               sel |-> {}, plan |-> {}]]
  /\ conn = TRUE /\ cmds = <<>> /\ pending = None
  /\ drops = 0 /\ hook = None /\ restarted = FALSE
  /\ events = {}
  /\ DaemonInit

-----------------------------------------------------------------------------
(* The store and the requests' local state. *)

\* Mutant: the record is overwritten without comparing the status.
AppliesBlindly(from, to) == TransitionValid(from, to)

\* transitionTo succeeds: the move is in the table and the record still has the
\* status the caller read.
Applies(from, to) == TransitionValid(from, to) /\ status = from

TransitionTo(from, to) ==
  status' = IF Applies(from, to) THEN to ELSE status

\* Entries of states that are not terminal are left out.
WriteAudit(s) ==
  audit' = IF s \in Terminal THEN [audit EXCEPT ![s] = audit[s] + 1] ELSE audit

At(r, l) == req[r].pc = l
Goto(r, l) == req' = [req EXCEPT ![r].pc = l]

\* A request that is over keeps only what its command carried.
Over(q) ==
  [pc |-> "done", st |-> None, resp |-> None, epoch |-> 0, sel |-> q.sel, plan |-> q.plan]

Answer(r) == req' = [req EXCEPT ![r] = Over(req[r])]

-----------------------------------------------------------------------------
(* POST /api/pitr/start *)

StartCreate(r) ==
  /\ Kind[r] = "start" /\ At(r, "idle") /\ status = None
  /\ status' = "created"
  /\ preview' = [NoPreview EXCEPT !.cap = MaxPreview]
  /\ Goto(r, "created")
  /\ UNCHANGED <<selected, stmts, srvCp, audit, linkVars, agentVars, events>>

\* The record moves to scanning before the command leaves.
StartScanning(r) ==
  /\ At(r, "created")
  /\ TransitionTo("created", "scanning")
  /\ IF Applies("created", "scanning")
       THEN req' = [req EXCEPT ![r].pc = "check", ![r].st = "scanning"]
       ELSE Answer(r)
  /\ UNCHANGED <<selected, stmts, srvCp, preview, audit, linkVars, agentVars, events>>

\* An agent that is offline blocks the operation, without an audit entry.
StartCheck(r) ==
  /\ At(r, "check")
  /\ IF conn THEN Goto(r, "send") /\ UNCHANGED status
             ELSE Answer(r) /\ TransitionTo("scanning", "blocked")
  /\ UNCHANGED <<selected, stmts, srvCp, preview, audit, linkVars, agentVars, events>>

-----------------------------------------------------------------------------
(* The other requests read the record first and are refused outright when   *)
(* its status does not fit.                                                 *)

Fits(r) ==
  CASE Kind[r] \in {"select", "execute"} -> status = "ready"
    [] Kind[r] = "resume" -> status = "paused"
    [] Kind[r] = "pause" -> status = "executing"
    [] Kind[r] = "cancel" -> TransitionValid(status, "cancelled")
    [] OTHER -> FALSE

Read(r) ==
  /\ At(r, "idle") /\ Fits(r)
  /\ IF Kind[r] = "select"
       THEN \E S \in (SUBSET Txs) \ {{}} :
              req' = [req EXCEPT ![r].st = status, ![r].sel = S, ![r].pc = "snapshot"]
       ELSE req' = [req EXCEPT ![r].st = status, ![r].pc = "send"]
  /\ UNCHANGED <<storeVars, preview, audit, linkVars, agentVars, events>>

\* Mutant: a transaction without SQL does not stop the selection.
SelectableBlindly(S) == HasPreview /\ S \subseteq preview.metas

\* Everything selected must be in the preview, with its SQL unless a rescan will
\* fetch it.
Selectable(S) ==
  /\ HasPreview /\ S \subseteq preview.metas
  /\ Mode = "selected" \/ S \subseteq preview.sql

\* The statements are built from a copy of the preview.
SelectSnapshot(r) ==
  /\ At(r, "snapshot")
  /\ IF Selectable(req[r].sel)
       THEN req' = [req EXCEPT ![r].plan = req[r].sel \cap preview.sql,
                               ![r].pc = IF Mode = "selected" THEN "update" ELSE "save"]
       ELSE Answer(r)
  /\ UNCHANGED <<storeVars, preview, audit, linkVars, agentVars, events>>

\* Without a rescan the statements and the selection are stored together,
\* whatever the record's status is by now.
SelectSave(r) ==
  /\ At(r, "save")
  /\ selected' = req[r].sel
  /\ stmts' = req[r].plan
  /\ Answer(r)
  /\ UNCHANGED <<status, srvCp, preview, audit, linkVars, agentVars, events>>

\* selectRescan: the whole record is written back, the status it was read with
\* included, ...
SelectUpdate(r) ==
  /\ At(r, "update")
  /\ status' = req[r].st
  /\ selected' = req[r].sel
  /\ Goto(r, "clear")
  /\ UNCHANGED <<stmts, srvCp, preview, audit, linkVars, agentVars, events>>

\* ... then the old statements are deleted and the second scan is sent.
SelectClear(r) ==
  /\ At(r, "clear")
  /\ stmts' = {}
  /\ Goto(r, "send")
  /\ UNCHANGED <<status, selected, srvCp, preview, audit, linkVars, agentVars, events>>

-----------------------------------------------------------------------------
(* The command path: SendToAgent keeps one response channel per command ID, *)
(* and the ID is the operation's.                                           *)

\* Execute and Resume load the statements first and stop if there are none.
Load(r) == IF IsExec(r) THEN stmts ELSE {}

SendNothing(r) ==
  /\ IsExec(r) /\ Load(r) = {}
  /\ Answer(r)
  /\ UNCHANGED <<cmds, pending>>

SendToAgent(r) ==
  /\ ~(IsExec(r) /\ Load(r) = {})
  /\ IF conn
       THEN /\ req' = [req EXCEPT ![r].pc = "wait", ![r].epoch = drops, ![r].plan = Load(r)]
            /\ pending' = r
            /\ cmds' = Append(cmds, r)
       ELSE /\ req' = [req EXCEPT ![r].pc = "reply", ![r].resp = "closed"]
            /\ UNCHANGED <<cmds, pending>>

Send(r) ==
  /\ At(r, "send")
  /\ SendNothing(r) \/ SendToAgent(r)
  /\ UNCHANGED <<storeVars, preview, audit, conn, drops, hook, restarted, agentVars, events>>

\* A response goes to whoever registered last; a full channel drops it.
Deliver(v) ==
  req' = IF pending # None /\ req[pending].resp = None
           THEN [req EXCEPT ![pending].resp = v] ELSE req

\* The agent takes the commands in order, each handled before the next.
AgentHandles ==
  /\ conn /\ cmds # <<>>
  /\ cmds' = Tail(cmds)
  /\ \/ (StartTask(Head(cmds)) \/ CancelTask(Head(cmds))) /\ Deliver("ok")
     \/ Refuse(Head(cmds)) /\ Deliver("error")
  /\ UNCHANGED <<storeVars, preview, audit, conn, pending, drops, hook, restarted, events>>

\* The deferred delete empties the slot of the connection the command used.
Release(r) == pending' = IF req[r].epoch = drops THEN None ELSE pending

Receive(r) ==
  /\ At(r, "wait") /\ req[r].resp # None
  /\ Goto(r, "reply")
  /\ Release(r)
  /\ UNCHANGED <<storeVars, preview, audit, conn, cmds, drops, hook, restarted, agentVars, events>>

GiveUp(r) ==
  /\ "timeout" \in Faults
  /\ At(r, "wait")
  /\ req' = [req EXCEPT ![r].pc = "reply", ![r].resp = "closed"]
  /\ Release(r)
  /\ UNCHANGED <<storeVars, preview, audit, conn, cmds, drops, hook, restarted, agentVars, events>>

-----------------------------------------------------------------------------
(* What a handler does with the answer. *)

\* Move from the status that was read; a lost or invalid move ends the request.
Move(r, to, next) ==
  /\ TransitionTo(req[r].st, to)
  /\ IF Applies(req[r].st, to) /\ next # "done"
       THEN req' = [req EXCEPT ![r].st = to, ![r].pc = next]
       ELSE Answer(r)

\* failOperation: an invalid move changes nothing, a lost one drops the preview.
FailOperation(r) ==
  /\ Move(r, "failed", "audit")
  /\ preview' = IF TransitionValid(req[r].st, "failed") /\ ~Applies(req[r].st, "failed")
                  THEN NoPreview ELSE preview

Answered(r, k, v) == At(r, "reply") /\ Kind[r] \in k /\ req[r].resp \in v

ReplyRejected(r) ==
  /\ \/ Answered(r, {"start", "execute", "resume"}, {"error", "closed"})
     \/ Answered(r, {"pause"}, {"error"})
  /\ FailOperation(r)

\* A started scan has nothing to do; a failed rescan command and an agent that
\* a pause cannot reach leave the record.
ReplyIgnored(r) ==
  /\ \/ Answered(r, {"start"}, {"ok"})
     \/ Answered(r, {"select"}, {"error", "closed"})
     \/ Answered(r, {"pause"}, {"closed"})
  /\ Answer(r)
  /\ UNCHANGED <<status, preview>>

ReplyAccepted(r) ==
  /\ \/ Answered(r, {"select"}, {"ok"}) /\ Move(r, "scanning", "recheck")
     \/ Answered(r, {"execute", "resume"}, {"ok"}) /\ Move(r, "executing", "done")
     \/ Answered(r, {"pause"}, {"ok"}) /\ Move(r, "paused", "done")
  /\ UNCHANGED preview

\* Cancel does not look at the answer.
ReplyCancel(r) ==
  /\ Answered(r, {"cancel"}, {"ok", "error", "closed"})
  /\ Move(r, "cancelled", "audit")
  /\ preview' = IF Applies(req[r].st, "cancelled") THEN NoPreview ELSE preview

Reply(r) ==
  /\ ReplyRejected(r) \/ ReplyIgnored(r) \/ ReplyAccepted(r) \/ ReplyCancel(r)
  /\ UNCHANGED <<selected, stmts, srvCp, audit, linkVars, agentVars, events>>

\* The audit entry of a failed or cancelled operation.
RequestAudit(r) ==
  /\ At(r, "audit")
  /\ WriteAudit(req[r].st)
  /\ preview' = IF Kind[r] = "cancel" THEN preview ELSE NoPreview
  /\ Answer(r)
  /\ UNCHANGED <<storeVars, linkVars, agentVars, events>>

\* selectRescan looks whether the second scan had finished before its own move.
Recheck(r) ==
  /\ At(r, "recheck")
  /\ IF status = "scanning" /\ stmts # {} THEN Goto(r, "rollback") ELSE Answer(r)
  /\ UNCHANGED <<storeVars, preview, audit, linkVars, agentVars, events>>

Rollback(r) ==
  /\ At(r, "rollback")
  /\ Move(r, "ready", "done")
  /\ UNCHANGED <<selected, stmts, srvCp, preview, audit, linkVars, agentVars, events>>

RequestStep(r) ==
  \/ StartScanning(r) \/ StartCheck(r)
  \/ SelectSnapshot(r) \/ SelectSave(r) \/ SelectUpdate(r) \/ SelectClear(r)
  \/ Send(r) \/ Receive(r) \/ Reply(r) \/ RequestAudit(r) \/ Recheck(r) \/ Rollback(r)

-----------------------------------------------------------------------------
(* HandleStreamEvent: every event has a goroutine of its own. *)

EventUnchanged == UNCHANGED <<req, linkVars, agentVars>>

Consume(e) == events' = events \ {e}
Continue(e, f) == events' = (events \ {e}) \cup {f}

\* An event finds a preview or creates one, whatever the operation's state.
PreviewFor == IF HasPreview THEN preview ELSE [NoPreview EXCEPT !.cap = DefaultPreview]

\* Mutant: the preview is not bounded.
WithMetaUnbounded(t) == [PreviewFor EXCEPT !.metas = @ \cup {t}]

\* stageTxMeta: once per transaction, and only up to the cap.
WithMeta(t) ==
  IF Cardinality(PreviewFor.metas) < PreviewFor.cap
    THEN [PreviewFor EXCEPT !.metas = @ \cup {t}] ELSE PreviewFor

\* stageSQL: only for transactions whose metadata was accepted.
WithSQL(t) ==
  IF t \in PreviewFor.metas THEN [PreviewFor EXCEPT !.sql = @ \cup {t}] ELSE PreviewFor

StageTxMeta(e) ==
  /\ e.kind = "tx_meta"
  /\ preview' = WithMeta(e.arg)
  /\ Consume(e)
  /\ EventUnchanged /\ UNCHANGED <<storeVars, audit>>

StageSQL(e) ==
  /\ e.kind = "sql"
  /\ preview' = WithSQL(e.arg)
  /\ Consume(e)
  /\ EventUnchanged /\ UNCHANGED <<storeVars, audit>>

SaveProgress(e) ==
  /\ e.kind = "progress"
  /\ srvCp' = e.arg
  /\ Consume(e)
  /\ EventUnchanged /\ UNCHANGED <<status, selected, stmts, preview, audit>>

\* Mutant: a paused report ends the operation.
TargetIgnoresPaused(e) == CASE e.kind = "scan_done" -> "ready"
                            [] e.kind \in {"op_done", "op_paused"} -> "done"
                            [] e.kind = "op_error" -> "failed"

\* The status that an event takes the operation to.
Target(e) == CASE e.kind = "scan_done" -> "ready"
               [] e.kind = "op_done" -> "done"
               [] e.kind = "op_paused" -> "paused"
               [] e.kind = "op_error" -> "failed"

\* Mutant: the fallback for an event that overtakes its request is missing.
HasFallbackNever(e) == FALSE

\* scan_done and op_done may overtake the request that moves the record on.
HasFallback(e) == e.kind \in {"scan_done", "op_done"} /\ status = "ready"

\* persistSelectedStatements has something to do.
Persists(e) == e.kind = "scan_done" /\ Mode = "selected"

EventRead(e) ==
  /\ e.kind \in {"scan_done", "op_done", "op_paused", "op_error"} /\ e.pc = "new"
  /\ Continue(e, [e EXCEPT !.st = status,
                           !.sel = IF Persists(e) THEN selected ELSE {},
                           !.pc = IF HasFallback(e) THEN "fallback"
                                  ELSE IF e.kind = "op_paused" /\ status = "paused" THEN "audit"
                                  ELSE "cas"])
  /\ EventUnchanged /\ UNCHANGED <<storeVars, preview, audit>>

\* A lost fallback is only logged.
EventFallback(e) ==
  LET mid == IF e.kind = "scan_done" THEN "scanning" ELSE "executing"
  IN  /\ e.pc = "fallback"
      /\ TransitionTo("ready", mid)
      /\ Continue(e, [e EXCEPT !.st = mid, !.pc = "cas"])
      /\ EventUnchanged /\ UNCHANGED <<selected, stmts, srvCp, preview, audit>>

\* Mutant: the entry is written although the move was lost.
EventCasLogsLost(e) ==
  /\ e.pc = "cas"
  /\ TransitionTo(e.st, Target(e))
  /\ IF TransitionValid(e.st, Target(e))
       THEN Continue(e, [e EXCEPT !.st = Target(e), !.pc = "audit"])
       ELSE Consume(e)
  /\ EventUnchanged /\ UNCHANGED <<selected, stmts, srvCp, preview, audit>>

\* The move and, only if it was applied, the rest.
EventCas(e) ==
  /\ e.pc = "cas"
  /\ TransitionTo(e.st, Target(e))
  /\ IF Applies(e.st, Target(e))
       THEN Continue(e, [e EXCEPT !.st = Target(e), !.pc = "audit"])
       ELSE Consume(e)
  /\ EventUnchanged /\ UNCHANGED <<selected, stmts, srvCp, preview, audit>>

EventAudit(e) ==
  /\ e.pc = "audit"
  /\ WriteAudit(e.st)
  /\ preview' = IF e.kind \in {"op_done", "op_error"} THEN NoPreview ELSE preview
  /\ IF e.sel # {} THEN Continue(e, [e EXCEPT !.pc = "persist"]) ELSE Consume(e)
  /\ EventUnchanged /\ UNCHANGED storeVars

\* Mutant: everything that is staged is stored.
EventPersistAll(e) ==
  /\ e.pc = "persist"
  /\ stmts' = IF HasPreview THEN preview.sql ELSE stmts
  /\ Consume(e)
  /\ EventUnchanged /\ UNCHANGED <<status, selected, srvCp, preview, audit>>

\* persistSelectedStatements: what is staged of the selection that was read.
EventPersist(e) ==
  /\ e.pc = "persist"
  /\ stmts' = IF HasPreview THEN e.sel \cap preview.sql ELSE stmts
  /\ Consume(e)
  /\ EventUnchanged /\ UNCHANGED <<status, selected, srvCp, preview, audit>>

EventStep(e) ==
  \/ StageTxMeta(e) \/ StageSQL(e) \/ SaveProgress(e)
  \/ EventRead(e) \/ EventFallback(e) \/ EventCas(e) \/ EventAudit(e) \/ EventPersist(e)

-----------------------------------------------------------------------------
(* The connection and the server process. *)

\* The read pump ends: waiting callers are released and the hook is due.
\* Events that were not read yet may be lost.
Drop ==
  /\ "drop" \in Faults
  /\ conn /\ drops < MaxDrops
  /\ conn' = FALSE
  /\ drops' = drops + 1
  /\ cmds' = <<>>
  /\ Deliver("closed")
  /\ pending' = None
  /\ hook' = "scanning"
  /\ events' \in {events, {e \in events : e.pc # "new"}}
  /\ UNCHANGED <<storeVars, preview, audit, restarted, agentVars>>

Reconnect ==
  /\ ~conn
  /\ conn' = TRUE
  /\ UNCHANGED <<storeVars, preview, audit, req, cmds, pending, drops, hook, restarted,
                 agentVars, events>>

\* Mutant: a lost agent is taken to stop executions only.
BlockExecuting(s) ==
  IF status = s /\ s = "executing"
    THEN TransitionTo(s, "blocked") /\ WriteAudit("blocked") /\ preview' = NoPreview
    ELSE UNCHANGED <<status, audit, preview>>

\* blockOperation for an operation listed under status s.
Block(s) ==
  IF status = s
    THEN TransitionTo(s, "blocked") /\ WriteAudit("blocked") /\ preview' = NoPreview
    ELSE UNCHANGED <<status, audit, preview>>

\* The states an operation is looked for in, one after the other.
HookThen(s) == IF s = "scanning" THEN "executing" ELSE None

HandleAgentDisconnect ==
  /\ hook # None
  /\ Block(hook)
  /\ hook' = HookThen(hook)
  /\ UNCHANGED <<selected, stmts, srvCp, req, conn, cmds, pending, drops, restarted,
                 agentVars, events>>

\* The server process is replaced: requests, event goroutines and the preview
\* are gone, the store stays, and ReconcileOnStartup runs before it serves.
Restart ==
  /\ "restart" \in Faults /\ ~restarted
  /\ restarted' = TRUE
  /\ conn' = FALSE /\ cmds' = <<>> /\ pending' = None /\ hook' = None
  /\ req' = [r \in Requests |-> IF At(r, "idle") THEN req[r] ELSE Over(req[r])]
  /\ events' = {}
  /\ preview' = NoPreview
  /\ IF status \in {"scanning", "executing"}
       THEN TransitionTo(status, "blocked") /\ WriteAudit("blocked")
       ELSE UNCHANGED <<status, audit>>
  /\ UNCHANGED <<selected, stmts, srvCp, drops, agentVars>>

-----------------------------------------------------------------------------
AgentTask(r) ==
  /\ TaskStep(r)
  /\ UNCHANGED <<storeVars, preview, audit, req, linkVars>>

Next ==
  \/ \E r \in Requests :
       StartCreate(r) \/ Read(r) \/ RequestStep(r) \/ GiveUp(r) \/ AgentTask(r)
  \/ AgentHandles
  \/ \E e \in events : EventStep(e)
  \/ Drop \/ Reconnect \/ HandleAgentDisconnect \/ Restart

Spec == Init /\ [][Next]_vars

(***************************************************************************)
(* Goroutines that can go on do, the agent takes its commands and finishes *)
(* its tasks, and the hook of a lost connection runs.  Nothing makes an    *)
(* operator send a request, a client give up or a connection come back.    *)
(***************************************************************************)
Fairness ==
  /\ \A r \in Requests : WF_vars(RequestStep(r)) /\ WF_vars(AgentTask(r))
  /\ WF_vars(AgentHandles)
  /\ WF_vars(\E e \in events : EventStep(e))
  /\ WF_vars(HandleAgentDisconnect)

FairSpec == Spec /\ Fairness

-----------------------------------------------------------------------------
(***************************************************************************)
(* Whatever handlers, events, lost connections and restarts do to the      *)
(* record at the same time, its status only moves along the table of       *)
(* state.go:53-59, and a terminal state is never left: "A concurrent       *)
(* transition therefore cannot be silently overwritten" (handler.go:385).  *)
(***************************************************************************)
TransitionsValid ==
  [][TransitionValid(status, status') \/ (status = None /\ status' = "created")]_status

(***************************************************************************)
(* An operation gets at most one terminal audit entry and that entry names *)
(* the state the operation really ended in: of a cancel, an op_done, an    *)
(* op_error and a disconnect that race, only the winner writes             *)
(* (handler.go:384-391).                                                   *)
(***************************************************************************)
TerminalAuditAgrees ==
  \A s \in Terminal : audit[s] > 0 => audit[s] = 1 /\ status = s

(***************************************************************************)
(* The statements an execution was sent are one operator's selection,      *)
(* complete and unmixed, however selections and executions overlap         *)
(* (handler.go:1332-1363, 1595-1609).                                      *)
(***************************************************************************)
PlanIsASelection ==
  \A r \in Requests : IsExec(r) /\ task[r] # None =>
    \E s \in Requests : Kind[s] = "select" /\ req[r].plan = req[s].sel

(***************************************************************************)
(* With the directed rescan, the statements kept for execution are all of  *)
(* one operator's selection, although the preview also holds SQL of other  *)
(* transactions and an event of an earlier scan may store late             *)
(* (handler.go:1493-1538).                                                 *)
(***************************************************************************)
OnlySelectedStored ==
  stmts # {} => \E s \in Requests : Kind[s] = "select" /\ stmts \subseteq req[s].sel

(***************************************************************************)
(* An operation is only called done when some execution really committed   *)
(* all its batches; a paused or an early report never ends it              *)
(* (handler.go:835-881).                                                   *)
(***************************************************************************)
DoneMeansExecuted ==
  status = "done" => \E r \in Requests : IsExec(r) /\ task[r] # None /\ pos[r] = Batches

(***************************************************************************)
(* The preview never holds more entries than its cap and never SQL of a    *)
(* transaction it does not list, in whatever order the event goroutines    *)
(* run and whichever scan they belong to (handler.go:653-709).             *)
(***************************************************************************)
PreviewBounded ==
  HasPreview => Cardinality(preview.metas) <= preview.cap /\ preview.sql \subseteq preview.metas

(***************************************************************************)
(* A scan never hangs: however scan_done, op_error, a lost connection and  *)
(* a cancel race with the request that started it, the operation leaves    *)
(* scanning (handler.go:1160-1167, 1460-1472).                             *)
(***************************************************************************)
ScanSettles == status = "scanning" ~> status # "scanning"

(***************************************************************************)
(* While no connection is lost, an execution reaches its end in the record *)
(* even when op_done overtakes the request or its client has given up      *)
(* (handler.go:850-857, hub.go:363).  A connection that is lost between    *)
(* the agent's acceptance and the move to executing (handler.go:1626)      *)
(* leaves the record executing: the hook has already run.                  *)
(***************************************************************************)
ExecuteSettles == status = "executing" ~> (status # "executing" \/ drops > 0)
=============================================================================

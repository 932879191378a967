-------------------------- MODULE OperationProofs --------------------------
(***************************************************************************)
(* Theorems about OperationFlow, for any set of requests, any number of    *)
(* transactions and batches and every combination of faults.               *)
(***************************************************************************)
EXTENDS OperationFlow, FiniteSetTheorems, TLAPS

USE DaemonAssumption, FlowAssumption

-----------------------------------------------------------------------------
(* What the helpers do to the types. *)

LEMMA RecordUpdates ==
  ASSUME NEW q \in RequestRecord, NEW S \in SUBSET Txs, NEW s \in States \cup {None},
         NEW n \in Nat
  PROVE  /\ [q EXCEPT !.st = s, !.sel = S, !.pc = "snapshot"] \in RequestRecord
         /\ [q EXCEPT !.pc = "wait", !.epoch = n, !.plan = S] \in RequestRecord
<1>1. [q EXCEPT !.st = s, !.sel = S, !.pc = "snapshot"] \in RequestRecord
  BY DEF RequestRecord
<1>2. [q EXCEPT !.pc = "wait", !.epoch = n, !.plan = S] \in RequestRecord
  BY DEF RequestRecord
<1>3. QED BY <1>1, <1>2

LEMMA EventUpdates ==
  ASSUME NEW e \in EventRecord, NEW S \in SUBSET Txs, NEW s \in States \cup {None},
         NEW p \in {"fallback", "cas", "audit", "persist"}
  PROVE  /\ [e EXCEPT !.pc = p] \in EventRecord
         /\ [e EXCEPT !.st = s, !.pc = p] \in EventRecord
         /\ [e EXCEPT !.st = s, !.sel = S, !.pc = p] \in EventRecord
<1>1. [e EXCEPT !.pc = p] \in EventRecord
  BY DEF EventRecord
<1>2. [e EXCEPT !.st = s, !.pc = p] \in EventRecord
  BY DEF EventRecord
<1>3. [e EXCEPT !.st = s, !.sel = S, !.pc = p] \in EventRecord
  BY DEF EventRecord
<1>4. QED BY <1>1, <1>2, <1>3

LEMMA AnswerType ==
  ASSUME req \in [Requests -> RequestRecord], NEW r \in Requests, Answer(r)
  PROVE  req' \in [Requests -> RequestRecord]
BY DEF Answer, Over, RequestRecord

LEMMA GotoType ==
  ASSUME req \in [Requests -> RequestRecord], NEW r \in Requests,
         NEW l \in {"idle", "created", "check", "snapshot", "save", "update", "clear", "send",
                    "wait", "reply", "recheck", "rollback", "audit", "done"},
         Goto(r, l)
  PROVE  req' \in [Requests -> RequestRecord]
BY DEF Goto, RequestRecord

LEMMA DeliverType ==
  ASSUME req \in [Requests -> RequestRecord], pending \in Requests \cup {None},
         NEW v \in {"ok", "error", "closed"}, Deliver(v)
  PROVE  req' \in [Requests -> RequestRecord]
BY DEF Deliver, RequestRecord

LEMMA RepliesType ==
  ASSUME req \in [Requests -> RequestRecord], NEW r \in Requests,
         req' = [req EXCEPT ![r].pc = "reply", ![r].resp = "closed"]
  PROVE  req' \in [Requests -> RequestRecord]
<1>1. [req[r] EXCEPT !.pc = "reply", !.resp = "closed"] \in RequestRecord
  BY DEF RequestRecord
<1>2. req' = [req EXCEPT ![r] = [req[r] EXCEPT !.pc = "reply", !.resp = "closed"]]
  OBVIOUS
<1>3. QED BY <1>1, <1>2

LEMMA StatesOfTable ==
  ASSUME NEW from, NEW to, TransitionValid(from, to)
  PROVE  to \in States
BY DEF TransitionValid, validTransitions, States

LEMMA TransitionType ==
  ASSUME status \in States \cup {None}, NEW from, NEW to, TransitionTo(from, to)
  PROVE  status' \in States \cup {None}
BY StatesOfTable DEF TransitionTo, Applies

LEMMA MoveType ==
  ASSUME TypeOK, NEW r \in Requests, NEW to, NEW next \in {"audit", "recheck", "done"},
         Move(r, to, next)
  PROVE  status' \in States \cup {None} /\ req' \in [Requests -> RequestRecord]
<1>1. status' \in States \cup {None}
  BY TransitionType DEF Move, TypeOK, StoreOK
<1>2. CASE Applies(req[r].st, to) /\ next # "done"
  <2>1. to \in States
    BY <1>2, StatesOfTable DEF Applies
  <2>2. QED BY <1>1, <1>2, <2>1 DEF Move, TypeOK, RequestRecord
<1>3. CASE ~(Applies(req[r].st, to) /\ next # "done")
  BY <1>1, <1>3, AnswerType DEF Move, TypeOK
<1>4. QED BY <1>2, <1>3

LEMMA AuditType ==
  ASSUME audit \in [Terminal -> Nat], NEW s, WriteAudit(s)
  PROVE  audit' \in [Terminal -> Nat]
BY DEF WriteAudit

LEMMA PreviewType ==
  /\ NoPreview \in Preview
  /\ preview \in Preview => PreviewFor \in Preview
  /\ \A t \in Txs : preview \in Preview => WithMeta(t) \in Preview /\ WithSQL(t) \in Preview
<1>1. NoPreview \in Preview
  BY DEF NoPreview, Preview
<1>2. preview \in Preview => PreviewFor \in Preview
  BY DEF NoPreview, Preview, PreviewFor
<1>3. ASSUME NEW t \in Txs, preview \in Preview
      PROVE  WithMeta(t) \in Preview /\ WithSQL(t) \in Preview
  <2>1. PreviewFor \in Preview
    BY <1>2, <1>3
  <2>2. \A p \in Preview : [p EXCEPT !.metas = @ \cup {t}] \in Preview
                        /\ [p EXCEPT !.sql = @ \cup {t}] \in Preview
    BY DEF Preview
  <2>3. QED BY <2>1, <2>2 DEF WithMeta, WithSQL
<1>4. QED BY <1>1, <1>2, <1>3

-----------------------------------------------------------------------------
(* Type correctness: one lemma for each kind of step. *)

LEMMA TypeInit == Init => TypeOK
<1> SUFFICES ASSUME Init PROVE TypeOK
  OBVIOUS
<1>1. StoreOK
  BY PreviewType DEF Init, StoreOK
<1>2. req \in [Requests -> RequestRecord]
  BY DEF Init, RequestRecord
<1>3. LinkOK
  <2>1. cmds \in Seq(Requests)
    BY DEF Init
  <2>2. QED BY <2>1 DEF Init, LinkOK
<1>4. TaskOK
  BY DEF Init, DaemonInit, TaskOK
<1>5. QED BY <1>1, <1>2, <1>3, <1>4 DEF Init, TypeOK

\* The steps of a request up to its command.
LEMMA RequestType ==
  ASSUME TypeOK, NEW r \in Requests,
         \/ StartCreate(r) \/ StartScanning(r) \/ StartCheck(r) \/ Read(r)
         \/ SelectSnapshot(r) \/ SelectSave(r) \/ SelectUpdate(r) \/ SelectClear(r)
  PROVE  TypeOK'
<1>1. CASE StartCreate(r)
  <2>1. preview' \in Preview
    BY <1>1 DEF StartCreate, NoPreview, Preview
  <2>2. req' \in [Requests -> RequestRecord]
    BY <1>1, GotoType DEF StartCreate, TypeOK
  <2>3. QED BY <1>1, <2>1, <2>2 DEF StartCreate, TypeOK, StoreOK, LinkOK, TaskOK, States,
                                   linkVars, agentVars
<1>2. CASE StartScanning(r)
  <2>1. status' \in States \cup {None}
    BY <1>2, TransitionType DEF StartScanning, TypeOK, StoreOK
  <2>2. req' \in [Requests -> RequestRecord]
    BY <1>2, AnswerType DEF StartScanning, TypeOK, RequestRecord, States
  <2>3. QED BY <1>2, <2>1, <2>2 DEF StartScanning, TypeOK, StoreOK, LinkOK, TaskOK,
                                   linkVars, agentVars
<1>3. CASE StartCheck(r)
  <2>1. status' \in States \cup {None}
    BY <1>3, TransitionType DEF StartCheck, TypeOK, StoreOK
  <2>2. req' \in [Requests -> RequestRecord]
    BY <1>3, AnswerType, GotoType DEF StartCheck, TypeOK
  <2>3. QED BY <1>3, <2>1, <2>2 DEF StartCheck, TypeOK, StoreOK, LinkOK, TaskOK,
                                   linkVars, agentVars
<1>4. CASE Read(r)
  <2>1. req' \in [Requests -> RequestRecord]
    <3>1. CASE Kind[r] = "select"
      <4>1. PICK S \in (SUBSET Txs) \ {{}} :
              req' = [req EXCEPT ![r].st = status, ![r].sel = S, ![r].pc = "snapshot"]
        BY <1>4, <3>1 DEF Read
      <4> DEFINE q == [req[r] EXCEPT !.st = status, !.sel = S, !.pc = "snapshot"]
      <4>2. q \in RequestRecord
        BY RecordUpdates DEF TypeOK, StoreOK
      <4>3. req' = [req EXCEPT ![r] = q]
        BY <4>1
      <4>4. QED BY <4>2, <4>3 DEF TypeOK
    <3>2. CASE Kind[r] # "select"
      BY <1>4, <3>2 DEF Read, TypeOK, StoreOK, RequestRecord
    <3>3. QED BY <3>1, <3>2
  <2>2. QED BY <1>4, <2>1 DEF Read, TypeOK, StoreOK, LinkOK, TaskOK,
                             storeVars, linkVars, agentVars
<1>5. CASE SelectSnapshot(r)
  <2>1. req' \in [Requests -> RequestRecord]
    <3>1. CASE Selectable(req[r].sel)
      <4>1. req[r].sel \cap preview.sql \in SUBSET Txs
        BY DEF TypeOK, RequestRecord
      <4>2. QED BY <1>5, <3>1, <4>1 DEF SelectSnapshot, TypeOK, RequestRecord
    <3>2. CASE ~Selectable(req[r].sel)
      BY <1>5, <3>2, AnswerType DEF SelectSnapshot, TypeOK
    <3>3. QED BY <3>1, <3>2
  <2>2. QED BY <1>5, <2>1 DEF SelectSnapshot, TypeOK, StoreOK, LinkOK, TaskOK,
                             storeVars, linkVars, agentVars
<1>6. CASE SelectSave(r)
  <2>1. req' \in [Requests -> RequestRecord]
    BY <1>6, AnswerType DEF SelectSave, TypeOK
  <2>2. selected' \in SUBSET Txs /\ stmts' \in SUBSET Txs
    BY <1>6 DEF SelectSave, TypeOK, RequestRecord
  <2>3. QED BY <1>6, <2>1, <2>2 DEF SelectSave, TypeOK, StoreOK, LinkOK, TaskOK,
                                   linkVars, agentVars
<1>7. CASE SelectUpdate(r)
  <2>1. req' \in [Requests -> RequestRecord]
    BY <1>7, GotoType DEF SelectUpdate, TypeOK
  <2>2. status' \in States \cup {None} /\ selected' \in SUBSET Txs
    BY <1>7 DEF SelectUpdate, TypeOK, RequestRecord
  <2>3. QED BY <1>7, <2>1, <2>2 DEF SelectUpdate, TypeOK, StoreOK, LinkOK, TaskOK,
                                   linkVars, agentVars
<1>8. CASE SelectClear(r)
  <2>1. req' \in [Requests -> RequestRecord]
    BY <1>8, GotoType DEF SelectClear, TypeOK
  <2>2. QED BY <1>8, <2>1 DEF SelectClear, TypeOK, StoreOK, LinkOK, TaskOK,
                             linkVars, agentVars
<1>9. QED BY <1>1, <1>2, <1>3, <1>4, <1>5, <1>6, <1>7, <1>8

\* The command, its answer and what the handler does with it.
LEMMA AnswersType ==
  ASSUME TypeOK, NEW r \in Requests,
         \/ Send(r) \/ Receive(r) \/ GiveUp(r) \/ Reply(r)
         \/ RequestAudit(r) \/ Recheck(r) \/ Rollback(r)
  PROVE  TypeOK'
<1>1. CASE Send(r)
  <2>1. Load(r) \in SUBSET Txs
    BY DEF Load, TypeOK, StoreOK
  <2>2. CASE SendNothing(r)
    <3>1. req' \in [Requests -> RequestRecord]
      BY <2>2, AnswerType DEF SendNothing, TypeOK
    <3>2. QED BY <1>1, <2>2, <3>1 DEF Send, SendNothing, TypeOK, StoreOK, LinkOK, TaskOK,
                                     storeVars, agentVars
  <2>3. CASE SendToAgent(r)
    <3>1. req' \in [Requests -> RequestRecord]
      <4>1. CASE conn
        <5> DEFINE q == [req[r] EXCEPT !.pc = "wait", !.epoch = drops, !.plan = Load(r)]
        <5>1. q \in RequestRecord
          BY <2>1, RecordUpdates DEF TypeOK, LinkOK
        <5>2. req' = [req EXCEPT ![r] = q]
          BY <2>3, <4>1 DEF SendToAgent
        <5>3. QED BY <5>1, <5>2 DEF TypeOK
      <4>2. CASE ~conn
        BY <2>3, <4>2, RepliesType DEF SendToAgent, TypeOK
      <4>3. QED BY <4>1, <4>2
    <3>2. cmds' \in Seq(Requests) /\ pending' \in Requests \cup {None}
      <4>1. Append(cmds, r) \in Seq(Requests)
        BY DEF TypeOK, LinkOK
      <4>2. QED BY <2>3, <4>1 DEF SendToAgent, TypeOK, LinkOK
    <3>3. QED BY <1>1, <3>1, <3>2 DEF Send, TypeOK, StoreOK, LinkOK, TaskOK,
                                     storeVars, agentVars
  <2>4. QED BY <1>1, <2>2, <2>3 DEF Send
<1>2. CASE Receive(r)
  <2>1. req' \in [Requests -> RequestRecord]
    BY <1>2, GotoType DEF Receive, TypeOK
  <2>2. QED BY <1>2, <2>1 DEF Receive, Release, TypeOK, StoreOK, LinkOK, TaskOK,
                             storeVars, agentVars
<1>3. CASE GiveUp(r)
  <2>1. req' \in [Requests -> RequestRecord]
    BY <1>3, RepliesType DEF GiveUp, TypeOK
  <2>2. QED BY <1>3, <2>1 DEF GiveUp, Release, TypeOK, StoreOK, LinkOK, TaskOK,
                             storeVars, agentVars
<1>4. CASE Reply(r)
  <2>1. status' \in States \cup {None} /\ req' \in [Requests -> RequestRecord]
    <3>1. CASE ReplyRejected(r)
      BY <3>1, MoveType DEF ReplyRejected, FailOperation
    <3>2. CASE ReplyIgnored(r)
      BY <3>2, AnswerType DEF ReplyIgnored, TypeOK, StoreOK
    <3>3. CASE ReplyAccepted(r)
      BY <3>3, MoveType DEF ReplyAccepted
    <3>4. CASE ReplyCancel(r)
      BY <3>4, MoveType DEF ReplyCancel
    <3>5. QED BY <1>4, <3>1, <3>2, <3>3, <3>4 DEF Reply
  <2>2. preview' \in Preview
    BY <1>4, PreviewType DEF Reply, ReplyRejected, FailOperation, ReplyIgnored, ReplyAccepted,
                             ReplyCancel, TypeOK, StoreOK
  <2>3. QED BY <1>4, <2>1, <2>2 DEF Reply, TypeOK, StoreOK, LinkOK, TaskOK, linkVars, agentVars
<1>5. CASE RequestAudit(r)
  <2>1. req' \in [Requests -> RequestRecord] /\ audit' \in [Terminal -> Nat]
    BY <1>5, AnswerType, AuditType DEF RequestAudit, TypeOK, StoreOK
  <2>2. preview' \in Preview
    BY <1>5, PreviewType DEF RequestAudit, TypeOK, StoreOK
  <2>3. QED BY <1>5, <2>1, <2>2 DEF RequestAudit, TypeOK, StoreOK, LinkOK, TaskOK,
                                   storeVars, linkVars, agentVars
<1>6. CASE Recheck(r)
  <2>1. req' \in [Requests -> RequestRecord]
    BY <1>6, AnswerType, GotoType DEF Recheck, TypeOK
  <2>2. QED BY <1>6, <2>1 DEF Recheck, TypeOK, StoreOK, LinkOK, TaskOK,
                             storeVars, linkVars, agentVars
<1>7. CASE Rollback(r)
  <2>1. status' \in States \cup {None} /\ req' \in [Requests -> RequestRecord]
    BY <1>7, MoveType DEF Rollback
  <2>2. QED BY <1>7, <2>1 DEF Rollback, TypeOK, StoreOK, LinkOK, TaskOK, linkVars, agentVars
<1>8. QED BY <1>1, <1>2, <1>3, <1>4, <1>5, <1>6, <1>7

\* The agent: commands it takes and steps of its tasks.
LEMMA AgentType ==
  ASSUME TypeOK, AgentHandles \/ \E r \in Requests : AgentTask(r)
  PROVE  TypeOK'
<1>1. CASE AgentHandles
  <2> DEFINE r == Head(cmds)
  <2>1. r \in Requests /\ cmds' \in Seq(Requests)
    BY <1>1 DEF AgentHandles, TypeOK, LinkOK
  <2>2. req' \in [Requests -> RequestRecord]
    BY <1>1, DeliverType DEF AgentHandles, TypeOK, LinkOK
  <2>3. TaskOK'
    <3>1. CASE StartTask(r)
      BY <2>1, <3>1 DEF StartTask, TypeOK, TaskOK
    <3>2. CASE CancelTask(r)
      BY <3>2 DEF CancelTask, TypeOK, TaskOK
    <3>3. CASE Refuse(r)
      BY <3>3 DEF Refuse, TypeOK, TaskOK, agentVars
    <3>4. QED BY <1>1, <3>1, <3>2, <3>3 DEF AgentHandles
  <2>4. QED BY <1>1, <2>1, <2>2, <2>3 DEF AgentHandles, TypeOK, StoreOK, LinkOK, storeVars
<1>2. ASSUME NEW r \in Requests, AgentTask(r)
      PROVE  TypeOK'
  <2>1. TaskOK' /\ events' \in SUBSET EventRecord
    <3>1. CASE ScanEnds(r)
      <4>1. Scope(r) \in SUBSET Txs
        BY DEF Scope, TypeOK, RequestRecord
      <4>2. ASSUME NEW S \in SUBSET Scope(r), NEW k \in {"scan_done", "op_error"}
            PROVE  ScanEvents(r, S) \cup {Event(r, k, None)} \in SUBSET EventRecord
        BY <4>1 DEF ScanEvents, Event, EventRecord, EventKinds
      <4>3. events' \in SUBSET EventRecord
        BY <3>1, <4>1, <4>2 DEF ScanEnds, Emit, TypeOK
      <4>4. QED BY <3>1, <4>3 DEF ScanEnds, TypeOK, TaskOK
    <3>2. CASE ExecBatch(r)
      <4>1. pos[r] + 1 \in 1 .. Batches
        BY <3>2 DEF ExecBatch, TypeOK, TaskOK
      <4>2. Event(r, "progress", pos[r] + 1) \in EventRecord
        BY <4>1 DEF Event, EventRecord, EventKinds
      <4>3. QED BY <3>2, <4>1, <4>2 DEF ExecBatch, Emit, TypeOK, TaskOK
    <3>3. CASE ExecEnds(r)
      <4>1. \A k \in {"op_done", "op_paused", "op_error"} : Event(r, k, None) \in EventRecord
        BY DEF Event, EventRecord, EventKinds
      <4>2. QED BY <3>3, <4>1 DEF ExecEnds, Emit, TypeOK, TaskOK
    <3>4. CASE Unregister(r)
      BY <3>4 DEF Unregister, TypeOK, TaskOK
    <3>5. QED BY <1>2, <3>1, <3>2, <3>3, <3>4 DEF AgentTask, TaskStep
  <2>2. QED BY <1>2, <2>1 DEF AgentTask, TypeOK, StoreOK, LinkOK, storeVars, linkVars
<1>3. QED BY <1>1, <1>2

\* The goroutines that handle events.
LEMMA EventType ==
  ASSUME TypeOK, NEW e \in events, EventStep(e)
  PROVE  TypeOK'
<1>0. e \in EventRecord
  BY DEF TypeOK
<1>1. CASE StageTxMeta(e) \/ StageSQL(e)
  <2>1. e.arg \in Txs
    BY <1>0, <1>1 DEF StageTxMeta, StageSQL, EventRecord
  <2>2. preview' \in Preview
    BY <1>1, <2>1, PreviewType DEF StageTxMeta, StageSQL, TypeOK, StoreOK
  <2>3. QED BY <1>1, <2>2 DEF StageTxMeta, StageSQL, Consume, EventUnchanged, TypeOK, StoreOK,
                             LinkOK, TaskOK, storeVars, linkVars, agentVars
<1>2. CASE SaveProgress(e)
  <2>1. e.arg \in 0 .. Batches
    BY <1>0, <1>2 DEF SaveProgress, EventRecord
  <2>2. QED BY <1>2, <2>1 DEF SaveProgress, Consume, EventUnchanged, TypeOK, StoreOK,
                             LinkOK, TaskOK, linkVars, agentVars
<1>3. CASE EventRead(e)
  <2> DEFINE S == IF Persists(e) THEN selected ELSE {}
             p == IF HasFallback(e) THEN "fallback"
                  ELSE IF e.kind = "op_paused" /\ status = "paused" THEN "audit" ELSE "cas"
             f == [e EXCEPT !.st = status, !.sel = S, !.pc = p]
  <2>1. S \in SUBSET Txs /\ p \in {"fallback", "audit", "cas"}
    BY DEF TypeOK, StoreOK
  <2> HIDE DEF S, p
  <2>2. f \in EventRecord
    BY <1>0, <2>1, EventUpdates DEF TypeOK, StoreOK
  <2>3. events' = (events \ {e}) \cup {f}
    BY <1>3 DEF EventRead, Continue, S, p
  <2> HIDE DEF f
  <2>4. QED BY <1>3, <2>2, <2>3 DEF EventRead, EventUnchanged, TypeOK, StoreOK, LinkOK, TaskOK,
                                   storeVars, linkVars, agentVars
<1>4. CASE EventFallback(e)
  <2> DEFINE mid == IF e.kind = "scan_done" THEN "scanning" ELSE "executing"
             f == [e EXCEPT !.st = mid, !.pc = "cas"]
  <2>1. f \in EventRecord
    BY <1>0, EventUpdates DEF States
  <2>2. events' = (events \ {e}) \cup {f}
    BY <1>4 DEF EventFallback, Continue
  <2>3. status' \in States \cup {None}
    BY <1>4, TransitionType DEF EventFallback, TypeOK, StoreOK
  <2> HIDE DEF f
  <2>4. QED BY <1>4, <2>1, <2>2, <2>3 DEF EventFallback, EventUnchanged, TypeOK, StoreOK,
                                         LinkOK, TaskOK, linkVars, agentVars
<1>5. CASE EventCas(e)
  <2> DEFINE f == [e EXCEPT !.st = Target(e), !.pc = "audit"]
  <2>1. Applies(e.st, Target(e)) => f \in EventRecord
    BY <1>0, EventUpdates, StatesOfTable DEF Applies
  <2>2. events' \in SUBSET EventRecord
    BY <1>5, <2>1 DEF EventCas, Continue, Consume, TypeOK
  <2>3. status' \in States \cup {None}
    BY <1>5, TransitionType DEF EventCas, TypeOK, StoreOK
  <2>4. QED BY <1>5, <2>2, <2>3 DEF EventCas, EventUnchanged, TypeOK, StoreOK,
                                   LinkOK, TaskOK, linkVars, agentVars
<1>6. CASE EventAudit(e)
  <2>1. [e EXCEPT !.pc = "persist"] \in EventRecord
    BY <1>0, EventUpdates
  <2>2. events' \in SUBSET EventRecord
    BY <1>6, <2>1 DEF EventAudit, Continue, Consume, TypeOK
  <2>3. audit' \in [Terminal -> Nat] /\ preview' \in Preview
    BY <1>6, AuditType, PreviewType DEF EventAudit, TypeOK, StoreOK
  <2>4. QED BY <1>6, <2>2, <2>3 DEF EventAudit, EventUnchanged, TypeOK, StoreOK,
                                   LinkOK, TaskOK, storeVars, linkVars, agentVars
<1>7. CASE EventPersist(e)
  <2>1. stmts' \in SUBSET Txs
    BY <1>0, <1>7 DEF EventPersist, EventRecord, TypeOK, StoreOK
  <2>2. QED BY <1>7, <2>1 DEF EventPersist, Consume, EventUnchanged, TypeOK, StoreOK,
                             LinkOK, TaskOK, linkVars, agentVars
<1>8. QED BY <1>1, <1>2, <1>3, <1>4, <1>5, <1>6, <1>7 DEF EventStep

\* The connection and the server process.
LEMMA LinkType ==
  ASSUME TypeOK, Drop \/ Reconnect \/ HandleAgentDisconnect \/ Restart
  PROVE  TypeOK'
<1>1. CASE Drop
  <2>1. req' \in [Requests -> RequestRecord]
    BY <1>1, DeliverType DEF Drop, TypeOK, LinkOK
  <2>2. cmds' \in Seq(Requests)
    BY <1>1 DEF Drop
  <2>3. events' \in SUBSET EventRecord
    BY <1>1 DEF Drop, TypeOK
  <2>4. StoreOK' /\ TaskOK'
    BY <1>1 DEF Drop, TypeOK, StoreOK, TaskOK, storeVars, agentVars
  <2>5. LinkOK'
    <3>1. drops' \in Nat
      BY <1>1 DEF Drop, TypeOK, LinkOK
    <3>2. QED BY <1>1, <2>2, <3>1, Zenon DEF Drop, TypeOK, LinkOK
  <2>6. QED BY <2>1, <2>3, <2>4, <2>5 DEF TypeOK
<1>2. CASE Reconnect
  BY <1>2 DEF Reconnect, TypeOK, StoreOK, LinkOK, TaskOK, storeVars, agentVars
<1>3. CASE HandleAgentDisconnect
  <2>1. StoreOK'
    <3>1. CASE status = hook
      <4>1. status' \in States \cup {None}
        BY <1>3, <3>1, TransitionType DEF HandleAgentDisconnect, Block, TypeOK, StoreOK
      <4>2. audit' \in [Terminal -> Nat] /\ preview' \in Preview
        BY <1>3, <3>1, AuditType, PreviewType DEF HandleAgentDisconnect, Block, TypeOK, StoreOK
      <4>3. QED BY <1>3, <4>1, <4>2 DEF HandleAgentDisconnect, TypeOK, StoreOK
    <3>2. CASE status # hook
      BY <1>3, <3>2 DEF HandleAgentDisconnect, Block, TypeOK, StoreOK
    <3>3. QED BY <3>1, <3>2
  <2>2. QED BY <1>3, <2>1 DEF HandleAgentDisconnect, HookThen, TypeOK, LinkOK, TaskOK, agentVars
<1>4. CASE Restart
  <2>1. \A r \in Requests : Over(req[r]) \in RequestRecord
    BY DEF Over, RequestRecord, TypeOK
  <2>2. req' \in [Requests -> RequestRecord]
    BY <1>4, <2>1 DEF Restart, TypeOK
  <2>3. status' \in States \cup {None}
    BY <1>4, TransitionType DEF Restart, TypeOK, StoreOK
  <2>4. audit' \in [Terminal -> Nat] /\ preview' \in Preview
    BY <1>4, AuditType, PreviewType DEF Restart, TypeOK, StoreOK
  <2>5. cmds' \in Seq(Requests)
    BY <1>4 DEF Restart
  <2>6. QED BY <1>4, <2>2, <2>3, <2>4, <2>5 DEF Restart, TypeOK, StoreOK, LinkOK, TaskOK, agentVars
<1>5. QED BY <1>1, <1>2, <1>3, <1>4

LEMMA TypeNext == TypeOK /\ [Next]_vars => TypeOK'
<1> SUFFICES ASSUME TypeOK, [Next]_vars PROVE TypeOK'
  OBVIOUS
<1>1. CASE UNCHANGED vars
  BY <1>1 DEF vars, storeVars, linkVars, agentVars, TypeOK, StoreOK, LinkOK, TaskOK
<1>2. ASSUME NEW r \in Requests,
             StartCreate(r) \/ Read(r) \/ RequestStep(r) \/ GiveUp(r) \/ AgentTask(r)
      PROVE  TypeOK'
  BY <1>2, RequestType, AnswersType, AgentType DEF RequestStep
<1>3. QED BY <1>1, <1>2, AgentType, EventType, LinkType DEF Next

(***************************************************************************)
(* Every reachable state of the record, the requests, the connection, the  *)
(* agent and the events is of its type: what the handlers of               *)
(* internal/server/pitr/handler.go and the agent store never leaves it.    *)
(***************************************************************************)
THEOREM TypeCorrect == Spec => []TypeOK
BY TypeInit, TypeNext, PTL DEF Spec

-----------------------------------------------------------------------------
(* The status moves along the table. *)

\* Only a rescan writes the whole record back.
NoRescan == \A r \in Requests : ~At(r, "update")

Legal == TransitionValid(status, status') \/ (status = None /\ status' = "created")

LEMMA TransitionLegal ==
  ASSUME NEW from, NEW to, TransitionTo(from, to)
  PROVE  Legal \/ status' = status
BY DEF TransitionTo, Applies, Legal

\* Every step but the rescan's write goes through transitionTo.
LEMMA StepLegal ==
  ASSUME TypeOK, NoRescan, [Next]_vars
  PROVE  Legal \/ status' = status
<1>1. CASE UNCHANGED vars
  BY <1>1 DEF vars, storeVars
<1>2. ASSUME NEW r \in Requests, StartCreate(r) \/ Read(r) \/ GiveUp(r) \/ AgentTask(r)
      PROVE  Legal \/ status' = status
  BY <1>2 DEF StartCreate, Read, GiveUp, AgentTask, Legal, storeVars
<1>3. ASSUME NEW r \in Requests, RequestStep(r)
      PROVE  Legal \/ status' = status
  <2>1. CASE StartScanning(r)
    BY <2>1, TransitionLegal DEF StartScanning
  <2>2. CASE StartCheck(r)
    BY <2>2, TransitionLegal DEF StartCheck
  <2>3. CASE SelectSnapshot(r) \/ SelectSave(r) \/ SelectClear(r)
    BY <2>3 DEF SelectSnapshot, SelectSave, SelectClear, storeVars
  <2>4. CASE SelectUpdate(r)
    BY <2>4 DEF SelectUpdate, NoRescan
  <2>5. CASE Send(r) \/ Receive(r) \/ RequestAudit(r) \/ Recheck(r)
    BY <2>5 DEF Send, Receive, RequestAudit, Recheck, storeVars
  <2>6. CASE Reply(r)
    <3>1. CASE ReplyRejected(r)
      BY <3>1, TransitionLegal DEF ReplyRejected, FailOperation, Move
    <3>2. CASE ReplyIgnored(r)
      BY <3>2 DEF ReplyIgnored
    <3>3. CASE ReplyAccepted(r)
      BY <3>3, TransitionLegal DEF ReplyAccepted, Move
    <3>4. CASE ReplyCancel(r)
      BY <3>4, TransitionLegal DEF ReplyCancel, Move
    <3>5. QED BY <2>6, <3>1, <3>2, <3>3, <3>4 DEF Reply
  <2>7. CASE Rollback(r)
    BY <2>7, TransitionLegal DEF Rollback, Move
  <2>8. QED BY <1>3, <2>1, <2>2, <2>3, <2>4, <2>5, <2>6, <2>7 DEF RequestStep
<1>4. CASE AgentHandles
  BY <1>4 DEF AgentHandles, storeVars
<1>5. ASSUME NEW e \in events, EventStep(e)
      PROVE  Legal \/ status' = status
  <2>1. CASE EventFallback(e)
    BY <2>1, TransitionLegal DEF EventFallback
  <2>2. CASE EventCas(e)
    BY <2>2, TransitionLegal DEF EventCas
  <2>3. CASE \/ StageTxMeta(e) \/ StageSQL(e) \/ SaveProgress(e)
             \/ EventRead(e) \/ EventAudit(e) \/ EventPersist(e)
    BY <2>3 DEF StageTxMeta, StageSQL, SaveProgress, EventRead, EventAudit, EventPersist, storeVars
  <2>4. QED BY <1>5, <2>1, <2>2, <2>3 DEF EventStep
<1>6. CASE Drop \/ Reconnect
  BY <1>6 DEF Drop, Reconnect, storeVars
<1>7. CASE HandleAgentDisconnect
  BY <1>7, TransitionLegal DEF HandleAgentDisconnect, Block
<1>8. CASE Restart
  BY <1>8, TransitionLegal DEF Restart
<1>9. QED BY <1>1, <1>2, <1>3, <1>4, <1>5, <1>6, <1>7, <1>8 DEF Next

-----------------------------------------------------------------------------
(* What a step does to a request. *)

\* What is about to be stored is the whole selection; a rescan needs the mode
\* for it.
RequestInv(q) ==
  /\ req[q].pc \in {"snapshot", "save", "update"} => Kind[q] = "select"
  /\ req[q].pc = "save" => req[q].plan = req[q].sel
  /\ req[q].pc = "update" => Mode = "selected"

\* A request that was read stays read and keeps its selection, and an execution
\* keeps its statements but to load those that are stored.
Kept(q) ==
  /\ ~At(q, "idle") => ~At(q, "idle")' /\ req'[q].sel = req[q].sel
  /\ IsExec(q) => req'[q].plan = req[q].plan \/ (req'[q].plan = stmts /\ stmts # {})

LEMMA KeptByGoto ==
  ASSUME TypeOK, NEW r \in Requests, NEW q \in Requests, NEW l, Goto(r, l),
         l \notin {"idle", "snapshot", "save", "update"}, RequestInv(q)
  PROVE  RequestInv(q)' /\ Kept(q)
BY DEF TypeOK, RequestRecord, Goto, At, RequestInv, Kept

LEMMA KeptByAnswer ==
  ASSUME TypeOK, NEW r \in Requests, NEW q \in Requests, Answer(r), RequestInv(q)
  PROVE  RequestInv(q)' /\ Kept(q)
BY DEF TypeOK, RequestRecord, Answer, Over, At, RequestInv, Kept

LEMMA KeptByMove ==
  ASSUME TypeOK, NEW r \in Requests, NEW q \in Requests, NEW to,
         NEW next \in {"audit", "recheck", "done"}, Move(r, to, next), RequestInv(q)
  PROVE  RequestInv(q)' /\ Kept(q)
<1>1. CASE Answer(r)
  BY <1>1, KeptByAnswer
<1>2. CASE req' = [req EXCEPT ![r].st = to, ![r].pc = next]
  BY <1>2 DEF TypeOK, RequestRecord, At, RequestInv, Kept
<1>3. QED BY <1>1, <1>2 DEF Move

LEMMA KeptByDeliver ==
  ASSUME TypeOK, NEW v, NEW q \in Requests, Deliver(v), RequestInv(q)
  PROVE  RequestInv(q)' /\ Kept(q)
BY DEF TypeOK, LinkOK, RequestRecord, Deliver, At, RequestInv, Kept

LEMMA RequestKept ==
  ASSUME TypeOK, [Next]_vars, NEW q \in Requests, RequestInv(q)
  PROVE  RequestInv(q)' /\ Kept(q)
<1>0. CASE UNCHANGED req
  BY <1>0 DEF RequestInv, Kept, At
<1>1. ASSUME NEW r \in Requests, StartCreate(r) \/ SelectUpdate(r) \/ SelectClear(r) \/ Receive(r)
      PROVE  RequestInv(q)' /\ Kept(q)
  BY <1>1, KeptByGoto DEF StartCreate, SelectUpdate, SelectClear, Receive
<1>2. ASSUME NEW r \in Requests, StartCheck(r) \/ Recheck(r) \/ SelectSave(r) \/ RequestAudit(r)
      PROVE  RequestInv(q)' /\ Kept(q)
  BY <1>2, KeptByGoto, KeptByAnswer DEF StartCheck, Recheck, SelectSave, RequestAudit
<1>3. ASSUME NEW r \in Requests, StartScanning(r)
      PROVE  RequestInv(q)' /\ Kept(q)
  <2>1. CASE Answer(r)
    BY <2>1, KeptByAnswer
  <2>2. CASE req' = [req EXCEPT ![r].pc = "check", ![r].st = "scanning"]
    BY <2>2 DEF TypeOK, RequestRecord, At, RequestInv, Kept
  <2>3. QED BY <1>3, <2>1, <2>2 DEF StartScanning
<1>4. ASSUME NEW r \in Requests, Read(r)
      PROVE  RequestInv(q)' /\ Kept(q)
  <2>1. CASE Kind[r] = "select"
    <3>1. PICK S \in (SUBSET Txs) \ {{}} :
            req' = [req EXCEPT ![r].st = status, ![r].sel = S, ![r].pc = "snapshot"]
      BY <1>4, <2>1 DEF Read
    <3>2. CASE q = r
      <4>1. req'[q].pc = "snapshot"
        BY <3>1, <3>2 DEF TypeOK, RequestRecord
      <4>2. QED BY <1>4, <2>1, <3>2, <4>1 DEF Read, At, RequestInv, Kept, IsExec
    <3>3. CASE q # r
      BY <3>1, <3>3 DEF TypeOK, At, RequestInv, Kept
    <3>4. QED BY <3>2, <3>3
  <2>2. CASE Kind[r] # "select"
    BY <1>4, <2>2 DEF Read, TypeOK, RequestRecord, At, RequestInv, Kept
  <2>3. QED BY <2>1, <2>2
<1>5. ASSUME NEW r \in Requests, SelectSnapshot(r)
      PROVE  RequestInv(q)' /\ Kept(q)
  <2>1. CASE Answer(r)
    BY <2>1, KeptByAnswer
  <2>2. CASE /\ Selectable(req[r].sel)
             /\ req' = [req EXCEPT ![r].plan = req[r].sel \cap preview.sql,
                                   ![r].pc = IF Mode = "selected" THEN "update" ELSE "save"]
    <3>1. CASE q = r
      <4>1. /\ req'[q].sel = req[q].sel
            /\ req'[q].plan = req[q].sel \cap preview.sql
            /\ req'[q].pc = IF Mode = "selected" THEN "update" ELSE "save"
        BY <2>2, <3>1 DEF TypeOK, RequestRecord
      <4>2. Kind[q] = "select"
        BY <1>5, <3>1 DEF SelectSnapshot, At, RequestInv
      <4>3. Mode # "selected" => req'[q].plan = req'[q].sel
        BY <2>2, <3>1, <4>1 DEF Selectable
      <4>4. QED BY <4>1, <4>2, <4>3 DEF At, RequestInv, Kept, IsExec
    <3>2. CASE q # r
      BY <2>2, <3>2 DEF TypeOK, At, RequestInv, Kept
    <3>3. QED BY <3>1, <3>2
  <2>3. QED BY <1>5, <2>1, <2>2 DEF SelectSnapshot
<1>6. ASSUME NEW r \in Requests, Send(r) \/ GiveUp(r)
      PROVE  RequestInv(q)' /\ Kept(q)
  <2>1. CASE Answer(r)
    BY <2>1, KeptByAnswer
  <2>2. CASE req' = [req EXCEPT ![r].pc = "reply", ![r].resp = "closed"]
    BY <2>2 DEF TypeOK, RequestRecord, At, RequestInv, Kept
  <2>3. CASE /\ ~(IsExec(r) /\ Load(r) = {})
             /\ req' = [req EXCEPT ![r].pc = "wait", ![r].epoch = drops, ![r].plan = Load(r)]
    <3>1. CASE q = r
      <4>1. req'[q].sel = req[q].sel /\ req'[q].plan = Load(q) /\ req'[q].pc = "wait"
        BY <2>3, <3>1 DEF TypeOK, RequestRecord
      <4>2. IsExec(q) => Load(q) = stmts /\ stmts # {}
        BY <2>3, <3>1 DEF Load
      <4>3. QED BY <4>1, <4>2 DEF At, RequestInv, Kept
    <3>2. CASE q # r
      BY <2>3, <3>2 DEF TypeOK, At, RequestInv, Kept
    <3>3. QED BY <3>1, <3>2
  <2>4. QED BY <1>6, <2>1, <2>2, <2>3 DEF Send, SendNothing, SendToAgent, GiveUp
<1>7. ASSUME NEW r \in Requests, Reply(r) \/ Rollback(r)
      PROVE  RequestInv(q)' /\ Kept(q)
  <2>1. \/ Answer(r)
        \/ \E to \in States, next \in {"audit", "recheck", "done"} : Move(r, to, next)
    BY <1>7 DEF Reply, ReplyRejected, FailOperation, ReplyIgnored, ReplyAccepted, ReplyCancel,
                Rollback, States
  <2>2. QED BY <2>1, KeptByAnswer, KeptByMove
<1>8. ASSUME NEW r \in Requests, AgentTask(r)
      PROVE  RequestInv(q)' /\ Kept(q)
  BY <1>0, <1>8 DEF AgentTask
<1>9. CASE AgentHandles \/ Drop
  BY <1>9, KeptByDeliver DEF AgentHandles, Drop
<1>10. ASSUME NEW e \in events, EventStep(e)
       PROVE  RequestInv(q)' /\ Kept(q)
  BY <1>0, <1>10 DEF EventStep, StageTxMeta, StageSQL, SaveProgress, EventRead, EventFallback,
                     EventCas, EventAudit, EventPersist, EventUnchanged
<1>11. CASE Reconnect \/ HandleAgentDisconnect
  BY <1>0, <1>11 DEF Reconnect, HandleAgentDisconnect
<1>12. CASE Restart
  BY <1>12 DEF Restart, Over, TypeOK, RequestRecord, At, RequestInv, Kept
<1>13. CASE UNCHANGED vars
  BY <1>0, <1>13 DEF vars
<1>14. QED BY <1>1, <1>2, <1>3, <1>4, <1>5, <1>6, <1>7, <1>8, <1>9, <1>10, <1>11, <1>12, <1>13
          DEF Next, RequestStep

RequestsInv == \A q \in Requests : RequestInv(q)

LEMMA RequestsInvInit == Init => RequestsInv
BY DEF Init, RequestsInv, RequestInv

(***************************************************************************)
(* Unless the operation uses the rescan of "selected" mode, its status     *)
(* moves along the table of state.go whatever handlers, events, lost       *)
(* connections and restarts race: every write is a compare-and-swap of     *)
(* transitionTo (handler.go:392-412).                                      *)
(***************************************************************************)
THEOREM StatusSound ==
  ASSUME Mode # "selected"
  PROVE  Spec => TransitionsValid
<1>1. TypeOK /\ RequestsInv /\ [Next]_vars => RequestsInv'
  BY RequestKept DEF RequestsInv
<1>2. RequestsInv => NoRescan
  BY DEF RequestsInv, RequestInv, NoRescan, At
<1>3. TypeOK /\ RequestsInv /\ [Next]_vars => [Legal]_status
  BY <1>2, StepLegal
<1>4. Spec => [][Legal]_status
  BY <1>1, <1>3, RequestsInvInit, TypeCorrect, PTL DEF Spec
<1>5. QED BY <1>4 DEF TransitionsValid, Legal

-----------------------------------------------------------------------------
(* What is stored for execution comes out of one selection. *)

Chosen(S) == \E s \in Requests : /\ Kind[s] = "select" /\ ~At(s, "idle")
                                 /\ S \subseteq req[s].sel

\* The record's selection, the copy an event works from and the statements.
SelectionInv ==
  /\ selected # {} => Chosen(selected)
  /\ stmts # {} => Chosen(stmts)
  /\ \A e \in events : e.sel # {} => Chosen(e.sel)

\* Whatever else a step does, a choice stays a choice.
LEMMA ChosenKept ==
  ASSUME TypeOK, RequestsInv, [Next]_vars, NEW S, Chosen(S)
  PROVE  \E s \in Requests : /\ Kind[s] = "select" /\ ~At(s, "idle")'
                             /\ S \subseteq req'[s].sel
<1>1. PICK s \in Requests : Kind[s] = "select" /\ ~At(s, "idle") /\ S \subseteq req[s].sel
  BY DEF Chosen
<1>2. Kept(s)
  BY RequestKept DEF RequestsInv
<1>3. QED BY <1>1, <1>2 DEF Kept

\* A step that brings in nothing new keeps the invariant.
LEMMA NothingNew ==
  ASSUME TypeOK, RequestsInv, SelectionInv, [Next]_vars,
         selected' = selected \/ (selected' # {} => Chosen(selected)' ),
         stmts' \subseteq stmts \/ (stmts' # {} => Chosen(stmts)'),
         \A e \in events' : e \in events \/ e.sel = {} \/ Chosen(e.sel)
  PROVE  SelectionInv'
<1>1. selected' # {} => Chosen(selected)'
  <2>1. CASE selected' = selected /\ selected # {}
    <3>1. Chosen(selected)
      BY <2>1 DEF SelectionInv
    <3>2. QED BY <2>1, <3>1, ChosenKept DEF Chosen
  <2>2. QED BY <2>1
<1>2. stmts' # {} => Chosen(stmts)'
  <2>1. CASE stmts' \subseteq stmts /\ stmts' # {}
    <3>1. Chosen(stmts)
      BY <2>1 DEF SelectionInv
    <3>2. PICK s \in Requests : Kind[s] = "select" /\ ~At(s, "idle")' /\ stmts \subseteq req'[s].sel
      BY <3>1, ChosenKept
    <3>3. QED BY <2>1, <3>2 DEF Chosen
  <2>2. QED BY <2>1
<1>3. ASSUME NEW e \in events', e.sel # {}
      PROVE  \E s \in Requests : /\ Kind[s] = "select" /\ ~At(s, "idle")'
                                 /\ e.sel \subseteq req'[s].sel
  <2>1. Chosen(e.sel)
    BY <1>3 DEF SelectionInv
  <2>2. QED BY <2>1, ChosenKept
<1>4. QED BY <1>1, <1>2, <1>3 DEF SelectionInv, Chosen

LEMMA SelectionInit == Init => SelectionInv
BY DEF Init, SelectionInv

LEMMA SelectionNext ==
  ASSUME TypeOK, RequestsInv, SelectionInv, [Next]_vars
  PROVE  SelectionInv'
<1> DEFINE OldStore == selected' = selected /\ stmts' \subseteq stmts
           OldEvents == \A e \in events' : e \in events \/ e.sel = {} \/ Chosen(e.sel)
<1>0. CASE OldStore /\ OldEvents
  BY <1>0, NothingNew
<1>1. CASE UNCHANGED vars
  BY <1>0, <1>1 DEF vars, storeVars
<1>2. ASSUME NEW r \in Requests,
             \/ StartCreate(r) \/ StartScanning(r) \/ StartCheck(r) \/ Read(r)
             \/ SelectSnapshot(r) \/ SelectClear(r) \/ Send(r) \/ Receive(r) \/ GiveUp(r)
             \/ Reply(r) \/ RequestAudit(r) \/ Recheck(r) \/ Rollback(r)
      PROVE  SelectionInv'
  <2>1. UNCHANGED <<selected, events>> /\ stmts' \subseteq stmts
    BY <1>2 DEF StartCreate, StartScanning, StartCheck, Read, SelectSnapshot, SelectClear, Send,
                Receive, GiveUp, Reply, RequestAudit, Recheck, Rollback, storeVars
  <2>2. QED BY <1>0, <2>1
<1>3. ASSUME NEW r \in Requests, SelectSave(r) \/ SelectUpdate(r)
      PROVE  SelectionInv'
  <2>1. Kind[r] = "select" /\ ~At(r, "idle")
    BY <1>3 DEF SelectSave, SelectUpdate, RequestsInv, RequestInv, At
  <2>2. ~At(r, "idle")' /\ req'[r].sel = req[r].sel
    BY <2>1, RequestKept DEF RequestsInv, Kept
  <2>3. selected' = req[r].sel /\ events' = events
    BY <1>3 DEF SelectSave, SelectUpdate
  <2>4. stmts' \subseteq stmts \/ stmts' \subseteq req[r].sel
    BY <1>3 DEF SelectSave, SelectUpdate, RequestsInv, RequestInv, At
  <2>5. Chosen(selected)'
    BY <2>1, <2>2, <2>3 DEF Chosen
  <2>6. stmts' \subseteq req[r].sel => Chosen(stmts)'
    BY <2>1, <2>2 DEF Chosen
  <2>7. QED BY <2>3, <2>4, <2>5, <2>6, NothingNew
<1>4. ASSUME NEW r \in Requests, AgentTask(r)
      PROVE  SelectionInv'
  <2>1. OldStore
    BY <1>4 DEF AgentTask, storeVars
  <2>2. \A k, a : Event(r, k, a).sel = {}
    BY DEF Event
  <2>3. \A S, k : \A e \in ScanEvents(r, S) \cup {Event(r, k, None)} : e.sel = {}
    BY <2>2 DEF ScanEvents
  <2>4. OldEvents
    <3>1. CASE ScanEnds(r)
      BY <2>3, <3>1 DEF ScanEnds, Emit
    <3>2. CASE ExecBatch(r) \/ ExecEnds(r)
      BY <2>2, <3>2 DEF ExecBatch, ExecEnds, Emit
    <3>3. CASE Unregister(r)
      BY <3>3 DEF Unregister
    <3>4. QED BY <1>4, <3>1, <3>2, <3>3 DEF AgentTask, TaskStep
  <2>5. QED BY <1>0, <2>1, <2>4
<1>5. CASE AgentHandles
  BY <1>0, <1>5 DEF AgentHandles, storeVars
<1>6. ASSUME NEW e \in events, EventStep(e)
      PROVE  SelectionInv'
  <2>0. e \in EventRecord
    BY DEF TypeOK
  <2>1. CASE StageTxMeta(e) \/ StageSQL(e) \/ SaveProgress(e)
    BY <1>0, <2>1 DEF StageTxMeta, StageSQL, SaveProgress, Consume, storeVars
  <2>2. CASE EventRead(e)
    <3> DEFINE S == IF Persists(e) THEN selected ELSE {}
               f == [e EXCEPT !.st = status, !.sel = S,
                              !.pc = IF HasFallback(e) THEN "fallback"
                                     ELSE IF e.kind = "op_paused" /\ status = "paused" THEN "audit"
                                     ELSE "cas"]
    <3>1. events' = (events \ {e}) \cup {f} /\ OldStore
      BY <2>2 DEF EventRead, Continue, storeVars
    <3>2. f.sel = S
      BY <2>0 DEF EventRecord
    <3>3. S = {} \/ Chosen(S)
      BY DEF SelectionInv
    <3> HIDE DEF f, S
    <3>4. QED BY <1>0, <3>1, <3>2, <3>3
  <2>3. CASE EventFallback(e) \/ EventCas(e) \/ EventAudit(e)
    <3>1. e.sel = {} \/ Chosen(e.sel)
      BY DEF SelectionInv
    <3>2. \A s, p : [e EXCEPT !.st = s, !.pc = p].sel = e.sel /\ [e EXCEPT !.pc = p].sel = e.sel
      BY <2>0 DEF EventRecord
    <3>3. \A g \in events' : g \in events \/ g.sel = e.sel
      <4>1. \/ events' = events \ {e}
            \/ \E s, p : events' = (events \ {e}) \cup {[e EXCEPT !.st = s, !.pc = p]}
            \/ \E p : events' = (events \ {e}) \cup {[e EXCEPT !.pc = p]}
        BY <2>3, Zenon DEF EventFallback, EventCas, EventAudit, Continue, Consume
      <4>2. CASE events' = events \ {e}
        BY <4>2
      <4>3. ASSUME NEW s, NEW p, events' = (events \ {e}) \cup {[e EXCEPT !.st = s, !.pc = p]}
            PROVE  \A g \in events' : g \in events \/ g.sel = e.sel
        <5> DEFINE f == [e EXCEPT !.st = s, !.pc = p]
        <5>1. f.sel = e.sel
          BY <3>2
        <5> HIDE DEF f
        <5>2. events' = (events \ {e}) \cup {f}
          BY <4>3 DEF f
        <5>3. QED BY <5>1, <5>2
      <4>4. ASSUME NEW p, events' = (events \ {e}) \cup {[e EXCEPT !.pc = p]}
            PROVE  \A g \in events' : g \in events \/ g.sel = e.sel
        <5> DEFINE f == [e EXCEPT !.pc = p]
        <5>1. f.sel = e.sel
          BY <3>2
        <5> HIDE DEF f
        <5>2. events' = (events \ {e}) \cup {f}
          BY <4>4 DEF f
        <5>3. QED BY <5>1, <5>2
      <4>5. QED BY <4>1, <4>2, <4>3, <4>4, Zenon
    <3>4. OldStore
      BY <2>3 DEF EventFallback, EventCas, EventAudit, storeVars
    <3>5. QED BY <1>0, <3>1, <3>3, <3>4
  <2>4. CASE EventPersist(e)
    <3>1. events' \subseteq events /\ selected' = selected
      BY <2>4 DEF EventPersist, Consume
    <3>2. stmts' \subseteq stmts \/ stmts' \subseteq e.sel
      BY <2>4 DEF EventPersist
    <3>3. ASSUME stmts' \subseteq e.sel, stmts' # {}
          PROVE  Chosen(stmts)'
      <4>1. Chosen(e.sel)
        BY <3>3 DEF SelectionInv
      <4>2. QED BY <3>3, <4>1, ChosenKept DEF Chosen
    <3>4. QED BY <3>1, <3>2, <3>3, NothingNew
  <2>5. QED BY <1>6, <2>1, <2>2, <2>3, <2>4 DEF EventStep
<1>7. CASE Drop \/ Reconnect \/ HandleAgentDisconnect \/ Restart
  <2>1. OldStore /\ events' \subseteq events
    BY <1>7 DEF Drop, Reconnect, HandleAgentDisconnect, Restart, storeVars
  <2>2. QED BY <1>0, <2>1
<1>8. QED BY <1>1, <1>2, <1>3, <1>4, <1>5, <1>6, <1>7 DEF Next, RequestStep

(***************************************************************************)
(* However many selections, rescans and late events overlap, the           *)
(* statements kept for execution belong to one selection an operator made  *)
(* (handler.go:1279-1374, 1501-1538).                                      *)
(***************************************************************************)
THEOREM SelectionSound == Spec => []OnlySelectedStored
<1>1. TypeOK /\ RequestsInv /\ [Next]_vars => RequestsInv'
  BY RequestKept DEF RequestsInv
<1>2. TypeOK /\ RequestsInv /\ SelectionInv /\ [Next]_vars => SelectionInv'
  BY SelectionNext
<1>3. SelectionInv => OnlySelectedStored
  BY DEF SelectionInv, OnlySelectedStored, Chosen
<1>4. QED BY <1>1, <1>2, <1>3, RequestsInvInit, SelectionInit, TypeCorrect, PTL DEF Spec

-----------------------------------------------------------------------------
(* What is executed is the whole of one selection. *)

Picked(S) == \E s \in Requests : Kind[s] = "select" /\ ~At(s, "idle") /\ S = req[s].sel

\* A command of this request is on its way or has started a task.
Sent(q) == task[q] # None \/ \E i \in 1 .. Len(cmds) : cmds[i] = q

PlanInv ==
  /\ stmts # {} => Picked(stmts)
  /\ \A q \in Requests : IsExec(q) /\ req[q].plan # {} => Picked(req[q].plan)
  /\ \A q \in Requests : IsExec(q) /\ Sent(q) => req[q].plan # {}
  /\ \A e \in events : e.sel = {} /\ e.pc # "persist"

LEMMA PickedKept ==
  ASSUME TypeOK, RequestsInv, [Next]_vars, NEW S, Picked(S)
  PROVE  \E s \in Requests : Kind[s] = "select" /\ ~At(s, "idle")' /\ S = req'[s].sel
<1>1. PICK s \in Requests : Kind[s] = "select" /\ ~At(s, "idle") /\ S = req[s].sel
  BY DEF Picked
<1>2. Kept(s)
  BY RequestKept DEF RequestsInv
<1>3. QED BY <1>1, <1>2 DEF Kept

\* A task is only started by a command, and a command of an execution only
\* leaves with statements.
LEMMA SentKept ==
  ASSUME TypeOK, RequestsInv, [Next]_vars, NEW q \in Requests, IsExec(q), Sent(q)',
         Sent(q) => req[q].plan # {}
  PROVE  req'[q].plan # {}
<1>0. Kept(q)
  BY RequestKept DEF RequestsInv
<1>1. CASE Sent(q)
  BY <1>0, <1>1 DEF Kept
<1>2. CASE ~Sent(q)
  <2>1. ASSUME UNCHANGED task, cmds' = cmds \/ cmds' = <<>>
        PROVE  FALSE
    BY <1>2, <2>1 DEF Sent
  <2>2. ASSUME NEW r \in Requests, Send(r)
        PROVE  req'[q].plan # {}
    <3>1. CASE SendNothing(r)
      BY <2>1, <2>2, <3>1 DEF Send, SendNothing, agentVars
    <3>2. CASE SendToAgent(r) /\ ~conn
      BY <2>1, <2>2, <3>2 DEF Send, SendToAgent, agentVars
    <3>3. CASE SendToAgent(r) /\ conn
      <4>1. cmds' = Append(cmds, r) /\ task' = task
        BY <2>2, <3>3 DEF Send, SendToAgent, agentVars
      <4>2. r = q
        BY <1>2, <4>1 DEF Sent, TypeOK, LinkOK
      <4>3. req'[q].plan = Load(q)
        BY <3>3, <4>2 DEF SendToAgent, TypeOK, RequestRecord
      <4>4. QED BY <3>3, <4>2, <4>3 DEF SendToAgent
    <3>4. QED BY <2>2, <3>1, <3>2, <3>3 DEF Send
  <2>3. CASE AgentHandles
    <3>1. cmds # <<>> /\ cmds' = Tail(cmds) /\ cmds \in Seq(Requests)
      BY <2>3 DEF AgentHandles, TypeOK, LinkOK
    <3>2. \A i \in 1 .. Len(cmds') : cmds'[i] = cmds[i + 1] /\ i + 1 \in 1 .. Len(cmds)
      BY <3>1
    <3>3. Head(cmds) = cmds[1] /\ 1 \in 1 .. Len(cmds)
      BY <3>1
    <3>4. task' = task \/ task' = [task EXCEPT ![Head(cmds)] = "running"]
      BY <2>3 DEF AgentHandles, StartTask, CancelTask, Refuse, agentVars
    <3>5. Head(cmds) # q
      BY <1>2, <3>3 DEF Sent
    <3>6. task'[q] = task[q]
      BY <3>4, <3>5 DEF TypeOK, TaskOK
    <3>7. QED BY <1>2, <3>2, <3>6 DEF Sent
  <2>4. ASSUME NEW r \in Requests, AgentTask(r)
        PROVE  FALSE
    <3>1. cmds' = cmds
      BY <2>4 DEF AgentTask, linkVars
    <3>2. task[r] # None /\ (task' = task \/ \E t : task' = [task EXCEPT ![r] = t])
      BY <2>4, DaemonAssumption DEF AgentTask, TaskStep, ScanEnds, ExecBatch, ExecEnds, Unregister
    <3>3. QED BY <1>2, <3>1, <3>2 DEF Sent, TypeOK, TaskOK
  <2>5. ASSUME NEW r \in Requests,
               \/ StartCreate(r) \/ StartScanning(r) \/ StartCheck(r) \/ Read(r)
               \/ SelectSnapshot(r) \/ SelectSave(r) \/ SelectUpdate(r) \/ SelectClear(r)
               \/ Receive(r) \/ GiveUp(r) \/ Reply(r) \/ RequestAudit(r) \/ Recheck(r)
               \/ Rollback(r)
        PROVE  FALSE
    BY <2>1, <2>5 DEF StartCreate, StartScanning, StartCheck, Read, SelectSnapshot, SelectSave,
         SelectUpdate, SelectClear, Receive, GiveUp, Reply, RequestAudit, Recheck, Rollback,
         linkVars, agentVars
  <2>6. ASSUME NEW e \in events, EventStep(e)
        PROVE  FALSE
    BY <2>1, <2>6 DEF EventStep, StageTxMeta, StageSQL, SaveProgress, EventRead, EventFallback,
         EventCas, EventAudit, EventPersist, EventUnchanged, linkVars, agentVars
  <2>7. CASE Drop \/ Reconnect \/ HandleAgentDisconnect \/ Restart
    BY <2>1, <2>7 DEF Drop, Reconnect, HandleAgentDisconnect, Restart, agentVars
  <2>8. CASE UNCHANGED vars
    BY <2>1, <2>8 DEF vars, linkVars, agentVars
  <2>9. QED BY <2>2, <2>3, <2>4, <2>5, <2>6, <2>7, <2>8 DEF Next, RequestStep
<1>3. QED BY <1>1, <1>2

LEMMA PlanInit == Init => PlanInv
BY DEF Init, DaemonInit, PlanInv, Sent

\* Outside the rescan only SelectSave fills the stored statements.
LEMMA StatementsKept ==
  ASSUME Mode # "selected", TypeOK, RequestsInv, PlanInv, [Next]_vars
  PROVE  /\ stmts' # {} => Picked(stmts)'
         /\ \A e \in events' : e.sel = {} /\ e.pc # "persist"
<1> DEFINE OldStore == stmts' = stmts \/ stmts' = {}
           OldEvents == \A e \in events' : e.sel = {} /\ e.pc # "persist"
           Goal == (stmts' # {} => Picked(stmts)') /\ OldEvents
<1>0. CASE OldStore /\ OldEvents
  <2>1. CASE stmts' # {}
    <3>1. Picked(stmts)
      BY <1>0, <2>1 DEF PlanInv
    <3>2. QED BY <1>0, <2>1, <3>1, PickedKept DEF Picked
  <2>2. QED BY <1>0, <2>1
<1>1. CASE UNCHANGED vars
  BY <1>0, <1>1 DEF vars, storeVars, PlanInv
<1>2. ASSUME NEW r \in Requests,
             \/ StartCreate(r) \/ StartScanning(r) \/ StartCheck(r) \/ Read(r)
             \/ SelectSnapshot(r) \/ SelectClear(r) \/ Send(r) \/ Receive(r) \/ GiveUp(r)
             \/ Reply(r) \/ RequestAudit(r) \/ Recheck(r) \/ Rollback(r) \/ SelectUpdate(r)
      PROVE  Goal
  <2>1. events' = events /\ OldStore
    BY <1>2 DEF StartCreate, StartScanning, StartCheck, Read, SelectSnapshot, SelectClear, Send,
                Receive, GiveUp, Reply, RequestAudit, Recheck, Rollback, SelectUpdate, storeVars
  <2>2. QED BY <1>0, <2>1 DEF PlanInv
<1>3. ASSUME NEW r \in Requests, SelectSave(r)
      PROVE  Goal
  <2>1. Kind[r] = "select" /\ ~At(r, "idle") /\ req[r].plan = req[r].sel
    BY <1>3 DEF SelectSave, RequestsInv, RequestInv, At
  <2>2. ~At(r, "idle")' /\ req'[r].sel = req[r].sel
    BY <2>1, RequestKept DEF RequestsInv, Kept
  <2>3. stmts' = req[r].plan /\ events' = events
    BY <1>3 DEF SelectSave
  <2>4. QED BY <2>1, <2>2, <2>3 DEF Picked, PlanInv
<1>4. ASSUME NEW r \in Requests, AgentTask(r)
      PROVE  Goal
  <2>1. OldStore
    BY <1>4 DEF AgentTask, storeVars
  <2>2. \A k, a : Event(r, k, a).sel = {} /\ Event(r, k, a).pc # "persist"
    BY DEF Event
  <2>3. \A S, k : \A e \in ScanEvents(r, S) \cup {Event(r, k, None)} : e.sel = {} /\ e.pc # "persist"
    BY <2>2 DEF ScanEvents
  <2>4. OldEvents
    <3>1. CASE ScanEnds(r)
      BY <2>3, <3>1 DEF ScanEnds, Emit, PlanInv
    <3>2. CASE ExecBatch(r) \/ ExecEnds(r)
      BY <2>2, <3>2 DEF ExecBatch, ExecEnds, Emit, PlanInv
    <3>3. CASE Unregister(r)
      BY <3>3 DEF Unregister, PlanInv
    <3>4. QED BY <1>4, <3>1, <3>2, <3>3 DEF AgentTask, TaskStep
  <2>5. QED BY <1>0, <2>1, <2>4
<1>5. CASE AgentHandles
  BY <1>0, <1>5 DEF AgentHandles, storeVars, PlanInv
<1>6. ASSUME NEW e \in events, EventStep(e)
      PROVE  Goal
  <2>0. e \in EventRecord /\ e.sel = {} /\ e.pc # "persist"
    BY DEF TypeOK, PlanInv
  <2>1. CASE StageTxMeta(e) \/ StageSQL(e) \/ SaveProgress(e)
    BY <1>0, <2>1 DEF StageTxMeta, StageSQL, SaveProgress, Consume, storeVars, PlanInv
  <2>2. CASE EventRead(e)
    <3> DEFINE p == IF HasFallback(e) THEN "fallback"
                    ELSE IF e.kind = "op_paused" /\ status = "paused" THEN "audit" ELSE "cas"
               f == [e EXCEPT !.st = status, !.sel = {}, !.pc = p]
    <3>1. events' = (events \ {e}) \cup {f} /\ OldStore
      BY <2>2 DEF EventRead, Continue, Persists, storeVars
    <3>2. f.sel = {} /\ f.pc # "persist"
      BY <2>0 DEF EventRecord
    <3> HIDE DEF f
    <3>3. QED BY <1>0, <3>1, <3>2 DEF PlanInv
  <2>3. CASE EventFallback(e) \/ EventCas(e) \/ EventAudit(e)
    <3>1. OldStore
      BY <2>3 DEF EventFallback, EventCas, EventAudit, storeVars
    <3>2. \/ events' = events \ {e}
          \/ \E s \in States \cup {None}, p \in {"cas", "audit"} :
               events' = (events \ {e}) \cup {[e EXCEPT !.st = s, !.pc = p]}
      <4>1. CASE EventFallback(e)
        BY <4>1 DEF EventFallback, Continue, States
      <4>2. CASE EventCas(e)
        <5>1. Applies(e.st, Target(e)) => Target(e) \in States
          BY StatesOfTable DEF Applies
        <5>2. QED BY <4>2, <5>1, Zenon DEF EventCas, Continue, Consume
      <4>3. CASE EventAudit(e)
        BY <2>0, <4>3 DEF EventAudit, Consume
      <4>4. QED BY <2>3, <4>1, <4>2, <4>3
    <3>3. CASE events' = events \ {e}
      BY <1>0, <3>1, <3>3 DEF PlanInv
    <3>4. ASSUME NEW s \in States \cup {None}, NEW p \in {"cas", "audit"},
                 events' = (events \ {e}) \cup {[e EXCEPT !.st = s, !.pc = p]}
          PROVE  Goal
      <4> DEFINE f == [e EXCEPT !.st = s, !.pc = p]
      <4>1. f.sel = {} /\ f.pc # "persist"
        BY <2>0 DEF EventRecord
      <4>2. events' = (events \ {e}) \cup {f}
        BY <3>4
      <4> HIDE DEF f
      <4>3. QED BY <1>0, <3>1, <4>1, <4>2 DEF PlanInv
    <3>5. QED BY <3>2, <3>3, <3>4, Zenon
  <2>4. CASE EventPersist(e)
    BY <2>0, <2>4 DEF EventPersist
  <2>5. QED BY <1>6, <2>1, <2>2, <2>3, <2>4 DEF EventStep
<1>7. CASE Drop \/ Reconnect \/ HandleAgentDisconnect \/ Restart
  <2>1. stmts' = stmts /\ events' \subseteq events
    BY <1>7 DEF Drop, Reconnect, HandleAgentDisconnect, Restart, storeVars
  <2>2. QED BY <1>0, <2>1 DEF PlanInv
<1>8. QED BY <1>1, <1>2, <1>3, <1>4, <1>5, <1>6, <1>7 DEF Next, RequestStep

LEMMA PlanNext ==
  ASSUME Mode # "selected", TypeOK, RequestsInv, PlanInv, [Next]_vars
  PROVE  PlanInv'
<1>1. ASSUME NEW q \in Requests, IsExec(q), req'[q].plan # {}
      PROVE  \E s \in Requests : Kind[s] = "select" /\ ~At(s, "idle")' /\ req'[q].plan = req'[s].sel
  <2>1. req'[q].plan = req[q].plan \/ (req'[q].plan = stmts /\ stmts # {})
    BY <1>1, RequestKept DEF RequestsInv, Kept
  <2>2. Picked(req[q].plan) \/ req'[q].plan # req[q].plan
    BY <1>1 DEF PlanInv
  <2>3. stmts # {} => Picked(stmts)
    BY DEF PlanInv
  <2>4. QED BY <2>1, <2>2, <2>3, PickedKept
<1>2. \A q \in Requests : IsExec(q) /\ Sent(q)' => req'[q].plan # {}
  BY SentKept DEF PlanInv
<1>3. QED BY <1>1, <1>2, StatementsKept DEF PlanInv, Picked, IsExec

(***************************************************************************)
(* Unless the rescan of "selected" mode is used, every execution the agent *)
(* starts runs exactly the transactions of one selection, complete and     *)
(* unmixed, however many selections and executions overlap                 *)
(* (handler.go:1332-1363, 1594-1609).                                      *)
(***************************************************************************)
THEOREM PlanSound ==
  ASSUME Mode # "selected"
  PROVE  Spec => []PlanIsASelection
<1>1. TypeOK /\ RequestsInv /\ [Next]_vars => RequestsInv'
  BY RequestKept DEF RequestsInv
<1>2. TypeOK /\ RequestsInv /\ PlanInv /\ [Next]_vars => PlanInv'
  BY PlanNext
<1>3. PlanInv => PlanIsASelection
  BY DEF PlanInv, PlanIsASelection, Picked, Sent
<1>4. QED BY <1>1, <1>2, <1>3, RequestsInvInit, PlanInit, TypeCorrect, PTL DEF Spec

-----------------------------------------------------------------------------
(* The preview keeps to its cap. *)

\* What one scan has staged: finitely many transactions, at most as many as the
\* preview has room for, and SQL of no others.
Staged(p) ==
  /\ p.sql \subseteq p.metas
  /\ IsFiniteSet(p.metas)
  /\ p # NoPreview => p.cap \in Nat /\ Cardinality(p.metas) <= p.cap

PreviewInv == Staged(preview)

LEMMA EmptyStaged ==
  /\ Staged(NoPreview)
  /\ \A n \in Nat : Staged([NoPreview EXCEPT !.cap = n])
<1>1. IsFiniteSet({}) /\ Cardinality({}) = 0
  BY FS_EmptySet
<1>2. QED BY <1>1 DEF Staged, NoPreview

LEMMA StagedMore ==
  ASSUME preview \in Preview, PreviewInv, NEW t \in Txs
  PROVE  Staged(WithMeta(t)) /\ Staged(WithSQL(t))
<1> DEFINE p == PreviewFor
<1>1. Staged(p) /\ p \in Preview
  BY EmptyStaged, PreviewType, DaemonAssumption DEF PreviewFor, PreviewInv
<1>2. p.cap \in Nat /\ Cardinality(p.metas) <= p.cap
  <2>1. Cardinality({}) = 0
    BY FS_EmptySet
  <2>2. QED BY <2>1, DaemonAssumption DEF PreviewFor, HasPreview, PreviewInv, Staged, NoPreview
<1> HIDE DEF p
<1>3. Staged(WithMeta(t))
  <2>1. CASE Cardinality(p.metas) < p.cap
    <3> DEFINE q == [p EXCEPT !.metas = @ \cup {t}]
    <3>1. IsFiniteSet(p.metas \cup {t}) /\ Cardinality(p.metas) \in Nat
      BY <1>1, FS_AddElement, FS_CardinalityType DEF Staged
    <3>2. Cardinality(p.metas \cup {t}) <= Cardinality(p.metas) + 1
      BY <1>1, <3>1, FS_AddElement DEF Staged
    <3>3. q.metas = p.metas \cup {t} /\ q.sql = p.sql /\ q.cap = p.cap
      BY <1>1 DEF Preview
    <3>4. Cardinality(q.metas) \in Nat
      BY <3>1, <3>3, FS_CardinalityType
    <3>5. WithMeta(t) = q
      BY <2>1 DEF WithMeta, p
    <3> HIDE DEF q
    <3>6. Cardinality(q.metas) <= q.cap
      BY <1>2, <2>1, <3>1, <3>2, <3>3, <3>4
    <3>7. Staged(q)
      BY <1>1, <1>2, <3>1, <3>3, <3>6 DEF Staged
    <3>8. QED BY <3>5, <3>7
  <2>2. QED BY <1>1, <2>1 DEF WithMeta, p
<1>4. Staged(WithSQL(t))
  <2>1. CASE t \in p.metas
    <3> DEFINE q == [p EXCEPT !.sql = @ \cup {t}]
    <3>1. q.metas = p.metas /\ q.sql = p.sql \cup {t} /\ q.cap = p.cap
      BY <1>1 DEF Preview
    <3>2. WithSQL(t) = q
      BY <2>1 DEF WithSQL, p
    <3> HIDE DEF q
    <3>3. QED BY <1>1, <1>2, <2>1, <3>1, <3>2 DEF Staged
  <2>2. QED BY <1>1, <2>1 DEF WithSQL, p
<1>5. QED BY <1>3, <1>4

\* Only an event stages something; everything else keeps or drops the preview.
LEMMA PreviewNext ==
  ASSUME TypeOK, PreviewInv, [Next]_vars
  PROVE  PreviewInv'
<1>0. CASE preview' = preview \/ preview' = NoPreview
  BY <1>0, EmptyStaged DEF PreviewInv
<1>1. ASSUME NEW r \in Requests, StartCreate(r)
      PROVE  PreviewInv'
  BY <1>1, EmptyStaged, DaemonAssumption DEF StartCreate, PreviewInv
<1>2. ASSUME NEW r \in Requests, Read(r) \/ RequestStep(r) \/ GiveUp(r) \/ AgentTask(r)
      PROVE  PreviewInv'
  <2>1. CASE Reply(r)
    BY <1>0, <2>1 DEF Reply, ReplyRejected, FailOperation, ReplyIgnored, ReplyAccepted, ReplyCancel
  <2>2. CASE RequestAudit(r)
    BY <1>0, <2>2 DEF RequestAudit
  <2>3. CASE ~Reply(r) /\ ~RequestAudit(r)
    <3>1. preview' = preview
      BY <1>2, <2>3 DEF Read, RequestStep, GiveUp, AgentTask, StartScanning, StartCheck,
           SelectSnapshot, SelectSave, SelectUpdate, SelectClear, Send, Receive, Recheck, Rollback
    <3>2. QED BY <1>0, <3>1
  <2>4. QED BY <2>1, <2>2, <2>3
<1>3. ASSUME NEW e \in events, EventStep(e)
      PROVE  PreviewInv'
  <2>1. CASE StageTxMeta(e) \/ StageSQL(e)
    <3>1. e.arg \in Txs
      BY <2>1 DEF StageTxMeta, StageSQL, TypeOK, EventRecord
    <3>2. QED BY <2>1, <3>1, StagedMore DEF StageTxMeta, StageSQL, PreviewInv, TypeOK, StoreOK
  <2>2. CASE SaveProgress(e) \/ EventRead(e) \/ EventFallback(e) \/ EventCas(e) \/ EventPersist(e)
    BY <1>0, <2>2 DEF SaveProgress, EventRead, EventFallback, EventCas, EventPersist
  <2>3. CASE EventAudit(e)
    BY <1>0, <2>3 DEF EventAudit
  <2>4. QED BY <1>3, <2>1, <2>2, <2>3 DEF EventStep
<1>4. CASE AgentHandles \/ Drop \/ Reconnect \/ HandleAgentDisconnect \/ Restart
  BY <1>0, <1>4 DEF AgentHandles, Drop, Reconnect, HandleAgentDisconnect, Block, Restart
<1>5. CASE UNCHANGED vars
  BY <1>0, <1>5 DEF vars
<1>6. QED BY <1>1, <1>2, <1>3, <1>4, <1>5 DEF Next

(***************************************************************************)
(* For any number of transactions and any cap, in whatever order the event *)
(* goroutines of all scans run, the preview never holds more than its cap  *)
(* and never SQL of a transaction it does not list: stageTxMeta and        *)
(* stageSQL (handler.go:653-709) check and add under one lock.             *)
(***************************************************************************)
THEOREM PreviewSound == Spec => []PreviewBounded
<1>1. Init => PreviewInv
  BY EmptyStaged DEF Init, PreviewInv
<1>2. TypeOK /\ PreviewInv /\ [Next]_vars => PreviewInv'
  BY PreviewNext
<1>3. PreviewInv => PreviewBounded
  BY DEF PreviewInv, Staged, PreviewBounded, HasPreview
<1>4. QED BY <1>1, <1>2, <1>3, TypeCorrect, PTL DEF Spec

-----------------------------------------------------------------------------
(* An operation that is done was executed.                                 *)

\* The request has sent its command, or never will.
Past(q) == req[q].pc \in {"wait", "reply", "recheck", "rollback", "audit", "done"}

\* The status that a selection writes back is the one it was read with.
ReadWhenReady(q) == req[q].pc \in {"snapshot", "update"} => req[q].st = "ready"

LEMMA PastKept ==
  ASSUME TypeOK, RequestsInv, [Next]_vars, NEW q \in Requests, ReadWhenReady(q)
  PROVE  (Past(q) => Past(q)') /\ ReadWhenReady(q)'
<1> DEFINE Goal == (Past(q) => Past(q)') /\ ReadWhenReady(q)'
<1>0. CASE req' = req
  BY <1>0 DEF Past, ReadWhenReady
<1>1. ASSUME NEW r \in Requests, Answer(r)
      PROVE  Goal
  BY <1>1 DEF Answer, Over, Past, ReadWhenReady, TypeOK, RequestRecord
<1>2. ASSUME NEW r \in Requests, NEW l, Goto(r, l), l \notin {"snapshot", "update"},
             Past(r) => l \in {"wait", "reply", "recheck", "rollback", "audit", "done"}
      PROVE  Goal
  BY <1>2 DEF Goto, Past, ReadWhenReady, TypeOK, RequestRecord
<1>3. ASSUME NEW r \in Requests, NEW to, NEW next \in {"audit", "recheck", "done"}, Move(r, to, next)
      PROVE  Goal
  <2>1. CASE req' = [req EXCEPT ![r].st = to, ![r].pc = next]
    BY <2>1 DEF Past, ReadWhenReady, TypeOK, RequestRecord
  <2>2. QED BY <1>1, <1>3, <2>1 DEF Move
<1>4. ASSUME NEW v, Deliver(v)
      PROVE  Goal
  BY <1>4 DEF Deliver, Past, ReadWhenReady, TypeOK, LinkOK, RequestRecord
<1>5. ASSUME NEW r \in Requests,
             \/ StartCreate(r) \/ StartCheck(r) \/ SelectSave(r) \/ SelectUpdate(r) \/ SelectClear(r)
             \/ Receive(r) \/ RequestAudit(r) \/ Recheck(r)
      PROVE  Goal
  BY <1>1, <1>2, <1>5 DEF StartCreate, StartCheck, SelectSave, SelectUpdate, SelectClear, Receive,
                          RequestAudit, Recheck, At, Past
<1>6. ASSUME NEW r \in Requests, StartScanning(r)
      PROVE  Goal
  <2>1. CASE req' = [req EXCEPT ![r].pc = "check", ![r].st = "scanning"]
    BY <1>6, <2>1 DEF StartScanning, At, Past, ReadWhenReady, TypeOK, RequestRecord
  <2>2. QED BY <1>1, <1>6, <2>1 DEF StartScanning
<1>7. ASSUME NEW r \in Requests, Read(r)
      PROVE  Goal
  <2>1. CASE Kind[r] = "select"
    <3>1. PICK S \in (SUBSET Txs) \ {{}} :
            req' = [req EXCEPT ![r].st = status, ![r].sel = S, ![r].pc = "snapshot"]
      BY <1>7, <2>1 DEF Read
    <3>2. req'[r].pc = "snapshot" /\ req'[r].st = status /\ \A p \in Requests \ {r} : req'[p] = req[p]
      BY <3>1 DEF TypeOK, RequestRecord
    <3>3. status = "ready" /\ ~Past(r)
      BY <1>7, <2>1 DEF Read, Fits, At, Past
    <3>4. QED BY <3>2, <3>3 DEF Past, ReadWhenReady
  <2>2. CASE Kind[r] # "select"
    <3>1. req'[r].pc = "send" /\ (\A p \in Requests \ {r} : req'[p] = req[p]) /\ ~Past(r)
      BY <1>7, <2>2 DEF Read, At, Past, TypeOK, RequestRecord
    <3>2. QED BY <3>1 DEF Past, ReadWhenReady
  <2>3. QED BY <2>1, <2>2
<1>8. ASSUME NEW r \in Requests, SelectSnapshot(r)
      PROVE  Goal
  <2>1. CASE Selectable(req[r].sel)
    <3>1. /\ req[r].pc = "snapshot" /\ req'[r].st = req[r].st
          /\ \A p \in Requests \ {r} : req'[p] = req[p]
      BY <1>8, <2>1 DEF SelectSnapshot, At, TypeOK, RequestRecord
    <3>2. QED BY <3>1 DEF Past, ReadWhenReady
  <2>2. QED BY <1>1, <1>8, <2>1 DEF SelectSnapshot
<1>9. ASSUME NEW r \in Requests, Send(r) \/ GiveUp(r)
      PROVE  Goal
  <2>1. CASE req' = [req EXCEPT ![r].pc = "reply", ![r].resp = "closed"]
    BY <2>1 DEF Past, ReadWhenReady, TypeOK, RequestRecord
  <2>2. CASE req' = [req EXCEPT ![r].pc = "wait", ![r].epoch = drops, ![r].plan = Load(r)]
    <3>1. req'[r].pc = "wait" /\ \A p \in Requests \ {r} : req'[p] = req[p]
      BY <2>2 DEF TypeOK, RequestRecord
    <3>2. QED BY <3>1 DEF Past, ReadWhenReady
  <2>3. QED BY <1>1, <1>9, <2>1, <2>2 DEF Send, SendNothing, SendToAgent, GiveUp
<1>10. ASSUME NEW r \in Requests, Reply(r) \/ Rollback(r)
       PROVE  Goal
  <2>1. \/ Answer(r)
        \/ \E to \in States, next \in {"audit", "recheck", "done"} : Move(r, to, next)
    BY <1>10 DEF Reply, ReplyRejected, FailOperation, ReplyIgnored, ReplyAccepted, ReplyCancel,
                 Rollback, States
  <2>2. QED BY <1>1, <1>3, <2>1
<1>11. ASSUME NEW r \in Requests, AgentTask(r)
       PROVE  Goal
  BY <1>0, <1>11 DEF AgentTask
<1>12. CASE AgentHandles \/ Drop
  BY <1>4, <1>12 DEF AgentHandles, Drop
<1>13. ASSUME NEW e \in events, EventStep(e)
       PROVE  Goal
  BY <1>0, <1>13 DEF EventStep, StageTxMeta, StageSQL, SaveProgress, EventRead, EventFallback,
                     EventCas, EventAudit, EventPersist, EventUnchanged
<1>14. CASE Reconnect \/ HandleAgentDisconnect \/ UNCHANGED vars
  BY <1>0, <1>14 DEF Reconnect, HandleAgentDisconnect, vars
<1>15. CASE Restart
  BY <1>15 DEF Restart, Over, At, Past, ReadWhenReady, TypeOK
<1>16. QED BY <1>5, <1>6, <1>7, <1>8, <1>9, <1>10, <1>11, <1>12, <1>13, <1>14, <1>15
          DEF Next, RequestStep

ReadyInv == \A q \in Requests : ReadWhenReady(q)

\* Every command is sent once, and a task starts from its own command only.
SentOnce ==
  /\ \A i \in 1 .. Len(cmds) : task[cmds[i]] = None
  /\ \A i, j \in 1 .. Len(cmds) : cmds[i] = cmds[j] => i = j
  /\ \A q \in Requests : Sent(q) => Past(q)

LEMMA SentOnceNext ==
  ASSUME TypeOK, RequestsInv, ReadyInv, SentOnce, [Next]_vars
  PROVE  SentOnce'
<1>a. \A q \in Requests : Past(q) => Past(q)'
  BY PastKept DEF ReadyInv
<1>0. ASSUME cmds' = cmds \/ cmds' = <<>>, \A q \in Requests : task'[q] # None <=> task[q] # None
      PROVE  SentOnce'
  <2>1. \A i \in 1 .. Len(cmds) : cmds[i] \in Requests
    BY DEF TypeOK, LinkOK
  <2>2. QED BY <1>a, <1>0, <2>1 DEF SentOnce, Sent
<1>1. ASSUME NEW r \in Requests, Send(r)
      PROVE  SentOnce'
  <2>1. CASE SendToAgent(r) /\ conn
    <3>1. cmds' = Append(cmds, r) /\ task' = task /\ cmds \in Seq(Requests)
      BY <1>1, <2>1 DEF Send, SendToAgent, agentVars, TypeOK, LinkOK
    <3>2. ~Past(r) /\ Past(r)'
      BY <1>1, <2>1 DEF Send, SendToAgent, At, Past, TypeOK, RequestRecord
    <3>3. ~Sent(r)
      BY <3>2 DEF SentOnce
    <3>4. /\ Len(cmds') = Len(cmds) + 1 /\ Len(cmds) \in Nat
          /\ cmds'[Len(cmds) + 1] = r
          /\ \A i \in 1 .. Len(cmds) : cmds'[i] = cmds[i]
      BY <3>1
    <3>5. \A i \in 1 .. Len(cmds') : i \in 1 .. Len(cmds) \/ i = Len(cmds) + 1
      BY <3>4
    <3>6. \A i \in 1 .. Len(cmds') : task'[cmds'[i]] = None
      BY <3>1, <3>3, <3>4, <3>5 DEF SentOnce, Sent
    <3>7. \A i, j \in 1 .. Len(cmds') : cmds'[i] = cmds'[j] => i = j
      BY <3>3, <3>4, <3>5 DEF SentOnce, Sent
    <3>8. \A q \in Requests : Sent(q)' => Past(q)'
      BY <1>a, <3>1, <3>2, <3>4, <3>5 DEF SentOnce, Sent
    <3>9. QED BY <3>6, <3>7, <3>8 DEF SentOnce
  <2>2. CASE ~(SendToAgent(r) /\ conn)
    BY <1>0, <1>1, <2>2 DEF Send, SendNothing, SendToAgent, agentVars
  <2>3. QED BY <2>1, <2>2
<1>2. CASE AgentHandles
  <2>1. cmds # <<>> /\ cmds' = Tail(cmds) /\ cmds \in Seq(Requests)
    BY <1>2 DEF AgentHandles, TypeOK, LinkOK
  <2>2. /\ Len(cmds) \in Nat \ {0} /\ Len(cmds') = Len(cmds) - 1
        /\ Head(cmds) = cmds[1] /\ cmds[1] \in Requests
    BY <2>1
  <2>3. \A i \in 1 .. Len(cmds') : cmds'[i] = cmds[i + 1] /\ i + 1 \in 1 .. Len(cmds)
    BY <2>1, <2>2
  <2>4. task' = task \/ task' = [task EXCEPT ![cmds[1]] = "running"]
    BY <1>2, <2>2 DEF AgentHandles, StartTask, CancelTask, Refuse, agentVars
  <2>5. \A i \in 1 .. Len(cmds') : task'[cmds'[i]] = None
    <3>1. \A i \in 1 .. Len(cmds') : cmds[i + 1] # cmds[1]
      BY <2>2, <2>3 DEF SentOnce
    <3>2. \A q \in Requests \ {cmds[1]} : task'[q] = task[q]
      BY <2>4 DEF TypeOK, TaskOK
    <3>3. \A i \in 1 .. Len(cmds') : cmds[i + 1] \in Requests
      BY <2>1, <2>3
    <3>4. QED BY <2>3, <3>1, <3>2, <3>3 DEF SentOnce
  <2>6. \A i, j \in 1 .. Len(cmds') : cmds'[i] = cmds'[j] => i = j
    <3>1. \A i, j \in 1 .. Len(cmds') : cmds[i + 1] = cmds[j + 1] => i + 1 = j + 1
      BY <2>3 DEF SentOnce
    <3>2. QED BY <2>3, <3>1
  <2>7. \A q \in Requests : Sent(q)' => Sent(q)
    <3>1. ASSUME NEW q \in Requests, task'[q] # None
          PROVE  Sent(q)
      BY <2>2, <2>4, <3>1 DEF Sent, TypeOK, TaskOK
    <3>2. ASSUME NEW q \in Requests, NEW i \in 1 .. Len(cmds'), cmds'[i] = q
          PROVE  Sent(q)
      BY <2>3, <3>2 DEF Sent
    <3>3. QED BY <3>1, <3>2 DEF Sent
  <2>8. QED BY <1>a, <2>5, <2>6, <2>7 DEF SentOnce
<1>3. ASSUME NEW r \in Requests, AgentTask(r)
      PROVE  SentOnce'
  <2>1. cmds' = cmds
    BY <1>3 DEF AgentTask, linkVars
  <2>2. /\ task[r] # None
        /\ task' = task \/ \E t \in {"ended", "gone"} : task' = [task EXCEPT ![r] = t]
    BY <1>3, DaemonAssumption DEF AgentTask, TaskStep, ScanEnds, ExecBatch, ExecEnds, Unregister
  <2>3. \A q \in Requests : task'[q] # None <=> task[q] # None
    BY <2>2, DaemonAssumption DEF TypeOK, TaskOK
  <2>4. QED BY <1>0, <2>1, <2>3
<1>4. ASSUME NEW r \in Requests,
             \/ StartCreate(r) \/ StartScanning(r) \/ StartCheck(r) \/ Read(r)
             \/ SelectSnapshot(r) \/ SelectSave(r) \/ SelectUpdate(r) \/ SelectClear(r)
             \/ Receive(r) \/ GiveUp(r) \/ Reply(r) \/ RequestAudit(r) \/ Recheck(r)
             \/ Rollback(r)
      PROVE  SentOnce'
  BY <1>0, <1>4 DEF StartCreate, StartScanning, StartCheck, Read, SelectSnapshot, SelectSave,
       SelectUpdate, SelectClear, Receive, GiveUp, Reply, RequestAudit, Recheck, Rollback,
       linkVars, agentVars
<1>5. ASSUME NEW e \in events, EventStep(e)
      PROVE  SentOnce'
  BY <1>0, <1>5 DEF EventStep, StageTxMeta, StageSQL, SaveProgress, EventRead, EventFallback,
       EventCas, EventAudit, EventPersist, EventUnchanged, linkVars, agentVars
<1>6. CASE Drop \/ Reconnect \/ HandleAgentDisconnect \/ Restart
  BY <1>0, <1>6 DEF Drop, Reconnect, HandleAgentDisconnect, Restart, agentVars
<1>7. CASE UNCHANGED vars
  BY <1>0, <1>7 DEF vars, linkVars, agentVars
<1>8. QED BY <1>1, <1>2, <1>3, <1>4, <1>5, <1>6, <1>7 DEF Next, RequestStep

\* The task of an execution is over and has committed every batch.
Executed(q) == IsExec(q) /\ task[q] \in {"ended", "gone"} /\ pos[q] = Batches

LEMMA ExecutedKept ==
  ASSUME TypeOK, SentOnce, [Next]_vars, NEW q \in Requests, Executed(q)
  PROVE  Executed(q)'
<1>0. CASE UNCHANGED <<task, pos>>
  BY <1>0 DEF Executed, IsExec
<1>1. CASE AgentHandles
  <2>1. Head(cmds) = cmds[1] /\ 1 \in 1 .. Len(cmds)
    BY <1>1 DEF AgentHandles, TypeOK, LinkOK
  <2>2. Head(cmds) # q
    BY <2>1, DaemonAssumption DEF SentOnce, Executed
  <2>3. QED BY <1>1, <2>2 DEF AgentHandles, StartTask, CancelTask, Refuse, agentVars, Executed,
                             IsExec, TypeOK, TaskOK
<1>2. ASSUME NEW r \in Requests, AgentTask(r)
      PROVE  Executed(q)'
  <2>1. CASE Unregister(r)
    BY <2>1 DEF Unregister, Executed, IsExec, TypeOK, TaskOK
  <2>2. CASE ScanEnds(r) \/ ExecBatch(r) \/ ExecEnds(r)
    <3>1. r # q
      BY <2>2 DEF ScanEnds, ExecBatch, ExecEnds, Executed
    <3>2. QED BY <2>2, <3>1 DEF ScanEnds, ExecBatch, ExecEnds, Executed, IsExec, TypeOK, TaskOK
  <2>3. QED BY <1>2, <2>1, <2>2 DEF AgentTask, TaskStep
<1>3. ASSUME NEW r \in Requests,
             \/ StartCreate(r) \/ StartScanning(r) \/ StartCheck(r) \/ Read(r)
             \/ SelectSnapshot(r) \/ SelectSave(r) \/ SelectUpdate(r) \/ SelectClear(r)
             \/ Send(r) \/ Receive(r) \/ GiveUp(r) \/ Reply(r) \/ RequestAudit(r)
             \/ Recheck(r) \/ Rollback(r)
      PROVE  Executed(q)'
  BY <1>0, <1>3 DEF StartCreate, StartScanning, StartCheck, Read, SelectSnapshot, SelectSave,
       SelectUpdate, SelectClear, Send, Receive, GiveUp, Reply, RequestAudit, Recheck, Rollback,
       agentVars
<1>4. ASSUME NEW e \in events, EventStep(e)
      PROVE  Executed(q)'
  BY <1>0, <1>4 DEF EventStep, StageTxMeta, StageSQL, SaveProgress, EventRead, EventFallback,
       EventCas, EventAudit, EventPersist, EventUnchanged, agentVars
<1>5. CASE Drop \/ Reconnect \/ HandleAgentDisconnect \/ Restart \/ UNCHANGED vars
  BY <1>0, <1>5 DEF Drop, Reconnect, HandleAgentDisconnect, Restart, vars, agentVars
<1>6. QED BY <1>1, <1>2, <1>3, <1>4, <1>5 DEF Next, RequestStep

Reports == {"scan_done", "op_done", "op_paused", "op_error"}

\* Whatever calls the operation done comes from a finished execution.
DoneInv ==
  /\ \A e \in events : e.pc # "new" => e.kind \in Reports
  /\ \A e \in events : e.kind = "op_done" => Executed(e.from)
  /\ status = "done" => \E q \in Requests : Executed(q)

\* Only an op_done moves the record to done.
LEMMA DoneStep ==
  ASSUME TypeOK, ReadyInv, DoneInv, [Next]_vars, status' = "done", status # "done"
  PROVE  \E e \in events : e.kind = "op_done"
<1>0. CASE status' = status
  BY <1>0
<1>1. ASSUME NEW from, NEW to, TransitionTo(from, to), to # "done"
      PROVE  FALSE
  BY <1>1 DEF TransitionTo
<1>2. ASSUME NEW r \in Requests, StartCreate(r) \/ StartScanning(r) \/ StartCheck(r)
      PROVE  FALSE
  BY <1>1, <1>2 DEF StartCreate, StartScanning, StartCheck
<1>3. ASSUME NEW r \in Requests, SelectUpdate(r)
      PROVE  FALSE
  BY <1>3 DEF SelectUpdate, ReadyInv, ReadWhenReady, At
<1>4. ASSUME NEW r \in Requests, Reply(r) \/ Rollback(r)
      PROVE  FALSE
  <2>1. \/ status' = status
        \/ \E to \in {"failed", "scanning", "executing", "paused", "cancelled", "ready"} :
             TransitionTo(req[r].st, to)
    BY <1>4 DEF Reply, ReplyRejected, FailOperation, ReplyIgnored, ReplyAccepted, ReplyCancel,
                Rollback, Move
  <2>2. QED BY <1>1, <2>1
<1>5. ASSUME NEW r \in Requests,
             \/ Read(r) \/ SelectSnapshot(r) \/ SelectSave(r) \/ SelectClear(r) \/ Send(r)
             \/ Receive(r) \/ GiveUp(r) \/ RequestAudit(r) \/ Recheck(r) \/ AgentTask(r)
      PROVE  FALSE
  BY <1>5 DEF Read, SelectSnapshot, SelectSave, SelectClear, Send, Receive, GiveUp, RequestAudit,
              Recheck, AgentTask, storeVars
<1>6. ASSUME NEW e \in events, EventStep(e)
      PROVE  \E f \in events : f.kind = "op_done"
  <2>1. CASE EventFallback(e)
    BY <1>1, <2>1 DEF EventFallback
  <2>2. CASE EventCas(e)
    <3>1. e.kind \in Reports
      BY <2>2 DEF EventCas, DoneInv
    <3>2. Target(e) = "done"
      BY <1>1, <2>2 DEF EventCas
    <3>3. QED BY <3>1, <3>2 DEF Target, Reports
  <2>3. CASE \/ StageTxMeta(e) \/ StageSQL(e) \/ SaveProgress(e)
             \/ EventRead(e) \/ EventAudit(e) \/ EventPersist(e)
    BY <2>3 DEF StageTxMeta, StageSQL, SaveProgress, EventRead, EventAudit, EventPersist, storeVars
  <2>4. QED BY <1>6, <2>1, <2>2, <2>3 DEF EventStep
<1>7. CASE AgentHandles \/ Drop \/ Reconnect \/ UNCHANGED vars
  BY <1>7 DEF AgentHandles, Drop, Reconnect, vars, storeVars
<1>8. CASE HandleAgentDisconnect \/ Restart
  BY <1>1, <1>8 DEF HandleAgentDisconnect, Block, Restart
<1>9. QED BY <1>2, <1>3, <1>4, <1>5, <1>6, <1>7, <1>8 DEF Next, RequestStep

\* An event that goes on names the same task as before.
LEMMA EventsKept ==
  ASSUME TypeOK, NEW e \in events, EventStep(e)
  PROVE  \A g \in events' :
           \/ g \in events
           \/ g.from = e.from /\ g.kind = e.kind /\ (e.pc # "new" \/ e.kind \in Reports)
<1> DEFINE Same(g) == /\ g.from = e.from /\ g.kind = e.kind
                      /\ e.pc # "new" \/ e.kind \in Reports
           Goal == \A g \in events' : g \in events \/ Same(g)
<1>0. e \in EventRecord
  BY DEF TypeOK
<1>1. CASE \/ StageTxMeta(e) \/ StageSQL(e) \/ SaveProgress(e) \/ EventPersist(e)
  BY <1>1 DEF StageTxMeta, StageSQL, SaveProgress, EventPersist, Consume
<1>2. CASE EventRead(e)
  <2> DEFINE S == IF Persists(e) THEN selected ELSE {}
             p == IF HasFallback(e) THEN "fallback"
                  ELSE IF e.kind = "op_paused" /\ status = "paused" THEN "audit" ELSE "cas"
             f == [e EXCEPT !.st = status, !.sel = S, !.pc = p]
  <2>1. events' = (events \ {e}) \cup {f}
    BY <1>2 DEF EventRead, Continue
  <2> HIDE DEF S, p
  <2>2. Same(f)
    BY <1>0, <1>2 DEF EventRead, EventRecord, Reports
  <2> HIDE DEF f
  <2>3. QED BY <2>1, <2>2
<1>3. CASE EventFallback(e)
  <2> DEFINE mid == IF e.kind = "scan_done" THEN "scanning" ELSE "executing"
             f == [e EXCEPT !.st = mid, !.pc = "cas"]
  <2>1. events' = (events \ {e}) \cup {f}
    BY <1>3 DEF EventFallback, Continue
  <2>2. Same(f)
    BY <1>0, <1>3 DEF EventFallback, EventRecord
  <2> HIDE DEF f
  <2>3. QED BY <2>1, <2>2
<1>4. CASE EventCas(e)
  <2> DEFINE f == [e EXCEPT !.st = Target(e), !.pc = "audit"]
  <2>1. events' = (events \ {e}) \cup {f} \/ events' = events \ {e}
    BY <1>4 DEF EventCas, Continue, Consume
  <2>2. Same(f)
    BY <1>0, <1>4 DEF EventCas, EventRecord
  <2> HIDE DEF f
  <2>3. QED BY <2>1, <2>2
<1>5. CASE EventAudit(e)
  <2> DEFINE f == [e EXCEPT !.pc = "persist"]
  <2>1. events' = (events \ {e}) \cup {f} \/ events' = events \ {e}
    BY <1>5 DEF EventAudit, Continue, Consume
  <2>2. Same(f)
    BY <1>0, <1>5 DEF EventAudit, EventRecord
  <2> HIDE DEF f
  <2>3. QED BY <2>1, <2>2
<1>6. QED BY <1>1, <1>2, <1>3, <1>4, <1>5 DEF EventStep

LEMMA DoneNext ==
  ASSUME TypeOK, ReadyInv, SentOnce, DoneInv, [Next]_vars
  PROVE  DoneInv'
<1>1. \A q \in Requests : Executed(q) => Executed(q)'
  BY ExecutedKept
<1>2. status' = "done" => \E q \in Requests : Executed(q)'
  <2>1. \A e \in events : e.from \in Requests
    BY DEF TypeOK, EventRecord
  <2>2. status' = "done" => \E q \in Requests : Executed(q)
    BY <2>1, DoneStep DEF DoneInv
  <2>3. QED BY <1>1, <2>2
<1>3. ASSUME NEW g \in events'
      PROVE  (g.pc # "new" => g.kind \in Reports) /\ (g.kind = "op_done" => Executed(g.from)')
  <2> DEFINE Goal == /\ g.pc # "new" => g.kind \in Reports
                     /\ g.kind = "op_done" => Executed(g.from)'
  <2>0. ASSUME NEW e \in events, g = e \/ (g.from = e.from /\ g.kind = e.kind /\ g.kind \in Reports)
        PROVE  Goal
    <3>1. e.from \in Requests
      BY DEF TypeOK, EventRecord
    <3>2. QED BY <1>1, <2>0, <3>1 DEF DoneInv
  <2>1. ASSUME NEW r \in Requests, AgentTask(r)
        PROVE  Goal
    <3>1. \A k, a : Event(r, k, a).from = r /\ Event(r, k, a).kind = k /\ Event(r, k, a).pc = "new"
      BY DEF Event
    <3>2. CASE ScanEnds(r)
      <4>1. \A S : \A e \in ScanEvents(r, S) : e.kind # "op_done" /\ e.pc = "new"
        BY <3>1 DEF ScanEvents
      <4>2. g \in events \/ (g.kind # "op_done" /\ g.pc = "new")
        BY <1>3, <3>1, <3>2, <4>1 DEF ScanEnds, Emit
      <4>3. QED BY <2>0, <4>2
    <3>3. CASE ExecBatch(r)
      <4>1. g \in events \/ (g.kind # "op_done" /\ g.pc = "new")
        BY <1>3, <3>1, <3>3 DEF ExecBatch, Emit
      <4>2. QED BY <2>0, <4>1
    <3>4. CASE ExecEnds(r)
      <4>1. g \in events \/ (g.pc = "new" /\ (g.kind = "op_done" => pos[r] = Batches /\ g.from = r))
        BY <1>3, <3>1, <3>4 DEF ExecEnds, Emit
      <4>2. pos[r] = Batches => Executed(r)'
        BY <3>4 DEF ExecEnds, Executed, IsExec, TypeOK, TaskOK
      <4>3. QED BY <2>0, <4>1, <4>2
    <3>5. CASE Unregister(r)
      BY <1>3, <2>0, <3>5 DEF Unregister
    <3>6. QED BY <2>1, <3>2, <3>3, <3>4, <3>5 DEF AgentTask, TaskStep
  <2>2. ASSUME NEW e \in events, EventStep(e)
        PROVE  Goal
    <3>1. e.pc # "new" => e.kind \in Reports
      BY DEF DoneInv
    <3>2. QED BY <1>3, <2>0, <2>2, <3>1, EventsKept
  <2>3. ASSUME NEW r \in Requests, StartCreate(r) \/ Read(r) \/ RequestStep(r) \/ GiveUp(r)
        PROVE  Goal
    <3>1. events' = events
      BY <2>3 DEF RequestStep, StartCreate, StartScanning, StartCheck, Read, SelectSnapshot,
           SelectSave, SelectUpdate, SelectClear, Send, Receive, GiveUp, Reply, RequestAudit,
           Recheck, Rollback
    <3>2. QED BY <1>3, <2>0, <3>1
  <2>4. CASE AgentHandles \/ Drop \/ Reconnect \/ HandleAgentDisconnect \/ Restart \/ UNCHANGED vars
    <3>1. events' \subseteq events
      BY <2>4 DEF AgentHandles, Drop, Reconnect, HandleAgentDisconnect, Restart, vars
    <3>2. QED BY <1>3, <2>0, <3>1
  <2>5. QED BY <2>1, <2>2, <2>3, <2>4 DEF Next
<1>4. QED BY <1>2, <1>3 DEF DoneInv

(***************************************************************************)
(* For any number of executions, pauses, resumptions and restarts: an      *)
(* operation is called done only after the task of one of its executions   *)
(* committed every batch.  The command of a request is sent once, so no    *)
(* later command starts that task again (handler.go:835-881, 1594-1640).   *)
(***************************************************************************)
THEOREM DoneSound == Spec => []DoneMeansExecuted
<1>1. Init => ReadyInv /\ SentOnce /\ DoneInv
  <2>1. Init => ReadyInv
    BY DEF Init, ReadyInv, ReadWhenReady
  <2>2. Init => SentOnce
    BY DEF Init, DaemonInit, SentOnce, Sent
  <2>3. Init => DoneInv
    BY FlowAssumption DEF Init, DoneInv, States
  <2>4. QED BY <2>1, <2>2, <2>3
<1>2. TypeOK /\ RequestsInv /\ [Next]_vars => RequestsInv'
  BY RequestKept DEF RequestsInv
<1>3. TypeOK /\ RequestsInv /\ ReadyInv /\ [Next]_vars => ReadyInv'
  BY PastKept DEF ReadyInv
<1>4. TypeOK /\ RequestsInv /\ ReadyInv /\ SentOnce /\ [Next]_vars => SentOnce'
  BY SentOnceNext
<1>5. TypeOK /\ ReadyInv /\ SentOnce /\ DoneInv /\ [Next]_vars => DoneInv'
  BY DoneNext
<1>6. DoneInv => DoneMeansExecuted
  BY DaemonAssumption DEF DoneInv, DoneMeansExecuted, Executed
<1>7. QED BY <1>1, <1>2, <1>3, <1>4, <1>5, <1>6, RequestsInvInit, TypeCorrect, PTL DEF Spec

-----------------------------------------------------------------------------
(* One terminal entry, and it tells how the operation ended.               *)

\* A goroutine that is about to write a terminal entry.
Writes(e) == e.pc = "audit" /\ e.st \in Terminal

Silent == (\A r \in Requests : ~At(r, "audit")) /\ \A e \in events : ~Writes(e)

\* There is an entry or one that will write it, never both and never two, and
\* both agree with the record.
AuditInv ==
  /\ \A s \in Terminal : audit[s] \in {0, 1}
  /\ \A s \in Terminal : audit[s] = 1 => status = s /\ Silent
  /\ \A r \in Requests : At(r, "audit") => status = req[r].st /\ status \in Terminal
  /\ \A e \in events : Writes(e) => status = e.st
  /\ \A r, q \in Requests : At(r, "audit") /\ At(q, "audit") => r = q
  /\ \A e, f \in events : Writes(e) /\ Writes(f) => e = f
  /\ \A r \in Requests, e \in events : ~(At(r, "audit") /\ Writes(e))

\* While the operation is open nothing is written.
LEMMA StillOpen ==
  ASSUME AuditInv, status \notin Terminal
  PROVE  Silent /\ \A s \in Terminal : audit[s] = 0
BY DEF AuditInv, Silent, Writes

\* A terminal state is never left.
LEMMA TerminalKept ==
  ASSUME Legal
  PROVE  status \notin Terminal
BY FlowAssumption DEF Legal, TransitionValid, validTransitions, States, Terminal

NewRequest(q) == At(q, "audit")' /\ ~(At(q, "audit") /\ req'[q].st = req[q].st)
NewEvent(g) == Writes(g) /\ g \notin events

LEMMA QuietStep ==
  ASSUME AuditInv, audit' = audit, Legal \/ status' = status,
         \A q \in Requests : ~NewRequest(q),
         \A g \in events' : ~NewEvent(g)
  PROVE  AuditInv'
<1>1. CASE status' = status
  BY <1>1 DEF AuditInv, Silent, NewRequest, NewEvent, At, Writes
<1>2. CASE Legal
  <2>1. Silent /\ \A s \in Terminal : audit[s] = 0
    BY <1>2, StillOpen, TerminalKept
  <2>2. Silent'
    BY <2>1 DEF Silent, NewRequest, NewEvent, At, Writes
  <2>3. QED BY <2>1, <2>2 DEF AuditInv, Silent
<1>3. QED BY <1>1, <1>2

\* The winner of the race to end the operation is the only one to write.
LEMMA RequestWins ==
  ASSUME AuditInv, audit' = audit, events' = events, status \notin Terminal, status' \in Terminal,
         NEW r \in Requests, req'[r].st = status', \A q \in Requests \ {r} : req'[q] = req[q]
  PROVE  AuditInv'
<1>1. Silent /\ \A s \in Terminal : audit[s] = 0
  BY StillOpen
<1>2. QED BY <1>1 DEF AuditInv, Silent, At

LEMMA EventWins ==
  ASSUME AuditInv, audit' = audit, req' = req, status \notin Terminal, status' \in Terminal,
         NEW f, f.st = status', \A g \in events' : g \in events \/ g = f
  PROVE  AuditInv'
<1>1. Silent /\ \A s \in Terminal : audit[s] = 0
  BY StillOpen
<1>2. QED BY <1>1 DEF AuditInv, Silent, At, Writes

\* The entry is written, and nobody is left to write another.
LEMMA EntryWritten ==
  ASSUME TypeOK, \A s \in Terminal : audit[s] = 0, status' \in Terminal, WriteAudit(status'),
         Silent'
  PROVE  AuditInv'
<1>1. audit' = [audit EXCEPT ![status'] = audit[status'] + 1]
  BY DEF WriteAudit
<1>2. \A s \in Terminal : audit'[s] = IF s = status' THEN 1 ELSE 0
  BY <1>1 DEF TypeOK, StoreOK
<1>3. QED BY <1>2 DEF AuditInv, Silent

LEMMA GotoQuiet ==
  ASSUME TypeOK, NEW r \in Requests, NEW l, Goto(r, l), l # "audit"
  PROVE  \A q \in Requests : ~NewRequest(q)
BY DEF Goto, NewRequest, At, TypeOK, RequestRecord

LEMMA AnswerQuiet ==
  ASSUME TypeOK, NEW r \in Requests, Answer(r)
  PROVE  \A q \in Requests : ~NewRequest(q)
BY DEF Answer, Over, NewRequest, At, TypeOK, RequestRecord

LEMMA DeliverQuiet ==
  ASSUME TypeOK, NEW v, Deliver(v)
  PROVE  \A q \in Requests : ~NewRequest(q)
BY DEF Deliver, NewRequest, At, TypeOK, LinkOK, RequestRecord

\* Only a move that was applied makes its request write.
LEMMA MoveKeeps ==
  ASSUME TypeOK, AuditInv, NEW r \in Requests, NEW to, NEW next \in {"audit", "recheck", "done"},
         Move(r, to, next), next = "audit" => to \in Terminal,
         audit' = audit, events' = events
  PROVE  AuditInv'
<1>1. Legal \/ status' = status
  BY TransitionLegal DEF Move
<1>2. CASE Answer(r)
  BY <1>1, <1>2, AnswerQuiet, QuietStep DEF NewEvent
<1>3. CASE /\ Applies(req[r].st, to)
           /\ req' = [req EXCEPT ![r].st = to, ![r].pc = next]
  <2>1. status' = to /\ TransitionValid(status, status')
    BY <1>3 DEF Move, TransitionTo, Applies
  <2>2. status \notin Terminal
    BY <2>1, TerminalKept DEF Legal
  <2>3. req'[r].st = to /\ req'[r].pc = next /\ \A q \in Requests \ {r} : req'[q] = req[q]
    BY <1>3 DEF TypeOK, RequestRecord
  <2>4. CASE next = "audit"
    BY <2>1, <2>2, <2>3, <2>4, RequestWins
  <2>5. CASE next # "audit"
    <3>1. \A q \in Requests : ~NewRequest(q)
      BY <2>3, <2>5 DEF NewRequest, At
    <3>2. QED BY <1>1, <3>1, QuietStep DEF NewEvent
  <2>6. QED BY <2>4, <2>5
<1>4. QED BY <1>2, <1>3 DEF Move

LEMMA RequestAudits ==
  ASSUME TypeOK, NoRescan, AuditInv, [Next]_vars, NEW r \in Requests,
         StartCreate(r) \/ Read(r) \/ RequestStep(r) \/ GiveUp(r) \/ AgentTask(r)
  PROVE  AuditInv'
<1>0. Legal \/ status' = status
  BY StepLegal
<1>a. ASSUME audit' = audit, events' = events, \A q \in Requests : ~NewRequest(q)
      PROVE  AuditInv'
  BY <1>0, <1>a, QuietStep DEF NewEvent
<1>1. CASE \/ StartCreate(r) \/ StartCheck(r) \/ SelectSave(r) \/ SelectUpdate(r) \/ SelectClear(r)
           \/ Receive(r) \/ Recheck(r)
  <2>1. Answer(r) \/ \E l : l # "audit" /\ Goto(r, l)
    BY <1>1 DEF StartCreate, StartCheck, SelectSave, SelectUpdate, SelectClear, Receive, Recheck
  <2>2. audit' = audit /\ events' = events
    BY <1>1 DEF StartCreate, StartCheck, SelectSave, SelectUpdate, SelectClear, Receive, Recheck
  <2>3. QED BY <1>a, <2>1, <2>2, GotoQuiet, AnswerQuiet
<1>2. CASE StartScanning(r)
  <2>1. CASE req' = [req EXCEPT ![r].pc = "check", ![r].st = "scanning"]
    <3>1. \A q \in Requests : ~NewRequest(q)
      BY <2>1 DEF NewRequest, At, TypeOK, RequestRecord
    <3>2. QED BY <1>a, <1>2, <3>1 DEF StartScanning
  <2>2. CASE Answer(r)
    BY <1>a, <1>2, <2>2, AnswerQuiet DEF StartScanning
  <2>3. QED BY <1>2, <2>1, <2>2 DEF StartScanning
<1>3. CASE Read(r) \/ SelectSnapshot(r) \/ Send(r) \/ GiveUp(r)
  <2>1. audit' = audit /\ events' = events
    BY <1>3 DEF Read, SelectSnapshot, Send, GiveUp
  <2>2. CASE Answer(r)
    BY <1>a, <2>1, <2>2, AnswerQuiet
  <2>3. CASE \E q : req' = [req EXCEPT ![r] = q] /\ q.pc # "audit"
    <3>1. \A q \in Requests : ~NewRequest(q)
      BY <2>3 DEF NewRequest, At, TypeOK
    <3>2. QED BY <1>a, <2>1, <3>1
  <2>4. Answer(r) \/ \E q : req' = [req EXCEPT ![r] = q] /\ q.pc # "audit"
    <3>1. CASE Read(r)
      <4>1. CASE Kind[r] = "select"
        <5>1. PICK S \in (SUBSET Txs) \ {{}} :
                req' = [req EXCEPT ![r].st = status, ![r].sel = S, ![r].pc = "snapshot"]
          BY <3>1, <4>1 DEF Read
        <5> DEFINE q == [req[r] EXCEPT !.st = status, !.sel = S, !.pc = "snapshot"]
        <5>2. req' = [req EXCEPT ![r] = q]
          BY <5>1
        <5>3. q.pc # "audit"
          BY DEF TypeOK, RequestRecord
        <5> HIDE DEF q
        <5>4. QED BY <5>2, <5>3
      <4>2. CASE Kind[r] # "select"
        <5> DEFINE q == [req[r] EXCEPT !.st = status, !.pc = "send"]
        <5>1. req' = [req EXCEPT ![r] = q]
          BY <3>1, <4>2 DEF Read
        <5>2. q.pc # "audit"
          BY DEF TypeOK, RequestRecord
        <5> HIDE DEF q
        <5>3. QED BY <5>1, <5>2
      <4>3. QED BY <4>1, <4>2
    <3>2. CASE SelectSnapshot(r)
      <4> DEFINE q == [req[r] EXCEPT !.plan = req[r].sel \cap preview.sql,
                                     !.pc = IF Mode = "selected" THEN "update" ELSE "save"]
      <4>1. Answer(r) \/ req' = [req EXCEPT ![r] = q]
        BY <3>2 DEF SelectSnapshot
      <4>2. q.pc # "audit"
        BY DEF TypeOK, RequestRecord
      <4> HIDE DEF q
      <4>3. QED BY <4>1, <4>2
    <3>3. CASE Send(r) \/ GiveUp(r)
      <4> DEFINE p == [req[r] EXCEPT !.pc = "wait", !.epoch = drops, !.plan = Load(r)]
                 q == [req[r] EXCEPT !.pc = "reply", !.resp = "closed"]
      <4>1. Answer(r) \/ req' = [req EXCEPT ![r] = p] \/ req' = [req EXCEPT ![r] = q]
        BY <3>3 DEF Send, SendNothing, SendToAgent, GiveUp
      <4>2. p.pc # "audit" /\ q.pc # "audit"
        BY DEF TypeOK, RequestRecord
      <4> HIDE DEF p, q
      <4>3. QED BY <4>1, <4>2
    <3>4. QED BY <1>3, <3>1, <3>2, <3>3
  <2>5. QED BY <2>2, <2>3, <2>4
<1>4. CASE Reply(r) \/ Rollback(r)
  <2>1. audit' = audit /\ events' = events
    BY <1>4 DEF Reply, Rollback
  <2>2. \/ Answer(r)
        \/ \E to \in {"failed", "cancelled"} : Move(r, to, "audit")
        \/ \E to \in States, next \in {"recheck", "done"} : Move(r, to, next)
    BY <1>4 DEF Reply, ReplyRejected, FailOperation, ReplyIgnored, ReplyAccepted, ReplyCancel,
                Rollback, States
  <2>3. {"failed", "cancelled"} \subseteq Terminal
    BY DEF Terminal
  <2>4. QED BY <1>a, <2>1, <2>2, <2>3, AnswerQuiet, MoveKeeps
<1>5. CASE RequestAudit(r)
  <2>1. /\ At(r, "audit") /\ status' = status /\ events' = events
        /\ WriteAudit(req[r].st) /\ Answer(r)
    BY <1>5 DEF RequestAudit, storeVars
  <2>2. status = req[r].st /\ status \in Terminal /\ \A s \in Terminal : audit[s] = 0
    BY <2>1 DEF AuditInv, Silent
  <2>3. Silent'
    <3>1. \A q \in Requests : ~At(q, "audit")'
      BY <2>1 DEF Answer, Over, At, AuditInv, TypeOK, RequestRecord
    <3>2. QED BY <2>1, <3>1 DEF AuditInv, Silent
  <2>4. QED BY <2>1, <2>2, <2>3, EntryWritten
<1>6. CASE AgentTask(r)
  <2>1. req' = req /\ audit' = audit
    BY <1>6 DEF AgentTask
  <2>2. \A k, a : Event(r, k, a).pc # "audit"
    BY DEF Event
  <2>3. \A g \in events' : g \in events \/ g.pc # "audit"
    <3>1. CASE ScanEnds(r)
      <4>1. \A S, k : \A e \in ScanEvents(r, S) \cup {Event(r, k, None)} : e.pc # "audit"
        BY <2>2 DEF ScanEvents
      <4>2. QED BY <3>1, <4>1 DEF ScanEnds, Emit
    <3>2. CASE ExecBatch(r) \/ ExecEnds(r)
      BY <2>2, <3>2 DEF ExecBatch, ExecEnds, Emit
    <3>3. CASE Unregister(r)
      BY <3>3 DEF Unregister
    <3>4. QED BY <1>6, <3>1, <3>2, <3>3 DEF AgentTask, TaskStep
  <2>4. \A q \in Requests : ~NewRequest(q)
    BY <2>1 DEF NewRequest, At
  <2>5. \A g \in events' : ~NewEvent(g)
    BY <2>3 DEF NewEvent, Writes
  <2>6. QED BY <1>0, <2>1, <2>4, <2>5, QuietStep
<1>7. QED BY <1>1, <1>2, <1>3, <1>4, <1>5, <1>6 DEF RequestStep

LEMMA EventAudits ==
  ASSUME TypeOK, NoRescan, AuditInv, [Next]_vars, NEW e \in events, EventStep(e)
  PROVE  AuditInv'
<1>0. Legal \/ status' = status
  BY StepLegal
<1>a. req' = req /\ \A q \in Requests : ~NewRequest(q)
  <2>1. req' = req
    BY DEF EventStep, StageTxMeta, StageSQL, SaveProgress, EventRead, EventFallback, EventCas,
           EventAudit, EventPersist, EventUnchanged
  <2>2. QED BY <2>1 DEF NewRequest, At
<1>b. ASSUME audit' = audit, \A g \in events' : ~NewEvent(g)
      PROVE  AuditInv'
  BY <1>0, <1>a, <1>b, QuietStep
<1>c. e \in EventRecord
  BY DEF TypeOK
<1>1. CASE StageTxMeta(e) \/ StageSQL(e) \/ SaveProgress(e) \/ EventPersist(e)
  <2>1. audit' = audit /\ events' \subseteq events
    BY <1>1 DEF StageTxMeta, StageSQL, SaveProgress, EventPersist, Consume
  <2>2. QED BY <1>b, <2>1 DEF NewEvent
<1>2. CASE EventRead(e)
  <2> DEFINE S == IF Persists(e) THEN selected ELSE {}
             p == IF HasFallback(e) THEN "fallback"
                  ELSE IF e.kind = "op_paused" /\ status = "paused" THEN "audit" ELSE "cas"
             f == [e EXCEPT !.st = status, !.sel = S, !.pc = p]
  <2>1. events' = (events \ {e}) \cup {f} /\ audit' = audit
    BY <1>2 DEF EventRead, Continue
  <2>2. p = "audit" => status = "paused"
    OBVIOUS
  <2> HIDE DEF S, p
  <2>3. f.st = status /\ f.pc = p
    BY <1>c DEF EventRecord
  <2> HIDE DEF f
  <2>4. ~Writes(f)
    BY <2>2, <2>3 DEF Writes, Terminal
  <2>5. QED BY <1>b, <2>1, <2>4 DEF NewEvent
<1>3. CASE EventFallback(e)
  <2> DEFINE mid == IF e.kind = "scan_done" THEN "scanning" ELSE "executing"
             f == [e EXCEPT !.st = mid, !.pc = "cas"]
  <2>1. events' = (events \ {e}) \cup {f} /\ audit' = audit
    BY <1>3 DEF EventFallback, Continue
  <2>2. f.pc = "cas"
    BY <1>c DEF EventRecord
  <2> HIDE DEF f
  <2>3. QED BY <1>b, <2>1, <2>2 DEF NewEvent, Writes
<1>4. CASE EventCas(e)
  <2> DEFINE f == [e EXCEPT !.st = Target(e), !.pc = "audit"]
  <2>1. audit' = audit
    BY <1>4 DEF EventCas
  <2>2. CASE Applies(e.st, Target(e))
    <3>1. events' = (events \ {e}) \cup {f}
      BY <1>4, <2>2 DEF EventCas, Continue
    <3>2. status' = Target(e) /\ TransitionValid(status, status')
      BY <1>4, <2>2 DEF EventCas, TransitionTo, Applies
    <3>3. status \notin Terminal
      BY <3>2, TerminalKept DEF Legal
    <3>4. f.st = Target(e)
      BY <1>c DEF EventRecord
    <3> HIDE DEF f
    <3>5. CASE status' \in Terminal
      BY <1>a, <2>1, <3>1, <3>2, <3>3, <3>4, <3>5, EventWins
    <3>6. CASE status' \notin Terminal
      BY <1>b, <2>1, <3>1, <3>2, <3>4, <3>6 DEF NewEvent, Writes
    <3>7. QED BY <3>5, <3>6
  <2>3. CASE ~Applies(e.st, Target(e))
    <3>1. events' = events \ {e}
      BY <1>4, <2>3 DEF EventCas, Consume
    <3>2. QED BY <1>b, <2>1, <3>1 DEF NewEvent
  <2>4. QED BY <2>2, <2>3
<1>5. CASE EventAudit(e)
  <2> DEFINE f == [e EXCEPT !.pc = "persist"]
  <2>1. events' = (events \ {e}) \cup {f} \/ events' = events \ {e}
    BY <1>5 DEF EventAudit, Continue, Consume
  <2>2. f.pc = "persist"
    BY <1>c DEF EventRecord
  <2> HIDE DEF f
  <2>3. e.pc = "audit" /\ WriteAudit(e.st) /\ status' = status
    BY <1>5 DEF EventAudit, storeVars
  <2>4. CASE Writes(e)
    <3>1. status = e.st /\ status \in Terminal /\ \A s \in Terminal : audit[s] = 0
      BY <2>4 DEF AuditInv, Silent, Writes
    <3>2. Silent'
      BY <1>a, <2>1, <2>2, <2>4 DEF AuditInv, Silent, At, Writes
    <3>3. QED BY <2>3, <3>1, <3>2, EntryWritten
  <2>5. CASE ~Writes(e)
    <3>1. audit' = audit
      BY <2>3, <2>5 DEF WriteAudit, Writes
    <3>2. QED BY <1>b, <2>1, <2>2, <3>1 DEF NewEvent, Writes
  <2>6. QED BY <2>4, <2>5
<1>6. QED BY <1>1, <1>2, <1>3, <1>4, <1>5 DEF EventStep

LEMMA AuditNext ==
  ASSUME TypeOK, NoRescan, AuditInv, [Next]_vars
  PROVE  AuditInv'
<1>0. Legal \/ status' = status
  BY StepLegal
<1>1. CASE UNCHANGED vars
  BY <1>0, <1>1, QuietStep DEF vars, NewRequest, NewEvent, At
<1>2. CASE AgentHandles \/ Drop
  <2>1. audit' = audit /\ events' \subseteq events
    BY <1>2 DEF AgentHandles, Drop
  <2>2. \A q \in Requests : ~NewRequest(q)
    BY <1>2, DeliverQuiet DEF AgentHandles, Drop
  <2>3. QED BY <1>0, <2>1, <2>2, QuietStep DEF NewEvent
<1>3. CASE Reconnect
  BY <1>0, <1>3, QuietStep DEF Reconnect, NewRequest, NewEvent, At
<1>4. CASE HandleAgentDisconnect
  <2>1. CASE status = hook
    <3>1. TransitionTo(status, "blocked") /\ WriteAudit("blocked") /\ req' = req /\ events' = events
      BY <1>4, <2>1 DEF HandleAgentDisconnect, Block
    <3>2. status \in {"scanning", "executing"}
      BY <1>4, <2>1 DEF HandleAgentDisconnect, TypeOK, LinkOK
    <3>3. status' = "blocked"
      BY <3>1, <3>2 DEF TransitionTo, Applies, TransitionValid, validTransitions, States
    <3>4. Silent /\ \A s \in Terminal : audit[s] = 0
      BY <3>2, StillOpen DEF Terminal
    <3>5. Silent'
      BY <3>1, <3>4 DEF Silent, At
    <3>6. QED BY <3>1, <3>3, <3>4, <3>5, EntryWritten DEF Terminal
  <2>2. CASE status # hook
    BY <1>0, <1>4, <2>2, QuietStep DEF HandleAgentDisconnect, Block, NewRequest, NewEvent, At
  <2>3. QED BY <2>1, <2>2
<1>5. CASE Restart
  <2>1. events' = {} /\ \A q \in Requests : ~At(q, "audit")'
    BY <1>5 DEF Restart, Over, At
  <2>2. CASE status \in {"scanning", "executing"}
    <3>1. TransitionTo(status, "blocked") /\ WriteAudit("blocked")
      BY <1>5, <2>2 DEF Restart
    <3>2. status' = "blocked"
      BY <2>2, <3>1 DEF TransitionTo, Applies, TransitionValid, validTransitions, States
    <3>3. \A s \in Terminal : audit[s] = 0
      BY <2>2, StillOpen DEF Terminal
    <3>4. QED BY <2>1, <3>1, <3>2, <3>3, EntryWritten DEF Silent, Terminal
  <2>3. CASE status \notin {"scanning", "executing"}
    <3>1. audit' = audit
      BY <1>5, <2>3 DEF Restart
    <3>2. QED BY <1>0, <2>1, <3>1, QuietStep DEF NewRequest
  <2>4. QED BY <2>2, <2>3
<1>6. QED BY <1>1, <1>2, <1>3, <1>4, <1>5, RequestAudits, EventAudits DEF Next

(***************************************************************************)
(* Unless the rescan of "selected" mode is used: for any number of racing  *)
(* requests, events, lost connections and restarts, an operation gets at   *)
(* most one terminal audit entry, and that entry names the state the       *)
(* operation ended in.  Whoever wins transitionTo writes, and nobody else  *)
(* (handler.go:384-412).                                                   *)
(***************************************************************************)
THEOREM AuditSound ==
  ASSUME Mode # "selected"
  PROVE  Spec => []TerminalAuditAgrees
<1>1. Init => AuditInv
  BY DEF Init, AuditInv, Silent, At
<1>2. TypeOK /\ RequestsInv /\ [Next]_vars => RequestsInv'
  BY RequestKept DEF RequestsInv
<1>3. RequestsInv => NoRescan
  BY DEF RequestsInv, RequestInv, NoRescan, At
<1>4. TypeOK /\ RequestsInv /\ AuditInv /\ [Next]_vars => AuditInv'
  BY <1>3, AuditNext
<1>5. AuditInv => TerminalAuditAgrees
  BY DEF AuditInv, TerminalAuditAgrees
<1>6. QED BY <1>1, <1>2, <1>4, <1>5, RequestsInvInit, TypeCorrect, PTL DEF Spec
=============================================================================

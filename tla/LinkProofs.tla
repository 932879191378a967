----------------------------- MODULE LinkProofs -----------------------------
(***************************************************************************)
(* Theorems about AgentLink, for any numbers of connections, calls, failed *)
(* dials and faults.                                                       *)
(***************************************************************************)
EXTENDS AgentLink, TLAPS

USE WireAssumption, HubAssumption, ClientAssumption, LinkAssumption

-----------------------------------------------------------------------------
(* The inductive invariant.                                                *)

\* What the client's manager relies on where it is.
Manager ==
  /\ mgr \in {"set", "read", "answer", "locked", "swap"} => mconn \in Conns
  /\ mgr \in {"answer", "locked"} => job \in Calls
  /\ mgr \in {"backoff", "dial"} \/ ~CtxDone => attempt <= MaxAttempts

\* The server has closed the connections that it is through with, and no other
\* ones unless it is shut down.
Closes ==
  \A c \in Conns :
    /\ srv[c] \in {"drain", "ended"} => wire[c] = "closed"
    /\ wire[c] = "closed" => srv[c] \in {"drain", "ended"} \/ shut

\* A caller that is under way holds a connection that was in the table, and from
\* where it registers on it is in the connection's list or has its channel
\* served.
Registered ==
  \A k \in Calls :
    /\ call[k].pc \in {"loaded", "write", "forget", "wait"} =>
         call[k].conn \in Conns /\ srv[call[k].conn] \notin {"none", "accept"}
    /\ call[k].pc \in {"write", "forget", "wait"} =>
         k \in pending[call[k].conn] \/ call[k].ch # "empty"

Parts ==
  /\ WireOK /\ HubOK
  /\ ClientOK /\ Manager
  /\ EntryHasPump /\ PumpHasEntry
  /\ Closes /\ Registered /\ WaitersAreWoken

IInv ==
  TypeOK /\ Manager /\ EntryHasPump /\ PumpHasEntry /\ Closes /\ Registered /\ WaitersAreWoken

-----------------------------------------------------------------------------
(* The steps, by whose they are.                                           *)

HubAction(c) ==
  \/ Register(c) \/ SetDeadlineFails(c) \/ OnConnect(c) \/ PumpReads(c)
  \/ PumpFails(c, Silent(c)) \/ PumpCloses(c) \/ Drain(c) \/ Revoked(c)

CallAction(k) ==
  \/ Load(k) \/ RegisterPending(k) \/ WriteCommand(k) \/ WriteFails(k)
  \/ Forget(k) \/ Answered(k) \/ Expired(k)

ClientAction ==
  \/ Loop \/ Wait \/ BackoffPanics \/ SetConn \/ GetConn \/ PumpTakes
  \/ LockToAnswer \/ WriteAnswer \/ ReadFails \/ CompareAndSwapConn \/ ManagerExits
  \/ CloseLocks \/ CloseConn \/ DialFails \/ Exit \/ CancelCtx

DialAction(c) == Opened(c) /\ (Connected(c) \/ Dialled(c))

LEMMA StepCases ==
  ASSUME Next
  PROVE  \/ \E c \in Conns : DialAction(c)
         \/ ClientAction /\ UNCHANGED hubVars
         \/ \E c \in Conns : HubAction(c) /\ UNCHANGED clientVars
         \/ \E k \in Calls : CallAction(k) /\ UNCHANGED clientVars
         \/ Close /\ UNCHANGED clientVars
         \/ \E c \in Conns : Cut(c)
BY Zenon DEF Next, Connect, Reconnect, ManagerStep, CloseStep, HubStep, CallStep, DialAction,
     ClientAction, HubAction, CallAction

LEMMA FaultsStep ==
  ASSUME TypeOK, Next
  PROVE  faults' \in 0 .. MaxFaults
BY DEF TypeOK, Next, Connect, Reconnect, Opened, ManagerStep, CloseStep, HubStep, CallStep,
     Fault

-----------------------------------------------------------------------------
(* What a caller's first step and its return do.                           *)

LEMMA LoadEffect ==
  ASSUME HubOK, NEW k \in Calls, Load(k)
  PROVE  /\ call' \in [Calls -> CallRecord]
         /\ \A j \in Calls \ {k} : call'[j] = call[j]
         /\ \/ call'[k].pc = "returned"
            \/ table # None /\ call'[k].pc = "loaded" /\ call'[k].conn = table
<1>1. call[k] \in CallRecord
  BY DEF HubOK
<1>2. CASE table = None
  <2> DEFINE r == [call[k] EXCEPT !.pc = "returned", !.out = "not connected"]
  <2>1. r \in CallRecord /\ r.pc = "returned"
    BY <1>1 DEF CallRecord
  <2>2. call' = [call EXCEPT ![k] = r]
    BY <1>2 DEF Load, Goes
  <2> HIDE DEF r
  <2>3. QED BY <2>1, <2>2 DEF HubOK
<1>3. CASE table # None
  <2> DEFINE r == [call[k] EXCEPT !.pc = "loaded", !.conn = table]
  <2>1. r \in CallRecord /\ r.pc = "loaded" /\ r.conn = table
    BY <1>1 DEF CallRecord, HubOK
  <2>2. call' = [call EXCEPT ![k] = r]
    BY <1>3 DEF Load, Goes
  <2> HIDE DEF r
  <2>3. QED BY <1>3, <2>1, <2>2 DEF HubOK
<1>4. QED BY <1>2, <1>3

LEMMA ReturnsEffect ==
  ASSUME HubOK, NEW k \in Calls, call[k].conn \in Conns,
         NEW out \in {"write failed", "answer", "disconnected", "hub closed", "timeout"},
         Returns(k, out)
  PROVE  /\ call' \in [Calls -> CallRecord]
         /\ \A j \in Calls \ {k} : call'[j] = call[j]
         /\ call'[k].pc = "returned"
         /\ pending' \in [Conns -> SUBSET Calls]
         /\ \A c \in Conns : \A j \in Calls \ {k} : j \in pending[c] => j \in pending'[c]
BY DEF Returns, Goes, HubOK, CallRecord

-----------------------------------------------------------------------------
(* One lemma for each part of the invariant and each actor.                *)

LEMMA WireHub ==
  ASSUME IInv, NEW c \in Conns, HubAction(c)
  PROVE  WireOK'
<1> USE DEF IInv
<1>1. CASE Register(c)
  BY <1>1 DEF Register, ServerCloses, WireOK, TypeOK, wireVars
<1>2. CASE PumpReads(c)
  BY <1>2 DEF PumpReads, Take, WireOK, TypeOK
<1>3. CASE PumpCloses(c)
  BY <1>3 DEF PumpCloses, ServerCloses, WireOK, TypeOK
<1>4. CASE Revoked(c)
  BY <1>4 DEF Revoked, ServerCloses, WireOK, TypeOK
<1>5. CASE UNCHANGED <<wire, toAgent, toServer>>
  BY <1>5 DEF WireOK, TypeOK
<1>6. QED BY <1>1, <1>2, <1>3, <1>4, <1>5 DEF HubAction, SetDeadlineFails, OnConnect, PumpFails,
               Drain, wireVars

LEMMA WireCall ==
  ASSUME IInv, NEW k \in Calls, CallAction(k)
  PROVE  WireOK'
<1> USE DEF IInv
<1>1. CASE WriteCommand(k)
  BY <1>1, SMTT(30) DEF WriteCommand, Goes, Written, WireOK, TypeOK, wireVars, HubOK, Registered
<1>2. CASE UNCHANGED <<wire, toAgent, toServer>>
  BY <1>2 DEF WireOK, TypeOK
<1>3. QED BY <1>1, <1>2 DEF CallAction, Load, RegisterPending, WriteFails, Forget, Answered,
               Expired, hubVars, wireVars

LEMMA WireClient ==
  ASSUME IInv, ClientAction, UNCHANGED hubVars
  PROVE  WireOK'
<1> USE DEF IInv
<1>1. CASE PumpTakes
  BY <1>1 DEF PumpTakes, Take, WireOK, TypeOK, Manager
<1>2. CASE WriteAnswer
  <2>1. job \in Calls
    BY <1>2 DEF WriteAnswer, Manager
  <2>2. \A c \in Conns : Append(toServer[c], job) \in Seq(Calls)
    BY <2>1 DEF TypeOK, WireOK
  <2>3. toServer' = toServer \/ \E c \in Conns : toServer' = [toServer EXCEPT ![c] = Append(toServer[c], job)]
    BY <1>2 DEF WriteAnswer, Written, TypeOK, ClientOK
  <2>4. toServer' \in [Conns -> Seq(Calls)]
    BY <2>2, <2>3 DEF TypeOK, WireOK
  <2>5. QED BY <1>2, <2>4 DEF WriteAnswer, WireOK, TypeOK
<1>3. CASE ReadFails
  BY <1>3 DEF ReadFails, AgentCloses, WireOK, TypeOK
<1>4. CASE ManagerExits
  BY <1>4 DEF ManagerExits, AgentCloses, WireOK, TypeOK
<1>5. CASE CloseConn
  BY <1>5 DEF CloseConn, AgentCloses, WireOK, TypeOK
<1>6. CASE Exit
  BY <1>6 DEF Exit, WireOK, TypeOK
<1>7. CASE UNCHANGED <<wire, toAgent, toServer>>
  BY <1>7 DEF WireOK, TypeOK
<1>8. QED BY <1>1, <1>2, <1>3, <1>4, <1>5, <1>6, <1>7 DEF ClientAction, Loop, Wait,
               BackoffPanics, SetConn, GetConn, LockToAnswer, CompareAndSwapConn, CloseLocks,
               DialFails, CancelCtx, wireVars

LEMMA HubHub ==
  ASSUME IInv, NEW c \in Conns, HubAction(c)
  PROVE  HubOK'
<1> USE DEF IInv
<1>1. CASE Register(c)
  BY <1>1 DEF Register, ServerCloses, Ended, HubOK, TypeOK, Handling, WireOK
<1>2. CASE SetDeadlineFails(c)
  BY <1>2 DEF SetDeadlineFails, Ended, HubOK, TypeOK, Handling, WireOK
<1>3. CASE OnConnect(c)
  BY <1>3 DEF OnConnect, HubOK, TypeOK, Handling, WireOK
<1>4. CASE PumpReads(c)
  BY <1>4, ZenonT(60) DEF PumpReads, Take, HubOK, TypeOK, Handling, WireOK, CallRecord, wireVars
<1>5. CASE PumpFails(c, Silent(c))
  BY <1>5 DEF PumpFails, HubOK, TypeOK, Handling, WireOK
<1>6. CASE PumpCloses(c)
  BY <1>6 DEF PumpCloses, ServerCloses, HubOK, TypeOK, Handling, WireOK
<1>7. CASE Drain(c)
  BY <1>7, ZenonT(60) DEF Drain, Ended, HubOK, TypeOK, Handling, WireOK, CallRecord, wireVars
<1>8. CASE Revoked(c)
  BY <1>8 DEF Revoked, ServerCloses, Ended, HubOK, TypeOK, Handling, WireOK
<1>9. QED BY <1>1, <1>2, <1>3, <1>4, <1>5, <1>6, <1>7, <1>8 DEF HubAction

LEMMA HubCall ==
  ASSUME IInv, NEW k \in Calls, CallAction(k)
  PROVE  HubOK'
<1> USE DEF IInv
<1>1. CASE Load(k)
  BY <1>1, LoadEffect DEF Load, HubOK, TypeOK
<1>2. CASE RegisterPending(k)
  BY <1>2, ZenonT(60) DEF RegisterPending, Goes, HubOK, TypeOK, Handling, CallRecord, Registered
<1>3. CASE WriteCommand(k)
  BY <1>3, ZenonT(60) DEF WriteCommand, Goes, Written, HubOK, TypeOK, Handling, CallRecord, Registered
<1>4. CASE WriteFails(k)
  BY <1>4, ZenonT(60) DEF WriteFails, Goes, HubOK, TypeOK, Handling, CallRecord, Registered
<1>5. CASE Forget(k)
  BY <1>5 DEF Forget, Returns, Goes, HubOK, TypeOK, Handling, CallRecord, Registered
<1>6. CASE Answered(k)
  <2>1. PICK out \in {"answer", "disconnected", "hub closed"} : Returns(k, out)
    BY <1>6 DEF Answered
  <2>2. call[k].conn \in Conns
    BY <1>6 DEF Answered, Registered
  <2>3. QED BY <1>6, <2>1, <2>2, ReturnsEffect DEF Answered, TypeOK, HubOK
<1>7. CASE Expired(k)
  BY <1>7 DEF Expired, Returns, Goes, HubOK, TypeOK, Handling, CallRecord, Registered
<1>8. QED BY <1>1, <1>2, <1>3, <1>4, <1>5, <1>6, <1>7 DEF CallAction

LEMMA ClientClient ==
  ASSUME IInv, ClientAction, UNCHANGED hubVars
  PROVE  (ClientOK /\ Manager)'
<1> USE DEF IInv
<1>1. CASE Loop
  BY <1>1 DEF Loop, CtxDone, ClientOK, Manager, TypeOK
<1>2. CASE Wait
  BY <1>2 DEF Wait, ClientOK, Manager, TypeOK
<1>3. CASE BackoffPanics
  BY <1>3 DEF BackoffPanics, ClientOK, Manager, TypeOK
<1>4. CASE SetConn
  BY <1>4 DEF SetConn, ClientOK, Manager, TypeOK
<1>5. CASE GetConn
  BY <1>5 DEF GetConn, ClientOK, Manager, TypeOK, CtxDone
<1>6. CASE PumpTakes
  BY <1>6 DEF PumpTakes, ClientOK, Manager, TypeOK, WireOK, CtxDone
<1>7. CASE LockToAnswer
  BY <1>7 DEF LockToAnswer, ClientOK, Manager, TypeOK, CtxDone
<1>8. CASE WriteAnswer
  BY <1>8 DEF WriteAnswer, ClientOK, Manager, TypeOK, CtxDone
<1>9. CASE ReadFails
  BY <1>9 DEF ReadFails, CtxDone, ClientOK, Manager, TypeOK
<1>10. CASE CompareAndSwapConn
  BY <1>10 DEF CompareAndSwapConn, ClientOK, Manager, TypeOK, CtxDone
<1>11. CASE ManagerExits
  BY <1>11 DEF ManagerExits, ClientOK, Manager, TypeOK, CtxDone
<1>12. CASE CloseLocks
  BY <1>12 DEF CloseLocks, CtxDone, ClientOK, Manager, TypeOK
<1>13. CASE CloseConn
  BY <1>13 DEF CloseConn, CtxDone, ClientOK, Manager, TypeOK
<1>14. CASE DialFails
  BY <1>14 DEF DialFails, CtxDone, ClientOK, Manager, TypeOK
<1>15. CASE Exit
  BY <1>15 DEF Exit, ClientOK, Manager
<1>16. CASE CancelCtx
  BY <1>16 DEF CancelCtx, CtxDone, ClientOK, Manager, TypeOK
<1>17. QED BY <1>1, <1>2, <1>3, <1>4, <1>5, <1>6, <1>7, <1>8, <1>9, <1>10, <1>11, <1>12,
   <1>13, <1>14, <1>15, <1>16 DEF ClientAction

LEMMA TableHub ==
  ASSUME IInv, NEW c \in Conns, HubAction(c)
  PROVE  (EntryHasPump /\ PumpHasEntry)'
<1> USE DEF IInv
<1>1. CASE Register(c)
  BY <1>1 DEF Register, Ended, EntryHasPump, PumpHasEntry, TypeOK, HubOK
<1>2. CASE SetDeadlineFails(c)
  BY <1>2 DEF SetDeadlineFails, Ended, EntryHasPump, PumpHasEntry, TypeOK, HubOK
<1>3. CASE OnConnect(c)
  BY <1>3 DEF OnConnect, EntryHasPump, PumpHasEntry
<1>4. CASE PumpFails(c, Silent(c))
  BY <1>4 DEF PumpFails, EntryHasPump, PumpHasEntry, TypeOK, HubOK
<1>5. CASE PumpCloses(c)
  BY <1>5 DEF PumpCloses, EntryHasPump, PumpHasEntry
<1>6. CASE Drain(c)
  BY <1>6 DEF Drain, Ended, EntryHasPump, PumpHasEntry
<1>7. CASE Revoked(c)
  BY <1>7 DEF Revoked, Ended, EntryHasPump, PumpHasEntry
<1>8. CASE UNCHANGED <<table, srv, forgotten>>
  BY <1>8 DEF EntryHasPump, PumpHasEntry
<1>9. QED BY <1>1, <1>2, <1>3, <1>4, <1>5, <1>6, <1>7, <1>8 DEF HubAction, PumpReads

LEMMA TableCall ==
  ASSUME IInv, NEW k \in Calls, CallAction(k)
  PROVE  (EntryHasPump /\ PumpHasEntry)'
<1> USE DEF IInv
<1>1. CASE Forget(k)
  BY <1>1 DEF Forget, Returns, Goes, EntryHasPump, PumpHasEntry, TypeOK, HubOK, WireOK, Handling
<1>2. CASE UNCHANGED <<table, srv, forgotten>>
  BY <1>2 DEF EntryHasPump, PumpHasEntry
<1>3. QED BY <1>1, <1>2 DEF CallAction, Load, RegisterPending, WriteCommand, WriteFails,
               Answered, Expired, hubVars, wireVars

LEMMA ClosesHub ==
  ASSUME IInv, NEW c \in Conns, HubAction(c)
  PROVE  Closes'
<1> USE DEF IInv
<1>1. CASE Register(c)
  BY <1>1 DEF Register, ServerCloses, Ended, Closes, TypeOK, HubOK, WireOK, wireVars
<1>2. CASE SetDeadlineFails(c)
  BY <1>2 DEF SetDeadlineFails, Ended, Closes, wireVars
<1>3. CASE OnConnect(c)
  BY <1>3 DEF OnConnect, Closes, wireVars
<1>4. CASE PumpReads(c)
  BY <1>4 DEF PumpReads, Closes
<1>5. CASE PumpFails(c, Silent(c))
  BY <1>5 DEF PumpFails, Closes, wireVars
<1>6. CASE PumpCloses(c)
  BY <1>6 DEF PumpCloses, ServerCloses, Closes, TypeOK, HubOK, WireOK
<1>7. CASE Drain(c)
  BY <1>7 DEF Drain, Ended, Closes, wireVars
<1>8. CASE Revoked(c)
  BY <1>8 DEF Revoked, ServerCloses, Ended, Closes, TypeOK, HubOK, WireOK
<1>9. QED BY <1>1, <1>2, <1>3, <1>4, <1>5, <1>6, <1>7, <1>8 DEF HubAction

LEMMA ClosesClient ==
  ASSUME IInv, ClientAction, UNCHANGED hubVars
  PROVE  Closes'
<1> USE DEF IInv
<1>1. CASE ReadFails
  BY <1>1 DEF ReadFails, AgentCloses, Closes, hubVars
<1>2. CASE ManagerExits
  BY <1>2 DEF ManagerExits, AgentCloses, Closes, TypeOK, WireOK, hubVars
<1>3. CASE CloseConn
  BY <1>3 DEF CloseConn, AgentCloses, Closes, TypeOK, WireOK, hubVars
<1>4. CASE Exit
  BY <1>4 DEF Exit, Closes, hubVars
<1>5. CASE UNCHANGED <<wire, srv, shut>>
  BY <1>5 DEF Closes
<1>6. QED BY <1>1, <1>2, <1>3, <1>4, <1>5 DEF ClientAction, Loop, Wait, BackoffPanics, SetConn,
               GetConn, PumpTakes, LockToAnswer, WriteAnswer, CompareAndSwapConn, CloseLocks,
               DialFails, CancelCtx, hubVars, wireVars

LEMMA RegisteredHub ==
  ASSUME IInv, NEW c \in Conns, HubAction(c)
  PROVE  Registered'
<1> USE DEF IInv
<1>1. CASE Register(c)
  BY <1>1 DEF Register, ServerCloses, Ended, Registered, TypeOK, HubOK, WireOK, Handling
<1>2. CASE SetDeadlineFails(c)
  BY <1>2 DEF SetDeadlineFails, Ended, Registered
<1>3. CASE OnConnect(c)
  BY <1>3 DEF OnConnect, Registered
<1>4. CASE PumpReads(c)
  BY <1>4 DEF PumpReads, Take, Registered
<1>5. CASE PumpFails(c, Silent(c))
  BY <1>5 DEF PumpFails, Registered
<1>6. CASE PumpCloses(c)
  BY <1>6 DEF PumpCloses, ServerCloses, Registered
<1>7. CASE Drain(c)
  BY <1>7 DEF Drain, Ended, Registered
<1>8. CASE Revoked(c)
  BY <1>8 DEF Revoked, ServerCloses, Ended, Registered
<1>9. QED BY <1>1, <1>2, <1>3, <1>4, <1>5, <1>6, <1>7, <1>8 DEF HubAction

LEMMA RegisteredCall ==
  ASSUME IInv, NEW k \in Calls, CallAction(k)
  PROVE  Registered'
<1> USE DEF IInv
<1>1. CASE Load(k)
  <2>1. table # None => table \in Conns /\ srv[table] \notin {"none", "accept"}
    BY DEF TypeOK, HubOK, EntryHasPump
  <2>2. /\ srv' = srv /\ pending' = pending
        /\ \A j \in Calls \ {k} : call'[j] = call[j]
        /\ \/ call'[k].pc = "returned"
           \/ table # None /\ call'[k].pc = "loaded" /\ call'[k].conn = table
    BY <1>1, LoadEffect DEF Load, TypeOK
  <2>3. QED BY <2>1, <2>2 DEF Registered
<1>2. CASE RegisterPending(k)
  BY <1>2 DEF RegisterPending, Goes, Registered, TypeOK, HubOK, WireOK, Handling
<1>3. CASE WriteCommand(k)
  BY <1>3 DEF WriteCommand, Goes, Written, Registered
<1>4. CASE WriteFails(k)
  BY <1>4 DEF WriteFails, Goes, Registered
<1>5. CASE Forget(k)
  BY <1>5 DEF Forget, Returns, Goes, Registered, TypeOK, HubOK, WireOK, Handling, CallRecord,
       EntryHasPump
<1>6. CASE Answered(k)
  <2>1. PICK out \in {"answer", "disconnected", "hub closed"} : Returns(k, out)
    BY <1>6 DEF Answered
  <2>2. call[k].conn \in Conns
    BY <1>6 DEF Answered, Registered
  <2>3. QED BY <1>6, <2>1, <2>2, ReturnsEffect, ZenonT(60) DEF Answered, Registered, TypeOK
<1>7. CASE Expired(k)
  BY <1>7 DEF Expired, Returns, Goes, Registered, TypeOK, HubOK, WireOK, Handling
<1>8. QED BY <1>1, <1>2, <1>3, <1>4, <1>5, <1>6, <1>7 DEF CallAction

LEMMA WaitersHub ==
  ASSUME IInv, NEW c \in Conns, HubAction(c)
  PROVE  WaitersAreWoken'
<1> USE DEF IInv
<1>1. CASE Register(c)
  <2>1. /\ call' = call /\ shut' = shut
        /\ \A d \in Conns \ {c} : srv'[d] = srv[d]
    BY <1>1 DEF Register, Ended, TypeOK, HubOK
  <2>2. \A k \in Calls : call[k].pc = "wait" => call[k].conn \in Conns \ {c}
    BY <1>1 DEF Register, Registered
  <2>3. QED BY <2>1, <2>2 DEF WaitersAreWoken
<1>2. CASE SetDeadlineFails(c)
  BY <1>2 DEF SetDeadlineFails, Ended, WaitersAreWoken, Registered, Closes
<1>3. CASE OnConnect(c)
  BY <1>3 DEF OnConnect, WaitersAreWoken, Registered, Closes
<1>4. CASE PumpReads(c)
  <2>1. /\ srv' = srv /\ shut' = shut
        /\ \A k \in Calls : /\ call'[k].pc = call[k].pc /\ call'[k].conn = call[k].conn
                            /\ call[k].ch # "empty" => call'[k].ch # "empty"
    BY <1>4 DEF PumpReads
  <2>2. QED BY <2>1 DEF WaitersAreWoken
<1>5. CASE PumpFails(c, Silent(c))
  BY <1>5 DEF PumpFails, WaitersAreWoken, Registered, Closes
<1>6. CASE PumpCloses(c)
  BY <1>6 DEF PumpCloses, ServerCloses, WaitersAreWoken, Registered, Closes
<1>7. CASE Drain(c)
  <2>1. /\ shut' = shut
        /\ \A d \in Conns \ {c} : srv'[d] = srv[d]
    BY <1>7 DEF Drain, Ended
  <2>2. \A k \in Calls :
          /\ call'[k].pc = call[k].pc /\ call'[k].conn = call[k].conn
          /\ call[k].ch # "empty" \/ k \in pending[c] => call'[k].ch # "empty"
    BY <1>7 DEF Drain
  <2>3. ASSUME NEW k \in Calls, call'[k].pc = "wait", srv'[call'[k].conn] \in {"none", "ended"}
        PROVE  call'[k].ch # "empty" \/ shut'
    <3>1. CASE call[k].conn = c
      BY <2>2, <2>3, <3>1 DEF Registered
    <3>2. CASE call[k].conn # c
      BY <2>1, <2>2, <2>3, <3>2 DEF Registered, WaitersAreWoken
    <3>3. QED BY <3>1, <3>2
  <2>4. QED BY <2>3 DEF WaitersAreWoken
<1>8. CASE Revoked(c)
  BY <1>8 DEF Revoked, ServerCloses, Ended, WaitersAreWoken, Registered, Closes
<1>9. QED BY <1>1, <1>2, <1>3, <1>4, <1>5, <1>6, <1>7, <1>8 DEF HubAction

LEMMA WaitersCall ==
  ASSUME IInv, NEW k \in Calls, CallAction(k)
  PROVE  WaitersAreWoken'
<1> USE DEF IInv
<1>1. CASE Load(k)
  BY <1>1, LoadEffect DEF Load, WaitersAreWoken, TypeOK
<1>2. CASE RegisterPending(k)
  BY <1>2 DEF RegisterPending, Goes, WaitersAreWoken, Registered, Closes
<1>3. CASE WriteCommand(k)
  BY <1>3 DEF WriteCommand, Goes, Written, WaitersAreWoken, Registered, Closes
<1>4. CASE WriteFails(k)
  BY <1>4 DEF WriteFails, Goes, WaitersAreWoken, Registered, Closes
<1>5. CASE Forget(k)
  BY <1>5 DEF Forget, Returns, Goes, WaitersAreWoken, Registered, Closes, TypeOK, HubOK, WireOK,
       CallRecord
<1>6. CASE Answered(k)
  <2>1. PICK out \in {"answer", "disconnected", "hub closed"} : Returns(k, out)
    BY <1>6 DEF Answered
  <2>2. call[k].conn \in Conns
    BY <1>6 DEF Answered, Registered
  <2>3. QED BY <1>6, <2>1, <2>2, ReturnsEffect DEF Answered, WaitersAreWoken, TypeOK
<1>7. CASE Expired(k)
  BY <1>7 DEF Expired, Returns, Goes, WaitersAreWoken, Registered, Closes
<1>8. QED BY <1>1, <1>2, <1>3, <1>4, <1>5, <1>6, <1>7 DEF CallAction

\* A dial takes a slot that nobody refers to.
LEMMA DialKeeps ==
  ASSUME IInv, NEW c \in Conns, DialAction(c)
  PROVE  Parts'
<1> USE DEF IInv, DialAction, Opened
<1>1. WireOK'
  BY DEF WireOK, TypeOK
<1>2. HubOK'
  BY DEF HubOK, TypeOK, Handling
<1>3. (ClientOK /\ Manager)'
  BY DEF ClientOK, Manager, TypeOK, CtxDone, Connected, Dialled
<1>4. (EntryHasPump /\ PumpHasEntry)'
  BY DEF Free, EntryHasPump, PumpHasEntry
<1>5. Closes'
  BY DEF Closes, TypeOK, HubOK, WireOK
<1>6. Registered'
  BY DEF Free, Registered
<1>7. WaitersAreWoken'
  BY DEF Free, Registered, WaitersAreWoken
<1>8. QED BY <1>1, <1>2, <1>3, <1>4, <1>5, <1>6, <1>7 DEF Parts

\* What the client does leaves the hub alone, ...
LEMMA ClientKeeps ==
  ASSUME IInv, ClientAction, UNCHANGED hubVars
  PROVE  Parts'
<1>1. HubOK' /\ (EntryHasPump /\ PumpHasEntry)'
  BY DEF IInv, TypeOK, HubOK, EntryHasPump, PumpHasEntry, hubVars
<1>2. Registered' /\ WaitersAreWoken'
  BY DEF IInv, Registered, WaitersAreWoken, hubVars
<1>3. QED BY <1>1, <1>2, WireClient, ClientClient, ClosesClient DEF Parts

\* ... and the other way round.
LEMMA ClientKept ==
  ASSUME IInv, UNCHANGED clientVars
  PROVE  ClientOK' /\ Manager'
BY DEF IInv, TypeOK, ClientOK, Manager, CtxDone, clientVars

LEMMA HubKeeps ==
  ASSUME IInv, NEW c \in Conns, HubAction(c), UNCHANGED clientVars
  PROVE  Parts'
BY WireHub, HubHub, ClientKept, TableHub, ClosesHub, RegisteredHub, WaitersHub DEF Parts

LEMMA CallKeeps ==
  ASSUME IInv, NEW k \in Calls, CallAction(k), UNCHANGED clientVars
  PROVE  Parts'
<1>1. UNCHANGED <<wire, srv, shut>>
  BY DEF CallAction, Load, RegisterPending, WriteCommand, WriteFails, Forget, Answered, Expired,
       wireVars
<1>2. Closes'
  BY <1>1 DEF IInv, Closes
<1>3. QED BY <1>2, WireCall, HubCall, ClientKept, TableCall, RegisteredCall, WaitersCall DEF
               Parts

LEMMA CloseKeeps ==
  ASSUME IInv, Close, UNCHANGED clientVars
  PROVE  Parts'
<1> USE DEF IInv, Close, ServerCloses
<1>1. WireOK'
  BY DEF TypeOK, WireOK
<1>2. HubOK' /\ (EntryHasPump /\ PumpHasEntry)'
  BY DEF TypeOK, HubOK, EntryHasPump, PumpHasEntry
<1>3. Closes'
  BY DEF TypeOK, WireOK, Closes
<1>4. Registered' /\ WaitersAreWoken'
  BY DEF Registered, WaitersAreWoken
<1>5. QED BY <1>1, <1>2, <1>3, <1>4, ClientKept DEF Parts

LEMMA CutKeeps ==
  ASSUME IInv, NEW c \in Conns, Cut(c)
  PROVE  Parts'
<1> USE DEF IInv, Cut, AgentCloses, hubVars
<1>1. WireOK'
  BY DEF TypeOK, WireOK
<1>2. HubOK' /\ (EntryHasPump /\ PumpHasEntry)'
  BY DEF TypeOK, HubOK, EntryHasPump, PumpHasEntry
<1>3. Closes'
  BY DEF Closes
<1>4. Registered' /\ WaitersAreWoken'
  BY DEF Registered, WaitersAreWoken
<1>5. QED BY <1>1, <1>2, <1>3, <1>4, ClientKept DEF Parts

-----------------------------------------------------------------------------
LEMMA InvInit == Init => IInv
<1> SUFFICES ASSUME Init PROVE IInv
  OBVIOUS
<1> USE DEF Init, WireInit, HubInit, ClientInit
<1>1. WireOK
  BY DEF WireOK
<1>2. HubOK
  BY DEF HubOK, CallRecord
<1>3. ClientOK /\ Manager
  BY DEF ClientOK, Manager
<1>4. EntryHasPump /\ PumpHasEntry /\ Closes
  BY DEF EntryHasPump, PumpHasEntry, Closes
<1>5. Registered /\ WaitersAreWoken
  BY DEF Registered, WaitersAreWoken
<1>6. faults \in 0 .. MaxFaults
  OBVIOUS
<1>7. QED BY <1>1, <1>2, <1>3, <1>4, <1>5, <1>6 DEF IInv, TypeOK

LEMMA InvStutter ==
  ASSUME IInv, UNCHANGED vars
  PROVE  IInv'
<1> USE DEF IInv, vars, wireVars, hubVars
<1>1. WireOK' /\ HubOK' /\ (EntryHasPump /\ PumpHasEntry)'
  BY DEF TypeOK, WireOK, HubOK, EntryHasPump, PumpHasEntry
<1>2. Closes' /\ Registered' /\ WaitersAreWoken'
  BY DEF Closes, Registered, WaitersAreWoken
<1>3. QED BY <1>1, <1>2, ClientKept DEF TypeOK

(***************************************************************************)
(* What the table, the handlers of the connections, the callers and the    *)
(* client's manager owe to each other holds in every reachable state.      *)
(***************************************************************************)
THEOREM InvHolds == Spec => []IInv
<1>1. ASSUME IInv, Next PROVE IInv'
  <2>1. Parts'
    BY <1>1, StepCases, DialKeeps, ClientKeeps, HubKeeps, CallKeeps, CloseKeeps, CutKeeps
  <2>2. QED BY <1>1, <2>1, FaultsStep DEF IInv, Parts, TypeOK
<1>2. IInv /\ [Next]_vars => IInv'
  BY <1>1, InvStutter
<1>3. QED BY InvInit, <1>2, PTL DEF Spec

(***************************************************************************)
(* Connections, calls and the client keep their types: the read pump never *)
(* reads without a connection, and no answer is written without a command. *)
(***************************************************************************)
THEOREM TypeCorrect == Spec => []TypeOK
<1>1. IInv => TypeOK
  BY DEF IInv
<1>2. QED BY InvHolds, <1>1, PTL

(***************************************************************************)
(* For any number of connections, calls and faults: an entry of the hub's  *)
(* table always has a handler or a read pump that will remove it.          *)
(***************************************************************************)
THEOREM EntrySound == Spec => []EntryHasPump
<1>1. IInv => EntryHasPump
  BY DEF IInv
<1>2. QED BY InvHolds, <1>1, PTL

(***************************************************************************)
(* And as long as no failed write has removed an entry, at most one        *)
(* connection of the agent is read, and it is the one in the table.        *)
(***************************************************************************)
THEOREM PumpSound == Spec => []PumpHasEntry
<1>1. IInv => PumpHasEntry
  BY DEF IInv
<1>2. QED BY InvHolds, <1>1, PTL

(***************************************************************************)
(* For any number of callers and connections: nobody is left waiting on a  *)
(* connection that is gone, however registrations, writes, drains and      *)
(* reconnections interleave.                                               *)
(***************************************************************************)
THEOREM WaitersSound == Spec => []WaitersAreWoken
<1>1. IInv => WaitersAreWoken
  BY DEF IInv
<1>2. QED BY InvHolds, <1>1, PTL
=============================================================================

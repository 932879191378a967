----------------------------- MODULE AgentLink -----------------------------
(***************************************************************************)
(* One agent and the server: the client, the hub and the connections       *)
(* between them, with faults, refused dials, rejected duplicates, a hub that *)
(* is shut down and an agent that is closed and started again.             *)
(***************************************************************************)
EXTENDS Hub, AgentClient

CONSTANT MaxFaults   \* bound on the cuts, revocations and shutdowns of a behaviour

ASSUME LinkAssumption == MaxFaults \in Nat

VARIABLE faults

vars == <<wireVars, hubVars, clientVars, faults>>

Init ==
  /\ WireInit
  /\ HubInit
  /\ ClientInit
  /\ faults = 0

WireOK ==
  /\ wire \in [Conns -> {"none", "up", "down", "closed"}]
  /\ toAgent \in [Conns -> Seq(Calls)]
  /\ toServer \in [Conns -> Seq(Calls)]

CallRecord ==
  [pc: {"idle", "loaded", "write", "forget", "wait", "returned"},
   conn: Conns \cup {None},
   ch: {"empty", "answer", "closed"},
   out: {None, "not connected", "write failed", "answer", "disconnected", "hub closed", "timeout"}]

HubOK ==
  /\ table \in Conns \cup {None}
  /\ srv \in [Conns -> Handling \cup {"none", "ended"}]
  /\ pending \in [Conns -> SUBSET Calls]
  /\ call \in [Calls -> CallRecord]
  /\ shut \in BOOLEAN /\ forgotten \in BOOLEAN

ClientOK ==
  /\ conn \in Conns \cup {None}
  /\ mgr \in {"off", "loop", "backoff", "dial", "set", "get", "read", "answer", "locked",
              "swap", "exit", "gone", "panicked"}
  /\ mconn \in Conns \cup {None}
  /\ attempt \in 0 .. MaxAttempts + 1
  /\ job \in Calls \cup {None}
  /\ cls \in {"idle", "cancelled", "locked", "closed"}

TypeOK == WireOK /\ HubOK /\ ClientOK /\ faults \in 0 .. MaxFaults

-----------------------------------------------------------------------------
\* Nobody holds the connection of this slot any more.
Free(c) ==
  /\ srv[c] \in {"none", "ended"}
  /\ c \notin {conn, mconn}
  /\ \A k \in Calls : call[k].conn = c => call[k].pc = "returned"

\* A dial that succeeds: the server's handler takes the connection up.
Opened(c) ==
  /\ Free(c)
  /\ \A d \in Conns : Free(d) => c <= d
  /\ wire' = [wire EXCEPT ![c] = "up"]
  /\ toAgent' = [toAgent EXCEPT ![c] = <<>>]
  /\ toServer' = [toServer EXCEPT ![c] = <<>>]
  /\ srv' = [srv EXCEPT ![c] = "accept"]
  /\ UNCHANGED <<table, pending, call, shut, forgotten, faults>>

\* The agent is started, by hand.
Connect == \E c \in Conns : Opened(c) /\ Connected(c)

Reconnect == ~CtxDone /\ \E c \in Conns : Opened(c) /\ Dialled(c)

\* One of the bounded faults.
Fault(f) ==
  /\ f \in Faults
  /\ faults < MaxFaults
  /\ faults' = faults + 1

Cut(c) ==
  /\ wire[c] = "up"
  /\ AgentCloses(c)
  /\ UNCHANGED <<toAgent, toServer, hubVars, clientVars>>

\* The agent sends no pings on this connection any more.
Silent(c) == CtxDone \/ c \notin {conn, mconn}

HubStep(c) ==
  /\ \/ Register(c) \/ SetDeadlineFails(c) \/ OnConnect(c)
     \/ PumpReads(c) \/ PumpFails(c, Silent(c)) \/ PumpCloses(c) \/ Drain(c)
  /\ UNCHANGED <<clientVars, faults>>

CallStep(k) ==
  /\ RegisterPending(k) \/ WriteCommand(k) \/ WriteFails(k) \/ Forget(k) \/ Answered(k)
  /\ UNCHANGED <<clientVars, faults>>

ManagerStep ==
  \/ Reconnect
  \/ /\ \/ Loop \/ Wait \/ BackoffPanics \/ SetConn \/ GetConn \/ PumpTakes
        \/ LockToAnswer \/ WriteAnswer \/ ReadFails \/ CompareAndSwapConn \/ ManagerExits
     /\ UNCHANGED <<hubVars, faults>>

CloseStep == (CloseLocks \/ CloseConn) /\ UNCHANGED <<hubVars, faults>>

Next ==
  \/ Connect
  \/ ManagerStep
  \/ CloseStep
  \/ \E c \in Conns : HubStep(c)
  \/ \E k \in Calls : CallStep(k) \/ ((Load(k) \/ Expired(k)) /\ UNCHANGED <<clientVars, faults>>)
  \/ "refuse" \in Faults /\ DialFails /\ UNCHANGED <<hubVars, faults>>
  \/ Exit /\ UNCHANGED <<hubVars, faults>>
  \/ Fault("cut") /\ \E c \in Conns : Cut(c)
  \/ Fault("revoked") /\ \E c \in Conns : Revoked(c) /\ UNCHANGED clientVars
  \/ Fault("shut") /\ Close /\ UNCHANGED clientVars
  \/ Fault("close") /\ CancelCtx /\ UNCHANGED hubVars

Spec == Init /\ [][Next]_vars

(***************************************************************************)
(* Goroutines that can go on do.  No fairness for the deadline of a        *)
(* caller: most callers pass the context of an HTTP request, which has     *)
(* none.  None for Connect and Exit, which are up to an operator.          *)
(***************************************************************************)
FairSpec ==
  /\ Spec
  /\ \A c \in Conns : WF_vars(HubStep(c))
  /\ \A k \in Calls : WF_vars(CallStep(k))
  /\ WF_vars(ManagerStep)
  /\ WF_vars(CloseStep)

-----------------------------------------------------------------------------
(***************************************************************************)
(* An entry of the table has a handler or a read pump behind it, so an     *)
(* agent never stays listed as connected, and duplicates of it rejected,   *)
(* when its connection is gone (hub.go:139-190, 350).                      *)
(***************************************************************************)
EntryHasPump == table # None => srv[table] \in {"hook", "pump"}

(***************************************************************************)
(* And a connection that is read is the entry, so there is one of them,    *)
(* unless a failed write has removed an entry: SendToAgent deletes by the  *)
(* agent's ID and does not look whose entry it is (hub.go:350), as does    *)
(* the end of a read pump that is no longer the entry (hub.go:178).        *)
(***************************************************************************)
PumpHasEntry == \A c \in Conns : srv[c] \in {"hook", "pump"} => table = c \/ forgotten

(***************************************************************************)
(* A caller is never left waiting on a connection whose pump is through:   *)
(* it registered in time for the drain, or its write fails because the     *)
(* connection is closed before the drain (hub.go:177-188, 327-352), or the  *)
(* hub is closed, which callers look at too.                               *)
(***************************************************************************)
WaitersAreWoken ==
  \A k \in Calls :
    call[k].pc = "wait" /\ srv[call[k].conn] \in {"none", "ended"}
      => call[k].ch # "empty" \/ shut

(***************************************************************************)
(* So every call returns, without help from a deadline (hub.go:354-367).   *)
(***************************************************************************)
CallsReturn == \A k \in Calls : call[k].pc = "loaded" ~> call[k].pc = "returned"

(***************************************************************************)
(* However often connections are cut, dials refused and reconnections      *)
(* rejected as duplicates of a connection that the server still believes   *)
(* in, the agent ends up in the table again (client.go:287-344,            *)
(* hub.go:139-143).  The exceptions are known: the agent is being shut     *)
(* down, an entry was removed by a failed write, or the overflow of the    *)
(* backoff killed the agent (client.go:353-359).                           *)
(***************************************************************************)
Reached == table # None /\ table = conn /\ wire[table] = "up"
ReconnectsUnless ==
  []<>(Reached \/ mgr = "off" \/ CtxDone \/ forgotten \/ mgr = "panicked")

(***************************************************************************)
(* Close returns (client.go:207-239) unless it crosses a writer: it takes  *)
(* connMu and then writeMu, writers take them in the opposite order.       *)
(***************************************************************************)
Crossed == cls = "locked" /\ conn # None /\ mgr = "locked"
CloseReturns == CtxDone ~> (cls \in {"idle", "closed"} \/ Crossed)
=============================================================================

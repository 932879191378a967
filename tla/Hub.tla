--------------------------------- MODULE Hub ---------------------------------
(***************************************************************************)
(* The server's end (internal/ws/hub): the table of connected agents, one  *)
(* handler and read pump for each connection, and the callers of           *)
(* SendToAgent.  One agent is modelled; entries of others do not interact  *)
(* with it.                                                                *)
(***************************************************************************)
EXTENDS Wire, FiniteSets

CONSTANTS
  Calls,   \* the invocations of SendToAgent, each sends a command of its own ID
  Faults   \* what the environment may do, a subset of AllFaults

(***************************************************************************)
(* cut      the network loses a connection                                 *)
(* revoked  the certificate that the agent presents is revoked             *)
(* shut     the server closes the hub                                      *)
(* close    the agent closes its client and is started again               *)
(* refuse   a dial fails                                                   *)
(***************************************************************************)
AllFaults == {"cut", "revoked", "shut", "close", "refuse"}

ASSUME HubAssumption == Faults \subseteq AllFaults

VARIABLES
  table,      \* Hub.conns: the connection that the agent's ID leads to
  srv,        \* where the handler or read pump of each connection is
  pending,    \* agentConn.pending: the calls that wait for a response
  call,       \* the callers: where they are, their connection, their channel
  shut,       \* Hub.closed is closed
  forgotten   \* history: a failed write removed an entry of the table

hubVars == <<table, srv, pending, call, shut, forgotten>>

HubInit ==
  /\ table = None
  /\ srv = [c \in Conns |-> "none"]
  /\ pending = [c \in Conns |-> {}]
  /\ call = [k \in Calls |-> [pc |-> "idle", conn |-> None, ch |-> "empty", out |-> None]]
  /\ shut = FALSE
  /\ forgotten = FALSE

Handling == {"accept", "hook", "pump", "close", "drain"}

Ended(c) == srv' = [srv EXCEPT ![c] = "ended"]

-----------------------------------------------------------------------------
\* HandleConnection: a revoked certificate is turned away.
Revoked(c) ==
  /\ srv[c] = "accept"
  /\ ServerCloses(c)
  /\ Ended(c)
  /\ UNCHANGED <<toAgent, toServer, table, pending, call, shut, forgotten>>

\* Mutant: a second connection takes the entry of the first.
RegisterReplaces(c) ==
  /\ srv[c] = "accept"
  /\ table' = c
  /\ srv' = [srv EXCEPT ![c] = "hook"]
  /\ UNCHANGED <<wireVars, pending, call, shut, forgotten>>

\* LoadOrStore: the connection is entered, or turned away as a duplicate.
Register(c) ==
  /\ srv[c] = "accept"
  /\ IF table = None
       THEN /\ table' = c
            /\ srv' = [srv EXCEPT ![c] = "hook"]
            /\ UNCHANGED wireVars
       ELSE /\ ServerCloses(c)
            /\ Ended(c)
            /\ UNCHANGED <<toAgent, toServer, table>>
  /\ UNCHANGED <<pending, call, shut, forgotten>>

\* Mutant: a connection whose deadline cannot be set keeps its entry.
SetDeadlineFailsListed(c) ==
  /\ srv[c] = "hook"
  /\ wire[c] = "closed"
  /\ Ended(c)
  /\ UNCHANGED <<wireVars, table, pending, call, shut, forgotten>>

\* The read deadline cannot be set on a connection that Close closed already.
SetDeadlineFails(c) ==
  /\ srv[c] = "hook"
  /\ wire[c] = "closed"
  /\ table' = None
  /\ Ended(c)
  /\ UNCHANGED <<wireVars, pending, call, shut, forgotten>>

\* The hook sets the agent's record online, see Accounts; the read pump starts.
OnConnect(c) ==
  /\ srv[c] = "hook"
  /\ srv' = [srv EXCEPT ![c] = "pump"]
  /\ UNCHANGED <<wireVars, table, pending, call, shut, forgotten>>

\* A response goes to the channel of the call that waits for it, if there is
\* room; nothing else that the agent sends concerns a call.
PumpReads(c) ==
  /\ srv[c] = "pump"
  /\ wire[c] # "closed"
  /\ toServer[c] # <<>>
  /\ LET k == Head(toServer[c])
     IN  call' = IF k \in pending[c] /\ call[k].ch = "empty"
                   THEN [call EXCEPT ![k].ch = "answer"]
                   ELSE call
  /\ Take(toServer, c)
  /\ UNCHANGED <<wire, toAgent, table, srv, pending, shut, forgotten>>

\* ReadMessage fails, at the latest when the deadline passes without a ping,
\* which ends a connection that the agent no longer sends pings on.
PumpFails(c, silent) ==
  /\ srv[c] = "pump"
  /\ wire[c] # "up" \/ silent
  /\ srv' = [srv EXCEPT ![c] = "close"]
  /\ table' = None
  /\ UNCHANGED <<wireVars, pending, call, shut, forgotten>>

\* Mutant: the connection is not closed before the drain.
PumpLeavesOpen(c) ==
  /\ srv[c] = "close"
  /\ srv' = [srv EXCEPT ![c] = "drain"]
  /\ UNCHANGED <<wireVars, table, pending, call, shut, forgotten>>

PumpCloses(c) ==
  /\ srv[c] = "close"
  /\ ServerCloses(c)
  /\ srv' = [srv EXCEPT ![c] = "drain"]
  /\ UNCHANGED <<toAgent, toServer, table, pending, call, shut, forgotten>>

\* The pending channels are closed and forgotten; the hook sets the record
\* offline, see Accounts.
Drain(c) ==
  /\ srv[c] = "drain"
  /\ call' = [k \in Calls |->
       IF k \in pending[c] /\ call[k].ch = "empty" THEN [call[k] EXCEPT !.ch = "closed"] ELSE call[k]]
  /\ pending' = [pending EXCEPT ![c] = {}]
  /\ Ended(c)
  /\ UNCHANGED <<wireVars, table, shut, forgotten>>

-----------------------------------------------------------------------------
Goes(k, r) == call' = [call EXCEPT ![k] = r]

\* SendToAgent: without an entry it returns at once.
Load(k) ==
  /\ call[k].pc = "idle"
  /\ IF table = None
       THEN Goes(k, [call[k] EXCEPT !.pc = "returned", !.out = "not connected"])
       ELSE Goes(k, [call[k] EXCEPT !.pc = "loaded", !.conn = table])
  /\ UNCHANGED <<wireVars, table, srv, pending, shut, forgotten>>

RegisterPending(k) ==
  /\ call[k].pc = "loaded"
  /\ pending' = [pending EXCEPT ![call[k].conn] = @ \cup {k}]
  /\ Goes(k, [call[k] EXCEPT !.pc = "write"])
  /\ UNCHANGED <<wireVars, table, srv, shut, forgotten>>

WriteCommand(k) ==
  /\ call[k].pc = "write"
  /\ wire[call[k].conn] # "closed"
  /\ Written(toAgent, call[k].conn, k)
  /\ Goes(k, [call[k] EXCEPT !.pc = "wait"])
  /\ UNCHANGED <<wire, toServer, table, srv, pending, shut, forgotten>>

WriteFails(k) ==
  /\ call[k].pc = "write"
  /\ wire[call[k].conn] # "up"
  /\ Goes(k, [call[k] EXCEPT !.pc = "forget"])
  /\ UNCHANGED <<wireVars, table, srv, pending, shut, forgotten>>

\* The deferred removal of the channel, with which every return ends.
Returns(k, out) ==
  /\ pending' = [pending EXCEPT ![call[k].conn] = @ \ {k}]
  /\ Goes(k, [pc |-> "returned", conn |-> None, ch |-> "empty", out |-> out])

\* A failed write removes the agent's entry, whatever connection it names.
Forget(k) ==
  /\ call[k].pc = "forget"
  /\ table' = None
  /\ forgotten' = (forgotten \/ table # None)
  /\ Returns(k, "write failed")
  /\ UNCHANGED <<wireVars, srv, shut>>

\* Mutant: a closed channel is not taken for the end of the connection.
AnsweredWaitsOn(k) ==
  /\ call[k].pc = "wait"
  /\ \/ call[k].ch = "answer" /\ Returns(k, "answer")
     \/ shut /\ Returns(k, "hub closed")
  /\ UNCHANGED <<wireVars, table, srv, shut, forgotten>>

\* The select: the channel, the caller's deadline or the closed hub.
Answered(k) ==
  /\ call[k].pc = "wait"
  /\ \/ call[k].ch = "answer" /\ Returns(k, "answer")
     \/ call[k].ch = "closed" /\ Returns(k, "disconnected")
     \/ shut /\ Returns(k, "hub closed")
  /\ UNCHANGED <<wireVars, table, srv, shut, forgotten>>

Expired(k) ==
  /\ call[k].pc = "wait"
  /\ Returns(k, "timeout")
  /\ UNCHANGED <<wireVars, table, srv, shut, forgotten>>

\* Close ends every connection that is in the table.
Close ==
  /\ ~shut
  /\ shut' = TRUE
  /\ IF table = None THEN UNCHANGED wire ELSE ServerCloses(table)
  /\ UNCHANGED <<toAgent, toServer, table, srv, pending, call, forgotten>>
=============================================================================

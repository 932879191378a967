---------------------------- MODULE AgentClient ----------------------------
(***************************************************************************)
(* The agent's end (internal/ws/agent): the connection manager with its    *)
(* read pump and backoff, and Close.                                       *)
(*                                                                         *)
(* Two mutexes matter.  connMu is held across steps by Close alone, from   *)
(* where it waits for writeMu.  writeMu is held across steps by whoever    *)
(* writes, from where it waits to read the connection under connMu.        *)
(***************************************************************************)
EXTENDS Wire

CONSTANTS
  Width,               \* the bits of a time.Duration, 64 in the code
  ReconnectMinWait,    \* in a unit that makes it a multiple of 4
  ReconnectMaxWait,
  MaxAttempts          \* bound on the failed dials in a row, see DialFails

ASSUME ClientAssumption ==
  /\ Width \in Nat \ {0}
  /\ ReconnectMinWait \in Nat /\ ReconnectMinWait >= 4
  /\ ReconnectMaxWait \in Nat /\ ReconnectMaxWait >= ReconnectMinWait
  /\ MaxAttempts \in Nat

VARIABLES
  conn,      \* Client.conn
  mgr,       \* where the connection manager is
  mconn,     \* the connection that it reads or has just dialled
  attempt,   \* reconnectAttempt
  job,       \* the command whose answer the read pump is about to write
  cls        \* where Close is

clientVars == <<conn, mgr, mconn, attempt, job, cls>>

ClientInit ==
  /\ conn = None
  /\ mgr = "off"
  /\ mconn = None
  /\ attempt = 0
  /\ job = None
  /\ cls = "idle"

CtxDone == cls # "idle"

ConnMuHeld == cls = "locked"

\* Mutant: the lock is taken for the dispatch, and again for the answer.
WriteMuHeldTwice == mgr \in {"answer", "locked"}

WriteMuHeld == mgr = "locked"

\* A two's complement number of Width bits.
Signed(n) == LET m == n % (2 ^ Width)
             IN  IF m < 2 ^ (Width - 1) THEN m ELSE m - 2 ^ Width

\* nextBackoff: the product overflows before it is clamped from above.
Backoff == LET b == Signed(2 ^ attempt * ReconnectMinWait)
           IN  IF b > ReconnectMaxWait THEN ReconnectMaxWait ELSE b

\* rand.Int63n panics unless its argument is positive.
JitterPanics == Backoff \div 4 <= 0

-----------------------------------------------------------------------------
\* A dial takes a free slot; see AgentLink for what the server makes of it.
\* Connect sets the connection before anything else runs.
Connected(c) ==
  /\ mgr = "off"
  /\ conn' = c
  /\ mgr' = "loop"
  /\ UNCHANGED <<mconn, attempt, job, cls>>

\* The head of the manager's loop.
Loop ==
  /\ mgr = "loop"
  /\ \/ /\ CtxDone
        /\ mgr' = "exit"
        /\ UNCHANGED mconn
     \/ /\ ~CtxDone
        /\ ~ConnMuHeld
        /\ mgr' = IF conn = None THEN "backoff" ELSE "read"
        /\ mconn' = conn
  /\ UNCHANGED <<wireVars, conn, attempt, job, cls>>

\* reconnect waits, unless the client is closed meanwhile.
Wait ==
  /\ mgr = "backoff"
  /\ ~JitterPanics
  /\ mgr' \in {"dial"} \cup (IF CtxDone THEN {"exit"} ELSE {})
  /\ UNCHANGED <<wireVars, conn, mconn, attempt, job, cls>>

\* The panic of a goroutine ends the agent.
BackoffPanics ==
  /\ mgr = "backoff"
  /\ JitterPanics
  /\ mgr' = "panicked"
  /\ UNCHANGED <<wireVars, conn, mconn, attempt, job, cls>>

DialFails ==
  /\ mgr = "dial"
  /\ CtxDone \/ attempt < MaxAttempts
  /\ mgr' = "loop"
  /\ attempt' = attempt + 1
  /\ UNCHANGED <<wireVars, conn, mconn, job, cls>>

Dialled(c) ==
  /\ mgr = "dial"
  /\ mgr' = "set"
  /\ mconn' = c
  /\ UNCHANGED <<conn, attempt, job, cls>>

SetConn ==
  /\ mgr = "set"
  /\ ~ConnMuHeld
  /\ conn' = mconn
  /\ attempt' = 0
  /\ mgr' = "get"
  /\ UNCHANGED <<wireVars, mconn, job, cls>>

\* The connection is read again, the context is not.
GetConn ==
  /\ mgr = "get"
  /\ ~ConnMuHeld
  /\ mgr' = IF conn = None THEN "loop" ELSE "read"
  /\ mconn' = conn
  /\ UNCHANGED <<wireVars, conn, attempt, job, cls>>

\* Mutant: the answer does not carry the ID of the command.
PumpTakesAnonymous ==
  /\ mgr = "read"
  /\ toAgent[mconn] # <<>>
  /\ job' = None
  /\ mgr' = "answer"
  /\ Take(toAgent, mconn)
  /\ UNCHANGED <<wire, toServer, conn, mconn, attempt, cls>>

\* A command is dispatched; its answer is yet to be written.
PumpTakes ==
  /\ mgr = "read"
  /\ toAgent[mconn] # <<>>
  /\ job' = Head(toAgent[mconn])
  /\ mgr' = "answer"
  /\ Take(toAgent, mconn)
  /\ UNCHANGED <<wire, toServer, conn, mconn, attempt, cls>>

LockToAnswer ==
  /\ mgr = "answer"
  /\ ~WriteMuHeld
  /\ mgr' = "locked"
  /\ UNCHANGED <<wireVars, conn, mconn, attempt, job, cls>>

\* The answer goes to the connection that is the client's now.
WriteAnswer ==
  /\ mgr = "locked"
  /\ ~ConnMuHeld
  /\ mgr' = "read"
  /\ job' = None
  /\ IF conn = None THEN UNCHANGED toServer
     ELSE Written(toServer, conn, job)
  /\ UNCHANGED <<wire, toAgent, conn, mconn, attempt, cls>>

\* The read fails on a dead connection, or for want of pongs: the heartbeat
\* ends with the context.
ReadFails ==
  /\ mgr = "read"
  /\ wire[mconn] # "up" \/ CtxDone
  /\ AgentCloses(mconn)
  /\ mgr' = "swap"
  /\ UNCHANGED <<toAgent, toServer, conn, mconn, attempt, job, cls>>

\* Mutant: a dead connection stays the current one.
CompareAndSwapConnKeeps ==
  /\ mgr = "swap"
  /\ ~ConnMuHeld
  /\ mconn' = None
  /\ mgr' = "loop"
  /\ UNCHANGED <<wireVars, conn, attempt, job, cls>>

CompareAndSwapConn ==
  /\ mgr = "swap"
  /\ ~ConnMuHeld
  /\ conn' = IF conn = mconn THEN None ELSE conn
  /\ mconn' = None
  /\ mgr' = "loop"
  /\ UNCHANGED <<wireVars, attempt, job, cls>>

\* The manager's deferred function.
ManagerExits ==
  /\ mgr = "exit"
  /\ ~ConnMuHeld
  /\ IF conn = None THEN UNCHANGED wire ELSE AgentCloses(conn)
  /\ conn' = None
  /\ mgr' = "gone"
  /\ UNCHANGED <<toAgent, toServer, mconn, attempt, job, cls>>

-----------------------------------------------------------------------------
\* Close cancels the context, and takes connMu to say goodbye.
CancelCtx ==
  /\ cls = "idle"
  /\ mgr \notin {"off", "panicked"}
  /\ cls' = "cancelled"
  /\ UNCHANGED <<wireVars, conn, mgr, mconn, attempt, job>>

CloseLocks ==
  /\ cls = "cancelled"
  /\ cls' = "locked"
  /\ UNCHANGED <<wireVars, conn, mgr, mconn, attempt, job>>

\* With a connection it also takes writeMu, for the close frame.
CloseConn ==
  /\ cls = "locked"
  /\ \/ conn = None /\ UNCHANGED <<wire, conn>>
     \/ conn # None /\ ~WriteMuHeld /\ AgentCloses(conn) /\ conn' = None
  /\ cls' = "closed"
  /\ UNCHANGED <<toAgent, toServer, mgr, mconn, attempt, job>>

\* The process ends, after Close or by the panic, with all that it held open.
Exit ==
  /\ cls = "closed" \/ mgr = "panicked"
  /\ wire' = [c \in Conns |-> IF c \in {conn, mconn} /\ wire[c] = "up" THEN "down" ELSE wire[c]]
  /\ conn' = None /\ mconn' = None
  /\ mgr' = "off" /\ attempt' = 0 /\ job' = None
  /\ cls' = "idle"
  /\ UNCHANGED <<toAgent, toServer>>
=============================================================================

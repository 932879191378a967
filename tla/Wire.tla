-------------------------------- MODULE Wire --------------------------------
(***************************************************************************)
(* The WebSocket connections between one agent and the server, a library   *)
(* of both sides.  Conns are slots: a slot is used again once nobody       *)
(* refers to the connection it stood for.                                  *)
(***************************************************************************)
EXTENDS Sequences, Integers

CONSTANTS Conns, None

ASSUME WireAssumption == None \notin Conns

VARIABLES
  wire,      \* "none", "up", "down" (the network or the agent ended it), or
             \* "closed" by the server
  toAgent,   \* the messages under way on each connection
  toServer

wireVars == <<wire, toAgent, toServer>>

WireInit ==
  /\ wire = [c \in Conns |-> "none"]
  /\ toAgent = [c \in Conns |-> <<>>]
  /\ toServer = [c \in Conns |-> <<>>]

\* The server, and the agent or the network, end a connection.
ServerCloses(c) == wire' = [wire EXCEPT ![c] = "closed"]
AgentCloses(c) == wire' = [wire EXCEPT ![c] = IF wire[c] = "up" THEN "down" ELSE wire[c]]

\* A write into a connection that the writer did not close itself: it arrives,
\* or on a dead connection it is lost without an error.
Written(q, c, m) ==
  q' = IF wire[c] = "up" THEN [q EXCEPT ![c] = Append(q[c], m)] ELSE q

Take(q, c) == q' = [q EXCEPT ![c] = Tail(q[c])]
=============================================================================

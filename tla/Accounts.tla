------------------------------ MODULE Accounts ------------------------------
(***************************************************************************)
(* Organisations, their members and invitations (internal/server/org), the *)
(* records of agents (internal/server/agent) and the hooks that keep them  *)
(* in step with connections (internal/server/server.go).                   *)
(*                                                                         *)
(* Every store call is a transaction of SQLite, hence one step.  A handler *)
(* or hook is a goroutine that makes several: what it has read may be      *)
(* stale when it writes, and it writes whole records.  IDs of              *)
(* organisations and codes of invitations are numbers in the order of      *)
(* creation, which is the order that the stores list them in.              *)
(***************************************************************************)
EXTENDS Integers

CONSTANTS
  None,
  Users, Agents,
  Procs,      \* the goroutines at work at one time
  MaxOrgs,    \* bound on the organisations ever created
  MaxCodes,   \* bound on the invitations ever created
  MaxConns,   \* bound on an agent's connections that are not over when it connects again
  FirstUser   \* the user who made the first organisation

ASSUME AccountsAssumption ==
  /\ None \notin Users \cup Agents \cup Int
  /\ FirstUser \in Users
  /\ MaxOrgs \in Nat \ {0}
  /\ MaxCodes \in Nat
  /\ MaxConns \in Nat

OrgIds == 1 .. MaxOrgs
Codes == 1 .. MaxCodes

\* An agent's record; one that was registered without an organisation has none.
Record == [org: OrgIds \cup {None}, status: {"online", "offline", "rejected"}, approved: BOOLEAN]

ASSUME RecordAssumption == None \notin Record

VARIABLES
  orgs, nextOrg,
  members,    \* [org, user, role]
  invites,    \* [code, org]
  nextCode,
  agents,     \* the record of each agent, None without one
  up,         \* the agents that are in the hub's table
  pumps,      \* the read pumps that are running, of each agent
  ended,      \* those that have ended and whose OnDisconnect has not begun
  version,    \* the agents whose MySQL version is to be fetched
  proc,       \* what each goroutine is doing, with its copies
  granted,    \* history: agents that an admin approved, or the hook registered
  rejected,   \* history: agents rejected since
  blurred,    \* history: agents whose online status a stale copy, or a failed write, has left behind
  overlapped  \* history: two goroutines were at work at one time

orgVars == <<orgs, nextOrg, members, invites, nextCode>>
conns == <<up, pumps, ended>>
history == <<granted, rejected, blurred>>
vars == <<orgVars, agents, conns, version, proc, history, overlapped>>

Idle == [op |-> "idle", user |-> None, org |-> None, agent |-> None,
         rec |-> None, to |-> None, todo |-> {}, code |-> None]

Init ==
  /\ orgs = {1} /\ nextOrg = 2
  /\ members = {[org |-> 1, user |-> FirstUser, role |-> "admin"]}
  /\ invites = {} /\ nextCode = 1
  /\ agents = [a \in Agents |-> None]
  /\ up = {} /\ version = {}
  /\ pumps = [a \in Agents |-> 0] /\ ended = [a \in Agents |-> 0]
  /\ proc = [p \in Procs |-> Idle]
  /\ granted = {} /\ rejected = {} /\ blurred = {}
  /\ overlapped = FALSE

Member == [org: OrgIds, user: Users, role: {"admin", "member"}]
Ops == {"idle", "create", "invite", "join", "burn", "fallback", "default", "list", "move",
        "register", "approve", "reject",
        "connect", "online", "adopt", "version", "offline"}

TypeOK ==
  /\ orgs \subseteq OrgIds /\ nextOrg \in 1 .. MaxOrgs + 1
  /\ members \subseteq Member
  /\ invites \subseteq [code: Codes, org: OrgIds] /\ nextCode \in 1 .. MaxCodes + 1
  /\ agents \in [Agents -> Record \cup {None}]
  /\ up \subseteq Agents /\ version \subseteq Agents
  /\ pumps \in [Agents -> Nat] /\ ended \in [Agents -> Nat]
  /\ proc \in [Procs -> [op: Ops, user: Users \cup {None}, org: OrgIds \cup {None},
                         agent: Agents \cup {None}, rec: Record \cup {None},
                         to: OrgIds \cup {None}, todo: SUBSET [agent: Agents, rec: Record], code: Codes \cup {None}]]
  /\ granted \subseteq Agents /\ rejected \subseteq Agents /\ blurred \subseteq Agents
  /\ overlapped \in BOOLEAN

-----------------------------------------------------------------------------
IsMember(o, u) == \E m \in members : m.org = o /\ m.user = u
IsAdmin(o, u) == [org |-> o, user |-> u, role |-> "admin"] \in members

\* A request or a hook begins: its first store call is over.
Begins(p, r) ==
  /\ proc[p] = Idle
  /\ proc' = [proc EXCEPT ![p] = r]
  /\ overlapped' = (overlapped \/ \E q \in Procs \ {p} : proc[q] # Idle)

Goes(p, r) == proc' = [proc EXCEPT ![p] = r] /\ UNCHANGED overlapped
Returns(p) == Goes(p, Idle)

\* SQLiteOrgStore.Create and SQLiteAgentStore.Create.
CreateOrg ==
  /\ nextOrg \in OrgIds
  /\ orgs' = orgs \cup {nextOrg}
  /\ nextOrg' = nextOrg + 1

\* Mutant: the member is entered without looking for the organisation.
AddMemberBlindly(o, u, r) ==
  members' = members \cup {m \in {[org |-> o, user |-> u, role |-> r]} : ~IsMember(o, u)}

\* AddMember enters a new member of an organisation that exists, or nothing.
AddMember(o, u, r) ==
  members' = members \cup {m \in {[org |-> o, user |-> u, role |-> r]} : o \in orgs /\ ~IsMember(o, u)}

\* Update replaces the whole record.
Update(a, rec) ==
  agents' = [agents EXCEPT ![a] = IF @ = None THEN None ELSE rec]

Online(a) == agents[a] # None /\ agents[a].status = "online"

\* A copy that was read earlier is written back, with the status it had.
WritesBack(a, rec) ==
  /\ Update(a, rec)
  /\ blurred' = blurred \cup {b \in {a} : rec.status = "online" /\ ~Online(b)}

-----------------------------------------------------------------------------
\* POST /api/orgs: the organisation, and then its admin.
Create(p, u) ==
  /\ CreateOrg
  /\ Begins(p, [Idle EXCEPT !.op = "create", !.user = u, !.org = nextOrg])
  /\ UNCHANGED <<members, invites, nextCode, agents, conns, version, history>>

CreateAdmin(p) ==
  /\ proc[p].op = "create"
  /\ AddMember(proc[p].org, proc[p].user, "admin")
  /\ Returns(p)
  /\ UNCHANGED <<orgs, nextOrg, invites, nextCode, agents, conns, version, history>>

\* POST /api/orgs/{id}/invite
MayInvite(p, u, o) ==
  /\ o \in orgs /\ IsAdmin(o, u)
  /\ Begins(p, [Idle EXCEPT !.op = "invite", !.org = o])
  /\ UNCHANGED <<orgVars, agents, conns, version, history>>

CreateInvite(p) ==
  /\ proc[p].op = "invite"
  /\ IF proc[p].org \in orgs
       THEN /\ nextCode \in Codes
            /\ invites' = invites \cup {[code |-> nextCode, org |-> proc[p].org]}
            /\ nextCode' = nextCode + 1
       ELSE UNCHANGED <<invites, nextCode>>
  /\ Returns(p)
  /\ UNCHANGED <<orgs, nextOrg, members, agents, conns, version, history>>

\* POST /api/orgs/{id}/accept: the invitation is found, the user is entered, and
\* the invitation deleted.
AcceptInvite(p, u, i) ==
  /\ i.org \in orgs
  /\ Begins(p, [Idle EXCEPT !.op = "join", !.user = u, !.org = i.org, !.code = i.code])
  /\ UNCHANGED <<orgVars, agents, conns, version, history>>

Join(p) ==
  /\ proc[p].op = "join"
  /\ AddMember(proc[p].org, proc[p].user, "member")
  /\ IF members' = members THEN Returns(p) ELSE Goes(p, [Idle EXCEPT !.op = "burn", !.code = proc[p].code])
  /\ UNCHANGED <<orgs, nextOrg, invites, nextCode, agents, conns, version, history>>

DeleteInvite(p) ==
  /\ proc[p].op = "burn"
  /\ invites' = {i \in invites : i.code # proc[p].code}
  /\ Returns(p)
  /\ UNCHANGED <<orgs, nextOrg, members, nextCode, agents, conns, version, history>>

-----------------------------------------------------------------------------
\* DELETE /api/orgs/{id}: DeleteWithAgentReassignment.
MayDelete(p, u, o) ==
  /\ o \in orgs /\ IsAdmin(o, u)
  /\ Begins(p, [Idle EXCEPT !.op = "fallback", !.user = u, !.org = o])
  /\ UNCHANGED <<orgVars, agents, conns, version, history>>

\* ensureFallbackOrg: the user's first other organisation, or a new one.
EnsureFallbackOrg(p) ==
  /\ proc[p].op = "fallback"
  /\ LET others == {o \in orgs \ {proc[p].org} : IsMember(o, proc[p].user)}
     IN  \/ \E first \in others :
              /\ \A o \in others : first <= o
              /\ Goes(p, [proc[p] EXCEPT !.op = "list", !.to = first, !.user = None])
              /\ UNCHANGED <<orgs, nextOrg>>
         \/ /\ others = {}
            /\ CreateOrg
            /\ Goes(p, [proc[p] EXCEPT !.op = "default", !.to = nextOrg])
  /\ UNCHANGED <<members, invites, nextCode, agents, conns, version, history>>

DefaultAdmin(p) ==
  /\ proc[p].op = "default"
  /\ AddMember(proc[p].to, proc[p].user, "admin")
  /\ IF members' = members THEN Returns(p) ELSE Goes(p, [proc[p] EXCEPT !.op = "list", !.user = None])
  /\ UNCHANGED <<orgs, nextOrg, invites, nextCode, agents, conns, version, history>>

InOrg(o) ==
  LET here == {a \in Agents : agents[a] # None /\ agents[a].org = o}
  IN  {[agent |-> a, rec |-> agents[a]] : a \in here}

\* Mutant: agents that are online stay where they are.
ListByOrgOffline(p) ==
  /\ proc[p].op = "list"
  /\ Goes(p, [proc[p] EXCEPT !.op = "move", !.todo = {c \in InOrg(proc[p].org) : c.rec.status # "online"}])
  /\ UNCHANGED <<orgVars, agents, conns, version, history>>

\* reassignFn reads all records, and then writes them back one by one.
ListByOrg(p) ==
  /\ proc[p].op = "list"
  /\ Goes(p, [proc[p] EXCEPT !.op = "move", !.todo = InOrg(proc[p].org)])
  /\ UNCHANGED <<orgVars, agents, conns, version, history>>

Reassign(p, c) ==
  /\ proc[p].op = "move" /\ c \in proc[p].todo
  /\ WritesBack(c.agent, [c.rec EXCEPT !.org = proc[p].to])
  /\ Goes(p, [proc[p] EXCEPT !.todo = @ \ {c}])
  /\ UNCHANGED <<orgVars, conns, version, granted, rejected>>

\* SQLiteOrgStore.Delete takes members and invitations with it.
DeleteOrg(p) ==
  /\ proc[p].op = "move" /\ proc[p].todo = {}
  /\ orgs' = orgs \ {proc[p].org}
  /\ members' = {m \in members : m.org # proc[p].org}
  /\ invites' = {i \in invites : i.org # proc[p].org}
  /\ Returns(p)
  /\ UNCHANGED <<nextOrg, nextCode, agents, conns, version, history>>

-----------------------------------------------------------------------------
\* POST /api/agents/register, by a member: a record that waits for approval.
MayRegister(p, u, o, a) ==
  /\ o \in orgs /\ IsMember(o, u) /\ agents[a] = None
  /\ Begins(p, [Idle EXCEPT !.op = "register", !.org = o, !.agent = a])
  /\ UNCHANGED <<orgVars, agents, conns, version, history>>

\* The insertion fails if there is a record by now.
Inserted(a, rec) == agents' = [agents EXCEPT ![a] = IF @ = None THEN rec ELSE @]

Register(p) ==
  /\ proc[p].op = "register"
  /\ Inserted(proc[p].agent, [org |-> proc[p].org, status |-> "offline", approved |-> FALSE])
  /\ Returns(p)
  /\ UNCHANGED <<orgVars, conns, version, history>>

\* POST /api/agents/{id}/approve and .../reject: the record and the members of
\* its organisation are read, and then the record is written.
\* Mutant: any member may approve.
MayApproveMember(p, u, a) ==
  /\ agents[a] # None /\ IsMember(agents[a].org, u)
  /\ Begins(p, [Idle EXCEPT !.op = "approve", !.agent = a, !.rec = agents[a]])
  /\ granted' = granted \cup {g \in {a} : IsAdmin(agents[a].org, u)}
  /\ UNCHANGED <<orgVars, agents, conns, version, rejected, blurred>>

MayApprove(p, u, a) ==
  /\ agents[a] # None /\ IsAdmin(agents[a].org, u)
  /\ Begins(p, [Idle EXCEPT !.op = "approve", !.agent = a, !.rec = agents[a]])
  /\ granted' = granted \cup {a}
  /\ UNCHANGED <<orgVars, agents, conns, version, rejected, blurred>>

\* Mutant: an approved record gets a status of its own.
ApprovedAsStatus(rec) == [rec EXCEPT !.approved = TRUE, !.status = "approved"]

Approved(rec) ==
  [rec EXCEPT !.approved = TRUE, !.status = IF @ = "rejected" THEN "offline" ELSE @]

Approve(p) ==
  /\ proc[p].op = "approve"
  /\ WritesBack(proc[p].agent, Approved(proc[p].rec))
  /\ rejected' = rejected \ {proc[p].agent}
  /\ Returns(p)
  /\ UNCHANGED <<orgVars, conns, version, granted>>

MayReject(p, u, a) ==
  /\ agents[a] # None /\ IsAdmin(agents[a].org, u)
  /\ Begins(p, [Idle EXCEPT !.op = "reject", !.agent = a])
  /\ UNCHANGED <<orgVars, agents, conns, version, history>>

\* Mutant: only the status is set.
RejectStatus(p) ==
  /\ proc[p].op = "reject"
  /\ agents' = [agents EXCEPT ![proc[p].agent].status = "rejected"]
  /\ rejected' = rejected \cup {proc[p].agent}
  /\ blurred' = blurred \ {proc[p].agent}
  /\ Returns(p)
  /\ UNCHANGED <<orgVars, conns, version, granted>>

\* SQLiteAgentStore.Delete sets two columns and keeps the record.
Reject(p) ==
  /\ proc[p].op = "reject"
  /\ agents' = [agents EXCEPT ![proc[p].agent].approved = FALSE, ![proc[p].agent].status = "rejected"]
  /\ rejected' = rejected \cup {proc[p].agent}
  /\ blurred' = blurred \ {proc[p].agent}
  /\ Returns(p)
  /\ UNCHANGED <<orgVars, conns, version, granted>>

-----------------------------------------------------------------------------
\* OnConnect: a known agent goes online, and its version is to be fetched.
OnConnect(p, a) ==
  /\ a \notin up /\ pumps[a] + ended[a] < MaxConns
  /\ up' = up \cup {a}
  /\ Begins(p, IF agents[a] # None THEN [Idle EXCEPT !.op = "online", !.agent = a, !.rec = agents[a]]
                                   ELSE [Idle EXCEPT !.op = "connect", !.agent = a])
  /\ UNCHANGED <<orgVars, agents, pumps, ended, version, history>>

\* The connection is read, hence an answer can come, once the hook has returned.
PumpStarts(a) ==
  /\ pumps' = [pumps EXCEPT ![a] = @ + 1]
  /\ blurred' = blurred \ {a}
  /\ UNCHANGED <<up, ended>>

SetOnline(p) ==
  /\ proc[p].op = "online"
  /\ Update(proc[p].agent, [proc[p].rec EXCEPT !.status = "online"])
  /\ PumpStarts(proc[p].agent)
  /\ version' = version \cup {proc[p].agent}
  /\ Returns(p)
  /\ UNCHANGED <<orgVars, granted, rejected>>

\* An unknown agent is registered under the first organisation, approved.
FirstOrg(p) ==
  /\ proc[p].op = "connect"
  /\ \E first \in (IF orgs = {} THEN {None} ELSE orgs) :
       /\ \A o \in orgs : first <= o
       /\ Goes(p, [proc[p] EXCEPT !.op = "adopt", !.to = first])
  /\ UNCHANGED <<orgVars, agents, conns, version, history>>

AutoRegister(p) ==
  /\ proc[p].op = "adopt"
  /\ Inserted(proc[p].agent, [org |-> proc[p].to, status |-> "online", approved |-> TRUE])
  /\ PumpStarts(proc[p].agent)
  /\ granted' = granted \cup {proc[p].agent}
  /\ Returns(p)
  /\ UNCHANGED <<orgVars, version, rejected>>

\* The version arrives: the record is read, and written back with it.
GetVersion(p, a) ==
  /\ a \in version
  /\ version' = version \ {a}
  /\ Begins(p, [Idle EXCEPT !.op = "version", !.agent = a, !.rec = agents[a]])
  /\ UNCHANGED <<orgVars, agents, conns, history>>

SetVersion(p) ==
  /\ proc[p].op = "version"
  /\ WritesBack(proc[p].agent, proc[p].rec)
  /\ Returns(p)
  /\ UNCHANGED <<orgVars, conns, version, granted, rejected>>

\* Mutant: a connection whose entry is gone is not reported to the hook.
PumpEndsIfEntry(a) ==
  /\ pumps[a] > 0
  /\ pumps' = [pumps EXCEPT ![a] = @ - 1]
  /\ ended' = [ended EXCEPT ![a] = IF a \in up THEN @ + 1 ELSE @]
  /\ up' = up \ {a} /\ version' \in {version, version \ {a}}
  /\ UNCHANGED <<orgVars, agents, proc, history, overlapped>>

\* A read pump ends and removes the agent's entry, be it of a newer connection.
\* An answer with the version may have come before.
PumpEnds(a) ==
  /\ pumps[a] > 0
  /\ pumps' = [pumps EXCEPT ![a] = @ - 1]
  /\ ended' = [ended EXCEPT ![a] = @ + 1]
  /\ up' = up \ {a} /\ version' \in {version, version \ {a}}
  /\ UNCHANGED <<orgVars, agents, proc, history, overlapped>>

\* A command cannot be written: the entry goes, without a hook.
WriteFails(a) ==
  /\ a \in up
  /\ up' = up \ {a}
  /\ UNCHANGED <<orgVars, agents, pumps, ended, version, proc, history, overlapped>>

OnDisconnect(p, a) ==
  /\ ended[a] > 0
  /\ ended' = [ended EXCEPT ![a] = @ - 1]
  /\ Begins(p, IF agents[a] # None THEN [Idle EXCEPT !.op = "offline", !.agent = a, !.rec = agents[a]]
                                   ELSE Idle)
  /\ UNCHANGED <<orgVars, agents, up, pumps, version, history>>

SetOffline(p) ==
  /\ proc[p].op = "offline"
  /\ Update(proc[p].agent, [proc[p].rec EXCEPT !.status = "offline"])
  /\ blurred' = blurred \ {proc[p].agent}
  /\ Returns(p)
  /\ UNCHANGED <<orgVars, conns, version, granted, rejected>>

-----------------------------------------------------------------------------
\* A store call fails and the goroutine gives up.  Hooks drop the error: the
\* connection is read, or over, all the same.
Fails(p) ==
  /\ proc[p] # Idle
  /\ Returns(p)
  /\ IF proc[p].op \in {"online", "connect", "adopt"}
       THEN PumpStarts(proc[p].agent)
       ELSE /\ blurred' = blurred \cup {a \in Agents : proc[p].op = "offline" /\ proc[p].agent = a /\ Online(a)}
            /\ UNCHANGED conns
  /\ version' = version \cup {a \in Agents : proc[p].op = "online" /\ proc[p].agent = a}
  /\ UNCHANGED <<orgVars, agents, granted, rejected>>

MarkAllOffline ==
  agents' = [a \in Agents |-> IF agents[a] = None THEN None ELSE [agents[a] EXCEPT !.status = "offline"]]

\* The server is restarted: everything it was doing is gone, and nobody is
\* connected.  That the agents cannot be marked offline is logged.
Restart ==
  /\ \/ MarkAllOffline /\ blurred' = {}
     \/ UNCHANGED agents /\ blurred' = blurred \cup {a \in Agents : Online(a)}
  /\ up' = {} /\ version' = {}
  /\ pumps' = [a \in Agents |-> 0] /\ ended' = [a \in Agents |-> 0]
  /\ proc' = [p \in Procs |-> Idle]
  /\ UNCHANGED <<orgVars, granted, rejected, overlapped>>

Request(p, u) ==
  \/ Create(p, u)
  \/ \E o \in orgs : MayInvite(p, u, o) \/ MayDelete(p, u, o)
                      \/ \E a \in Agents : MayRegister(p, u, o, a)
  \/ \E i \in invites : AcceptInvite(p, u, i)
  \/ \E a \in Agents : MayApprove(p, u, a) \/ MayReject(p, u, a)

Hook(p, a) == OnConnect(p, a) \/ GetVersion(p, a) \/ OnDisconnect(p, a)

OrgStep(p) ==
  \/ CreateAdmin(p) \/ CreateInvite(p) \/ Join(p) \/ DeleteInvite(p)
  \/ EnsureFallbackOrg(p) \/ DefaultAdmin(p) \/ ListByOrg(p)
  \/ \E c \in proc[p].todo : Reassign(p, c)
  \/ DeleteOrg(p)

AgentStep(p) ==
  \/ Register(p) \/ Approve(p) \/ Reject(p)
  \/ SetOnline(p) \/ FirstOrg(p) \/ AutoRegister(p) \/ SetVersion(p) \/ SetOffline(p)

Next ==
  \/ \E p \in Procs :
       \/ \E u \in Users : Request(p, u)
       \/ \E a \in Agents : Hook(p, a)
       \/ OrgStep(p) \/ AgentStep(p) \/ Fails(p)
  \/ \E a \in Agents : PumpEnds(a) \/ WriteFails(a)
  \/ Restart

Spec == Init /\ [][Next]_vars

-----------------------------------------------------------------------------
(***************************************************************************)
(* However handlers interleave, fail and are killed, no member and no      *)
(* invitation is left behind by, or added to, an organisation that was     *)
(* deleted (org/sqlite.go:67-93, 137-173, 239-270).                        *)
(***************************************************************************)
NoGhostRows ==
  /\ \A m \in members : m.org \in orgs
  /\ \A i \in invites : i.org \in orgs

(***************************************************************************)
(* An agent is approved only if an admin of its organisation approved it   *)
(* some time, or the hook registered it: copies of records that are        *)
(* written back late never invent an approval (agent/handler.go:225-277,   *)
(* server.go:127-182).                                                     *)
(***************************************************************************)
ApprovalWasGranted ==
  \A a \in Agents : agents[a] # None /\ agents[a].approved => a \in granted

(***************************************************************************)
(* A rejected agent stays unapproved, through reconnections, restarts and  *)
(* reassignments, until it is approved again (agent/sqlite.go:113-128).    *)
(* But a goroutine that read the record before the rejection and writes it *)
(* back after it undoes the rejection, hence only without overlaps.        *)
(***************************************************************************)
RejectSticks ==
  ~overlapped
    => \A a \in rejected : agents[a] # None /\ ~agents[a].approved

(***************************************************************************)
(* org/handler.go:284-286: agents are reassigned "so they are not          *)
(* orphaned".  Whatever fails midway, the organisation of a record exists; *)
(* with overlaps a record can be moved into, created in or written back    *)
(* with an organisation that is deleted meanwhile.                         *)
(***************************************************************************)
NoOrphans ==
  ~overlapped
    => \A a \in Agents : agents[a] # None => agents[a].org \in orgs \cup {None}

(***************************************************************************)
(* server.go:123-125: the status is kept in step with the hub.  A record   *)
(* that says online is of an agent whose connection is still read, or has  *)
(* ended and is to be taken offline by its hook, with connections that     *)
(* overlap, entries that failed writes or older connections remove, and    *)
(* restarts.  What can leave it behind: a write back of a stale copy, and  *)
(* a failed store call of OnDisconnect or of the start, which are dropped  *)
(* (server.go:188, 249-251); the next connection, or the next write of     *)
(* another status, ends that.                                              *)
(***************************************************************************)
OnlineIsConnected ==
  \A a \in Agents \ blurred :
    Online(a) => pumps[a] + ended[a] > 0 \/ \E p \in Procs : proc[p].op = "offline" /\ proc[p].agent = a
=============================================================================

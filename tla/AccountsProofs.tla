--------------------------- MODULE AccountsProofs ---------------------------
(***************************************************************************)
(* Theorems on Accounts, for any numbers of users, agents, goroutines,     *)
(* organisations and invitations.                                          *)
(***************************************************************************)
EXTENDS Accounts, TLAPS

\* What a goroutine holds, by what it is about to do.
Holds(r, recs) ==
  /\ r.op \in {"create", "join", "fallback", "default"} => r.user \in Users
  /\ r.op \in {"approve", "online", "version", "offline"} => r.agent \in Agents /\ r.rec \in Record
  /\ r.op \in {"register", "connect", "adopt"} => r.agent \in Agents
  /\ r.op \in {"reject", "online"} => r.agent \in Agents /\ recs[r.agent] # None

\* Records are never removed, and organisations are numbered in order.
Fits ==
  /\ \A p \in Procs : Holds(proc[p], agents)
  /\ \A a \in version : agents[a] # None
  /\ \A o \in orgs : o < nextOrg

ProcType == [op: Ops, user: Users \cup {None}, org: OrgIds \cup {None},
             agent: Agents \cup {None}, rec: Record \cup {None},
             to: OrgIds \cup {None}, todo: SUBSET [agent: Agents, rec: Record], code: Codes \cup {None}]


USE AccountsAssumption, RecordAssumption

LEMMA ProcTyped == TypeOK => \A p \in Procs : proc[p] \in ProcType
  BY DEF TypeOK, ProcType

\* Typing of the goroutines follows from that of the one that moves.
LEMMA ProcMoves ==
  ASSUME TypeOK, NEW p \in Procs, NEW r \in ProcType, proc' = [proc EXCEPT ![p] = r]
  PROVE  proc' \in [Procs -> ProcType] /\ proc'[p] = r /\ \A q \in Procs \ {p} : proc'[q] = proc[q]
  BY DEF TypeOK, ProcType

LEMMA IdleType == Idle \in ProcType
  BY DEF Idle, ProcType, Ops

LEMMA TypeInit == Init => TypeOK /\ Fits
<1> SUFFICES ASSUME Init PROVE TypeOK /\ Fits
  OBVIOUS
<1>1. 1 \in OrgIds /\ 2 \in 1 .. MaxOrgs + 1 /\ 1 \in 1 .. MaxCodes + 1
  BY DEF OrgIds
<1>2. members \subseteq Member
  BY <1>1 DEF Init, Member
<1>3. proc \in [Procs -> ProcType] /\ \A p \in Procs : proc[p] = Idle
  BY IdleType DEF Init
<1>4. TypeOK
  BY <1>1, <1>2, <1>3 DEF Init, TypeOK, ProcType
<1>5. Fits
  BY <1>3 DEF Init, Fits, Holds, Idle
<1> QED
  BY <1>4, <1>5

-----------------------------------------------------------------------------
\* What the store calls on records do.
LEMMA UpdateKeeps ==
  ASSUME TypeOK, NEW a \in Agents, NEW rec \in Record, Update(a, rec)
  PROVE  /\ agents' \in [Agents -> Record \cup {None}]
         /\ agents'[a] = IF agents[a] = None THEN None ELSE rec
         /\ \A b \in Agents \ {a} : agents'[b] = agents[b]
  BY DEF TypeOK, Update

LEMMA InsertedKeeps ==
  ASSUME TypeOK, NEW a \in Agents, NEW rec \in Record, Inserted(a, rec)
  PROVE  /\ agents' \in [Agents -> Record \cup {None}]
         /\ agents'[a] = IF agents[a] = None THEN rec ELSE agents[a]
         /\ \A b \in Agents \ {a} : agents'[b] = agents[b]
  BY DEF TypeOK, Inserted

LEMMA AddMemberType ==
  ASSUME TypeOK, NEW o, NEW u \in Users, NEW r \in {"admin", "member"}, AddMember(o, u, r)
  PROVE  members' \subseteq Member
  BY DEF TypeOK, AddMember, Member

\* A goroutine moves on; records that others rely on are still there.
LEMMA Moves ==
  ASSUME TypeOK, Fits, NEW p \in Procs, NEW r \in ProcType, proc' = [proc EXCEPT ![p] = r],
         Holds(r, agents'), \A a \in Agents : agents[a] # None => agents'[a] # None
  PROVE  /\ proc' \in [Procs -> ProcType]
         /\ \A q \in Procs : Holds(proc'[q], agents')
  BY ProcMoves DEF Fits, Holds

LEMMA OverlapType ==
  ASSUME TypeOK, NEW p \in Procs, NEW r, Begins(p, r) \/ Goes(p, r)
  PROVE  overlapped' \in BOOLEAN /\ proc' = [proc EXCEPT ![p] = r]
  BY DEF TypeOK, Begins, Goes

\* The steps of a goroutine on its copies alone.
LEMMA TypeBegins ==
  ASSUME TypeOK, Fits, NEW p \in Procs, NEW r \in ProcType, Begins(p, r) \/ Goes(p, r), Holds(r, agents),
         UNCHANGED <<orgVars, agents, conns, version, history>>
  PROVE  TypeOK' /\ Fits'
<1>1. proc' \in [Procs -> ProcType] /\ \A q \in Procs : Holds(proc'[q], agents')
  BY Moves, OverlapType DEF orgVars
<1>2. TypeOK'
  BY <1>1, OverlapType DEF TypeOK, ProcType, orgVars, conns, history
<1>3. Fits'
  BY <1>1 DEF Fits, orgVars
<1> QED
  BY <1>2, <1>3

\* Organisations, members and invitations are typed, and numbered in order.
OrgsType ==
  /\ orgs \subseteq OrgIds /\ nextOrg \in 1 .. MaxOrgs + 1 /\ \A o \in orgs : o < nextOrg
  /\ members \subseteq Member
  /\ invites \subseteq [code: Codes, org: OrgIds] /\ nextCode \in 1 .. MaxCodes + 1

LEMMA OrgsTyped == TypeOK /\ Fits => OrgsType
  BY DEF TypeOK, Fits, OrgsType

\* The steps on organisations.
LEMMA TypeOrgs ==
  ASSUME TypeOK, Fits, NEW p \in Procs, NEW r \in ProcType, Begins(p, r) \/ Goes(p, r), Holds(r, agents),
         OrgsType', UNCHANGED <<agents, conns, version, history>>
  PROVE  TypeOK' /\ Fits'
<1>1. proc' \in [Procs -> ProcType] /\ \A q \in Procs : Holds(proc'[q], agents')
  BY Moves, OverlapType
<1>2. TypeOK'
  BY <1>1, OverlapType DEF TypeOK, ProcType, OrgsType, conns, history
<1>3. Fits'
  BY <1>1 DEF Fits, OrgsType
<1> QED
  BY <1>2, <1>3

\* So are the hub's table, the connections and the history.
HubType ==
  /\ up \subseteq Agents /\ version \subseteq Agents
  /\ pumps \in [Agents -> Nat] /\ ended \in [Agents -> Nat]
  /\ granted \subseteq Agents /\ rejected \subseteq Agents /\ blurred \subseteq Agents

LEMMA HubTyped == TypeOK => HubType
  BY DEF TypeOK, HubType

\* The steps on records.
LEMMA TypeAgents ==
  ASSUME TypeOK, Fits, NEW p \in Procs, NEW r \in ProcType, Begins(p, r) \/ Goes(p, r), Holds(r, agents'),
         agents' \in [Agents -> Record \cup {None}],
         \A a \in Agents : agents[a] # None => agents'[a] # None,
         HubType', \A a \in version' : agents'[a] # None, UNCHANGED orgVars
  PROVE  TypeOK' /\ Fits'
<1>1. proc' \in [Procs -> ProcType] /\ \A q \in Procs : Holds(proc'[q], agents')
  BY Moves, OverlapType
<1>2. TypeOK'
  BY <1>1, OverlapType DEF TypeOK, ProcType, orgVars, HubType
<1>3. Fits'
  BY <1>1 DEF Fits, orgVars
<1> QED
  BY <1>2, <1>3

-----------------------------------------------------------------------------
LEMMA CreateOrgType ==
  ASSUME TypeOK, Fits, CreateOrg, UNCHANGED <<members, invites, nextCode>>
  PROVE  OrgsType' /\ nextOrg \in OrgIds
  BY OrgsTyped DEF OrgsType, CreateOrg, OrgIds

LEMMA IdleHolds == \A recs : Holds(Idle, recs)
  BY DEF Holds, Idle

LEMMA TypeRequest ==
  ASSUME TypeOK, Fits, NEW p \in Procs, NEW u \in Users, Request(p, u)
  PROVE  TypeOK' /\ Fits'
<1>1. CASE Create(p, u)
  <2> DEFINE r == [Idle EXCEPT !.op = "create", !.user = u, !.org = nextOrg]
  <2>1. OrgsType' /\ nextOrg \in OrgIds
    BY <1>1, CreateOrgType DEF Create
  <2>2. r \in ProcType
    BY <2>1, IdleType DEF ProcType, Ops, Idle
  <2>3. Holds(r, agents)
    BY DEF Holds, Idle
  <2> QED
    BY <1>1, <2>1, <2>2, <2>3, TypeOrgs DEF Create
<1>2. ASSUME NEW o \in orgs, MayInvite(p, u, o)
      PROVE  TypeOK' /\ Fits'
  <2> DEFINE r == [Idle EXCEPT !.op = "invite", !.org = o]
  <2>1. r \in ProcType /\ Holds(r, agents)
    BY IdleType DEF ProcType, Ops, Idle, Holds, TypeOK
  <2> QED
    BY <1>2, <2>1, TypeBegins DEF MayInvite
<1>3. ASSUME NEW o \in orgs, MayDelete(p, u, o)
      PROVE  TypeOK' /\ Fits'
  <2> DEFINE r == [Idle EXCEPT !.op = "fallback", !.user = u, !.org = o]
  <2>1. r \in ProcType /\ Holds(r, agents)
    BY IdleType DEF ProcType, Ops, Idle, Holds, TypeOK
  <2> QED
    BY <1>3, <2>1, TypeBegins DEF MayDelete
<1>4. ASSUME NEW o \in orgs, NEW a \in Agents, MayRegister(p, u, o, a)
      PROVE  TypeOK' /\ Fits'
  <2> DEFINE r == [Idle EXCEPT !.op = "register", !.org = o, !.agent = a]
  <2>1. r \in ProcType /\ Holds(r, agents)
    BY IdleType DEF ProcType, Ops, Idle, Holds, TypeOK
  <2> QED
    BY <1>4, <2>1, TypeBegins DEF MayRegister
<1>5. ASSUME NEW i \in invites, AcceptInvite(p, u, i)
      PROVE  TypeOK' /\ Fits'
  <2> DEFINE r == [Idle EXCEPT !.op = "join", !.user = u, !.org = i.org, !.code = i.code]
  <2>0. i \in [code: Codes, org: OrgIds]
    BY DEF TypeOK
  <2>1. r \in ProcType /\ Holds(r, agents)
    BY <2>0, IdleType DEF ProcType, Ops, Idle, Holds
  <2> QED
    BY <1>5, <2>1, TypeBegins DEF AcceptInvite
<1>6. ASSUME NEW a \in Agents, MayApprove(p, u, a)
      PROVE  TypeOK' /\ Fits'
  <2> DEFINE r == [Idle EXCEPT !.op = "approve", !.agent = a, !.rec = agents[a]]
  <2>1. r \in ProcType /\ Holds(r, agents)
    BY <1>6, IdleType DEF ProcType, Ops, Idle, Holds, TypeOK, MayApprove
  <2>2. HubType' /\ UNCHANGED <<orgVars, agents, version>>
    BY <1>6, HubTyped DEF MayApprove, HubType, conns
  <2> QED
    BY <1>6, <2>1, <2>2, TypeAgents DEF MayApprove, TypeOK, Fits
<1>7. ASSUME NEW a \in Agents, MayReject(p, u, a)
      PROVE  TypeOK' /\ Fits'
  <2> DEFINE r == [Idle EXCEPT !.op = "reject", !.agent = a]
  <2>1. r \in ProcType /\ Holds(r, agents)
    BY <1>7, IdleType DEF ProcType, Ops, Idle, Holds, MayReject
  <2> QED
    BY <1>7, <2>1, TypeBegins DEF MayReject
<1> QED
  BY <1>1, <1>2, <1>3, <1>4, <1>5, <1>6, <1>7 DEF Request

LEMMA TypeHook ==
  ASSUME TypeOK, Fits, NEW p \in Procs, NEW a \in Agents, Hook(p, a)
  PROVE  TypeOK' /\ Fits'
\* What is left to show of the hook's copy.
<1>w. ASSUME NEW r \in ProcType, Holds(r, agents), Begins(p, r), HubType', version' \subseteq version,
             UNCHANGED <<orgVars, agents>>
      PROVE  TypeOK' /\ Fits'
  BY <1>w, TypeAgents DEF TypeOK, Fits
<1>1. CASE OnConnect(p, a)
  <2> DEFINE r == IF agents[a] # None THEN [Idle EXCEPT !.op = "online", !.agent = a, !.rec = agents[a]]
                                      ELSE [Idle EXCEPT !.op = "connect", !.agent = a]
  <2>1. r \in ProcType /\ Holds(r, agents)
    BY IdleType DEF ProcType, Ops, Idle, Holds, TypeOK
  <2>2. HubType' /\ Begins(p, r) /\ UNCHANGED <<orgVars, agents, version>>
    BY <1>1, HubTyped DEF OnConnect, HubType, history
  <2> QED
    BY <2>1, <2>2, <1>w
<1>2. CASE GetVersion(p, a)
  <2> DEFINE r == [Idle EXCEPT !.op = "version", !.agent = a, !.rec = agents[a]]
  <2>1. agents[a] \in Record
    BY <1>2 DEF GetVersion, Fits, TypeOK
  <2>2. r \in ProcType /\ Holds(r, agents)
    BY <2>1, IdleType DEF ProcType, Ops, Idle, Holds
  <2>3. HubType' /\ Begins(p, r) /\ version' \subseteq version /\ UNCHANGED <<orgVars, agents>>
    BY <1>2, HubTyped DEF GetVersion, HubType, conns, history
  <2> QED
    BY <2>2, <2>3, <1>w
<1>3. CASE OnDisconnect(p, a)
  <2> DEFINE r == IF agents[a] # None THEN [Idle EXCEPT !.op = "offline", !.agent = a, !.rec = agents[a]] ELSE Idle
  <2>1. r \in ProcType /\ Holds(r, agents)
    BY IdleType DEF ProcType, Ops, Idle, Holds, TypeOK
  <2>2. HubType' /\ Begins(p, r) /\ UNCHANGED <<orgVars, agents, version>>
    BY <1>3, HubTyped DEF OnDisconnect, HubType, history
  <2> QED
    BY <2>1, <2>2, <1>w
<1> QED
  BY <1>1, <1>2, <1>3 DEF Hook

\* The steps of connections that no hook takes.
LEMMA TypeConn ==
  ASSUME TypeOK, Fits, NEW a \in Agents, PumpEnds(a) \/ WriteFails(a)
  PROVE  TypeOK' /\ Fits'
<1>1. HubType' /\ version' \subseteq version /\ UNCHANGED <<orgVars, agents, proc, overlapped>>
  BY HubTyped DEF PumpEnds, WriteFails, HubType, history
<1> QED
  BY <1>1 DEF TypeOK, Fits, HubType, orgVars

LEMMA TypeOrgStep ==
  ASSUME TypeOK, Fits, NEW p \in Procs, OrgStep(p)
  PROVE  TypeOK' /\ Fits'
<1>t. proc[p] \in ProcType /\ Holds(proc[p], agents) /\ OrgsType
  BY ProcTyped, OrgsTyped DEF Fits
<1>1. CASE CreateAdmin(p)
  <2>1. OrgsType'
    BY <1>1, <1>t, AddMemberType DEF CreateAdmin, OrgsType, Holds
  <2> QED
    BY <1>1, <2>1, IdleType, IdleHolds, TypeOrgs DEF CreateAdmin, Returns
<1>2. CASE CreateInvite(p)
  <2>1. OrgsType'
    BY <1>2, <1>t DEF CreateInvite, OrgsType, Codes
  <2> QED
    BY <1>2, <2>1, IdleType, IdleHolds, TypeOrgs DEF CreateInvite, Returns
<1>3. CASE Join(p)
  <2> DEFINE r == [Idle EXCEPT !.op = "burn", !.code = proc[p].code]
  <2>1. OrgsType'
    BY <1>3, <1>t, AddMemberType DEF Join, OrgsType, Holds
  <2>2. r \in ProcType /\ Holds(r, agents)
    BY <1>t, IdleType DEF ProcType, Ops, Idle, Holds
  <2> QED
    BY <1>3, <2>1, <2>2, IdleType, IdleHolds, TypeOrgs DEF Join, Returns
<1>4. CASE DeleteInvite(p)
  <2>1. OrgsType'
    BY <1>4, <1>t DEF DeleteInvite, OrgsType
  <2> QED
    BY <1>4, <2>1, IdleType, IdleHolds, TypeOrgs DEF DeleteInvite, Returns
<1>5. CASE EnsureFallbackOrg(p)
  <2>1. ASSUME NEW first \in orgs, Goes(p, [proc[p] EXCEPT !.op = "list", !.to = first, !.user = None]),
               UNCHANGED <<orgVars, agents, conns, version, history>>
        PROVE  TypeOK' /\ Fits'
    <3> DEFINE r == [proc[p] EXCEPT !.op = "list", !.to = first, !.user = None]
    <3>1. r \in ProcType /\ r.op = "list"
      BY <1>t DEF ProcType, Ops, OrgsType
    <3>2. Holds(r, agents)
      BY <3>1 DEF Holds
    <3> QED
      BY <2>1, <3>1, <3>2, TypeBegins
  <2>2. ASSUME CreateOrg, Goes(p, [proc[p] EXCEPT !.op = "default", !.to = nextOrg]),
               UNCHANGED <<members, invites, nextCode, agents, conns, version, history>>
        PROVE  TypeOK' /\ Fits'
    <3> DEFINE r == [proc[p] EXCEPT !.op = "default", !.to = nextOrg]
    <3>1. OrgsType' /\ nextOrg \in OrgIds
      BY <2>2, CreateOrgType
    <3>2. r \in ProcType /\ Holds(r, agents)
      BY <3>1, <1>5, <1>t DEF ProcType, Ops, Holds, EnsureFallbackOrg
    <3> QED
      BY <2>2, <3>1, <3>2, TypeOrgs
  <2> QED
    BY <1>5, <2>1, <2>2 DEF EnsureFallbackOrg, orgVars
<1>6. CASE DefaultAdmin(p)
  <2> DEFINE r == [proc[p] EXCEPT !.op = "list", !.user = None]
  <2>1. OrgsType'
    BY <1>6, <1>t, AddMemberType DEF DefaultAdmin, OrgsType, Holds
  <2>2. r \in ProcType /\ r.op = "list"
    BY <1>t DEF ProcType, Ops
  <2>3. Holds(r, agents)
    BY <2>2 DEF Holds
  <2> QED
    BY <1>6, <2>1, <2>2, <2>3, IdleType, IdleHolds, TypeOrgs DEF DefaultAdmin, Returns
<1>7. CASE ListByOrg(p)
  <2> DEFINE r == [proc[p] EXCEPT !.op = "move", !.todo = InOrg(proc[p].org)]
  <2>1. InOrg(proc[p].org) \subseteq [agent: Agents, rec: Record]
    BY DEF InOrg, TypeOK
  <2>2. r \in ProcType /\ r.op = "move"
    BY <1>t, <2>1 DEF ProcType, Ops
  <2>3. Holds(r, agents)
    BY <2>2 DEF Holds
  <2> QED
    BY <1>7, <2>2, <2>3, TypeBegins DEF ListByOrg
<1>8. ASSUME NEW c \in proc[p].todo, Reassign(p, c)
      PROVE  TypeOK' /\ Fits'
  <2> DEFINE r == [proc[p] EXCEPT !.todo = @ \ {c}]
             rec == [c.rec EXCEPT !.org = proc[p].to]
  <2>1. c.agent \in Agents /\ rec \in Record
    BY <1>t DEF ProcType, Record
  <2>2. r \in ProcType /\ Holds(r, agents')
    BY <1>8, <1>t DEF ProcType, Holds, Reassign
  <2>3. /\ agents' \in [Agents -> Record \cup {None}]
        /\ \A a \in Agents : agents[a] # None => agents'[a] # None
    BY <1>8, <2>1, UpdateKeeps DEF Reassign, WritesBack
  <2>4. HubType'
    BY <1>8, <2>1, HubTyped DEF Reassign, WritesBack, HubType, conns
  <2> QED
    BY <1>8, <2>2, <2>3, <2>4, TypeAgents DEF Reassign, WritesBack, TypeOK, Fits
<1>9. CASE DeleteOrg(p)
  <2>1. OrgsType'
    BY <1>9, <1>t DEF DeleteOrg, OrgsType
  <2> QED
    BY <1>9, <2>1, IdleType, IdleHolds, TypeOrgs DEF DeleteOrg, Returns
<1> QED
  BY <1>1, <1>2, <1>3, <1>4, <1>5, <1>6, <1>7, <1>8, <1>9 DEF OrgStep

LEMMA TypeAgentStep ==
  ASSUME TypeOK, Fits, NEW p \in Procs, AgentStep(p)
  PROVE  TypeOK' /\ Fits'
<1>t. proc[p] \in ProcType /\ Holds(proc[p], agents)
  BY ProcTyped DEF Fits
<1>v. \A a \in version : agents[a] # None
  BY DEF Fits
\* What is left to show once the record is written.
<1>w. ASSUME Goes(p, Idle), agents' \in [Agents -> Record \cup {None}],
             \A a \in Agents : agents[a] # None => agents'[a] # None,
             HubType', version' \subseteq version \cup {a \in Agents : agents[a] # None}, UNCHANGED orgVars
      PROVE  TypeOK' /\ Fits'
  <2>1. \A a \in version' : agents'[a] # None
    BY <1>w, <1>v DEF HubType
  <2> QED
    BY <1>w, <2>1, IdleType, IdleHolds, TypeAgents
<1>u. ASSUME NEW a \in Agents, NEW rec \in Record, Update(a, rec)
      PROVE  /\ agents' \in [Agents -> Record \cup {None}]
             /\ \A b \in Agents : agents[b] # None => agents'[b] # None
  BY <1>u, UpdateKeeps
<1>i. ASSUME NEW a \in Agents, NEW rec \in Record, Inserted(a, rec)
      PROVE  /\ agents' \in [Agents -> Record \cup {None}]
             /\ \A b \in Agents : agents[b] # None => agents'[b] # None
  BY <1>i, InsertedKeeps
<1>1. CASE Register(p)
  <2>1. proc[p].agent \in Agents /\ [org |-> proc[p].org, status |-> "offline", approved |-> FALSE] \in Record
    BY <1>1, <1>t DEF Register, Holds, ProcType, Record
  <2>2. HubType' /\ UNCHANGED version
    BY <1>1, <2>1, HubTyped DEF Register, HubType, conns, history
  <2> QED
    BY <1>1, <2>1, <1>i, <2>2, <1>w DEF Register, Returns
<1>2. CASE Approve(p)
  <2>1. proc[p].agent \in Agents /\ Approved(proc[p].rec) \in Record
    BY <1>2, <1>t DEF Approve, Holds, Approved, Record
  <2>2. HubType' /\ UNCHANGED version
    BY <1>2, <2>1, HubTyped DEF Approve, HubType, conns, history, WritesBack
  <2> QED
    BY <1>2, <2>1, <1>u, <2>2, <1>w DEF Approve, Returns, WritesBack
<1>3. CASE Reject(p)
  <2>1. proc[p].agent \in Agents /\ agents[proc[p].agent] \in Record
    BY <1>3, <1>t DEF Reject, Holds, TypeOK
  <2>2. agents' = [agents EXCEPT ![proc[p].agent] = [@ EXCEPT !.approved = FALSE, !.status = "rejected"]]
    BY <1>3, <2>1 DEF Reject, TypeOK
  <2>3. [agents[proc[p].agent] EXCEPT !.approved = FALSE, !.status = "rejected"] \in Record
    BY <2>1 DEF Record
  <2>4. /\ agents' \in [Agents -> Record \cup {None}]
        /\ \A b \in Agents : agents[b] # None => agents'[b] # None
    BY <2>1, <2>2, <2>3 DEF TypeOK
  <2>5. HubType' /\ UNCHANGED version
    BY <1>3, <2>1, HubTyped DEF Reject, HubType, conns, history
  <2> QED
    BY <1>3, <2>1, <2>4, <2>5, <1>w DEF Reject, Returns
<1>4. CASE SetOnline(p)
  <2>1. proc[p].agent \in Agents /\ [proc[p].rec EXCEPT !.status = "online"] \in Record
    BY <1>4, <1>t DEF SetOnline, Holds, Record
  <2>2. HubType' /\ version' = version \cup {proc[p].agent}
    BY <1>4, <2>1, HubTyped DEF SetOnline, HubType, conns, history, PumpStarts
  <2> QED
    BY <1>4, <2>1, <1>u, <2>2, <1>w, <1>t DEF Holds, SetOnline, Returns
<1>5. CASE FirstOrg(p)
  <2>1. PICK first \in (IF orgs = {} THEN {None} ELSE orgs) :
               Goes(p, [proc[p] EXCEPT !.op = "adopt", !.to = first])
    BY <1>5 DEF FirstOrg
  <2> DEFINE r == [proc[p] EXCEPT !.op = "adopt", !.to = first]
  <2>2. r \in ProcType /\ r.op = "adopt" /\ r.agent = proc[p].agent
    BY <2>1, <1>t DEF ProcType, Ops, TypeOK
  <2>3. Holds(r, agents)
    BY <1>5, <1>t, <2>2 DEF FirstOrg, Holds
  <2> QED
    BY <1>5, <2>1, <2>2, <2>3, TypeBegins DEF FirstOrg
<1>6. CASE AutoRegister(p)
  <2>1. proc[p].agent \in Agents /\ [org |-> proc[p].to, status |-> "online", approved |-> TRUE] \in Record
    BY <1>6, <1>t DEF AutoRegister, Holds, ProcType, Record
  <2>2. HubType' /\ UNCHANGED version
    BY <1>6, <2>1, HubTyped DEF AutoRegister, HubType, conns, history, PumpStarts
  <2> QED
    BY <1>6, <2>1, <1>i, <2>2, <1>w DEF AutoRegister, Returns
<1>7. CASE SetVersion(p)
  <2>1. proc[p].agent \in Agents /\ proc[p].rec \in Record
    BY <1>7, <1>t DEF SetVersion, Holds
  <2>2. HubType' /\ UNCHANGED version
    BY <1>7, <2>1, HubTyped DEF SetVersion, HubType, conns, history, WritesBack
  <2> QED
    BY <1>7, <2>1, <1>u, <2>2, <1>w DEF SetVersion, Returns, WritesBack
<1>8. CASE SetOffline(p)
  <2>1. proc[p].agent \in Agents /\ [proc[p].rec EXCEPT !.status = "offline"] \in Record
    BY <1>8, <1>t DEF SetOffline, Holds, Record
  <2>2. HubType' /\ UNCHANGED version
    BY <1>8, <2>1, HubTyped DEF SetOffline, HubType, conns, history
  <2> QED
    BY <1>8, <2>1, <1>u, <2>2, <1>w DEF SetOffline, Returns
<1> QED
  BY <1>1, <1>2, <1>3, <1>4, <1>5, <1>6, <1>7, <1>8 DEF AgentStep

\* A goroutine gives up.
LEMMA TypeFails ==
  ASSUME TypeOK, Fits, NEW p \in Procs, Fails(p), HubType'
  PROVE  TypeOK' /\ Fits'
<1>1. Goes(p, Idle) /\ UNCHANGED <<orgVars, agents>>
  BY DEF Fails, Returns
<1>2. \A a \in version' : agents[a] # None
  BY DEF Fails, Fits, Holds
<1> QED
  BY <1>1, <1>2, IdleType, IdleHolds, TypeAgents DEF TypeOK

LEMMA TypeNext == TypeOK /\ Fits /\ [Next]_vars => TypeOK' /\ Fits'
<1> SUFFICES ASSUME TypeOK, Fits, [Next]_vars PROVE TypeOK' /\ Fits'
  OBVIOUS
<1>1. ASSUME NEW p \in Procs, Fails(p)
      PROVE  TypeOK' /\ Fits'
  <2>1. CASE proc[p].op \in {"online", "connect", "adopt"}
    <3>1. proc[p].agent \in Agents
      BY <2>1 DEF Fits, Holds
    <3>2. HubType'
      BY <1>1, <2>1, <3>1, HubTyped DEF Fails, HubType, PumpStarts
    <3> QED
      BY <1>1, <3>2, TypeFails
  <2>2. CASE proc[p].op \notin {"online", "connect", "adopt"}
    <3>1. HubType'
      BY <1>1, <2>2, HubTyped DEF Fails, HubType, conns
    <3> QED
      BY <1>1, <3>1, TypeFails
  <2> QED
    BY <2>1, <2>2
<1>2. CASE Restart
  <2>1. proc' \in [Procs -> ProcType] /\ \A q \in Procs : Holds(proc'[q], agents')
    BY <1>2, IdleType, IdleHolds DEF Restart
  <2>2. agents' \in [Agents -> Record \cup {None}]
    <3>1. MarkAllOffline \/ UNCHANGED agents
      BY <1>2 DEF Restart
    <3>2. ASSUME NEW a \in Agents, agents[a] # None
          PROVE  [agents[a] EXCEPT !.status = "offline"] \in Record
      BY <3>2 DEF TypeOK, Record
    <3> QED
      BY <3>1, <3>2 DEF MarkAllOffline, TypeOK
  <2>3. HubType'
    BY <1>2, HubTyped DEF Restart, HubType
  <2>4. version' = {} /\ UNCHANGED <<orgVars, overlapped>>
    BY <1>2 DEF Restart
  <2> QED
    BY <2>1, <2>2, <2>3, <2>4 DEF TypeOK, Fits, ProcType, HubType, orgVars
<1>3. CASE UNCHANGED vars
  BY <1>3 DEF vars, orgVars, conns, history, TypeOK, Fits
<1> QED
  BY <1>1, <1>2, <1>3, TypeRequest, TypeHook, TypeConn, TypeOrgStep, TypeAgentStep DEF Next

LEMMA TypeAlways == Spec => [](TypeOK /\ Fits)
  BY TypeInit, TypeNext, PTL DEF Spec

(***************************************************************************)
(* The records, the goroutines and their copies are well typed for any     *)
(* numbers of users, agents, goroutines, organisations and invitations: no *)
(* step writes a copy it never read or a record that is not there.         *)
(***************************************************************************)
THEOREM TypeCorrect == Spec => []TypeOK
  BY TypeAlways, PTL

-----------------------------------------------------------------------------
LEMMA GhostNext == NoGhostRows /\ [Next]_vars => NoGhostRows'
<1> SUFFICES ASSUME NoGhostRows, [Next]_vars PROVE NoGhostRows'
  OBVIOUS
<1>a. ASSUME NEW o, NEW u, NEW r, AddMember(o, u, r), UNCHANGED <<orgs, invites>>
      PROVE  NoGhostRows'
  BY <1>a DEF AddMember, NoGhostRows
<1>c. ASSUME CreateOrg, UNCHANGED <<members, invites>>
      PROVE  NoGhostRows'
  BY <1>c DEF CreateOrg, NoGhostRows
<1>u. ASSUME UNCHANGED <<orgs, members, invites>>
      PROVE  NoGhostRows'
  BY <1>u DEF NoGhostRows
<1>1. ASSUME NEW p \in Procs, NEW u \in Users, Request(p, u)
      PROVE  NoGhostRows'
  BY <1>1, <1>c, <1>u DEF Request, Create, MayInvite, MayDelete, MayRegister, AcceptInvite, MayApprove, MayReject, orgVars
<1>2. ASSUME NEW p \in Procs, NEW a \in Agents, Hook(p, a)
      PROVE  NoGhostRows'
  BY <1>2, <1>u DEF Hook, OnConnect, GetVersion, OnDisconnect, orgVars
<1>3. ASSUME NEW p \in Procs, CreateInvite(p)
      PROVE  NoGhostRows'
  BY <1>3 DEF CreateInvite, NoGhostRows
<1>4. ASSUME NEW p \in Procs, DeleteInvite(p)
      PROVE  NoGhostRows'
  BY <1>4 DEF DeleteInvite, NoGhostRows
<1>5. ASSUME NEW p \in Procs, DeleteOrg(p)
      PROVE  NoGhostRows'
  BY <1>5 DEF DeleteOrg, NoGhostRows
<1>6. ASSUME NEW p \in Procs, CreateAdmin(p) \/ Join(p) \/ DefaultAdmin(p)
      PROVE  NoGhostRows'
  BY <1>6, <1>a DEF CreateAdmin, Join, DefaultAdmin
<1>7. ASSUME NEW p \in Procs, EnsureFallbackOrg(p)
      PROVE  NoGhostRows'
  BY <1>7, <1>c, <1>u DEF EnsureFallbackOrg
<1>8. ASSUME NEW p \in Procs, ListByOrg(p) \/ \E c \in proc[p].todo : Reassign(p, c)
      PROVE  NoGhostRows'
  BY <1>8, <1>u DEF ListByOrg, Reassign, orgVars
<1>9. ASSUME NEW p \in Procs, AgentStep(p) \/ Fails(p)
      PROVE  NoGhostRows'
  BY <1>9, <1>u DEF AgentStep, Register, Approve, Reject, SetOnline, FirstOrg, AutoRegister, SetVersion, SetOffline,
                    Fails, orgVars
<1>10. CASE Restart \/ UNCHANGED vars \/ \E a \in Agents : PumpEnds(a) \/ WriteFails(a)
  BY <1>10, <1>u DEF Restart, PumpEnds, WriteFails, vars, orgVars
<1> QED
  BY <1>1, <1>2, <1>3, <1>4, <1>5, <1>6, <1>7, <1>8, <1>9, <1>10 DEF Next, OrgStep

(***************************************************************************)
(* A deleted organisation leaves no member and no invitation behind and    *)
(* gets none afterwards, for any number of goroutines that overlap, fail   *)
(* or are killed: each insertion looks for the organisation in its own     *)
(* transaction (org/sqlite.go:137-173, 239-270).                           *)
(***************************************************************************)
THEOREM GhostFree == Spec => []NoGhostRows
<1>1. Init => NoGhostRows
  BY DEF Init, NoGhostRows
<1> QED
  BY <1>1, GhostNext, PTL DEF Spec

-----------------------------------------------------------------------------
\* A copy that is to be written back carries an approval only if it was granted.
CopyBacked(r, who) ==
  /\ r.op = "approve" => r.agent \in who
  /\ r.op \in {"online", "version", "offline"} /\ r.rec.approved => r.agent \in who
  /\ \A c \in r.todo : c.rec.approved => c.agent \in who

Backed ==
  /\ ApprovalWasGranted
  /\ \A p \in Procs : CopyBacked(proc[p], granted)

LEMMA IdleBacked == \A who : CopyBacked(Idle, who)
  BY DEF CopyBacked, Idle

\* Grants are never taken back: the goroutine that moves is all there is to check.
LEMMA BackedMoves ==
  ASSUME TypeOK, Backed, NEW p \in Procs, NEW r, Begins(p, r) \/ Goes(p, r),
         CopyBacked(r, granted'), granted \subseteq granted', ApprovalWasGranted'
  PROVE  Backed'
<1>1. proc'[p] = r /\ \A q \in Procs \ {p} : proc'[q] = proc[q]
  BY DEF TypeOK, Begins, Goes
<1>2. \A q \in Procs \ {p} : CopyBacked(proc'[q], granted')
  BY <1>1 DEF Backed, CopyBacked
<1> QED
  BY <1>1, <1>2 DEF Backed

\* The record of one agent is written.
LEMMA ApprovalWritten ==
  ASSUME ApprovalWasGranted, NEW a \in Agents, \A b \in Agents \ {a} : agents'[b] = agents[b],
         agents'[a] = None \/ agents'[a] = agents[a] \/ (agents'[a].approved => a \in granted'),
         granted \subseteq granted'
  PROVE  ApprovalWasGranted'
  BY DEF ApprovalWasGranted

LEMMA ApprovalKept ==
  ASSUME ApprovalWasGranted, UNCHANGED agents, granted \subseteq granted'
  PROVE  ApprovalWasGranted'
  BY DEF ApprovalWasGranted

LEMMA BackedRequest ==
  ASSUME TypeOK, Fits, Backed, NEW p \in Procs, NEW u \in Users, Request(p, u)
  PROVE  Backed'
<1>a. ApprovalWasGranted
  BY DEF Backed
<1>1. CASE Create(p, u)
  <2>1. CopyBacked([Idle EXCEPT !.op = "create", !.user = u, !.org = nextOrg], granted)
    BY DEF CopyBacked, Idle
  <2> QED
    BY <1>1, <2>1, <1>a, ApprovalKept, BackedMoves DEF Create, history
<1>2. ASSUME NEW o \in orgs, MayInvite(p, u, o)
      PROVE  Backed'
  <2>1. CopyBacked([Idle EXCEPT !.op = "invite", !.org = o], granted)
    BY DEF CopyBacked, Idle
  <2> QED
    BY <1>2, <2>1, <1>a, ApprovalKept, BackedMoves DEF MayInvite, history
<1>3. ASSUME NEW o \in orgs, MayDelete(p, u, o)
      PROVE  Backed'
  <2>1. CopyBacked([Idle EXCEPT !.op = "fallback", !.user = u, !.org = o], granted)
    BY DEF CopyBacked, Idle
  <2> QED
    BY <1>3, <2>1, <1>a, ApprovalKept, BackedMoves DEF MayDelete, history
<1>4. ASSUME NEW o \in orgs, NEW a \in Agents, MayRegister(p, u, o, a)
      PROVE  Backed'
  <2>1. CopyBacked([Idle EXCEPT !.op = "register", !.org = o, !.agent = a], granted)
    BY DEF CopyBacked, Idle
  <2> QED
    BY <1>4, <2>1, <1>a, ApprovalKept, BackedMoves DEF MayRegister, history
<1>5. ASSUME NEW i \in invites, AcceptInvite(p, u, i)
      PROVE  Backed'
  <2>1. CopyBacked([Idle EXCEPT !.op = "join", !.user = u, !.org = i.org, !.code = i.code], granted)
    BY DEF CopyBacked, Idle
  <2> QED
    BY <1>5, <2>1, <1>a, ApprovalKept, BackedMoves DEF AcceptInvite, history
<1>6. ASSUME NEW a \in Agents, MayApprove(p, u, a)
      PROVE  Backed'
  <2>1. CopyBacked([Idle EXCEPT !.op = "approve", !.agent = a, !.rec = agents[a]], granted')
    BY <1>6 DEF CopyBacked, Idle, MayApprove
  <2>2. granted \subseteq granted' /\ UNCHANGED agents
    BY <1>6 DEF MayApprove
  <2> QED
    BY <1>6, <2>1, <2>2, <1>a, ApprovalKept, BackedMoves DEF MayApprove
<1>7. ASSUME NEW a \in Agents, MayReject(p, u, a)
      PROVE  Backed'
  <2>1. CopyBacked([Idle EXCEPT !.op = "reject", !.agent = a], granted)
    BY DEF CopyBacked, Idle
  <2> QED
    BY <1>7, <2>1, <1>a, ApprovalKept, BackedMoves DEF MayReject, history
<1> QED
  BY <1>1, <1>2, <1>3, <1>4, <1>5, <1>6, <1>7 DEF Request

LEMMA BackedHook ==
  ASSUME TypeOK, Fits, Backed, NEW p \in Procs, NEW a \in Agents, Hook(p, a)
  PROVE  Backed'
<1>a. ApprovalWasGranted
  BY DEF Backed
<1>b. UNCHANGED <<agents, granted>>
  BY DEF Hook, OnConnect, GetVersion, OnDisconnect, history
<1>1. ASSUME agents[a] # None, NEW o \in {"online", "version", "offline"}
      PROVE  CopyBacked([Idle EXCEPT !.op = o, !.agent = a, !.rec = agents[a]], granted)
  BY <1>1, <1>a DEF CopyBacked, Idle, ApprovalWasGranted
<1>2. CopyBacked([Idle EXCEPT !.op = "connect", !.agent = a], granted)
  BY DEF CopyBacked, Idle
<1>3. \E r : Begins(p, r) /\ CopyBacked(r, granted)
  <2>1. CASE OnConnect(p, a)
    BY <2>1, <1>1, <1>2 DEF OnConnect
  <2>2. CASE GetVersion(p, a)
    BY <2>2, <1>1 DEF GetVersion, Fits
  <2>3. CASE OnDisconnect(p, a)
    BY <2>3, <1>1, IdleBacked DEF OnDisconnect
  <2> QED
    BY <2>1, <2>2, <2>3 DEF Hook
<1> QED
  BY <1>a, <1>b, <1>3, ApprovalKept, BackedMoves

LEMMA BackedOrgStep ==
  ASSUME TypeOK, Fits, Backed, NEW p \in Procs, OrgStep(p)
  PROVE  Backed'
<1>a. ApprovalWasGranted /\ CopyBacked(proc[p], granted) /\ proc[p] \in ProcType
  BY ProcTyped DEF Backed
<1>b. UNCHANGED granted
  BY DEF OrgStep, CreateAdmin, CreateInvite, Join, DeleteInvite, EnsureFallbackOrg, DefaultAdmin, ListByOrg, Reassign,
         DeleteOrg, history
<1>i. ASSUME Returns(p), UNCHANGED agents
      PROVE  Backed'
  BY <1>i, <1>a, <1>b, IdleBacked, ApprovalKept, BackedMoves DEF Returns
<1>1. CASE CreateAdmin(p) \/ CreateInvite(p) \/ DeleteInvite(p) \/ DeleteOrg(p)
  BY <1>1, <1>i DEF CreateAdmin, CreateInvite, DeleteInvite, DeleteOrg
<1>2. CASE Join(p)
  <2>1. CopyBacked([Idle EXCEPT !.op = "burn", !.code = proc[p].code], granted)
    BY DEF CopyBacked, Idle
  <2> QED
    BY <1>2, <2>1, <1>i, <1>a, <1>b, ApprovalKept, BackedMoves DEF Join
<1>3. CASE EnsureFallbackOrg(p)
  <2>1. ASSUME NEW first PROVE CopyBacked([proc[p] EXCEPT !.op = "list", !.to = first, !.user = None], granted)
    <3> DEFINE r == [proc[p] EXCEPT !.op = "list", !.to = first, !.user = None]
    <3>1. r.op = "list" /\ r.todo = proc[p].todo
      BY <1>a DEF ProcType
    <3> QED
      BY <3>1, <1>a DEF CopyBacked
  <2>2. CopyBacked([proc[p] EXCEPT !.op = "default", !.to = nextOrg], granted)
    <3> DEFINE r == [proc[p] EXCEPT !.op = "default", !.to = nextOrg]
    <3>1. r.op = "default" /\ r.todo = proc[p].todo
      BY <1>a DEF ProcType
    <3> QED
      BY <3>1, <1>a DEF CopyBacked
  <2>3. \E r : Goes(p, r) /\ CopyBacked(r, granted)
    BY <1>3, <2>1, <2>2 DEF EnsureFallbackOrg
  <2> QED
    BY <1>3, <2>3, <1>a, <1>b, ApprovalKept, BackedMoves DEF EnsureFallbackOrg
<1>4. CASE DefaultAdmin(p)
  <2> DEFINE r == [proc[p] EXCEPT !.op = "list", !.user = None]
  <2>1. r.op = "list" /\ r.todo = proc[p].todo
    BY <1>a DEF ProcType
  <2>2. CopyBacked(r, granted)
    BY <2>1, <1>a DEF CopyBacked
  <2> QED
    BY <1>4, <2>2, <1>i, <1>a, <1>b, ApprovalKept, BackedMoves DEF DefaultAdmin
<1>5. CASE ListByOrg(p)
  <2> DEFINE r == [proc[p] EXCEPT !.op = "move", !.todo = InOrg(proc[p].org)]
  <2>1. \A c \in InOrg(proc[p].org) : c.rec.approved => c.agent \in granted
    BY <1>a DEF InOrg, ApprovalWasGranted
  <2>2. r.op = "move" /\ r.todo = InOrg(proc[p].org)
    BY <1>a DEF ProcType
  <2>3. CopyBacked(r, granted)
    BY <2>1, <2>2 DEF CopyBacked
  <2> QED
    BY <1>5, <2>3, <1>a, <1>b, ApprovalKept, BackedMoves DEF ListByOrg
<1>6. ASSUME NEW c \in proc[p].todo, Reassign(p, c)
      PROVE  Backed'
  <2> DEFINE r == [proc[p] EXCEPT !.todo = @ \ {c}]
             rec == [c.rec EXCEPT !.org = proc[p].to]
  <2>1. c.agent \in Agents /\ rec \in Record /\ rec.approved = c.rec.approved
    BY <1>a DEF ProcType, Record
  <2>2. r.op = "move" /\ r.todo \subseteq proc[p].todo
    BY <1>6, <1>a DEF ProcType, Reassign
  <2>3. CopyBacked(r, granted)
    BY <2>2, <1>a DEF CopyBacked
  <2>4. c.rec.approved => c.agent \in granted
    BY <1>a DEF CopyBacked
  <2>5. /\ agents'[c.agent] = IF agents[c.agent] = None THEN None ELSE rec
        /\ \A b \in Agents \ {c.agent} : agents'[b] = agents[b]
    BY <1>6, <2>1, UpdateKeeps DEF Reassign, WritesBack
  <2>6. ApprovalWasGranted'
    BY <2>1, <2>4, <2>5, <1>a, <1>b, ApprovalWritten
  <2> QED
    BY <1>6, <2>3, <2>6, <1>b, BackedMoves DEF Reassign
<1> QED
  BY <1>1, <1>2, <1>3, <1>4, <1>5, <1>6 DEF OrgStep

LEMMA BackedAgentStep ==
  ASSUME TypeOK, Fits, Backed, NEW p \in Procs, AgentStep(p)
  PROVE  Backed'
<1>a. ApprovalWasGranted /\ CopyBacked(proc[p], granted) /\ proc[p] \in ProcType /\ Holds(proc[p], agents)
  BY ProcTyped DEF Backed, Fits
<1>i. ASSUME Returns(p), ApprovalWasGranted', granted \subseteq granted'
      PROVE  Backed'
  BY <1>i, IdleBacked, BackedMoves DEF Returns
<1>u. ASSUME NEW a \in Agents, NEW rec \in Record, Update(a, rec), rec.approved => a \in granted, UNCHANGED granted
      PROVE  ApprovalWasGranted'
  BY <1>u, <1>a, UpdateKeeps, ApprovalWritten
<1>1. CASE Register(p)
  <2> DEFINE rec == [org |-> proc[p].org, status |-> "offline", approved |-> FALSE]
  <2>1. proc[p].agent \in Agents /\ rec \in Record /\ rec.approved = FALSE
    BY <1>1, <1>a DEF Register, Holds, ProcType, Record
  <2>2. /\ agents'[proc[p].agent] = IF agents[proc[p].agent] = None THEN rec ELSE agents[proc[p].agent]
        /\ \A b \in Agents \ {proc[p].agent} : agents'[b] = agents[b]
    BY <1>1, <2>1, InsertedKeeps DEF Register
  <2>3. ApprovalWasGranted'
    BY <1>1, <2>1, <2>2, <1>a, ApprovalWritten DEF Register, history
  <2> QED
    BY <1>1, <2>3, <1>i DEF Register, history
<1>2. CASE Approve(p)
  <2>1. proc[p].agent \in Agents /\ Approved(proc[p].rec) \in Record /\ proc[p].agent \in granted
    BY <1>2, <1>a DEF Approve, Holds, Approved, Record, CopyBacked
  <2> QED
    BY <1>2, <2>1, <1>u, <1>i DEF Approve, WritesBack
<1>3. CASE Reject(p)
  <2>1. proc[p].agent \in Agents /\ agents[proc[p].agent] \in Record
    BY <1>3, <1>a DEF Reject, Holds, TypeOK
  <2>2. agents' = [agents EXCEPT ![proc[p].agent] = [@ EXCEPT !.approved = FALSE, !.status = "rejected"]]
    BY <1>3, <2>1 DEF Reject, TypeOK
  <2>3. /\ agents'[proc[p].agent].approved = FALSE
        /\ \A b \in Agents \ {proc[p].agent} : agents'[b] = agents[b]
    BY <2>1, <2>2 DEF TypeOK, Record
  <2>4. ApprovalWasGranted'
    BY <1>3, <2>1, <2>3, <1>a, ApprovalWritten DEF Reject
  <2> QED
    BY <1>3, <2>4, <1>i DEF Reject
<1>4. CASE SetOnline(p)
  <2> DEFINE rec == [proc[p].rec EXCEPT !.status = "online"]
  <2>1. proc[p].agent \in Agents /\ rec \in Record /\ rec.approved = proc[p].rec.approved
    BY <1>4, <1>a DEF SetOnline, Holds, Record
  <2>2. rec.approved => proc[p].agent \in granted
    BY <1>4, <2>1, <1>a DEF CopyBacked, SetOnline
  <2> QED
    BY <1>4, <2>1, <2>2, <1>u, <1>i DEF SetOnline, history
<1>5. CASE FirstOrg(p)
  <2>1. PICK first : Goes(p, [proc[p] EXCEPT !.op = "adopt", !.to = first])
    BY <1>5 DEF FirstOrg
  <2> DEFINE r == [proc[p] EXCEPT !.op = "adopt", !.to = first]
  <2>2. r.op = "adopt" /\ r.todo = proc[p].todo
    BY <1>a DEF ProcType
  <2>3. CopyBacked(r, granted)
    BY <2>2, <1>a DEF CopyBacked
  <2>4. UNCHANGED <<agents, granted>>
    BY <1>5 DEF FirstOrg, history
  <2> QED
    BY <2>1, <2>3, <2>4, <1>a, ApprovalKept, BackedMoves
<1>6. CASE AutoRegister(p)
  <2> DEFINE rec == [org |-> proc[p].to, status |-> "online", approved |-> TRUE]
  <2>1. proc[p].agent \in Agents /\ rec \in Record
    BY <1>6, <1>a DEF AutoRegister, Holds, ProcType, Record
  <2>2. /\ agents'[proc[p].agent] = IF agents[proc[p].agent] = None THEN rec ELSE agents[proc[p].agent]
        /\ \A b \in Agents \ {proc[p].agent} : agents'[b] = agents[b]
    BY <1>6, <2>1, InsertedKeeps DEF AutoRegister
  <2>3. proc[p].agent \in granted' /\ granted \subseteq granted'
    BY <1>6 DEF AutoRegister
  <2>4. ApprovalWasGranted'
    BY <2>1, <2>2, <2>3, <1>a, ApprovalWritten
  <2> QED
    BY <1>6, <2>3, <2>4, <1>i DEF AutoRegister
<1>7. CASE SetVersion(p)
  <2>1. proc[p].agent \in Agents /\ proc[p].rec \in Record
    BY <1>7, <1>a DEF SetVersion, Holds
  <2>2. proc[p].rec.approved => proc[p].agent \in granted
    BY <1>7, <1>a DEF CopyBacked, SetVersion
  <2> QED
    BY <1>7, <2>1, <2>2, <1>u, <1>i DEF SetVersion, WritesBack
<1>8. CASE SetOffline(p)
  <2> DEFINE rec == [proc[p].rec EXCEPT !.status = "offline"]
  <2>1. proc[p].agent \in Agents /\ rec \in Record /\ rec.approved = proc[p].rec.approved
    BY <1>8, <1>a DEF SetOffline, Holds, Record
  <2>2. rec.approved => proc[p].agent \in granted
    BY <1>8, <2>1, <1>a DEF CopyBacked, SetOffline
  <2> QED
    BY <1>8, <2>1, <2>2, <1>u, <1>i DEF SetOffline, history
<1> QED
  BY <1>1, <1>2, <1>3, <1>4, <1>5, <1>6, <1>7, <1>8 DEF AgentStep

LEMMA BackedNext == TypeOK /\ Fits /\ Backed /\ [Next]_vars => Backed'
<1> SUFFICES ASSUME TypeOK, Fits, Backed, [Next]_vars PROVE Backed'
  OBVIOUS
<1>1. ASSUME NEW p \in Procs, Fails(p)
      PROVE  Backed'
  <2>1. \A q \in Procs : proc'[q] = Idle \/ proc'[q] = proc[q]
    BY <1>1 DEF Fails, Returns, Goes, TypeOK
  <2> QED
    BY <1>1, <2>1, IdleBacked DEF Fails, Backed, ApprovalWasGranted, history
<1>2. CASE Restart
  <2>1. \A p \in Procs : proc'[p] = Idle
    BY <1>2 DEF Restart
  <2>2. \A a \in Agents : agents'[a] # None => agents[a] # None /\ agents'[a].approved = agents[a].approved
    BY <1>2 DEF Restart, MarkAllOffline, TypeOK, Record
  <2> QED
    BY <1>2, <2>1, <2>2, IdleBacked DEF Restart, Backed, ApprovalWasGranted, history
<1>3. CASE UNCHANGED vars \/ \E a \in Agents : PumpEnds(a) \/ WriteFails(a)
  <2>1. UNCHANGED <<agents, proc, granted>>
    BY <1>3 DEF vars, history, PumpEnds, WriteFails
  <2> QED
    BY <2>1 DEF Backed, ApprovalWasGranted
<1> QED
  BY <1>1, <1>2, <1>3, BackedRequest, BackedHook, BackedOrgStep, BackedAgentStep DEF Next

(***************************************************************************)
(* No agent is ever approved that an admin of its organisation did not     *)
(* approve and the hook did not register, for any number of goroutines     *)
(* that write back copies they read earlier (agent/handler.go:225-277,     *)
(* server.go:127-182).                                                     *)
(***************************************************************************)
THEOREM ApprovalSound == Spec => []ApprovalWasGranted
<1>1. Init => Backed
  BY IdleBacked DEF Init, Backed, ApprovalWasGranted
<1>2. Backed => ApprovalWasGranted
  BY DEF Backed
<1> QED
  BY <1>1, <1>2, BackedNext, TypeAlways, PTL DEF Spec

-----------------------------------------------------------------------------
\* While handlers do not overlap, copies are still what is stored, organisations
\* that a goroutine relies on exist, and those to be deleted are being emptied.
Good(r, recs, os) ==
  /\ r.op \in {"approve", "online", "version", "offline"} => r.rec = recs[r.agent]
  /\ \A c \in r.todo : c.rec = recs[c.agent]
  /\ r.op \in {"register", "fallback", "default", "list", "move"} => r.org \in os
  /\ r.op \in {"default", "list", "move"} => r.to \in os /\ r.to # r.org
  /\ r.op = "adopt" => r.to \in os \cup {None}
  /\ r.op = "move" => \A a \in Agents : recs[a] # None /\ recs[a].org = r.org => \E c \in r.todo : c.agent = a

Kept(recs, os, rej) ==
  /\ \A a \in rej : recs[a] # None /\ ~recs[a].approved
  /\ \A a \in Agents : recs[a] # None => recs[a].org \in os \cup {None}

Alone ==
  ~overlapped =>
    /\ \A p, q \in Procs : p # q => proc[p] = Idle \/ proc[q] = Idle
    /\ \A p \in Procs : Good(proc[p], agents, orgs)
    /\ Kept(agents, orgs, rejected)

LEMMA GoodIdle == \A recs, os : Good(Idle, recs, os)
  BY DEF Good, Idle

\* The others are idle, before and after: the goroutine that moves is all there is to check.
LEMMA AloneMoves ==
  ASSUME TypeOK, Alone, NEW p \in Procs, NEW r, Begins(p, r) \/ (Goes(p, r) /\ proc[p].op # "idle"),
         ~overlapped => Good(r, agents', orgs') /\ Kept(agents', orgs', rejected')
  PROVE  Alone'
<1> SUFFICES ASSUME ~overlapped'
             PROVE  Alone'
  BY DEF Alone
<1>1. ~overlapped
  BY DEF Begins, Goes
<1>2. proc'[p] = r /\ \A q \in Procs \ {p} : proc'[q] = proc[q]
  BY DEF TypeOK, Begins, Goes
<1>3. \A q \in Procs \ {p} : proc[q] = Idle
  <2>1. CASE Begins(p, r)
    BY <2>1 DEF Begins
  <2>2. CASE Goes(p, r) /\ proc[p].op # "idle"
    <3>1. proc[p] # Idle
      BY <2>2 DEF Idle
    <3> QED
      BY <3>1, <1>1 DEF Alone
  <2> QED
    BY <2>1, <2>2
<1>4. \A q \in Procs : Good(proc'[q], agents', orgs')
  BY <1>1, <1>2, <1>3, GoodIdle
<1>5. \A q, s \in Procs : q # s => proc'[q] = Idle \/ proc'[s] = Idle
  BY <1>2, <1>3
<1> QED
  BY <1>1, <1>4, <1>5 DEF Alone

LEMMA AloneRequest ==
  ASSUME TypeOK, Fits, Alone, NEW p \in Procs, NEW u \in Users, Request(p, u)
  PROVE  Alone'
<1>k. ~overlapped => Kept(agents, orgs, rejected)
  BY DEF Alone
<1>1. CASE Create(p, u)
  <2>1. Good([Idle EXCEPT !.op = "create", !.user = u, !.org = nextOrg], agents', orgs')
    BY DEF Good, Idle
  <2>2. ~overlapped => Kept(agents', orgs', rejected')
    BY <1>1, <1>k DEF Create, CreateOrg, Kept, history
  <2> QED
    BY <1>1, <2>1, <2>2, AloneMoves DEF Create
<1>2. ASSUME NEW o \in orgs, MayInvite(p, u, o)
      PROVE  Alone'
  <2>1. Good([Idle EXCEPT !.op = "invite", !.org = o], agents, orgs)
    BY DEF Good, Idle
  <2> QED
    BY <1>2, <2>1, <1>k, AloneMoves DEF MayInvite, orgVars, history
<1>3. ASSUME NEW o \in orgs, MayDelete(p, u, o)
      PROVE  Alone'
  <2>1. Good([Idle EXCEPT !.op = "fallback", !.user = u, !.org = o], agents, orgs)
    BY DEF Good, Idle
  <2> QED
    BY <1>3, <2>1, <1>k, AloneMoves DEF MayDelete, orgVars, history
<1>4. ASSUME NEW o \in orgs, NEW a \in Agents, MayRegister(p, u, o, a)
      PROVE  Alone'
  <2>1. Good([Idle EXCEPT !.op = "register", !.org = o, !.agent = a], agents, orgs)
    BY DEF Good, Idle
  <2> QED
    BY <1>4, <2>1, <1>k, AloneMoves DEF MayRegister, orgVars, history
<1>5. ASSUME NEW i \in invites, AcceptInvite(p, u, i)
      PROVE  Alone'
  <2>1. Good([Idle EXCEPT !.op = "join", !.user = u, !.org = i.org, !.code = i.code], agents, orgs)
    BY DEF Good, Idle
  <2> QED
    BY <1>5, <2>1, <1>k, AloneMoves DEF AcceptInvite, orgVars, history
<1>6. ASSUME NEW a \in Agents, MayApprove(p, u, a)
      PROVE  Alone'
  <2>1. Good([Idle EXCEPT !.op = "approve", !.agent = a, !.rec = agents[a]], agents, orgs)
    BY DEF Good, Idle
  <2> QED
    BY <1>6, <2>1, <1>k, AloneMoves DEF MayApprove, orgVars
<1>7. ASSUME NEW a \in Agents, MayReject(p, u, a)
      PROVE  Alone'
  <2>1. Good([Idle EXCEPT !.op = "reject", !.agent = a], agents, orgs)
    BY DEF Good, Idle
  <2> QED
    BY <1>7, <2>1, <1>k, AloneMoves DEF MayReject, orgVars, history
<1> QED
  BY <1>1, <1>2, <1>3, <1>4, <1>5, <1>6, <1>7 DEF Request

LEMMA AloneHook ==
  ASSUME TypeOK, Fits, Alone, NEW p \in Procs, NEW a \in Agents, Hook(p, a)
  PROVE  Alone'
<1>k. ~overlapped => Kept(agents, orgs, rejected)
  BY DEF Alone
<1>b. UNCHANGED <<agents, orgs, rejected>>
  BY DEF Hook, OnConnect, GetVersion, OnDisconnect, history, orgVars
<1>1. ASSUME NEW o \in {"online", "version", "offline"}
      PROVE  Good([Idle EXCEPT !.op = o, !.agent = a, !.rec = agents[a]], agents, orgs)
  BY <1>1 DEF Good, Idle
<1>2. Good([Idle EXCEPT !.op = "connect", !.agent = a], agents, orgs)
  BY DEF Good, Idle
<1>3. \E r : Begins(p, r) /\ Good(r, agents, orgs)
  <2>1. CASE OnConnect(p, a)
    BY <2>1, <1>1, <1>2 DEF OnConnect
  <2>2. CASE GetVersion(p, a)
    BY <2>2, <1>1 DEF GetVersion
  <2>3. CASE OnDisconnect(p, a)
    BY <2>3, <1>1, GoodIdle DEF OnDisconnect
  <2> QED
    BY <2>1, <2>2, <2>3 DEF Hook
<1> QED
  BY <1>k, <1>b, <1>3, AloneMoves

LEMMA AloneOrgStep ==
  ASSUME TypeOK, Fits, Alone, NEW p \in Procs, OrgStep(p)
  PROVE  Alone'
<1>t. proc[p] \in ProcType
  BY ProcTyped
<1>k. ~overlapped => Good(proc[p], agents, orgs) /\ Kept(agents, orgs, rejected)
  BY DEF Alone
<1>b. UNCHANGED rejected
  BY DEF OrgStep, CreateAdmin, CreateInvite, Join, DeleteInvite, EnsureFallbackOrg, DefaultAdmin, ListByOrg, Reassign,
         DeleteOrg, history
<1>i. ASSUME Returns(p), proc[p].op # "idle", UNCHANGED <<agents, orgs>>
      PROVE  Alone'
  BY <1>i, <1>b, <1>k, GoodIdle, AloneMoves DEF Returns
<1>1. CASE CreateAdmin(p) \/ CreateInvite(p) \/ DeleteInvite(p)
  BY <1>1, <1>i DEF CreateAdmin, CreateInvite, DeleteInvite
<1>2. CASE Join(p)
  <2>1. Good([Idle EXCEPT !.op = "burn", !.code = proc[p].code], agents, orgs)
    BY DEF Good, Idle
  <2> QED
    BY <1>2, <2>1, <1>i, <1>k, <1>b, AloneMoves DEF Join
<1>3. CASE EnsureFallbackOrg(p)
  <2>1. ASSUME NEW first \in orgs \ {proc[p].org}, UNCHANGED <<agents, orgs>>,
               Goes(p, [proc[p] EXCEPT !.op = "list", !.to = first, !.user = None])
        PROVE  Alone'
    <3> DEFINE r == [proc[p] EXCEPT !.op = "list", !.to = first, !.user = None]
    <3>1. r.op = "list" /\ r.todo = proc[p].todo /\ r.to = first /\ r.org = proc[p].org
      BY <1>t DEF ProcType
    <3>2. ~overlapped => Good(r, agents, orgs)
      BY <1>3, <3>1, <1>k DEF Good, EnsureFallbackOrg
    <3> QED
      BY <1>3, <2>1, <3>2, <1>b, <1>k, AloneMoves DEF EnsureFallbackOrg
  <2>2. ASSUME CreateOrg, UNCHANGED agents, Goes(p, [proc[p] EXCEPT !.op = "default", !.to = nextOrg])
        PROVE  Alone'
    <3> DEFINE r == [proc[p] EXCEPT !.op = "default", !.to = nextOrg]
    <3>1. r.op = "default" /\ r.todo = proc[p].todo /\ r.to = nextOrg /\ r.org = proc[p].org
      BY <1>t DEF ProcType
    <3>2. nextOrg \notin orgs
      BY DEF TypeOK, Fits
    <3>3. ~overlapped => Good(r, agents', orgs')
      BY <1>3, <2>2, <3>1, <3>2, <1>k DEF Good, EnsureFallbackOrg, CreateOrg
    <3>4. ~overlapped => Kept(agents', orgs', rejected')
      BY <2>2, <1>b, <1>k DEF Kept, CreateOrg
    <3> QED
      BY <1>3, <2>2, <3>3, <3>4, AloneMoves DEF EnsureFallbackOrg
  <2> QED
    BY <1>3, <2>1, <2>2 DEF EnsureFallbackOrg
<1>4. CASE DefaultAdmin(p)
  <2> DEFINE r == [proc[p] EXCEPT !.op = "list", !.user = None]
  <2>1. r.op = "list" /\ r.todo = proc[p].todo /\ r.to = proc[p].to /\ r.org = proc[p].org
    BY <1>t DEF ProcType
  <2>2. ~overlapped => Good(r, agents, orgs)
    BY <1>4, <2>1, <1>k DEF Good, DefaultAdmin
  <2> QED
    BY <1>4, <2>2, <1>i, <1>k, <1>b, AloneMoves DEF DefaultAdmin
<1>5. CASE ListByOrg(p)
  <2> DEFINE r == [proc[p] EXCEPT !.op = "move", !.todo = InOrg(proc[p].org)]
  <2>1. r.op = "move" /\ r.todo = InOrg(proc[p].org) /\ r.to = proc[p].to /\ r.org = proc[p].org
    BY <1>t DEF ProcType
  <2>2. \A c \in InOrg(proc[p].org) : c.rec = agents[c.agent]
    BY DEF InOrg
  <2>3. \A a \in Agents : agents[a] # None /\ agents[a].org = proc[p].org
                            => \E c \in InOrg(proc[p].org) : c.agent = a
    <3> SUFFICES ASSUME NEW a \in Agents, agents[a] # None, agents[a].org = proc[p].org
                 PROVE  \E c \in InOrg(proc[p].org) : c.agent = a
      OBVIOUS
    <3>1. [agent |-> a, rec |-> agents[a]] \in InOrg(proc[p].org)
      BY DEF InOrg
    <3> QED
      BY <3>1
  <2>4. ~overlapped => Good(r, agents, orgs)
    BY <1>5, <2>1, <2>2, <2>3, <1>k DEF Good, ListByOrg
  <2> QED
    BY <1>5, <2>4, <1>k, <1>b, AloneMoves DEF ListByOrg, orgVars
<1>6. ASSUME NEW c \in proc[p].todo, Reassign(p, c)
      PROVE  Alone'
  <2> DEFINE r == [proc[p] EXCEPT !.todo = @ \ {c}]
             rec == [c.rec EXCEPT !.org = proc[p].to]
  <2>1. c.agent \in Agents /\ rec \in Record /\ rec.approved = c.rec.approved /\ rec.org = proc[p].to
    BY <1>t DEF ProcType, Record
  <2>2. r.op = "move" /\ r.todo = proc[p].todo \ {c} /\ r.to = proc[p].to /\ r.org = proc[p].org
    BY <1>6, <1>t DEF ProcType, Reassign
  <2>3. /\ agents'[c.agent] = IF agents[c.agent] = None THEN None ELSE rec
        /\ \A b \in Agents \ {c.agent} : agents'[b] = agents[b]
    BY <1>6, <2>1, UpdateKeeps DEF Reassign, WritesBack
  <2>4. UNCHANGED orgs
    BY <1>6 DEF Reassign, orgVars
  <2>5. ASSUME ~overlapped
        PROVE  Good(r, agents', orgs') /\ Kept(agents', orgs', rejected')
    <3>1. Good(proc[p], agents, orgs) /\ Kept(agents, orgs, rejected) /\ proc[p].op = "move"
      BY <2>5, <1>6, <1>k DEF Reassign
    <3>2. c.rec = agents[c.agent] /\ proc[p].to \in orgs /\ proc[p].to # proc[p].org
      BY <3>1 DEF Good
    <3>3. \A d \in proc[p].todo \ {c} : d.agent \in Agents /\ d.agent # c.agent /\ d.rec = agents[d.agent]
      BY <3>1, <3>2, <1>t DEF Good, ProcType
    <3>4. \A d \in r.todo : d.rec = agents'[d.agent]
      BY <3>3, <2>2, <2>3
    <3>5. \A a \in Agents : agents'[a] # None /\ agents'[a].org = r.org => \E d \in r.todo : d.agent = a
      <4> SUFFICES ASSUME NEW a \in Agents, agents'[a] # None, agents'[a].org = r.org
                   PROVE  \E d \in r.todo : d.agent = a
        OBVIOUS
      <4>1. a # c.agent /\ agents[a] # None /\ agents[a].org = proc[p].org
        BY <3>2, <2>1, <2>2, <2>3
      <4>2. PICK d \in proc[p].todo : d.agent = a
        BY <4>1, <3>1 DEF Good
      <4> QED
        BY <4>1, <4>2, <2>2
    <3>6. Good(r, agents', orgs')
      BY <3>1, <3>2, <3>4, <3>5, <2>2, <2>4 DEF Good
    <3>7. Kept(agents', orgs', rejected')
      <4>1. \A a \in rejected : agents'[a] # None /\ ~agents'[a].approved
        BY <3>1, <3>2, <2>1, <2>3 DEF Kept, TypeOK
      <4>2. \A a \in Agents : agents'[a] # None => agents'[a].org \in orgs \cup {None}
        BY <3>1, <3>2, <2>1, <2>3 DEF Kept
      <4> QED
        BY <4>1, <4>2, <2>4, <1>b DEF Kept
    <3> QED
      BY <3>6, <3>7
  <2> QED
    BY <1>6, <2>5, AloneMoves DEF Reassign
<1>7. CASE DeleteOrg(p)
  <2>1. ~overlapped => Kept(agents', orgs', rejected')
    BY <1>7, <1>k, <1>b DEF DeleteOrg, Good, Kept
  <2> QED
    BY <1>7, <2>1, GoodIdle, AloneMoves DEF DeleteOrg, Returns
<1> QED
  BY <1>1, <1>2, <1>3, <1>4, <1>5, <1>6, <1>7 DEF OrgStep

LEMMA AloneAgentStep ==
  ASSUME TypeOK, Fits, Alone, NEW p \in Procs, AgentStep(p)
  PROVE  Alone'
<1>t. proc[p] \in ProcType /\ Holds(proc[p], agents)
  BY ProcTyped DEF Fits
<1>k. ~overlapped => Good(proc[p], agents, orgs) /\ Kept(agents, orgs, rejected)
  BY DEF Alone
<1>j. rejected \subseteq Agents
  BY DEF TypeOK
<1>i. ASSUME Returns(p), proc[p].op # "idle", ~overlapped => Kept(agents', orgs', rejected')
      PROVE  Alone'
  BY <1>i, GoodIdle, AloneMoves DEF Returns
\* A copy is written back with another status.
<1>u. ASSUME ~overlapped, proc[p].op \in {"online", "version", "offline"},
             NEW rec \in Record, Update(proc[p].agent, rec),
             rec.org = proc[p].rec.org, rec.approved = proc[p].rec.approved, UNCHANGED <<orgs, rejected>>
      PROVE  Kept(agents', orgs', rejected')
  <2> DEFINE a == proc[p].agent
  <2>1. a \in Agents /\ rec.org = agents[a].org /\ rec.approved = agents[a].approved /\ Kept(agents, orgs, rejected)
    BY <1>u, <1>t, <1>k DEF Holds, Good
  <2>2. /\ agents'[a] = IF agents[a] = None THEN None ELSE rec
        /\ \A b \in Agents \ {a} : agents'[b] = agents[b]
    BY <1>u, <2>1, UpdateKeeps
  <2>3. \A b \in rejected : agents'[b] # None /\ ~agents'[b].approved
    BY <2>1, <2>2, <1>j DEF Kept
  <2>4. \A b \in Agents : agents'[b] # None => agents'[b].org \in orgs \cup {None}
    BY <2>1, <2>2 DEF Kept
  <2> QED
    BY <1>u, <2>3, <2>4 DEF Kept
\* A record is inserted, if there is none.
<1>n. ASSUME ~overlapped, NEW a \in Agents, NEW rec \in Record, Inserted(a, rec),
             rec.org \in orgs \cup {None}, UNCHANGED <<orgs, rejected>>
      PROVE  Kept(agents', orgs', rejected')
  <2>1. /\ agents'[a] = IF agents[a] = None THEN rec ELSE agents[a]
        /\ \A b \in Agents \ {a} : agents'[b] = agents[b]
    BY <1>n, InsertedKeeps
  <2>2. \A b \in rejected : agents'[b] # None /\ ~agents'[b].approved
    BY <1>n, <2>1, <1>j, <1>k DEF Kept
  <2>3. \A b \in Agents : agents'[b] # None => agents'[b].org \in orgs \cup {None}
    BY <1>n, <2>1, <1>k DEF Kept
  <2> QED
    BY <1>n, <2>2, <2>3 DEF Kept
<1>1. CASE Register(p)
  <2> DEFINE rec == [org |-> proc[p].org, status |-> "offline", approved |-> FALSE]
  <2>1. proc[p].agent \in Agents /\ rec \in Record /\ rec.org = proc[p].org
    BY <1>1, <1>t DEF Register, Holds, ProcType, Record
  <2>2. ~overlapped => rec.org \in orgs
    BY <1>1, <2>1, <1>k DEF Register, Good
  <2>3. ~overlapped => Kept(agents', orgs', rejected')
    BY <1>1, <2>1, <2>2, <1>n DEF Register, orgVars, history
  <2> QED
    BY <1>1, <2>3, <1>i DEF Register
<1>2. CASE Approve(p)
  <2> DEFINE a == proc[p].agent
             rec == Approved(proc[p].rec)
  <2>1. a \in Agents /\ rec \in Record /\ rec.org = proc[p].rec.org
    BY <1>2, <1>t DEF Approve, Holds, Approved, Record
  <2>2. /\ agents'[a] = IF agents[a] = None THEN None ELSE rec
        /\ \A b \in Agents \ {a} : agents'[b] = agents[b]
    BY <1>2, <2>1, UpdateKeeps DEF Approve, WritesBack
  <2>3. ASSUME ~overlapped
        PROVE  Kept(agents', orgs', rejected')
    <3>1. proc[p].rec = agents[a] /\ Kept(agents, orgs, rejected)
      BY <1>2, <2>3, <1>k DEF Approve, Good
    <3>2. \A b \in rejected \ {a} : agents'[b] # None /\ ~agents'[b].approved
      BY <3>1, <2>2, <1>j DEF Kept
    <3>3. \A b \in Agents : agents'[b] # None => agents'[b].org \in orgs \cup {None}
      BY <3>1, <2>1, <2>2 DEF Kept
    <3> QED
      BY <1>2, <3>2, <3>3 DEF Kept, Approve, orgVars
  <2> QED
    BY <1>2, <2>3, <1>i DEF Approve
<1>3. CASE Reject(p)
  <2> DEFINE a == proc[p].agent
  <2>1. a \in Agents /\ agents[a] \in Record
    BY <1>3, <1>t DEF Reject, Holds, TypeOK
  <2>2. agents' = [agents EXCEPT ![a] = [@ EXCEPT !.approved = FALSE, !.status = "rejected"]]
    BY <1>3, <2>1 DEF Reject, TypeOK
  <2>3. [agents[a] EXCEPT !.approved = FALSE, !.status = "rejected"] \in Record
    BY <2>1 DEF Record
  <2>4. /\ agents'[a] # None /\ agents'[a].approved = FALSE /\ agents'[a].org = agents[a].org
        /\ \A b \in Agents \ {a} : agents'[b] = agents[b]
    BY <2>1, <2>2, <2>3 DEF TypeOK, Record
  <2>5. ASSUME ~overlapped
        PROVE  Kept(agents', orgs', rejected')
    <3>1. \A b \in rejected \cup {a} : agents'[b] # None /\ ~agents'[b].approved
      BY <2>5, <2>4, <1>j, <1>k DEF Kept
    <3>2. \A b \in Agents : agents'[b] # None => agents'[b].org \in orgs \cup {None}
      BY <2>5, <2>1, <2>4, <1>k DEF Kept
    <3> QED
      BY <1>3, <3>1, <3>2 DEF Kept, Reject, orgVars
  <2> QED
    BY <1>3, <2>5, <1>i DEF Reject
<1>4. CASE SetOnline(p)
  <2> DEFINE rec == [proc[p].rec EXCEPT !.status = "online"]
  <2>1. rec \in Record /\ rec.org = proc[p].rec.org /\ rec.approved = proc[p].rec.approved
    BY <1>4, <1>t DEF SetOnline, Holds, Record
  <2>2. ~overlapped => Kept(agents', orgs', rejected')
    BY <1>4, <2>1, <1>u DEF SetOnline, orgVars, history
  <2> QED
    BY <1>4, <2>2, <1>i DEF SetOnline
<1>5. CASE FirstOrg(p)
  <2>1. PICK first \in (IF orgs = {} THEN {None} ELSE orgs) :
               Goes(p, [proc[p] EXCEPT !.op = "adopt", !.to = first])
    BY <1>5 DEF FirstOrg
  <2> DEFINE r == [proc[p] EXCEPT !.op = "adopt", !.to = first]
  <2>2. r.op = "adopt" /\ r.todo = proc[p].todo /\ r.to = first
    BY <1>t DEF ProcType
  <2>3. ~overlapped => Good(r, agents, orgs)
    BY <2>1, <2>2, <1>k DEF Good
  <2>4. UNCHANGED <<agents, orgs, rejected>> /\ proc[p].op # "idle"
    BY <1>5 DEF FirstOrg, history, orgVars
  <2> QED
    BY <2>1, <2>3, <2>4, <1>k, AloneMoves
<1>6. CASE AutoRegister(p)
  <2> DEFINE rec == [org |-> proc[p].to, status |-> "online", approved |-> TRUE]
  <2>1. proc[p].agent \in Agents /\ rec \in Record /\ rec.org = proc[p].to
    BY <1>6, <1>t DEF AutoRegister, Holds, ProcType, Record
  <2>2. ~overlapped => rec.org \in orgs \cup {None}
    BY <1>6, <2>1, <1>k DEF AutoRegister, Good
  <2>3. ~overlapped => Kept(agents', orgs', rejected')
    BY <1>6, <2>1, <2>2, <1>n DEF AutoRegister, orgVars
  <2> QED
    BY <1>6, <2>3, <1>i DEF AutoRegister
<1>7. CASE SetVersion(p)
  <2>1. proc[p].rec \in Record
    BY <1>7, <1>t DEF SetVersion, Holds
  <2>2. ~overlapped => Kept(agents', orgs', rejected')
    BY <1>7, <2>1, <1>u DEF SetVersion, WritesBack, orgVars
  <2> QED
    BY <1>7, <2>2, <1>i DEF SetVersion
<1>8. CASE SetOffline(p)
  <2> DEFINE rec == [proc[p].rec EXCEPT !.status = "offline"]
  <2>1. rec \in Record /\ rec.org = proc[p].rec.org /\ rec.approved = proc[p].rec.approved
    BY <1>8, <1>t DEF SetOffline, Holds, Record
  <2>2. ~overlapped => Kept(agents', orgs', rejected')
    BY <1>8, <2>1, <1>u DEF SetOffline, orgVars, history
  <2> QED
    BY <1>8, <2>2, <1>i DEF SetOffline
<1> QED
  BY <1>1, <1>2, <1>3, <1>4, <1>5, <1>6, <1>7, <1>8 DEF AgentStep

LEMMA AloneNext == TypeOK /\ Fits /\ Alone /\ [Next]_vars => Alone'
<1> SUFFICES ASSUME TypeOK, Fits, Alone, [Next]_vars PROVE Alone'
  OBVIOUS
<1>1. ASSUME NEW p \in Procs, Fails(p)
      PROVE  Alone'
  <2>1. \A q \in Procs : proc'[q] = Idle \/ proc'[q] = proc[q]
    BY <1>1 DEF Fails, Returns, Goes, TypeOK
  <2>2. ~overlapped' => ~overlapped
    BY <1>1 DEF Fails, Returns, Goes
  <2>3. UNCHANGED <<agents, orgs, rejected>>
    BY <1>1 DEF Fails, orgVars, history
  <2> QED
    BY <2>1, <2>2, <2>3, GoodIdle DEF Alone
<1>2. CASE Restart
  <2>1. \A p \in Procs : proc'[p] = Idle
    BY <1>2 DEF Restart
  <2>2. ~overlapped' => ~overlapped
    BY <1>2 DEF Restart
  <2>3. \A a \in Agents : /\ agents'[a] # None <=> agents[a] # None
                          /\ agents[a] # None => /\ agents'[a].approved = agents[a].approved
                                                 /\ agents'[a].org = agents[a].org
    BY <1>2 DEF Restart, MarkAllOffline, TypeOK, Record
  <2>4. ~overlapped => Kept(agents', orgs', rejected')
    BY <1>2, <2>3 DEF Restart, orgVars, history, Alone, Kept, TypeOK
  <2> QED
    BY <2>1, <2>2, <2>4, GoodIdle DEF Alone
<1>3. CASE UNCHANGED vars \/ \E a \in Agents : PumpEnds(a) \/ WriteFails(a)
  <2>1. UNCHANGED <<agents, proc, orgs, rejected, overlapped>>
    BY <1>3 DEF vars, orgVars, history, PumpEnds, WriteFails
  <2> QED
    BY <2>1 DEF Alone
<1> QED
  BY <1>1, <1>2, <1>3, AloneRequest, AloneHook, AloneOrgStep, AloneAgentStep DEF Next

LEMMA AloneAlways == Spec => []Alone
<1>1. Init => Alone
  BY GoodIdle DEF Init, Alone, Kept
<1> QED
  BY <1>1, AloneNext, TypeAlways, PTL DEF Spec

(***************************************************************************)
(* A rejection holds until the agent is approved again, through            *)
(* reconnections, reassignments, failures and restarts, as long as no two  *)
(* goroutines overlap (agent/sqlite.go:113-128).                           *)
(***************************************************************************)
THEOREM RejectSound == Spec => []RejectSticks
<1>1. Alone => RejectSticks
  BY DEF Alone, Kept, RejectSticks
<1> QED
  BY <1>1, AloneAlways, PTL

(***************************************************************************)
(* The deletion of an organisation moves every agent out of it first, so   *)
(* no record names one that is gone, wherever the deletion fails or is     *)
(* killed, as long as no two goroutines overlap (org/handler.go:284-341).  *)
(***************************************************************************)
THEOREM OrphanFree == Spec => []NoOrphans
<1>1. Alone => NoOrphans
  BY DEF Alone, Kept, NoOrphans
<1> QED
  BY <1>1, AloneAlways, PTL

-----------------------------------------------------------------------------
\* A goroutine is about to take the agent offline.
Offlining(a, ps) == \E p \in Procs : ps[p].op = "offline" /\ ps[p].agent = a

\* A goroutine that was not taking the agent offline moves: it still need not.
LEMMA OffliningMoves ==
  ASSUME TypeOK, NEW p \in Procs, NEW r, Begins(p, r) \/ Goes(p, r), NEW a \in Agents,
         ~(proc[p].op = "offline" /\ proc[p].agent = a), Offlining(a, proc)
  PROVE  Offlining(a, proc')
<1>1. PICK q \in Procs : proc[q].op = "offline" /\ proc[q].agent = a
  BY DEF Offlining
<1>2. proc'[q] = proc[q]
  BY <1>1 DEF TypeOK, Begins, Goes
<1> QED
  BY <1>1, <1>2 DEF Offlining

LEMMA IdleOp == Idle.op = "idle"
  BY DEF Idle

\* The steps of goroutines that leave the connections alone and put no record
\* online, unless the agent is counted as blurred.
LEMMA LinkedMoves ==
  ASSUME TypeOK, OnlineIsConnected, NEW p \in Procs, NEW r, Begins(p, r) \/ Goes(p, r),
         proc[p].op # "offline", UNCHANGED <<pumps, ended>>,
         \A a \in Agents \ blurred' : a \notin blurred /\ (Online(a)' => Online(a))
  PROVE  OnlineIsConnected'
<1> SUFFICES ASSUME NEW a \in Agents \ blurred', Online(a)'
             PROVE  (pumps[a] + ended[a] > 0)' \/ Offlining(a, proc')
  BY DEF OnlineIsConnected, Offlining
<1>1. pumps[a] + ended[a] > 0 \/ Offlining(a, proc)
  BY DEF OnlineIsConnected, Offlining
<1> QED
  BY <1>1, OffliningMoves

LEMMA LinkedRequest ==
  ASSUME TypeOK, OnlineIsConnected, NEW p \in Procs, NEW u \in Users, Request(p, u)
  PROVE  OnlineIsConnected'
<1>1. \E r : Begins(p, r)
  BY DEF Request, Create, MayInvite, MayDelete, MayRegister, AcceptInvite, MayApprove, MayReject
<1>2. UNCHANGED <<agents, conns, blurred>>
  BY DEF Request, Create, MayInvite, MayDelete, MayRegister, AcceptInvite, MayApprove, MayReject, history
<1>3. proc[p].op # "offline"
  BY <1>1, IdleOp DEF Begins
<1> QED
  BY <1>1, <1>2, <1>3, LinkedMoves DEF conns, Online

LEMMA LinkedHook ==
  ASSUME TypeOK, OnlineIsConnected, NEW p \in Procs, NEW a \in Agents, Hook(p, a)
  PROVE  OnlineIsConnected'
<1>1. CASE OnConnect(p, a) \/ GetVersion(p, a)
  <2>1. \E r : Begins(p, r)
    BY <1>1 DEF OnConnect, GetVersion
  <2>2. UNCHANGED <<agents, pumps, ended, blurred>>
    BY <1>1 DEF OnConnect, GetVersion, conns, history
  <2>3. proc[p].op # "offline"
    BY <2>1, IdleOp DEF Begins
  <2> QED
    BY <2>1, <2>2, <2>3, LinkedMoves DEF Online
\* The connection that leaves the count is the one whose hook is at work now.
<1>2. CASE OnDisconnect(p, a)
  <2> DEFINE r == IF agents[a] # None THEN [Idle EXCEPT !.op = "offline", !.agent = a, !.rec = agents[a]] ELSE Idle
  <2>1. Begins(p, r) /\ UNCHANGED <<agents, pumps, blurred>>
    BY <1>2 DEF OnDisconnect, history
  <2>2. \A b \in Agents \ {a} : ended'[b] = ended[b]
    BY <1>2 DEF OnDisconnect, TypeOK
  <2>3. proc[p].op # "offline"
    BY <2>1, IdleOp DEF Begins
  <2>4. agents[a] # None => Offlining(a, proc')
    <3>1. agents[a] # None => r.op = "offline" /\ r.agent = a
      BY DEF Idle
    <3>2. proc'[p] = r
      BY <2>1 DEF Begins, TypeOK
    <3> QED
      BY <3>1, <3>2 DEF Offlining
  <2>5. ASSUME NEW b \in Agents \ blurred', Online(b)'
        PROVE  (pumps[b] + ended[b] > 0)' \/ Offlining(b, proc')
    <3>1. CASE b = a
      BY <3>1, <2>1, <2>4, <2>5 DEF Online
    <3>2. CASE b # a
      <4>1. pumps[b] + ended[b] > 0 \/ Offlining(b, proc)
        BY <2>1, <2>5 DEF OnlineIsConnected, Offlining, Online
      <4> QED
        BY <3>2, <4>1, <2>1, <2>2, <2>3, OffliningMoves
    <3> QED
      BY <3>1, <3>2
  <2> QED
    BY <2>5 DEF OnlineIsConnected, Offlining
<1> QED
  BY <1>1, <1>2 DEF Hook

LEMMA LinkedConn ==
  ASSUME TypeOK, OnlineIsConnected, NEW a \in Agents, PumpEnds(a) \/ WriteFails(a)
  PROVE  OnlineIsConnected'
<1>1. UNCHANGED <<agents, proc, blurred>>
  BY DEF PumpEnds, WriteFails, history
<1>2. \A b \in Agents : pumps'[b] + ended'[b] = pumps[b] + ended[b]
  BY DEF PumpEnds, WriteFails, TypeOK
<1> QED
  BY <1>1, <1>2 DEF OnlineIsConnected, Online

\* A copy is written back: an agent that is online after it was so before, or is blurred.
LEMMA LinkedWrite ==
  ASSUME TypeOK, NEW a \in Agents, NEW rec \in Record, WritesBack(a, rec)
  PROVE  \A b \in Agents \ blurred' : b \notin blurred /\ (Online(b)' => Online(b))
<1>1. /\ agents'[a] = IF agents[a] = None THEN None ELSE rec
      /\ \A c \in Agents \ {a} : agents'[c] = agents[c]
  BY UpdateKeeps DEF WritesBack
<1> SUFFICES ASSUME NEW b \in Agents \ blurred'
             PROVE  b \notin blurred /\ (Online(b)' => Online(b))
  OBVIOUS
<1>2. b \notin blurred
  BY DEF WritesBack
<1>3. CASE b = a
  <2>1. Online(b)' => rec.status = "online"
    BY <1>1, <1>3 DEF Online
  <2> QED
    BY <1>2, <1>3, <2>1 DEF WritesBack
<1>4. CASE b # a
  BY <1>1, <1>2, <1>4 DEF Online
<1> QED
  BY <1>3, <1>4

LEMMA LinkedOrgStep ==
  ASSUME TypeOK, Fits, OnlineIsConnected, NEW p \in Procs, OrgStep(p)
  PROVE  OnlineIsConnected'
<1>1. ASSUME NEW c \in proc[p].todo, Reassign(p, c)
      PROVE  OnlineIsConnected'
  <2> DEFINE rec == [c.rec EXCEPT !.org = proc[p].to]
  <2>1. c.agent \in Agents /\ rec \in Record
    BY ProcTyped DEF ProcType, Record
  <2>2. WritesBack(c.agent, rec) /\ proc[p].op # "offline" /\ UNCHANGED <<pumps, ended>> /\ \E r : Goes(p, r)
    BY <1>1 DEF Reassign, conns
  <2> QED
    BY <2>1, <2>2, LinkedWrite, LinkedMoves
<1>2. CASE ~\E c \in proc[p].todo : Reassign(p, c)
  <2>1. UNCHANGED <<agents, conns, blurred>> /\ proc[p].op # "offline"
    BY <1>2 DEF OrgStep, CreateAdmin, CreateInvite, Join, DeleteInvite, EnsureFallbackOrg, DefaultAdmin, ListByOrg,
                DeleteOrg, history
  <2>2. \E r : Goes(p, r)
    BY <1>2 DEF OrgStep, CreateAdmin, CreateInvite, Join, DeleteInvite, EnsureFallbackOrg, DefaultAdmin, ListByOrg,
                DeleteOrg, Returns
  <2> QED
    BY <2>1, <2>2, LinkedMoves DEF conns, Online
<1> QED
  BY <1>1, <1>2

\* The hook of a connection is through, be it that it failed: the connection is read.
LEMMA LinkedPump ==
  ASSUME TypeOK, OnlineIsConnected, NEW p \in Procs, NEW a \in Agents, Goes(p, Idle), proc[p].op # "offline",
         PumpStarts(a), \A b \in Agents \ {a} : agents'[b] = agents[b]
  PROVE  OnlineIsConnected'
<1>1. pumps'[a] > 0 /\ ended'[a] \in Nat /\ \A b \in Agents \ {a} : pumps'[b] = pumps[b] /\ ended'[b] = ended[b]
  BY DEF PumpStarts, TypeOK
<1>2. ASSUME NEW b \in Agents \ blurred', b # a, Online(b)'
      PROVE  pumps'[b] + ended'[b] > 0 \/ Offlining(b, proc')
  <2>1. b \notin blurred /\ Online(b)
    BY <1>2 DEF PumpStarts, Online
  <2>2. pumps[b] + ended[b] > 0 \/ Offlining(b, proc)
    BY <2>1 DEF OnlineIsConnected, Offlining
  <2> QED
    BY <1>1, <1>2, <2>2, OffliningMoves
<1>3. pumps'[a] + ended'[a] > 0
  BY <1>1 DEF TypeOK, PumpStarts
<1> QED
  BY <1>2, <1>3 DEF OnlineIsConnected, Offlining

\* The hook at the end of a connection is through.
LEMMA LinkedOffline ==
  ASSUME TypeOK, OnlineIsConnected, NEW p \in Procs, NEW a \in Agents, Goes(p, Idle), proc[p].agent = a,
         UNCHANGED <<pumps, ended>>, blurred \subseteq blurred' \cup {a},
         agents'[a] # None /\ agents'[a].status = "online" => a \in blurred', \A b \in Agents \ {a} : agents'[b] = agents[b]
  PROVE  OnlineIsConnected'
<1> SUFFICES ASSUME NEW b \in Agents \ blurred', Online(b)'
             PROVE  pumps'[b] + ended'[b] > 0 \/ Offlining(b, proc')
  BY DEF OnlineIsConnected, Offlining
<1>1. b # a /\ b \notin blurred /\ Online(b)
  BY DEF Online
<1>2. pumps[b] + ended[b] > 0 \/ Offlining(b, proc)
  BY <1>1 DEF OnlineIsConnected, Offlining
<1> QED
  BY <1>1, <1>2, OffliningMoves

LEMMA LinkedAgentStep ==
  ASSUME TypeOK, Fits, OnlineIsConnected, NEW p \in Procs, AgentStep(p)
  PROVE  OnlineIsConnected'
<1>t. proc[p] \in ProcType /\ Holds(proc[p], agents)
  BY ProcTyped DEF Fits
<1> DEFINE a == proc[p].agent
<1>1. CASE Register(p)
  <2> DEFINE rec == [org |-> proc[p].org, status |-> "offline", approved |-> FALSE]
  <2>1. a \in Agents /\ rec \in Record /\ rec.status = "offline"
    BY <1>1, <1>t DEF Register, Holds, ProcType, Record
  <2>2. \A b \in Agents : Online(b)' => Online(b)
    BY <1>1, <2>1, InsertedKeeps DEF Register, Online
  <2> QED
    BY <1>1, <2>2, LinkedMoves DEF Register, Returns, conns, history
<1>2. CASE Approve(p)
  <2>1. a \in Agents /\ Approved(proc[p].rec) \in Record
    BY <1>2, <1>t DEF Approve, Holds, Approved, Record
  <2> QED
    BY <1>2, <2>1, LinkedWrite, LinkedMoves DEF Approve, Returns, conns
<1>3. CASE Reject(p)
  <2>1. a \in Agents /\ agents[a] \in Record
    BY <1>3, <1>t DEF Reject, Holds, TypeOK
  <2>2. agents' = [agents EXCEPT ![a] = [@ EXCEPT !.approved = FALSE, !.status = "rejected"]]
    BY <1>3, <2>1 DEF Reject, TypeOK
  <2>3. agents'[a].status = "rejected" /\ \A b \in Agents \ {a} : agents'[b] = agents[b]
    BY <2>1, <2>2 DEF TypeOK, Record
  <2> QED
    BY <1>3, <2>1, <2>3, LinkedOffline DEF Reject, Returns, conns
<1>4. CASE SetOnline(p)
  <2>1. a \in Agents /\ [proc[p].rec EXCEPT !.status = "online"] \in Record
    BY <1>4, <1>t DEF SetOnline, Holds, Record
  <2>2. \A b \in Agents \ {a} : agents'[b] = agents[b]
    BY <1>4, <2>1, UpdateKeeps DEF SetOnline
  <2> QED
    BY <1>4, <2>1, <2>2, LinkedPump DEF SetOnline, Returns
<1>5. CASE FirstOrg(p)
  <2>1. (\E r : Goes(p, r)) /\ UNCHANGED <<agents, pumps, ended, blurred>>
    BY <1>5 DEF FirstOrg, conns, history
  <2> QED
    BY <1>5, <2>1, LinkedMoves DEF FirstOrg, Online
<1>6. CASE AutoRegister(p)
  <2>1. a \in Agents /\ [org |-> proc[p].to, status |-> "online", approved |-> TRUE] \in Record
    BY <1>6, <1>t DEF AutoRegister, Holds, ProcType, Record
  <2>2. \A b \in Agents \ {a} : agents'[b] = agents[b]
    BY <1>6, <2>1, InsertedKeeps DEF AutoRegister
  <2> QED
    BY <1>6, <2>1, <2>2, LinkedPump DEF AutoRegister, Returns
<1>7. CASE SetVersion(p)
  <2>1. a \in Agents /\ proc[p].rec \in Record
    BY <1>7, <1>t DEF SetVersion, Holds
  <2> QED
    BY <1>7, <2>1, LinkedWrite, LinkedMoves DEF SetVersion, Returns, conns
<1>8. CASE SetOffline(p)
  <2> DEFINE rec == [proc[p].rec EXCEPT !.status = "offline"]
  <2>1. a \in Agents /\ rec \in Record /\ rec.status = "offline"
    BY <1>8, <1>t DEF SetOffline, Holds, Record
  <2>2. /\ agents'[a] = IF agents[a] = None THEN None ELSE rec
        /\ \A b \in Agents \ {a} : agents'[b] = agents[b]
    BY <1>8, <2>1, UpdateKeeps DEF SetOffline
  <2> QED
    BY <1>8, <2>1, <2>2, LinkedOffline DEF SetOffline, Returns, conns
<1> QED
  BY <1>1, <1>2, <1>3, <1>4, <1>5, <1>6, <1>7, <1>8 DEF AgentStep

LEMMA LinkedNext == TypeOK /\ Fits /\ OnlineIsConnected /\ [Next]_vars => OnlineIsConnected'
<1> SUFFICES ASSUME TypeOK, Fits, OnlineIsConnected, [Next]_vars PROVE OnlineIsConnected'
  OBVIOUS
<1>1. ASSUME NEW p \in Procs, Fails(p)
      PROVE  OnlineIsConnected'
  <2> DEFINE a == proc[p].agent
  <2>1. Goes(p, Idle) /\ UNCHANGED agents
    BY <1>1 DEF Fails, Returns
  <2>2. CASE proc[p].op \in {"online", "connect", "adopt"}
    <3>1. a \in Agents
      BY <2>2 DEF Fits, Holds
    <3> QED
      BY <1>1, <2>1, <2>2, <3>1, LinkedPump DEF Fails
  <2>3. CASE proc[p].op = "offline"
    <3>1. a \in Agents
      BY <2>3 DEF Fits, Holds
    <3>2. UNCHANGED <<pumps, ended>> /\ blurred \subseteq blurred' /\ (Online(a) => a \in blurred')
      BY <1>1, <2>3, <3>1 DEF Fails, conns
    <3> QED
      BY <2>1, <3>1, <3>2, LinkedOffline DEF Online
  <2>4. CASE proc[p].op \notin {"online", "connect", "adopt", "offline"}
    BY <1>1, <2>1, <2>4, LinkedMoves DEF Fails, conns, Online
  <2> QED
    BY <2>2, <2>3, <2>4
\* The agents are marked offline, or those that say online count as blurred.
<1>2. CASE Restart
  <2>1. \A a \in Agents \ blurred' : ~Online(a)'
    BY <1>2 DEF Restart, MarkAllOffline, Online, TypeOK, Record
  <2> QED
    BY <2>1 DEF OnlineIsConnected
<1>3. CASE UNCHANGED vars
  BY <1>3 DEF vars, conns, history, OnlineIsConnected, Online
<1> QED
  BY <1>1, <1>2, <1>3, LinkedRequest, LinkedHook, LinkedConn, LinkedOrgStep, LinkedAgentStep DEF Next

(***************************************************************************)
(* A record that says online is of an agent whose connection is read, or   *)
(* whose OnDisconnect is to take it offline, unless a stale copy was       *)
(* written back since or a store call of OnDisconnect or of the start      *)
(* failed: for any number of goroutines and of connections of an agent     *)
(* that overlap, whatever removes entries from the hub's table, and        *)
(* through restarts (server.go:123-190, 249-251; hub.go:157-180, 348-350). *)
(***************************************************************************)
THEOREM OnlineSound == Spec => []OnlineIsConnected
<1>1. Init => OnlineIsConnected
  BY DEF Init, OnlineIsConnected, Online
<1> QED
  BY <1>1, LinkedNext, TypeAlways, PTL DEF Spec
=============================================================================

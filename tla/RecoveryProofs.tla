--------------------------- MODULE RecoveryProofs ---------------------------
(***************************************************************************)
(* Theorems about Recovery, for all tables, rows, requests, lengths of the *)
(* binlog, channel capacities and faults: what a scan delivers, and what   *)
(* the recovery from it restores.                                          *)
(***************************************************************************)
EXTENDS Recovery, ReversalProofs

-----------------------------------------------------------------------------
(* Types. *)

TxIds == EventId \union ({"anonymous"} \X Nat \X Seq(RowChange))

Event ==
  [type : {"map"}, ts : Nat, table : Tables]
  \union [type : {"rows"}, ts : Nat, table : Tables, change : RowChange]
  \union [type : {"begin", "commit", "query"}, ts : Nat]
  \union [type : {"gtid", "xid"}, ts : Nat, id : EventId]

\* A transaction in the log, and one that the scanner sends.
LogTx == [id : TxIds, ts : Nat, rows : Seq(RowChange), gtid : EventId \union {None}]

Commitment ==
  [tx : LogTx, file : Nat, first : Nat, last : Nat,
   before : Databases, after : Databases, torn : BOOLEAN]

Transaction ==
  [id : TxIds, gtid : EventId \union {None}, ts : Nat, rows : Seq(RowChange) \ {<<>>},
   truncated : BOOLEAN]

Result == [tx : Transaction, stmts : Seq(Statement)]

\* The filters of a scan, as the callers give them and as the scanner sees them.
FlashFilter(t, time) ==
  [range |-> <<0, time>>, gtids |-> None, selected |-> {}, tables |-> {t},
   start |-> <<0, 0>>, end |-> <<0, 0>>, maxRows |-> 0]

FlashFilters == {FlashFilter(f[1], f[2]) : f \in Flashbacks}
Wires == {w[1] : w \in Requests} \union FlashFilters
Filters == {WsFilterToBinlog(w[1]) : w \in Requests} \union FlashFilters

LogType ==
  /\ files \in Seq(Seq(Event)) /\ files # <<>>
  /\ db \in Databases
  /\ open \in Seq(RowChange)
  /\ clock \in Nat
  /\ committed \in Seq(Commitment)
  /\ doubled \in BOOLEAN

SourceRec ==
  [pc : {"none", "run", "closed"}, next : Nat, evs : Seq(Event),
   err : {None, "canceled", "corrupt"}, stop : BOOLEAN]

ParseRec ==
  [pc : {"idle", "open", "check", "next", "send", "blocked", "ended"},
   file : Nat, last : Nat, pending : Pendings \union {None}, maps : SUBSET Tables,
   tx : Transaction \union {None}, err : {None, "canceled", "corrupt", "open"}]

Sending(p) == p.pc \in {"send", "blocked"}

ScanType ==
  /\ filter \in Filters \union {None}
  /\ cancelled \in BOOLEAN /\ closed \in BOOLEAN
  /\ source \in SourceRec /\ Len(source.evs) <= Cap
  /\ parse \in ParseRec
  /\ Sending(parse) => parse.tx \in Transaction
  /\ parse.pc # "idle" => filter \in Filters
  /\ txs \in Seq(Transaction) /\ Len(txs) <= Cap

ConsRec ==
  [pc : {"idle", "next", "deliver", "ended", "executed"},
   kind : {None, "stream", "flashback"}, wire : Wires \union {None}, limit : Int,
   got : Seq(Result), at : Result \union {None}, schema : SUBSET Tables,
   outcome : {None, "done", "failed"}, order : Seq(Nat)]

ConsType ==
  /\ cons \in ConsRec
  /\ cons.pc = "deliver" => cons.at \in Result

\* The parse loop runs once a scan has started, on files that are there.
Started ==
  /\ Working => parse.pc = "idle"
  /\ parse.pc = "idle" => source.pc = "none"
  /\ parse.pc # "idle" => 1 <= parse.file /\ parse.file <= parse.last /\ parse.last <= Len(files)
  /\ source.pc = "run" => source.next > 0

Types == LogType /\ ScanType /\ ConsType /\ Started

LEMMA EventFacts ==
  ASSUME NEW e \in Event
  PROVE  /\ e.ts \in Nat
         /\ e.type = "map" => e.table \in Tables
         /\ e.type = "rows" => e.change \in RowChange
         /\ e.type \in {"gtid", "xid"} => e.id \in EventId
BY DEF Event

LEMMA FilterFacts ==
  ASSUME NEW f \in Filters
  PROVE  f.maxRows \in Nat /\ f.start \in Nat \X Nat /\ f.end \in Nat \X Nat
<1>1. CASE f \in FlashFilters
  BY <1>1 DEF FlashFilters, FlashFilter
<1>2. CASE f \in {WsFilterToBinlog(w[1]) : w \in Requests}
  <2>1. PICK w \in Requests : f = WsFilterToBinlog(w[1])
    BY <1>2
  <2>2. w[1] \in [range : Bound \X Bound, gtids : {w[1].gtids}, selected : {w[1].selected},
                  tables : {w[1].tables}, start : Nat \X Nat, end : Nat \X Nat, maxRows : Nat]
    BY RecoveryAssumption DEF RecoveryAssumption
  <2>3. f.maxRows = w[1].maxRows /\ f.start = w[1].start /\ f.end = w[1].end
    BY <2>1, <2>2 DEF WsFilterToBinlog
  <2>4. QED BY <2>2, <2>3
<1>3. QED BY <1>1, <1>2 DEF Filters

LEMMA RowChangeTable ==
  ASSUME NEW c \in RowChange
  PROVE  c.table \in Tables
BY DEF RowChange, Insert, Delete, Update

LEMMA TypesInit == Init => Types
<1> SUFFICES ASSUME Init PROVE Types
  OBVIOUS
<1>1. InitDb \in Databases
  BY RecoveryAssumption DEF RecoveryAssumption, Databases
<1>2. LogType
  <2>1. files \in Seq(Seq(Event)) /\ files # <<>>
    BY DEF Init
  <2>2. QED BY <1>1, <2>1 DEF Init, LogType
<1>3. ScanType
  <2>1. source \in SourceRec /\ source.evs = <<>>
    BY DEF Init, ScannerInit, NoSource, SourceRec
  <2>2. parse \in ParseRec /\ parse.pc = "idle"
    BY DEF Init, ScannerInit, NotParsing, ParseRec
  <2>3. Len(<<>>) <= Cap
    BY ScannerAssumption DEF ScannerAssumption
  <2>4. txs = <<>> /\ filter = None /\ cancelled = FALSE /\ closed = FALSE
    BY DEF Init, ScannerInit
  <2>5. txs \in Seq(Transaction)
    BY <2>4
  <2>6. QED BY <2>1, <2>2, <2>3, <2>4, <2>5 DEF ScanType, Sending
<1>4. ConsType
  BY DEF Init, ConsType, ConsRec, Idle
<1>5. Started
  BY DEF Init, ScannerInit, NoSource, NotParsing, Started
<1>6. QED BY <1>2, <1>3, <1>4, <1>5 DEF Types

-----------------------------------------------------------------------------
(* MySQL keeps the types. *)

LEMMA ChangedType ==
  ASSUME NEW d \in Databases, NEW c \in Changes(d)
  PROVE  c \in RowChange /\ Changed(d, c) \in Databases
<1>1. PICK t \in Tables : c \in ChangesOf(t, d[t])
  BY DEF Changes
<1>2. d[t] \in [Rows[t] -> Nat]
  BY DEF Databases
<1>3. CASE \E r \in Rows[t] : c = Insert(t, r)
  <2>1. PICK r \in Rows[t] : c = Insert(t, r)
    BY <1>3
  <2>2. Moved(d[t], c) = [d[t] EXCEPT ![r] = @ + 1]
    BY <2>1, MovedInsert
  <2>3. c.table = t /\ c \in RowChange
    BY <2>1 DEF RowChange, Insert
  <2>4. Moved(d[t], c) \in [Rows[t] -> Nat]
    BY <1>2, <2>2
  <2>5. QED BY <2>3, <2>4, DatabaseUpdate DEF Changed
<1>4. CASE \E r \in Rows[t] : d[t][r] > 0 /\ c = Delete(t, r)
  <2>1. PICK r \in Rows[t] : d[t][r] > 0 /\ c = Delete(t, r)
    BY <1>4
  <2>2. Moved(d[t], c) = [d[t] EXCEPT ![r] = @ - 1]
    BY <2>1, MovedDelete
  <2>3. c.table = t /\ c \in RowChange
    BY <2>1 DEF RowChange, Delete
  <2>4. Moved(d[t], c) \in [Rows[t] -> Nat]
    BY <1>2, <2>1, <2>2
  <2>5. QED BY <2>3, <2>4, DatabaseUpdate DEF Changed
<1>5. CASE \E r, q \in Rows[t] : d[t][r] > 0 /\ r # q /\ c = Update(t, r, q)
  <2>1. PICK r \in Rows[t], q \in Rows[t] : d[t][r] > 0 /\ r # q /\ c = Update(t, r, q)
    BY <1>5
  <2>2. Moved(d[t], c) = [[d[t] EXCEPT ![r] = @ - 1] EXCEPT ![q] = @ + 1]
    BY <2>1, MovedUpdate
  <2>3. c.table = t
    BY <2>1 DEF Update
  <2>4. c \in RowChange
    <3>1. <<r, q>> \in {p \in Rows[t] \X Rows[t] : p[1] # p[2]} /\ <<r, q>>[1] = r /\ <<r, q>>[2] = q
      BY <2>1
    <3>2. QED BY <2>1, <3>1 DEF RowChange
  <2>5. Moved(d[t], c) \in [Rows[t] -> Nat]
    BY <1>2, <2>1, <2>2
  <2>6. QED BY <2>3, <2>4, <2>5, DatabaseUpdate DEF Changed
<1>6. QED BY <1>1, <1>3, <1>4, <1>5 DEF ChangesOf

LEMMA ChangeEventsType ==
  ASSUME NEW c \in RowChange, NEW s \in Nat, NEW saved \in BOOLEAN
  PROVE  ChangeEvents(c, s, saved) \in Seq(Event)
<1> DEFINE m == [type |-> "map", ts |-> s, table |-> c.table]
           r == [type |-> "rows", ts |-> s, table |-> c.table, change |-> c]
           q == [type |-> "query", ts |-> s]
<1>1. m \in Event /\ r \in Event /\ q \in Event
  BY RowChangeTable DEF Event
<1> HIDE DEF m, r, q
<1>2. <<m, r>> \in Seq(Event) /\ <<q>> \in Seq(Event) /\ <<>> \in Seq(Event)
  BY <1>1
<1>3. ChangeEvents(c, s, saved) = <<m, r>> \o IF saved THEN <<q>> ELSE <<>>
  BY DEF ChangeEvents, m, r, q
<1>4. QED BY <1>2, <1>3, ConcatProperties

\* The parts of a commit.
Kind == Kinds[Len(committed) + 1]
CommitHead ==
  IF Kind = "gtid" THEN << [type |-> "gtid", ts |-> clock, id |-> <<"gtid", Len(committed) + 1>>] >>
  ELSE <<>>
CommitEnd ==
  IF Kind = "commit" THEN [type |-> "commit", ts |-> clock]
  ELSE [type |-> "xid", ts |-> clock, id |-> <<"xid", Len(committed) + 1>>]
CommitBody(s) ==
  FlattenSeq([i \in 1 .. Len(open) |-> ChangeEvents(open[i], s, i \in points)])
CommitEvents(s) ==
  CommitHead \o << [type |-> "begin", ts |-> s] >> \o CommitBody(s) \o << CommitEnd >>
CommitId ==
  CASE Kind = "gtid" -> <<"gtid", Len(committed) + 1>>
    [] Kind = "xid" -> <<"xid", Len(committed) + 1>>
    [] Kind = "commit" -> <<"anonymous", clock, open>>
CommitTx ==
  [id |-> CommitId, ts |-> clock, rows |-> open,
   gtid |-> IF Kind = "gtid" THEN CommitId ELSE None]
Committing(s) ==
  [tx |-> CommitTx, file |-> Len(files), first |-> Len(files[Len(files)]) + 1,
   last |-> Len(files[Len(files)]) + Len(CommitEvents(s)), before |-> Before, after |-> db,
   torn |-> points # {}]

LEMMA CommitIs ==
  ASSUME NEW s, Commit(s)
  PROVE  /\ Working /\ open # <<>> /\ Len(committed) < Len(Kinds) /\ s <= clock
         /\ files' = [files EXCEPT ![Len(files)] = @ \o CommitEvents(s)]
         /\ committed' = Append(committed, Committing(s))
         /\ open' = <<>> /\ points' = {}
         /\ UNCHANGED <<filter, cancelled, closed, source, parse, txs, db, clock, doubled, cons>>
BY Zenon DEF Commit, Kind, CommitHead, CommitEnd, CommitBody, CommitEvents, CommitId, CommitTx,
     Committing

LEMMA CommitTypes ==
  ASSUME Types, NEW s \in Nat, Len(committed) < Len(Kinds)
  PROVE  /\ Kind \in {"gtid", "xid", "commit"}
         /\ CommitHead \in Seq(Event) /\ CommitEnd \in Event
         /\ CommitBody(s) \in Seq(Event) /\ CommitEvents(s) \in Seq(Event)
         /\ CommitId \in TxIds /\ CommitTx \in LogTx /\ Committing(s) \in Commitment
<1>1. committed \in Seq(Commitment) /\ Len(committed) \in Nat /\ open \in Seq(RowChange)
      /\ clock \in Nat /\ db \in Databases /\ files \in Seq(Seq(Event)) /\ files # <<>>
  BY DEF Types, LogType
<1>2. Kind \in {"gtid", "xid", "commit"}
  <2>1. Len(committed) + 1 \in 1 .. Len(Kinds)
    BY <1>1
  <2>2. QED BY <2>1, RecoveryAssumption, ElementOfSeq DEF RecoveryAssumption, Kind
<1> DEFINE n == Len(committed) + 1
<1>3. <<"gtid", n>> \in EventId /\ <<"xid", n>> \in EventId
  <2>1. n \in Nat
    BY <1>1
  <2> HIDE DEF n
  <2>2. QED BY <2>1 DEF EventId
<1>4. CommitHead \in Seq(Event) /\ CommitEnd \in Event
  <2>1. clock \in Nat
    BY <1>1
  <2> DEFINE g == [type |-> "gtid", ts |-> clock, id |-> <<"gtid", n>>]
  <2>2. g \in Event
    BY <1>3, <2>1 DEF Event
  <2>3. CommitEnd \in Event
    BY <1>3, <2>1 DEF CommitEnd, Event
  <2>4. CommitHead = IF Kind = "gtid" THEN <<g>> ELSE <<>>
    BY DEF CommitHead
  <2> HIDE DEF g
  <2>5. QED BY <2>2, <2>3, <2>4
<1>5. CommitBody(s) \in Seq(Event)
  <2> DEFINE parts == [i \in 1 .. Len(open) |-> ChangeEvents(open[i], s, i \in points)]
  <2>1. open \in Seq(RowChange) /\ Len(open) \in Nat
    BY <1>1
  <2>2. ASSUME NEW i \in 1 .. Len(open) PROVE ChangeEvents(open[i], s, i \in points) \in Seq(Event)
    <3>1. open[i] \in RowChange
      BY <2>1, ElementOfSeq
    <3>2. (i \in points) \in BOOLEAN
      OBVIOUS
    <3>3. QED BY <3>1, <3>2, ChangeEventsType
  <2>3. parts \in [1 .. Len(open) -> Seq(Event)]
    BY <2>2
  <2> HIDE DEF parts
  <2>4. parts \in Seq(Seq(Event))
    BY <2>1, <2>3
  <2>5. QED BY <2>4, FlattenType DEF CommitBody, parts
<1>6. CommitEvents(s) \in Seq(Event)
  <2> DEFINE b == << [type |-> "begin", ts |-> s] >>
             e == << CommitEnd >>
  <2>1. b \in Seq(Event) /\ e \in Seq(Event)
    BY <1>4 DEF Event
  <2> HIDE DEF b, e
  <2>2. CommitHead \o b \in Seq(Event)
    BY <1>4, <2>1, ConcatProperties
  <2>3. CommitHead \o b \o CommitBody(s) \in Seq(Event)
    BY <1>5, <2>2, ConcatProperties
  <2>4. CommitHead \o b \o CommitBody(s) \o e \in Seq(Event)
    BY <2>1, <2>3, ConcatProperties
  <2>5. QED BY <2>4 DEF CommitEvents, b, e
<1>7. CommitId \in TxIds /\ (Kind = "gtid" => CommitId \in EventId)
  BY <1>1, <1>2, <1>3 DEF CommitId, TxIds
<1>8. CommitTx \in LogTx
  BY <1>1, <1>7 DEF CommitTx, LogTx
<1>9. Committing(s) \in Commitment
  <2>1. Before \in Databases
    <3>1. CASE committed = <<>>
      BY <3>1, RecoveryAssumption DEF RecoveryAssumption, Databases, Before
    <3>2. CASE committed # <<>>
      <4>1. committed[Len(committed)] \in Commitment
        BY <1>1, <3>2, ElementOfSeq, Len(committed) \in 1 .. Len(committed)
      <4>2. QED BY <3>2, <4>1 DEF Before, Commitment
    <3>3. QED BY <3>1, <3>2
  <2>2. Len(files) \in Nat /\ Len(files[Len(files)]) \in Nat /\ Len(CommitEvents(s)) \in Nat
    <3>1. files[Len(files)] \in Seq(Event)
      BY <1>1, ElementOfSeq, Len(files) \in 1 .. Len(files)
    <3>2. QED BY <1>1, <1>6, <3>1
  <2>3. QED BY <1>1, <1>8, <2>1, <2>2 DEF Committing, Commitment
<1>10. QED BY <1>2, <1>4, <1>5, <1>6, <1>7, <1>8, <1>9

\* The steps of the log: MySQL's.
LogStep ==
  \/ \E c \in Changes(db) : Change(c)
  \/ SetSavepoint \/ Ddl \/ Rotate \/ Tick
  \/ \E s \in 1 .. MaxTime : Commit(s)

LEMMA LogKeepsTypes ==
  ASSUME Types, LogStep
  PROVE  LogType' /\ UNCHANGED <<filter, cancelled, closed, source, parse, txs, cons>>
<1>1. /\ files \in Seq(Seq(Event)) /\ files # <<>> /\ Len(files) \in Nat
      /\ db \in Databases /\ open \in Seq(RowChange) /\ clock \in Nat
      /\ committed \in Seq(Commitment) /\ doubled \in BOOLEAN
  BY DEF Types, LogType
<1>2. CASE \E c \in Changes(db) : Change(c)
  <2>1. PICK c \in Changes(db) : Change(c)
    BY <1>2
  <2>2. c \in RowChange /\ Changed(db, c) \in Databases
    BY <1>1, ChangedType
  <2>3. Append(open, c) \in Seq(RowChange)
    BY <1>1, <2>2
  <2>4. QED BY <1>1, <2>1, <2>2, <2>3 DEF Change, LogType, scanVars
<1>3. CASE SetSavepoint
  BY <1>1, <1>3 DEF SetSavepoint, LogType, scanVars
<1>4. CASE Ddl
  <2> DEFINE g == [type |-> "gtid", ts |-> clock, id |-> <<"gtid", 0>>]
             q == [type |-> "query", ts |-> clock]
             more == files[Len(files)] \o <<g, q>>
  <2>1. g \in Event /\ q \in Event
    <3>1. <<"gtid", 0>> \in EventId
      BY DEF EventId
    <3>2. QED BY <1>1, <3>1 DEF Event
  <2>2. files' = [files EXCEPT ![Len(files)] = more]
    BY <1>4 DEF Ddl
  <2> HIDE DEF g, q
  <2>3. Len(files) \in 1 .. Len(files) /\ files[Len(files)] \in Seq(Event)
    BY <1>1, ElementOfSeq
  <2>4. more \in Seq(Event)
    BY <2>1, <2>3, ConcatProperties, <<g, q>> \in Seq(Event)
  <2> HIDE DEF more
  <2>5. files' \in Seq(Seq(Event)) /\ files' # <<>>
    BY <1>1, <2>2, <2>3, <2>4, ExceptSeq
  <2>6. QED BY <1>1, <1>4, <2>5 DEF Ddl, LogType, mysqlVars
<1>5. CASE Rotate
  <2>1. Append(files, <<>>) \in Seq(Seq(Event)) /\ Append(files, <<>>) # <<>>
    BY <1>1, <<>> \in Seq(Event), AppendProperties
  <2>2. QED BY <1>1, <1>5, <2>1 DEF Rotate, LogType, mysqlVars
<1>6. CASE Tick
  BY <1>1, <1>6 DEF Tick, LogType, scanVars
<1>7. CASE \E s \in 1 .. MaxTime : Commit(s)
  <2>1. PICK s \in 1 .. MaxTime : Commit(s)
    BY <1>7
  <2>2. s \in Nat
    OBVIOUS
  <2>3. CommitEvents(s) \in Seq(Event) /\ Committing(s) \in Commitment
    BY <2>1, <2>2, CommitIs, CommitTypes
  <2>4. Len(files) \in 1 .. Len(files) /\ files[Len(files)] \in Seq(Event)
    BY <1>1, ElementOfSeq
  <2> DEFINE more == files[Len(files)] \o CommitEvents(s)
  <2>5. more \in Seq(Event)
    BY <2>3, <2>4, ConcatProperties
  <2>6. files' = [files EXCEPT ![Len(files)] = more]
    BY <2>1, CommitIs
  <2> HIDE DEF more
  <2>7. files' \in Seq(Seq(Event)) /\ files' # <<>>
    BY <1>1, <2>4, <2>5, <2>6, ExceptSeq
  <2>8. committed' \in Seq(Commitment)
    <3>1. committed' = Append(committed, Committing(s))
      BY <2>1, CommitIs
    <3>2. QED BY <1>1, <2>3, <3>1, AppendProperties
  <2>9. open' = <<>> /\ db' = db /\ clock' = clock /\ doubled' = doubled
    BY <2>1, CommitIs
  <2>10. UNCHANGED <<filter, cancelled, closed, source, parse, txs, cons>>
    BY <2>1, CommitIs
  <2>11. open' \in Seq(RowChange)
    BY <2>9
  <2>12. LogType'
    BY <1>1, <2>7, <2>8, <2>9, <2>11 DEF LogType
  <2>13. QED BY <2>10, <2>12
<1>8. QED BY <1>2, <1>3, <1>4, <1>5, <1>6, <1>7 DEF LogStep

-----------------------------------------------------------------------------
(* The scanner keeps the types. *)

LEMMA EmitType ==
  ASSUME ScanType, parse.pc # "idle", NEW p \in Pendings \union {None}
  PROVE  Emit(p) \in ParseRec /\ (Sending(Emit(p)) => Emit(p).tx \in Transaction)
<1>1. parse \in ParseRec /\ filter.maxRows \in Nat
  BY FilterFacts DEF ScanType
<1>2. [parse EXCEPT !.pc = "check", !.pending = None] \in ParseRec
  BY <1>1 DEF ParseRec
<1>3. ASSUME p \in Pendings, p.rows # <<>> PROVE Truncate(NewTransaction(p)) \in Transaction
  <2> DEFINE ts == IF p.ts = None THEN Now ELSE p.ts
             tx == NewTransaction(p)
             id == TxID(p, ts)
  <2>1. /\ p.rows \in Seq(RowChange) /\ p.gtid \in EventId \union {None}
        /\ p.ts \in Nat \union {None} /\ p.xid \in EventId \union {None}
    BY <1>3 DEF Pendings
  <2>2. ts \in Nat
    BY <2>1, ScannerAssumption DEF ScannerAssumption, Now
  <2>3. tx = [id |-> id, gtid |-> p.gtid, ts |-> ts, rows |-> p.rows, truncated |-> FALSE]
    BY DEF NewTransaction
  <2> HIDE DEF ts
  <2>4. id \in TxIds
    <3>1. CASE p.gtid # None
      BY <2>1, <3>1 DEF TxID, TxIds
    <3>2. CASE p.gtid = None /\ p.xid # None
      BY <2>1, <3>2 DEF TxID, TxIds
    <3>3. CASE p.gtid = None /\ p.xid = None
      BY <2>1, <2>2, <3>3 DEF TxID, TxIds
    <3>4. QED BY <3>1, <3>2, <3>3
  <2> HIDE DEF id, tx
  <2>5. tx \in Transaction
    BY <1>3, <2>1, <2>2, <2>3, <2>4 DEF Transaction
  <2>6. ASSUME filter.maxRows > 0, Len(tx.rows) > filter.maxRows
        PROVE  [tx EXCEPT !.rows = SubSeq(@, 1, filter.maxRows), !.truncated = TRUE] \in Transaction
    <3> DEFINE m == filter.maxRows
               rows == SubSeq(tx.rows, 1, m)
    <3>1. tx.rows \in Seq(RowChange) /\ m \in Nat /\ m > 0 /\ m < Len(tx.rows)
      BY <1>1, <2>5, <2>6 DEF Transaction
    <3>2. rows \in Seq(RowChange) /\ Len(rows) = m
      <4> HIDE DEF m
      <4>1. \A i \in 1 .. m : tx.rows[i] \in RowChange
        BY <3>1, ElementOfSeq
      <4>2. QED BY <3>1, <4>1, SubSeqProperties
    <3>3. rows # <<>>
      BY <3>1, <3>2
    <3> HIDE DEF rows
    <3>4. [tx EXCEPT !.rows = rows, !.truncated = TRUE] \in Transaction
      BY <2>5, <3>2, <3>3 DEF Transaction
    <3>5. QED BY <3>4 DEF rows
  <2>7. QED BY <2>5, <2>6 DEF Truncate, tx
<1>4. ASSUME p \in Pendings, p.rows # <<>>
      PROVE  LET q == [parse EXCEPT !.pc = "send", !.pending = None,
                                    !.tx = Truncate(NewTransaction(p))]
             IN q \in ParseRec /\ q.tx \in Transaction
  <2> DEFINE tx == Truncate(NewTransaction(p))
  <2>1. tx \in Transaction
    BY <1>3, <1>4
  <2> HIDE DEF tx
  <2>2. [parse EXCEPT !.pc = "send", !.pending = None, !.tx = tx] \in ParseRec
    BY <1>1, <2>1 DEF ParseRec
  <2>3. [parse EXCEPT !.pc = "send", !.pending = None, !.tx = tx].tx = tx
    BY <1>1 DEF ParseRec
  <2>4. QED BY <2>1, <2>2, <2>3 DEF tx
<1>5. CASE p # None /\ p.rows # <<>> /\ MatchesFilter(NewTransaction(p), filter)
  <2>1. p \in Pendings
    BY <1>5
  <2>2. Emit(p) = [parse EXCEPT !.pc = "send", !.pending = None, !.tx = Truncate(NewTransaction(p))]
    BY <1>5 DEF Emit
  <2>3. QED BY <1>4, <1>5, <2>1, <2>2
<1>6. CASE ~(p # None /\ p.rows # <<>> /\ MatchesFilter(NewTransaction(p), filter))
  <2>1. Emit(p) = [parse EXCEPT !.pc = "check", !.pending = None]
    BY <1>6 DEF Emit
  <2>2. Emit(p).pc = "check"
    BY <1>1, <2>1 DEF ParseRec
  <2>3. QED BY <1>2, <2>1, <2>2 DEF Sending
<1>7. QED BY <1>5, <1>6

LEMMA PendingType ==
  ASSUME ScanType
  PROVE  Pending \in Pendings /\ (parse.pending # None => parse.pending = Pending)
<1>1. parse.pending \in Pendings \union {None}
  BY DEF ScanType, ParseRec
<1>2. Fresh \in Pendings
  BY DEF Fresh, Pendings
<1>3. QED BY <1>1, <1>2 DEF Pending

LEMMA HandleEventType ==
  ASSUME ScanType, parse.pc # "idle", NEW e \in Event
  PROVE  HandleEvent(e) \in ParseRec /\ (Sending(HandleEvent(e)) => HandleEvent(e).tx \in Transaction)
<1> DEFINE goOn == [parse EXCEPT !.pc = "check"]
           h == HandleEvent(e)
           Ok(p) == p \in ParseRec /\ (Sending(p) => p.tx \in Transaction)
<1> SUFFICES Ok(h)
  OBVIOUS
<1>1. parse \in ParseRec /\ Pending \in Pendings
  BY PendingType DEF ScanType
<1>2. goOn \in ParseRec /\ goOn.pc = "check"
  BY <1>1 DEF ParseRec
<1>3. ASSUME NEW p \in Pendings
      PROVE  [goOn EXCEPT !.pending = p] \in ParseRec /\ [goOn EXCEPT !.pending = p].pc = "check"
  BY <1>2 DEF ParseRec
<1>4. ASSUME NEW p \in Pendings \union {None} PROVE Ok(Emit(p))
  BY <1>4, EmitType
<1>5. goOn.maps = parse.maps /\ goOn.pending = parse.pending
  BY <1>1 DEF ParseRec
<1> HIDE DEF goOn
<1>6. CASE e.type = "map"
  <2>1. h = [goOn EXCEPT !.maps = @ \union {e.table}]
    BY <1>6 DEF HandleEvent, goOn
  <2>2. e.table \in Tables
    BY <1>6, EventFacts
  <2>3. h \in ParseRec /\ h.pc = "check"
    <3> HIDE DEF h
    <3>1. QED BY <1>2, <2>1, <2>2 DEF ParseRec
  <2>4. QED BY <2>3 DEF Sending
<1>7. CASE e.type = "rows" /\ e.table \in parse.maps
  <2> DEFINE p == [Pending EXCEPT !.rows = Append(@, e.change)]
  <2>1. h = [goOn EXCEPT !.pending = p]
    BY <1>7 DEF HandleEvent, goOn
  <2>2. e.change \in RowChange
    BY <1>7, EventFacts
  <2>3. p \in Pendings
    BY <1>1, <2>2 DEF Pendings
  <2> HIDE DEF p, h
  <2>4. QED BY <1>3, <2>1, <2>3 DEF Sending
<1>8. CASE e.type = "begin"
  <2>1. h = [goOn EXCEPT !.pending = Pending]
    BY <1>8 DEF HandleEvent, goOn
  <2> HIDE DEF h
  <2>2. QED BY <1>1, <1>3, <2>1 DEF Sending
<1>9. CASE e.type = "gtid"
  <2> DEFINE p == [Pending EXCEPT !.gtid = e.id]
  <2>1. h = [goOn EXCEPT !.pending = p]
    BY <1>9 DEF HandleEvent, goOn
  <2>2. e.id \in EventId
    BY <1>9, EventFacts
  <2>3. p \in Pendings
    BY <1>1, <2>2 DEF Pendings
  <2> HIDE DEF p, h
  <2>4. QED BY <1>3, <2>1, <2>3 DEF Sending
<1>10. CASE e.type = "xid"
  <2> DEFINE p == IF parse.pending = None THEN None
                  ELSE [parse.pending EXCEPT !.xid = e.id, !.ts = e.ts]
  <2>1. h = Emit(p)
    BY <1>10 DEF HandleEvent
  <2>2. e.id \in EventId /\ e.ts \in Nat
    BY <1>10, EventFacts
  <2>3. p \in Pendings \union {None}
    BY <1>1, <2>2, PendingType DEF Pendings
  <2> HIDE DEF p, h
  <2>4. QED BY <1>4, <2>1, <2>3
<1>11. CASE e.type = "commit"
  <2> DEFINE p == IF parse.pending = None THEN None ELSE [parse.pending EXCEPT !.ts = e.ts]
  <2>1. h = Emit(p)
    BY <1>11 DEF HandleEvent
  <2>2. e.ts \in Nat
    BY <1>11, EventFacts
  <2>3. p \in Pendings \union {None}
    BY <1>1, <2>2, PendingType DEF Pendings
  <2> HIDE DEF p, h
  <2>4. QED BY <1>4, <2>1, <2>3
<1>12. CASE e.type = "query"
  <2>1. h = Emit(parse.pending)
    BY <1>12 DEF HandleEvent
  <2>2. parse.pending \in Pendings \union {None}
    BY <1>1 DEF ParseRec
  <2> HIDE DEF h
  <2>3. QED BY <1>4, <2>1, <2>2
<1>13. CASE e.type = "rows" /\ e.table \notin parse.maps
  <2>1. h = goOn
    BY <1>13 DEF HandleEvent, goOn
  <2> HIDE DEF h
  <2>2. QED BY <1>2, <2>1 DEF Sending
<1>14. e.type \in {"map", "rows", "begin", "commit", "query", "gtid", "xid"}
  BY DEF Event
<1>15. QED
  BY <1>6, <1>7, <1>8, <1>9, <1>10, <1>11, <1>12, <1>13, <1>14, Zenon

LEMMA ScanFacts ==
  ASSUME Types
  PROVE  /\ files \in Seq(Seq(Event)) /\ filter \in Filters \union {None}
         /\ cancelled \in BOOLEAN /\ closed \in BOOLEAN
         /\ source \in SourceRec /\ Len(source.evs) <= Cap /\ parse \in ParseRec
         /\ (Sending(parse) => parse.tx \in Transaction)
         /\ (parse.pc # "idle" => filter \in Filters)
         /\ txs \in Seq(Transaction) /\ Len(txs) <= Cap
         /\ Cap \in Nat
BY ScannerAssumption DEF Types, LogType, ScanType, ScannerAssumption

\* The scanner does not touch its filter and its files.
Steady == UNCHANGED <<files, filter, cancelled, closed, cons>>

LEMMA StartedKept ==
  ASSUME Types, Steady, parse.pc # "idle", parse'.pc # "idle",
         parse'.file = parse.file, parse'.last = parse.last,
         source'.pc = "run" => source'.next > 0
  PROVE  Started'
BY DEF Types, Started, Steady, Working

LEMMA SourceKeepsTypes ==
  ASSUME Types, SourceRuns, UNCHANGED cons
  PROVE  ScanType' /\ Started' /\ Steady
<1>1. source.pc = "run" /\ parse.pc # "idle" /\ source.next > 0 /\ source.next \in Nat
  BY ScanFacts DEF SourceRuns, SourceSend, SourceEnd, Types, Started, SourceRec
<1>2. UNCHANGED <<files, filter, cancelled, closed, parse, txs>>
  BY DEF SourceRuns, SourceSend, SourceEnd
<1>3. CASE SourceSend
  <2> DEFINE e == SourceFile[source.next]
             evs == Append(source.evs, e)
  <2>1. source' = [source EXCEPT !.next = source.next + 1, !.evs = evs]
        /\ source.next <= Len(SourceFile) /\ Len(source.evs) < Cap
    BY <1>3 DEF SourceSend
  <2>2. SourceFile \in Seq(Event)
    <3>1. parse.file \in 1 .. Len(files)
      BY <1>1, ScanFacts DEF Types, Started, ParseRec
    <3>2. QED BY <3>1, ScanFacts, ElementOfSeq DEF SourceFile
  <2>3. e \in Event
    BY <1>1, <2>1, <2>2, ElementOfSeq
  <2> HIDE DEF e
  <2>4. source.evs \in Seq(Event)
    BY ScanFacts DEF SourceRec
  <2>5. evs \in Seq(Event) /\ Len(evs) = Len(source.evs) + 1
    BY <2>3, <2>4, AppendProperties
  <2> HIDE DEF evs
  <2>6. source' \in SourceRec /\ source'.evs = evs /\ source'.next = source.next + 1
    <3>1. source \in SourceRec /\ source.next + 1 \in Nat
      BY <1>1, ScanFacts
    <3>2. source'.evs = evs /\ source'.next = source.next + 1
      BY <2>1, <3>1 DEF SourceRec
    <3>3. source' \in SourceRec
      BY <2>1, <2>5, <3>1 DEF SourceRec
    <3>4. QED BY <3>2, <3>3
  <2>7. Len(source'.evs) <= Cap
    BY <2>1, <2>4, <2>5, <2>6, ScanFacts
  <2>8. ScanType'
    BY <1>2, <2>6, <2>7, ScanFacts DEF ScanType, Sending
  <2>9. Started'
    BY <1>1, <1>2, <2>6, StartedKept DEF Steady
  <2>10. QED BY <1>2, <2>8, <2>9 DEF Steady
<1>4. CASE SourceEnd
  <2>1. PICK e \in {None, "canceled", "corrupt"} :
          source' = [source EXCEPT !.pc = "closed", !.err = e]
    BY <1>4 DEF SourceEnd
  <2>2. source' \in SourceRec /\ source'.evs = source.evs /\ source'.pc = "closed"
    BY <2>1, ScanFacts DEF SourceRec
  <2>3. ScanType'
    BY <1>2, <2>2, ScanFacts DEF ScanType, Sending
  <2>4. Started'
    BY <1>1, <1>2, <2>2, StartedKept DEF Steady
  <2>5. QED BY <1>2, <2>3, <2>4 DEF Steady
<1>5. QED BY <1>3, <1>4 DEF SourceRuns

LEMMA ScanTypeKept ==
  ASSUME Types, Steady, parse.pc # "idle",
         source' \in SourceRec, Len(source'.evs) <= Cap,
         parse' \in ParseRec, Sending(parse') => parse'.tx \in Transaction,
         txs' \in Seq(Transaction), Len(txs') <= Cap,
         parse'.pc # "idle", source'.pc = "run" => source'.next > 0,
         1 <= parse'.file, parse'.file <= parse'.last, parse'.last = parse.last
  PROVE  ScanType' /\ Started'
<1>1. ScanType'
  BY ScanFacts DEF ScanType, Steady
<1>2. Started'
  <2>1. parse.last <= Len(files) /\ ~Working
    BY DEF Types, Started
  <2>2. QED BY <2>1 DEF Started, Steady, Working
<1>3. QED BY <1>1, <1>2

LEMMA ParseFacts ==
  ASSUME Types, parse.pc # "idle"
  PROVE  /\ parse \in ParseRec /\ parse.file \in Nat /\ parse.last \in Nat
         /\ 1 <= parse.file /\ parse.file <= parse.last /\ parse.last <= Len(files)
         /\ source.pc = "run" => source.next > 0
BY ScanFacts DEF Types, Started, ParseRec

LEMMA ParseEndTypes ==
  ASSUME Types, parse.pc # "idle", Steady,
         NEW err \in {None, "canceled", "corrupt", "open"}, ParseEnd(err)
  PROVE  ScanType' /\ Started' /\ parse'.pc = "ended"
<1>1. parse' = [parse EXCEPT !.pc = "ended", !.err = err, !.pending = None]
      /\ source' = [source EXCEPT !.stop = TRUE] /\ txs' = txs
  BY DEF ParseEnd, SourceClosed
<1>2. parse' \in ParseRec /\ parse'.pc = "ended" /\ parse'.file = parse.file
      /\ parse'.last = parse.last
  BY <1>1, ScanFacts DEF ParseRec
<1>3. source' \in SourceRec /\ source'.evs = source.evs /\ source'.pc = source.pc
      /\ source'.next = source.next
  BY <1>1, ScanFacts DEF SourceRec
<1>4. ~Sending(parse') /\ parse'.pc # "idle"
  BY <1>2 DEF Sending
<1>5. QED BY <1>1, <1>2, <1>3, <1>4, ScanFacts, ParseFacts, ScanTypeKept

LEMMA EmitGoesOn ==
  ASSUME parse \in ParseRec, NEW p
  PROVE  /\ Emit(p).pc \in {"send", "check"}
         /\ Emit(p).file = parse.file /\ Emit(p).last = parse.last
<1> DEFINE tx == Truncate(NewTransaction(p))
<1>1. \/ Emit(p) = [parse EXCEPT !.pc = "send", !.pending = None, !.tx = tx]
      \/ Emit(p) = [parse EXCEPT !.pc = "check", !.pending = None]
  BY DEF Emit
<1> HIDE DEF tx
<1>2. QED BY <1>1 DEF ParseRec

LEMMA HandleEventGoesOn ==
  ASSUME parse \in ParseRec, NEW e
  PROVE  /\ HandleEvent(e).pc \in {"send", "check"}
         /\ HandleEvent(e).file = parse.file /\ HandleEvent(e).last = parse.last
<1> DEFINE goOn == [parse EXCEPT !.pc = "check"]
           Like(q) == q.pc = "check" /\ q.file = parse.file /\ q.last = parse.last
<1>1. goOn.pc = "check" /\ goOn.file = parse.file /\ goOn.last = parse.last
      /\ DOMAIN goOn = DOMAIN parse
  BY DEF ParseRec
<1>2. Like(goOn) /\ (\A x : Like([goOn EXCEPT !.maps = x])) /\ (\A x : Like([goOn EXCEPT !.pending = x]))
  BY <1>1
<1> HIDE DEF goOn, Like
<1>3. \/ Like(HandleEvent(e)) \/ \E p : HandleEvent(e) = Emit(p)
  BY <1>2, Zenon DEF HandleEvent, goOn
<1>4. QED BY <1>3, EmitGoesOn DEF Like

LEMMA ParseNextTypes ==
  ASSUME Types, ParseNext, Steady
  PROVE  ScanType' /\ Started'
<1>1. parse.pc # "idle" /\ parse \in ParseRec /\ source \in SourceRec
  BY ScanFacts DEF ParseNext, Parsing
<1>2. CASE ParseEnd(None) \/ ParseEnd("canceled")
  BY <1>1, <1>2, ParseEndTypes
<1>3. CASE source.evs # <<>> /\ parse' = HandleEvent(Head(source.evs))
           /\ source' = [source EXCEPT !.evs = Tail(@)] /\ UNCHANGED txs
  <2> DEFINE e == Head(source.evs)
             evs == Tail(source.evs)
  <2>1. source.evs \in Seq(Event) /\ source.evs # <<>>
    BY <1>1, <1>3 DEF SourceRec
  <2>2. e \in Event /\ evs \in Seq(Event) /\ Len(evs) = Len(source.evs) - 1
    BY <2>1, HeadTailProperties
  <2>3. source' = [source EXCEPT !.evs = evs] /\ parse' = HandleEvent(e)
    BY <1>3
  <2> HIDE DEF e, evs
  <2>4. source' \in SourceRec /\ source'.evs = evs /\ source'.pc = source.pc
        /\ source'.next = source.next
    BY <1>1, <2>2, <2>3 DEF SourceRec
  <2>5. Len(source'.evs) <= Cap
    BY <2>1, <2>2, <2>4, ScanFacts
  <2>6. parse' \in ParseRec /\ (Sending(parse') => parse'.tx \in Transaction)
    BY <1>1, <2>2, <2>3, HandleEventType DEF Types
  <2>7. parse'.pc # "idle" /\ parse'.file = parse.file /\ parse'.last = parse.last
    BY <1>1, <2>3, HandleEventGoesOn
  <2>8. QED BY <1>1, <1>3, <2>4, <2>5, <2>6, <2>7, ScanFacts, ParseFacts, ScanTypeKept
<1>4. CASE FileDone /\ ~ParseEnd(None)
  <2>1. parse' = [parse EXCEPT !.pc = "open", !.file = @ + 1, !.pending = None]
        /\ source' = NoSource /\ txs' = txs /\ parse.file < parse.last
    BY <1>4 DEF FileDone
  <2>2. parse' \in ParseRec /\ parse'.pc = "open" /\ parse'.file = parse.file + 1
        /\ parse'.last = parse.last
    <3> DEFINE k == parse.file + 1
    <3>1. parse' = [parse EXCEPT !.pc = "open", !.file = k, !.pending = None]
      BY <2>1
    <3>2. k \in Nat
      BY <1>1, ParseFacts
    <3> HIDE DEF k
    <3>3. parse' \in ParseRec /\ parse'.pc = "open" /\ parse'.file = k /\ parse'.last = parse.last
      BY <1>1, <3>1, <3>2 DEF ParseRec
    <3>4. QED BY <3>3 DEF k
  <2>3. source' \in SourceRec /\ source'.evs = <<>> /\ source'.pc = "none"
    BY <2>1 DEF SourceRec, NoSource
  <2>4. Len(source'.evs) <= Cap
    BY <2>3, ScanFacts
  <2>5. QED BY <1>1, <2>1, <2>2, <2>3, <2>4, ScanFacts, ParseFacts, ScanTypeKept DEF Sending
<1>5. CASE ParseEnd(source.err)
  <2>1. source.err \in {None, "canceled", "corrupt", "open"}
    BY <1>1 DEF SourceRec
  <2>2. QED BY <1>1, <1>5, <2>1, ParseEndTypes
<1>6. QED BY <1>2, <1>3, <1>4, <1>5 DEF ParseNext

LEMMA ParseKeepsTypes ==
  ASSUME Types, ParseRuns, UNCHANGED cons
  PROVE  ScanType' /\ Started' /\ Steady
<1>1. Steady
  BY DEF Steady, ParseRuns, OpenFileSource, ParseCheck, ParseNext, ParseSend, ParseDrop
<1>2. parse.pc # "idle" /\ parse \in ParseRec /\ source \in SourceRec
  BY ScanFacts DEF ParseRuns, OpenFileSource, ParseCheck, ParseNext, ParseSend, ParseDrop, Parsing
<1>3. CASE OpenFileSource
  <2>1. CASE ParseEnd("open")
    BY <1>1, <1>2, <2>1, ParseEndTypes
  <2>2. CASE ~ParseEnd("open")
    <3> DEFINE offset == IF filter.start[1] = parse.file THEN filter.start[2] ELSE 0
               next == offset + 1
    <3>1. /\ source' = [NoSource EXCEPT !.pc = "run", !.next = next]
          /\ parse' = [parse EXCEPT !.pc = "check", !.pending = None, !.maps = {}]
          /\ txs' = txs
      BY <1>3, <2>2 DEF OpenFileSource
    <3>2. next \in Nat /\ next > 0
      <4>1. filter.start \in Nat \X Nat
        BY <1>2, ScanFacts, FilterFacts
      <4>2. offset \in Nat
        BY <4>1
      <4> HIDE DEF offset
      <4>3. QED BY <4>2
    <3> HIDE DEF next
    <3>3. source' \in SourceRec /\ source'.evs = <<>> /\ source'.next = next
      <4>1. source' = [pc |-> "run", next |-> next, evs |-> <<>>, err |-> None, stop |-> FALSE]
        BY <3>1 DEF NoSource
      <4>2. <<>> \in Seq(Event)
        OBVIOUS
      <4>3. QED BY <3>2, <4>1, <4>2 DEF SourceRec
    <3>4. parse' \in ParseRec /\ parse'.pc = "check" /\ parse'.file = parse.file
          /\ parse'.last = parse.last
      BY <1>2, <3>1 DEF ParseRec
    <3>5. Len(source'.evs) <= Cap
      BY <3>3, ScanFacts
    <3>6. QED BY <1>1, <1>2, <3>1, <3>2, <3>3, <3>4, <3>5, ScanFacts, ParseFacts, ScanTypeKept
              DEF Sending
  <2>3. QED BY <2>1, <2>2
<1>4. CASE ParseCheck
  <2>1. CASE ParseEnd("canceled")
    BY <1>1, <1>2, <2>1, ParseEndTypes
  <2>2. CASE ~ParseEnd("canceled")
    <3>1. parse' = [parse EXCEPT !.pc = "next"] /\ UNCHANGED <<source, txs>>
      BY <1>4, <2>2 DEF ParseCheck
    <3>2. parse' \in ParseRec /\ parse'.pc = "next" /\ parse'.file = parse.file
          /\ parse'.last = parse.last
      BY <1>2, <3>1 DEF ParseRec
    <3>3. QED BY <1>1, <1>2, <3>1, <3>2, ScanFacts, ParseFacts, ScanTypeKept DEF Sending
  <2>3. QED BY <2>1, <2>2
<1>5. CASE ParseNext
  BY <1>1, <1>5, ParseNextTypes
<1>6. CASE parse' = [parse EXCEPT !.pc = "check", !.tx = None] /\ source' = source
           /\ (txs' = txs \/ (ParseSend /\ Len(txs) < Cap /\ txs' = Append(txs, parse.tx)))
  <2>1. parse' \in ParseRec /\ parse'.pc = "check" /\ parse'.file = parse.file
        /\ parse'.last = parse.last
    BY <1>2, <1>6 DEF ParseRec
  <2>2. txs' \in Seq(Transaction) /\ Len(txs') <= Cap
    <3>1. CASE txs' = txs
      BY <3>1, ScanFacts
    <3>2. CASE ParseSend /\ Len(txs) < Cap /\ txs' = Append(txs, parse.tx)
      <4>1. parse.tx \in Transaction
        BY <3>2, ScanFacts DEF ParseSend, Parsing, Sending
      <4>2. txs \in Seq(Transaction) /\ Len(txs) \in Nat /\ Cap \in Nat
        BY ScanFacts
      <4>3. Append(txs, parse.tx) \in Seq(Transaction) /\ Len(Append(txs, parse.tx)) = Len(txs) + 1
        BY <4>1, <4>2, AppendProperties
      <4>4. QED BY <3>2, <4>2, <4>3
    <3>3. QED BY <1>6, <3>1, <3>2
  <2>3. QED BY <1>1, <1>2, <1>6, <2>1, <2>2, ScanFacts, ParseFacts, ScanTypeKept DEF Sending
<1>7. CASE parse' = [parse EXCEPT !.pc = "blocked"] /\ UNCHANGED <<source, txs>> /\ Parsing("send")
  <2>1. parse' \in ParseRec /\ parse'.pc = "blocked" /\ parse'.file = parse.file
        /\ parse'.last = parse.last /\ parse'.tx = parse.tx
    BY <1>2, <1>7 DEF ParseRec
  <2>2. parse.tx \in Transaction
    BY <1>7, ScanFacts DEF Sending, Parsing
  <2>3. QED BY <1>1, <1>2, <1>7, <2>1, <2>2, ScanFacts, ParseFacts, ScanTypeKept
<1>8. CASE ParseSend
  BY <1>6, <1>7, <1>8 DEF ParseSend
<1>9. CASE ParseDrop
  <2>1. parse' = [parse EXCEPT !.pc = "check", !.tx = None] /\ source' = source /\ txs' = txs
    BY <1>9 DEF ParseDrop
  <2>2. QED BY <1>6, <2>1
<1>10. QED BY <1>1, <1>3, <1>4, <1>5, <1>8, <1>9 DEF ParseRuns

-----------------------------------------------------------------------------
(* The callers of the scanner keep the types. *)

LEMMA FetchSchemasType ==
  ASSUME NEW rows \in Seq(RowChange), NEW known \in SUBSET Tables, NEW k \in FetchSchemas(rows, known)
  PROVE  k \in SUBSET Tables
<1> DEFINE needed == {rows[i].table : i \in 1 .. Len(rows)} \ known
<1>1. needed \subseteq Tables
  BY RowChangeTable, ElementOfSeq
<1> HIDE DEF needed
<1>2. k \in {known \union ok : ok \in SUBSET needed} \/ k = known \union needed
  BY DEF FetchSchemas, needed
<1>3. QED BY <1>1, <1>2

LEMMA GenerateSQLType ==
  ASSUME NEW tx \in Transaction, NEW schema
  PROVE  GenerateSQL(tx, schema) \in Seq(Statement)
<1>1. tx.rows \in Seq(RowChange) /\ tx.rows # <<>>
  BY DEF Transaction
<1>2. tx.rows[1] \in RowChange
  BY <1>1, ElementOfSeq, 1 \in 1 .. Len(tx.rows)
<1>3. Warning(tx.rows[1].table) \in Statement
  BY <1>2, RowChangeTable DEF Statement
<1>4. << Warning(tx.rows[1].table) >> \in Seq(Statement)
  BY <1>3
<1>5. QED BY <1>1, <1>4, GenerateType DEF GenerateSQL

LEMMA ResultType ==
  ASSUME NEW tx \in Transaction, NEW s \in Seq(Statement)
  PROVE  [tx |-> tx, stmts |-> s] \in Result
BY DEF Result

LEMMA ConsFacts ==
  ASSUME Types
  PROVE  /\ cons \in ConsRec /\ cons.got \in Seq(Result) /\ cons.schema \in SUBSET Tables
         /\ cons.pc = "deliver" => cons.at \in Result
         /\ txs \in Seq(Transaction)
BY DEF Types, ScanType, ConsType, ConsRec

\* What a caller does leaves the scanner going.
LEMMA CallerKeepsScan ==
  ASSUME Types, ~Working, ~Working', UNCHANGED <<files, filter, source, parse>>,
         cancelled' \in BOOLEAN, closed' \in BOOLEAN,
         \/ txs' = txs
         \/ txs # <<>> /\ txs' = Tail(txs)
  PROVE  ScanType' /\ Started'
<1>1. txs' \in Seq(Transaction) /\ Len(txs') <= Cap
  <2>1. txs \in Seq(Transaction) /\ Len(txs) \in Nat /\ Len(txs) <= Cap /\ Cap \in Nat
    BY ScanFacts
  <2>2. CASE txs' = txs
    BY <2>1, <2>2
  <2>3. CASE txs # <<>> /\ txs' = Tail(txs)
    <3>1. Tail(txs) \in Seq(Transaction) /\ Len(Tail(txs)) = Len(txs) - 1
      BY <2>1, <2>3, HeadTailProperties
    <3> DEFINE rest == Tail(txs)
    <3>2. txs' = rest
      BY <2>3
    <3> HIDE DEF rest
    <3>3. Len(rest) <= Cap
      BY <2>1, <3>1 DEF rest
    <3>4. QED BY <3>1, <3>2, <3>3 DEF rest
  <2>4. QED BY <2>2, <2>3
<1>2. ScanType'
  BY <1>1, ScanFacts DEF ScanType, Sending
<1>3. Started'
  BY DEF Types, Started
<1>4. QED BY <1>2, <1>3

LEMMA StartTypes ==
  ASSUME Types, Working, NEW f \in Filters, ScanStarts(f), ~Working'
  PROVE  ScanType' /\ Started'
<1>1. PICK range : range = EnumerateBinlogFiles(f) /\ range # None
        /\ parse' = [NotParsing EXCEPT !.pc = "open", !.file = range[1], !.last = range[2]]
        /\ filter' = f /\ UNCHANGED <<files, cancelled, closed, source, txs>>
  BY DEF ScanStarts
<1>2. f.start \in Nat \X Nat /\ f.end \in Nat \X Nat /\ Len(files) \in Nat
  BY FilterFacts, ScanFacts
<1> DEFINE lo == IF f.start[1] = 0 THEN 1 ELSE f.start[1]
           hi == IF f.end[1] = 0 THEN Len(files) ELSE f.end[1]
<1>3. range = <<lo, hi>> /\ lo <= Len(files) /\ hi <= Len(files) /\ lo <= hi
  <2>1. lo \in Nat /\ hi \in Nat
    BY <1>2
  <2>2. EnumerateBinlogFiles(f) = IF files = <<>> \/ lo > Len(files) \/ hi > Len(files) \/ lo > hi
                                  THEN None ELSE <<lo, hi>>
    BY DEF EnumerateBinlogFiles
  <2> HIDE DEF lo, hi
  <2>3. QED BY <1>1, <1>2, <2>1, <2>2
<1>4. lo \in Nat /\ hi \in Nat /\ 1 <= lo
  BY <1>2
<1> HIDE DEF lo, hi
<1>5. parse' = [pc |-> "open", file |-> lo, last |-> hi, pending |-> None, maps |-> {},
                tx |-> None, err |-> None]
  <2>1. range[1] = lo /\ range[2] = hi
    BY <1>3
  <2>2. parse' = [NotParsing EXCEPT !.pc = "open", !.file = lo, !.last = hi]
    BY <1>1, <2>1
  <2>3. QED BY <2>2 DEF NotParsing
<1>6. parse' \in ParseRec
  BY <1>4, <1>5 DEF ParseRec
<1>7. ScanType'
  BY <1>1, <1>5, <1>6, ScanFacts DEF ScanType, Sending
<1>8. source.pc = "none"
  BY DEF Types, Started
<1>9. QED BY <1>1, <1>3, <1>4, <1>5, <1>7, <1>8 DEF Started

LEMMA StreamNextTypes ==
  ASSUME Types, StreamNext
  PROVE  ScanType' /\ Started' /\ ConsType' /\ UNCHANGED <<files, mysqlVars>>
<1>1. /\ UNCHANGED <<files, filter, source, parse, mysqlVars>>
      /\ cons.pc = "next" /\ cons \in ConsRec
  BY ConsFacts DEF StreamNext
<1>2. CASE NextIsTx /\ txs' = Tail(txs) /\ UNCHANGED <<cancelled, closed>> /\
           \E known \in FetchSchemas(IF Head(txs).truncated THEN <<>> ELSE Head(txs).rows, cons.schema) :
             cons' = [cons EXCEPT !.pc = "deliver", !.schema = known,
                        !.at = [tx |-> Head(txs), stmts |-> GenerateSQL(Head(txs), known)]]
  <2> DEFINE tx == Head(txs)
             rows == IF tx.truncated THEN <<>> ELSE tx.rows
  <2>1. txs # <<>> /\ tx \in Transaction
    BY <1>2, ConsFacts, HeadTailProperties DEF NextIsTx
  <2>2. rows \in Seq(RowChange)
    BY <2>1 DEF Transaction
  <2>3. PICK known \in FetchSchemas(rows, cons.schema) :
          cons' = [cons EXCEPT !.pc = "deliver", !.schema = known,
                     !.at = [tx |-> tx, stmts |-> GenerateSQL(tx, known)]]
    BY <1>2
  <2> HIDE DEF rows, tx
  <2>4. known \in SUBSET Tables
    BY <2>2, ConsFacts, FetchSchemasType
  <2> DEFINE r == [tx |-> tx, stmts |-> GenerateSQL(tx, known)]
  <2>5. r \in Result
    BY <2>1, GenerateSQLType, ResultType
  <2> HIDE DEF r
  <2>6. cons' = [cons EXCEPT !.pc = "deliver", !.schema = known, !.at = r]
    BY <2>3 DEF r
  <2>7. cons' \in ConsRec /\ cons'.pc = "deliver" /\ cons'.at = r
    BY <1>1, <2>4, <2>5, <2>6 DEF ConsRec
  <2>8. ScanType' /\ Started'
    BY <1>1, <1>2, <2>1, <2>7, ScanFacts, CallerKeepsScan DEF Working
  <2>9. QED BY <1>1, <2>5, <2>7, <2>8 DEF ConsType
<1>3. ASSUME NEW outcome \in {"done", "failed"}, StreamReturns(cons, outcome), UNCHANGED txs
      PROVE  ScanType' /\ Started' /\ ConsType'
  <2>1. cons' = [cons EXCEPT !.pc = "ended", !.at = None, !.outcome = outcome]
        /\ cancelled' = TRUE /\ closed' = TRUE
    BY <1>3 DEF StreamReturns
  <2>2. cons' \in ConsRec /\ cons'.pc = "ended"
    BY <1>1, <2>1 DEF ConsRec
  <2>3. ScanType' /\ Started'
    BY <1>1, <1>3, <2>1, <2>2, CallerKeepsScan DEF Working
  <2>4. QED BY <2>2, <2>3 DEF ConsType
<1>4. CASE NextIsEOF /\ StreamReturns(cons, "done") /\ UNCHANGED txs
  BY <1>1, <1>3, <1>4
<1>5. CASE NextIsError /\ StreamReturns(cons, "failed") /\ UNCHANGED txs
  BY <1>1, <1>3, <1>5
<1>6. QED BY <1>1, <1>2, <1>4, <1>5 DEF StreamNext

LEMMA StreamDeliverTypes ==
  ASSUME Types, StreamDeliver
  PROVE  ScanType' /\ Started' /\ ConsType' /\ UNCHANGED <<files, mysqlVars>>
<1>1. /\ UNCHANGED <<files, filter, source, parse, txs, mysqlVars>>
      /\ cons.pc = "deliver" /\ cons \in ConsRec
  BY ConsFacts DEF StreamDeliver
<1> DEFINE sent == [cons EXCEPT !.got = Append(@, cons.at), !.at = None]
<1>2. sent \in ConsRec /\ sent.pc = "deliver"
  <2>1. cons.at \in Result /\ cons.got \in Seq(Result)
    BY <1>1, ConsFacts
  <2> DEFINE more == Append(cons.got, cons.at)
  <2>2. more \in Seq(Result)
    BY <2>1, AppendProperties
  <2> HIDE DEF more
  <2>3. sent = [cons EXCEPT !.got = more, !.at = None]
    BY DEF more
  <2> HIDE DEF sent
  <2>4. QED BY <1>1, <2>2, <2>3 DEF ConsRec
<1> HIDE DEF sent
<1>3. ASSUME NEW c \in ConsRec, NEW outcome \in {"done", "failed"}, StreamReturns(c, outcome)
      PROVE  ScanType' /\ Started' /\ ConsType'
  <2>1. cons' = [c EXCEPT !.pc = "ended", !.at = None, !.outcome = outcome]
        /\ cancelled' = TRUE /\ closed' = TRUE
    BY <1>3 DEF StreamReturns
  <2>2. cons' \in ConsRec /\ cons'.pc = "ended"
    BY <2>1 DEF ConsRec
  <2>3. ScanType' /\ Started'
    BY <1>1, <2>1, <2>2, CallerKeepsScan DEF Working
  <2>4. QED BY <2>2, <2>3 DEF ConsType
<1>4. CASE cons' = [sent EXCEPT !.pc = "next"] /\ UNCHANGED <<cancelled, closed>>
  <2>1. cons' \in ConsRec /\ cons'.pc = "next"
    BY <1>2, <1>4 DEF ConsRec
  <2>2. ScanType' /\ Started'
    BY <1>1, <1>4, <2>1, ScanFacts, CallerKeepsScan DEF Working
  <2>3. QED BY <1>1, <2>1, <2>2 DEF ConsType
<1>5. \/ StreamReturns(sent, "done") \/ StreamReturns(cons, "failed")
      \/ cons' = [sent EXCEPT !.pc = "next"] /\ UNCHANGED <<cancelled, closed>>
  BY DEF StreamDeliver, sent
<1>6. QED BY <1>1, <1>2, <1>3, <1>4, <1>5

LEMMA FlashbackNextTypes ==
  ASSUME Types, FlashbackNext
  PROVE  ScanType' /\ Started' /\ ConsType' /\ UNCHANGED <<files, mysqlVars>>
<1>1. /\ UNCHANGED <<files, filter, cancelled, source, parse, mysqlVars>>
      /\ cons.pc = "next" /\ cons \in ConsRec /\ cons.got \in Seq(Result)
  BY ConsFacts DEF FlashbackNext
<1>2. CASE NextIsTx /\ txs' = Tail(txs) /\ UNCHANGED closed /\
           \E known \in FetchSchemas(Head(txs).rows, cons.schema) :
             cons' = [cons EXCEPT !.schema = known,
                                  !.got = Append(@, [tx |-> Head(txs), stmts |-> <<>>])]
  <2> DEFINE tx == Head(txs)
             r == [tx |-> tx, stmts |-> <<>>]
             more == Append(cons.got, r)
  <2>1. txs # <<>> /\ tx \in Transaction
    BY <1>2, ConsFacts, HeadTailProperties DEF NextIsTx
  <2>2. tx.rows \in Seq(RowChange)
    BY <2>1 DEF Transaction
  <2>3. PICK known \in FetchSchemas(tx.rows, cons.schema) :
          cons' = [cons EXCEPT !.schema = known, !.got = more]
    BY <1>2
  <2>4. known \in SUBSET Tables
    BY <2>2, ConsFacts, FetchSchemasType
  <2>5. r \in Result
    BY <2>1, ResultType, <<>> \in Seq(Statement)
  <2> HIDE DEF r
  <2>6. more \in Seq(Result)
    BY <1>1, <2>5, AppendProperties
  <2> HIDE DEF more
  <2>7. cons' \in ConsRec /\ cons'.pc = "next"
    BY <1>1, <2>3, <2>4, <2>6 DEF ConsRec
  <2>8. ScanType' /\ Started'
    BY <1>1, <1>2, <2>1, <2>7, ScanFacts, CallerKeepsScan DEF Working
  <2>9. QED BY <1>1, <2>7, <2>8 DEF ConsType
<1>3. CASE /\ closed' = TRUE /\ UNCHANGED txs
           /\ cons' = [cons EXCEPT !.pc = "ended",
                !.outcome = IF cons.got = <<>> THEN "failed" ELSE "done",
                !.got = [i \in 1 .. Len(@) |->
                           [tx |-> @[i].tx, stmts |-> Generate(@[i].tx.rows, cons.schema)]]]
  <2> DEFINE n == Len(cons.got)
             R(i) == [tx |-> cons.got[i].tx, stmts |-> Generate(cons.got[i].tx.rows, cons.schema)]
             all == [i \in 1 .. n |-> R(i)]
             outcome == IF cons.got = <<>> THEN "failed" ELSE "done"
  <2>1. n \in Nat
    BY <1>1
  <2>2. ASSUME NEW i \in 1 .. n PROVE R(i) \in Result
    <3>1. cons.got[i].tx \in Transaction
      <4>1. cons.got[i] \in Result
        BY <1>1, ElementOfSeq DEF n
      <4>2. QED BY <4>1 DEF Result
    <3>2. Generate(cons.got[i].tx.rows, cons.schema) \in Seq(Statement)
      BY <3>1, GenerateType DEF Transaction
    <3>3. QED BY <3>1, <3>2, ResultType
  <2>3. cons' = [cons EXCEPT !.pc = "ended", !.outcome = outcome, !.got = all]
    BY <1>3
  <2> HIDE DEF R, n
  <2>4. all \in Seq(Result)
    BY <2>1, <2>2
  <2> HIDE DEF all
  <2>5. outcome \in {"done", "failed"}
    OBVIOUS
  <2> HIDE DEF outcome
  <2>6. cons' \in ConsRec /\ cons'.pc = "ended"
    BY <1>1, <2>3, <2>4, <2>5 DEF ConsRec
  <2>7. ScanType' /\ Started'
    BY <1>1, <1>3, <2>6, ScanFacts, CallerKeepsScan DEF Working
  <2>8. QED BY <1>1, <2>6, <2>7 DEF ConsType
<1>4. CASE cons' = [cons EXCEPT !.pc = "ended", !.outcome = "failed"] /\ UNCHANGED <<txs, closed>>
  <2>1. cons' \in ConsRec /\ cons'.pc = "ended"
    BY <1>1, <1>4 DEF ConsRec
  <2>2. ScanType' /\ Started'
    BY <1>1, <1>4, <2>1, ScanFacts, CallerKeepsScan DEF Working
  <2>3. QED BY <1>1, <2>1, <2>2 DEF ConsType
<1>5. QED BY <1>1, <1>2, <1>3, <1>4 DEF FlashbackNext

\* The callers' steps.
CallStep ==
  \/ \E w \in Requests : StartStream(w[1], w[2])
  \/ \E f \in Flashbacks : RunFlashback(f[1], f[2])
  \/ Cancel \/ Recovers \/ Execute

LEMMA StartStreamTypes ==
  ASSUME Types, NEW w \in Requests, StartStream(w[1], w[2])
  PROVE  ScanType' /\ Started' /\ ConsType' /\ UNCHANGED <<files, mysqlVars>>
<1> DEFINE f == WsFilterToBinlog(w[1])
           max == IF w[2] <= 0 THEN DefaultPreview ELSE w[2]
           new == [Idle EXCEPT !.pc = "next", !.kind = "stream", !.wire = w[1], !.limit = max]
<1>1. /\ \/ ScanStarts(f) /\ cons' = new
         \/ cons' = [new EXCEPT !.pc = "ended", !.outcome = "failed"] /\ UNCHANGED scanVars
      /\ Working /\ UNCHANGED mysqlVars
  BY DEF StartStream
<1>2. f \in Filters /\ w[1] \in Wires
  BY DEF Filters, Wires
<1>3. max \in Int
  BY RecoveryAssumption DEF RecoveryAssumption
<1> HIDE DEF f, max
<1>4. new = [pc |-> "next", kind |-> "stream", wire |-> w[1], limit |-> max, got |-> <<>>,
             at |-> None, schema |-> {}, outcome |-> None, order |-> <<>>]
  <2> DEFINE v == w[1]
  <2>1. new = [Idle EXCEPT !.pc = "next", !.kind = "stream", !.wire = v, !.limit = max]
    OBVIOUS
  <2> HIDE DEF new, v
  <2>2. new = [pc |-> "next", kind |-> "stream", wire |-> v, limit |-> max, got |-> <<>>,
               at |-> None, schema |-> {}, outcome |-> None, order |-> <<>>]
    BY <2>1 DEF Idle
  <2>3. QED BY <2>2 DEF v
<1>5. new \in ConsRec /\ new.pc = "next"
  BY <1>2, <1>3, <1>4, <<>> \in Seq(Result), <<>> \in Seq(Nat) DEF ConsRec
<1> HIDE DEF new
<1>6. CASE ScanStarts(f) /\ cons' = new
  <2>1. ~Working' /\ files' = files
    BY <1>5, <1>6 DEF Working, ScanStarts
  <2>2. ScanType' /\ Started'
    BY <1>1, <1>2, <1>6, <2>1, StartTypes
  <2>3. QED BY <1>1, <1>5, <1>6, <2>1, <2>2 DEF ConsType
<1>7. CASE cons' = [new EXCEPT !.pc = "ended", !.outcome = "failed"] /\ UNCHANGED scanVars
  <2>1. cons' \in ConsRec /\ cons'.pc = "ended"
    BY <1>5, <1>7 DEF ConsRec
  <2>2. UNCHANGED <<files, filter, cancelled, closed, source, parse, txs>>
    BY <1>7 DEF scanVars
  <2>3. ScanType'
    BY <2>2, ScanFacts DEF ScanType, Sending
  <2>4. Started'
    BY <2>1, <2>2 DEF Types, Started, Working
  <2>5. QED BY <1>1, <2>1, <2>2, <2>3, <2>4 DEF ConsType
<1>8. QED BY <1>1, <1>6, <1>7

LEMMA RunFlashbackTypes ==
  ASSUME Types, NEW f \in Flashbacks, RunFlashback(f[1], f[2])
  PROVE  ScanType' /\ Started' /\ ConsType' /\ UNCHANGED <<files, mysqlVars>>
<1> DEFINE g == FlashFilter(f[1], f[2])
           limit == Len(committed) + 2
<1>1. /\ ScanStarts(g)
      /\ cons' = [Idle EXCEPT !.pc = "next", !.kind = "flashback", !.wire = g, !.limit = limit]
      /\ Working /\ UNCHANGED mysqlVars
  BY DEF RunFlashback, FlashFilter
<1>2. g \in Filters /\ g \in Wires
  BY DEF Filters, Wires, FlashFilters
<1>3. limit \in Int
  BY DEF Types, LogType
<1> HIDE DEF g, limit
<1>4. cons' = [pc |-> "next", kind |-> "flashback", wire |-> g, limit |-> limit, got |-> <<>>,
               at |-> None, schema |-> {}, outcome |-> None, order |-> <<>>]
  BY <1>1 DEF Idle
<1>5. cons' \in ConsRec /\ cons'.pc = "next"
  BY <1>2, <1>3, <1>4, <<>> \in Seq(Result), <<>> \in Seq(Nat) DEF ConsRec
<1>6. ~Working' /\ files' = files
  BY <1>1, <1>5 DEF Working, ScanStarts
<1>7. ScanType' /\ Started'
  BY <1>1, <1>2, <1>6, StartTypes
<1>8. QED BY <1>1, <1>5, <1>6, <1>7 DEF ConsType

\* One of finitely many indices has the greatest value.
LEMMA Greatest ==
  ASSUME NEW n \in Nat, NEW f \in [1 .. n -> Int], NEW S \in SUBSET (1 .. n), S # {}
  PROVE  \E i \in S : \A j \in S : f[j] <= f[i]
<1> DEFINE Has(T) == \E i \in T : \A j \in T : f[j] <= f[i]
           P == {m \in Nat : m <= n => \A T \in SUBSET (1 .. m) : T # {} => Has(T)}
<1>1. 0 \in P
  BY \A T \in SUBSET (1 .. 0) : T = {}
<1>2. ASSUME NEW m \in Nat, m \in P PROVE m + 1 \in P
  <2>1. SUFFICES ASSUME m + 1 <= n, NEW T \in SUBSET (1 .. m + 1), T # {} PROVE Has(T)
    OBVIOUS
  <2> DEFINE U == T \ {m + 1}
  <2>2. U \in SUBSET (1 .. m) /\ m <= n
    BY <2>1
  <2>3. CASE U = {}
    <3>1. T = {m + 1}
      BY <2>1, <2>3
    <3>2. f[m + 1] \in Int
      BY <2>1, m + 1 \in 1 .. n
    <3>3. QED BY <3>1, <3>2
  <2>4. CASE U # {}
    <3>1. Has(U)
      BY <1>2, <2>2, <2>4
    <3> HIDE DEF U
    <3>2. PICK i \in U : \A j \in U : f[j] <= f[i]
      BY <3>1
    <3>3. i \in T /\ (\A j \in T : j \in U \/ j = m + 1) /\ \A j \in 1 .. m + 1 : f[j] \in Int
      BY <2>1, <3>2 DEF U
    <3>4. CASE m + 1 \in T /\ f[i] <= f[m + 1]
      <4>1. \A j \in T : f[j] <= f[m + 1]
        <5> SUFFICES ASSUME NEW j \in T PROVE f[j] <= f[m + 1]
          OBVIOUS
        <5>1. f[j] \in Int /\ f[i] \in Int /\ f[m + 1] \in Int
          BY <2>1, <3>3
        <5>2. QED BY <3>2, <3>3, <3>4, <5>1
      <4>2. QED BY <3>4, <4>1
    <3>5. CASE ~(m + 1 \in T /\ f[i] <= f[m + 1])
      <4>1. \A j \in T : f[j] <= f[i]
        <5> SUFFICES ASSUME NEW j \in T PROVE f[j] <= f[i]
          OBVIOUS
        <5>1. f[j] \in Int /\ f[i] \in Int
          BY <2>1, <3>3
        <5>2. QED BY <3>2, <3>3, <3>5, <5>1
      <4>2. QED BY <3>3, <4>1
    <3>6. QED BY <3>4, <3>5
  <2>5. QED BY <2>3, <2>4
<1> HIDE DEF P
<1>3. n \in P
  BY <1>1, <1>2, Induction
<1>4. QED BY <1>3 DEF P

\* What the server has staged of a transaction are statements.
LEMMA StagedType ==
  ASSUME Types, NEW i \in 1 .. Len(cons.got)
  PROVE  Staged(cons.got[i].tx.id) \in Seq(Statement)
<1> DEFINE n == Len(cons.got)
           parts == {j \in 1 .. n : cons.got[j].tx.id = cons.got[i].tx.id}
           size == [j \in 1 .. n |-> Len(cons.got[j].stmts)]
           sizes == {Len(cons.got[j].stmts) : j \in parts}
           later(k) == {j \in parts : k <= Len(cons.got[j].stmts)}
<1>1. n \in Nat /\ cons.got \in Seq(Result)
  BY ConsFacts
<1>2. ASSUME NEW j \in 1 .. n
      PROVE  cons.got[j].stmts \in Seq(Statement) /\ Len(cons.got[j].stmts) \in Nat
  <2>1. cons.got[j] \in Result
    BY <1>1, ElementOfSeq
  <2>2. cons.got[j].stmts \in Seq(Statement)
    BY <2>1 DEF Result
  <2>3. QED BY <2>2
<1>3. parts \in SUBSET (1 .. n) /\ i \in parts
  OBVIOUS
<1>4. size \in [1 .. n -> Int] /\ \A j \in parts : size[j] = Len(cons.got[j].stmts)
  BY <1>2
<1> HIDE DEF n, parts, size
<1>5. PICK g \in parts : \A j \in parts : size[j] <= size[g]
  BY <1>1, <1>3, <1>4, Greatest
<1>6. Max(sizes) \in sizes
  <2>1. size[g] \in sizes /\ \A y \in sizes : size[g] >= y
    BY <1>4, <1>5, <1>3
  <2>2. QED BY <2>1 DEF Max
<1>7. PICK h \in parts : Max(sizes) = Len(cons.got[h].stmts)
  BY <1>6
<1>8. ASSUME NEW k \in 1 .. Max(sizes)
      PROVE  cons.got[Min(later(k))].stmts[k] \in Statement
  <2>1. h \in later(k) /\ later(k) \in SUBSET Nat
    <3>1. h \in 1 .. n /\ k \in Int /\ k <= Max(sizes)
      BY <1>3, <1>7, <1>8
    <3>2. later(k) \subseteq 1 .. n
      BY <1>3
    <3>3. QED BY <1>1, <1>7, <3>1, <3>2
  <2>2. PICK m \in later(k) : \A y \in later(k) : m <= y
    BY <2>1, LeastNumber
  <2>3. Min(later(k)) \in later(k)
    BY <2>2 DEF Min
  <2> DEFINE j == Min(later(k))
  <2>4. j \in 1 .. n /\ k <= Len(cons.got[j].stmts)
    BY <1>3, <2>3
  <2> HIDE DEF j
  <2>5. cons.got[j].stmts \in Seq(Statement) /\ k \in 1 .. Len(cons.got[j].stmts)
    BY <1>2, <1>8, <2>4
  <2>6. cons.got[j].stmts[k] \in Statement
    BY <2>5, ElementOfSeq
  <2>7. QED BY <2>6 DEF j
<1>9. Staged(cons.got[i].tx.id)
        = [k \in 1 .. Max(sizes) |-> cons.got[Min(later(k))].stmts[k]]
  BY DEF Staged, parts, n
<1>10. Max(sizes) \in Nat
  BY <1>2, <1>3, <1>7
<1> HIDE DEF sizes, later
<1>11. QED BY <1>8, <1>9, <1>10

\* A choice of the results is a sequence of their numbers.
LEMMA OrderType ==
  ASSUME Types, NEW order \in Orders
  PROVE  order \in Seq(1 .. Len(cons.got)) /\ order \in Seq(Nat)
<1> DEFINE n == Len(cons.got)
<1>1. n \in Nat
  BY ConsFacts
<1> HIDE DEF n
<1>2. CASE cons.kind = "flashback"
  <2>1. order = [i \in 1 .. n |-> i]
    BY <1>2 DEF Orders, n
  <2>2. QED BY <1>1, <2>1 DEF n
<1>3. CASE cons.kind # "flashback"
  <2>1. order \in UNION {[1 .. m -> 1 .. n] : m \in 0 .. n}
    BY <1>3 DEF Orders, BoundedSeq, SeqOf, n
  <2>2. PICK m \in 0 .. n : order \in [1 .. m -> 1 .. n]
    BY <2>1
  <2>3. m \in Nat /\ 1 .. n \subseteq Nat
    BY <1>1
  <2>4. QED BY <2>2, <2>3 DEF n
<1>4. QED BY <1>2, <1>3

LEMMA PlanType ==
  ASSUME Types, NEW order \in Orders
  PROVE  Plan(order) \in Seq(Statement)
<1> DEFINE stmts == [i \in 1 .. Len(order) |-> Statements(order[i])]
<1>1. cons.got \in Seq(Result) /\ order \in Seq(1 .. Len(cons.got))
  BY ConsFacts, OrderType
<1>2. ASSUME NEW i \in 1 .. Len(cons.got) PROVE Statements(i) \in Seq(Statement)
  <2>1. cons.got[i] \in Result
    BY <1>1, ElementOfSeq
  <2>2. cons.got[i].stmts \in Seq(Statement)
    BY <2>1 DEF Result
  <2>3. QED BY <2>2, StagedType DEF Statements
<1>3. \A i \in 1 .. Len(order) : order[i] \in 1 .. Len(cons.got)
  BY <1>1, ElementOfSeq
<1>4. stmts \in Seq(Seq(Statement))
  BY <1>1, <1>2, <1>3
<1> HIDE DEF stmts
<1>5. Plan(order) = FlattenSeq(stmts)
  BY DEF Plan, stmts
<1>6. QED BY <1>4, <1>5, FlattenType

LEMMA CallKeepsTypes ==
  ASSUME Types, CallStep
  PROVE  /\ ScanType' /\ Started' /\ ConsType' /\ db' \in Databases
         /\ UNCHANGED <<files, open, points, clock, committed, doubled>>
<1>1. db \in Databases /\ cons \in ConsRec
  BY ConsFacts DEF Types, LogType
<1>2. CASE \E w \in Requests : StartStream(w[1], w[2])
  BY <1>1, <1>2, StartStreamTypes DEF mysqlVars
<1>3. CASE \E f \in Flashbacks : RunFlashback(f[1], f[2])
  BY <1>1, <1>3, RunFlashbackTypes DEF mysqlVars
<1>4. CASE Cancel
  <2>1. ~Working /\ cons' = cons /\ cancelled' = TRUE
        /\ UNCHANGED <<files, filter, closed, source, parse, txs, mysqlVars>>
    BY <1>4 DEF Cancel, Working
  <2>2. ScanType' /\ Started'
    BY <2>1, ScanFacts, CallerKeepsScan DEF Working
  <2>3. ConsType'
    BY <2>1 DEF Types, ConsType
  <2>4. QED BY <1>1, <2>1, <2>2, <2>3 DEF mysqlVars
<1>5. CASE Recovers
  BY <1>1, <1>5, StreamNextTypes, StreamDeliverTypes, FlashbackNextTypes DEF Recovers, mysqlVars
<1>6. CASE Execute
  <2>1. PICK order \in Orders :
          /\ db' = ExecuteAll(db, Plan(order))
          /\ cons' = [cons EXCEPT !.pc = "executed", !.order = order]
          /\ cons.pc = "ended"
          /\ UNCHANGED <<files, filter, cancelled, closed, source, parse, txs>>
          /\ UNCHANGED <<open, points, clock, committed, doubled>>
    BY <1>6 DEF Execute, scanVars
  <2>2. db' \in Databases
    BY <1>1, <2>1, PlanType, ExecuteAllType
  <2>3. cons' \in ConsRec /\ cons'.pc = "executed"
    BY <1>1, <2>1, OrderType DEF ConsRec
  <2>4. ScanType' /\ Started'
    BY <2>1, <2>3, ScanFacts, CallerKeepsScan DEF Working
  <2>5. QED BY <2>1, <2>2, <2>3, <2>4 DEF ConsType
<1>7. QED BY <1>2, <1>3, <1>4, <1>5, <1>6 DEF CallStep

-----------------------------------------------------------------------------
(* The types hold throughout. *)

LEMMA NextIs ==
  ASSUME Next
  PROVE  \/ LogStep \/ CallStep
         \/ SourceRuns /\ UNCHANGED <<mysqlVars, cons>>
         \/ ParseRuns /\ UNCHANGED <<mysqlVars, cons>>
BY DEF Next, LogStep, CallStep

LEMMA TypesKept ==
  ASSUME Types, [Next]_vars
  PROVE  Types'
<1>1. CASE LogStep
  <2>1. LogType' /\ UNCHANGED <<filter, cancelled, closed, source, parse, txs, cons>>
    BY <1>1, LogKeepsTypes
  <2>2. Working
    BY <1>1 DEF LogStep, Change, SetSavepoint, Ddl, Rotate, Tick, Commit
  <2>3. ScanType'
    BY <2>1, ScanFacts DEF ScanType, Sending
  <2>4. Started'
    BY <2>1, <2>2 DEF Types, Started, Working
  <2>5. ConsType'
    BY <2>1 DEF Types, ConsType
  <2>6. QED BY <2>1, <2>3, <2>4, <2>5 DEF Types
<1>2. CASE (SourceRuns \/ ParseRuns) /\ UNCHANGED <<mysqlVars, cons>>
  <2>1. ScanType' /\ Started' /\ Steady
    BY <1>2, SourceKeepsTypes, ParseKeepsTypes
  <2>2. LogType'
    BY <1>2, <2>1 DEF Types, LogType, Steady, mysqlVars
  <2>3. ConsType'
    BY <1>2 DEF Types, ConsType
  <2>4. QED BY <2>1, <2>2, <2>3 DEF Types
<1>3. CASE CallStep
  <2>1. /\ ScanType' /\ Started' /\ ConsType' /\ db' \in Databases
        /\ UNCHANGED <<files, open, points, clock, committed, doubled>>
    BY <1>3, CallKeepsTypes
  <2>2. LogType'
    BY <2>1 DEF Types, LogType
  <2>3. QED BY <2>1, <2>2 DEF Types
<1>4. CASE UNCHANGED vars
  BY <1>4 DEF vars, scanVars, mysqlVars, Types, LogType, ScanType, Sending, ConsType, Started,
              Working
<1>5. QED BY <1>1, <1>2, <1>3, <1>4, NextIs

LEMMA AlwaysTypes == Spec => []Types
<1>1. Types /\ [Next]_vars => Types'
  BY TypesKept
<1>2. QED BY TypesInit, <1>1, PTL DEF Spec

\* What the fields of the scanner, its channels and its callers hold
\* (binlog/engine.go:60-260): channels are never filled beyond their capacity,
\* no transaction without rows is sent, and statements leave no row in the
\* database less than no times.
THEOREM TypeCorrect == Spec => []TypeOK
<1>1. Types => TypeOK
  <2> SUFFICES ASSUME Types PROVE TypeOK
    OBVIOUS
  <2>1. \A t \in Tables : \A r \in Rows[t] : db[t][r] \in Nat
    BY DEF Types, LogType, Databases
  <2>2. source.pc \in {"none", "run", "closed"}
        /\ parse.pc \in {"idle", "open", "check", "next", "send", "blocked", "ended"}
    BY ScanFacts DEF SourceRec, ParseRec
  <2>3. cons.pc \in {"idle", "next", "deliver", "ended", "executed"}
        /\ cons.outcome \in {None, "done", "failed"}
    BY ConsFacts DEF ConsRec
  <2>4. \A i \in 1 .. Len(txs) : txs[i].rows # <<>>
    <3>1. \A i \in 1 .. Len(txs) : txs[i] \in Transaction
      BY ScanFacts, ElementOfSeq
    <3>2. QED BY <3>1 DEF Transaction
  <2>5. QED BY <2>1, <2>2, <2>3, <2>4, ScanFacts DEF TypeOK
<1>2. QED BY AlwaysTypes, <1>1, PTL

-----------------------------------------------------------------------------
(* The undone change. *)

\* The statements of a result are the reverse SQL of its rows, as far as the
\* columns of their tables are known, or a warning.
Reverses(r) ==
  \/ \E schema : r.stmts = Generate(r.tx.rows, schema)
  \/ \E t : r.stmts = << Warning(t) >>

\* The log leads from one state of the database to the next, and the open
\* transaction from the last of them to the present one, until the recovery.
LogLeads ==
  /\ Sane(Before)
  /\ \A i \in 1 .. Len(committed) :
       Leads(committed[i].before, committed[i].tx.rows, committed[i].after)
  /\ \A i \in 1 .. Len(committed) : i + 1 <= Len(committed) =>
       committed[i + 1].before = committed[i].after

History ==
  /\ ~Working => open = <<>>
  /\ ~doubled =>
       /\ LogLeads
       /\ cons.pc # "executed" => Leads(Before, open, db)
       /\ cons.pc = "executed" => db = ExecuteAll(Before, Plan(cons.order))

Generated ==
  /\ cons.pc = "deliver" => Reverses(cons.at)
  /\ cons.kind = "stream" \/ (cons.pc \in {"ended", "executed"} /\ cons.outcome = "done")
       => \A j \in 1 .. Len(cons.got) : Reverses(cons.got[j])
  /\ cons.pc = "executed" => cons.outcome = "done" /\ cons.order \in Orders
  /\ cons.pc = "idle" => cons = Idle

LEMMA BeforeType ==
  ASSUME Types
  PROVE  Before \in Databases
<1>1. CASE committed = <<>>
  BY <1>1, RecoveryAssumption DEF RecoveryAssumption, Databases, Before
<1>2. CASE committed # <<>>
  <2>1. committed \in Seq(Commitment) /\ Len(committed) \in 1 .. Len(committed)
    BY <1>2 DEF Types, LogType
  <2>2. committed[Len(committed)] \in Commitment
    BY <2>1, ElementOfSeq
  <2>3. QED BY <1>2, <2>2 DEF Before, Commitment
<1>3. QED BY <1>1, <1>2

LEMMA HistoryInit == Init => History /\ Generated
<1> SUFFICES ASSUME Init PROVE History /\ Generated
  OBVIOUS
<1>1. /\ cons = Idle /\ committed = <<>> /\ open = <<>> /\ db = InitDb
      /\ doubled = ~Distinct(InitDb)
  BY DEF Init
<1>2. Before = InitDb /\ InitDb \in Databases
  BY <1>1, RecoveryAssumption DEF Before, RecoveryAssumption, Databases
<1>3. ASSUME ~doubled PROVE LogLeads /\ Leads(Before, open, db)
  <2>1. Sane(InitDb)
    BY <1>1, <1>2, <1>3, RecoveryAssumption DEF Sane, RecoveryAssumption
  <2>2. Leads(InitDb, <<>>, InitDb)
    BY <2>1, LeadsNowhere
  <2>3. QED BY <1>1, <1>2, <2>1, <2>2 DEF LogLeads
<1>4. cons.pc = "idle" /\ cons.kind = None /\ cons.got = <<>>
  BY <1>1 DEF Idle
<1>5. History
  BY <1>1, <1>3, <1>4 DEF History
<1>6. Generated
  BY <1>1, <1>4 DEF Generated
<1>7. QED BY <1>5, <1>6

LEMMA ChangeLeads ==
  ASSUME Types, Working, NEW c \in Changes(db), Possible(db, c), db' = Changed(db, c),
         Distinct(db'), Leads(Before, open, db), Sane(db)
  PROVE  Leads(Before, Append(open, c), db')
<1>1. db \in Databases /\ open \in Seq(RowChange)
  BY DEF Types, LogType
<1>2. c \in RowChange /\ db' \in Databases /\ c.table \in Tables
  BY <1>1, ChangedType, RowChangeTable
<1>3. \A t \in Tables : KeysHold(t, db'[t])
  <2> SUFFICES ASSUME NEW t \in Tables PROVE KeysHold(t, db'[t])
    OBVIOUS
  <2>1. CASE t = c.table
    BY <2>1 DEF Possible
  <2>2. CASE t # c.table
    <3>1. db'[t] = db[t]
      BY <1>1, <2>2 DEF Changed, Databases
    <3>2. QED BY <3>1 DEF Sane
  <2>3. QED BY <2>1, <2>2
<1>4. Sane(db')
  BY <1>2, <1>3 DEF Sane
<1>5. QED BY <1>1, <1>2, <1>4, LeadsMore

LEMMA LeadsSane ==
  ASSUME NEW d, NEW rows, NEW e, Len(rows) \in Nat, Leads(d, rows, e)
  PROVE  Sane(e)
BY Len(rows) \in 0 .. Len(rows) DEF Leads

LEMMA LeadsStays ==
  ASSUME NEW d, NEW e, Leads(d, <<>>, e)
  PROVE  e = d
BY Len(<<>>) = 0 DEF Leads

LEMMA LogStepHistory ==
  ASSUME Types, History, Generated, LogStep
  PROVE  History' /\ Generated'
<1>1. Working /\ Working' /\ cons' = cons /\ cons.pc = "idle"
  <2>1. Working
    BY DEF LogStep, Change, SetSavepoint, Ddl, Rotate, Tick, Commit
  <2>2. cons' = cons
    BY LogKeepsTypes
  <2>3. QED BY <2>1, <2>2 DEF Working
<1>2. Generated'
  BY <1>1 DEF Generated
<1>3. /\ db \in Databases /\ open \in Seq(RowChange) /\ committed \in Seq(Commitment)
      /\ Len(committed) \in Nat /\ Len(open) \in Nat
  BY DEF Types, LogType
<1>4. ASSUME ~doubled PROVE LogLeads /\ Leads(Before, open, db) /\ Sane(db)
  <2>1. LogLeads /\ Leads(Before, open, db)
    BY <1>1, <1>4 DEF History
  <2>2. QED BY <1>3, <2>1, LeadsSane
<1>5. CASE UNCHANGED <<db, open, committed, doubled>>
  <2>1. Before' = Before
    BY <1>5 DEF Before
  <2>2. QED BY <1>1, <1>2, <1>4, <1>5, <2>1 DEF History, LogLeads
<1>6. CASE \E c \in Changes(db) : Change(c)
  <2>1. PICK c \in Changes(db) : Change(c)
    BY <1>6
  <2>2. /\ Possible(db, c) /\ db' = Changed(db, c) /\ open' = Append(open, c)
        /\ doubled' = (doubled \/ ~Distinct(db')) /\ committed' = committed
    BY <2>1 DEF Change
  <2>3. Before' = Before
    BY <2>2 DEF Before
  <2>4. ASSUME ~doubled' PROVE LogLeads' /\ Leads(Before', open', db')
    <3>1. ~doubled /\ Distinct(db')
      BY <2>2, <2>4
    <3>2. LogLeads'
      BY <1>4, <2>2, <2>3, <3>1 DEF LogLeads
    <3>3. Leads(Before, Append(open, c), db')
      BY <1>1, <1>4, <2>2, <3>1, ChangeLeads
    <3>4. QED BY <2>2, <2>3, <3>2, <3>3
  <2>5. History'
    BY <1>1, <2>4 DEF History
  <2>6. QED BY <1>2, <2>5
<1>7. CASE \E s \in 1 .. MaxTime : Commit(s)
  <2>1. PICK s \in 1 .. MaxTime : Commit(s)
    BY <1>7
  <2> DEFINE c == Committing(s)
             n == Len(committed)
  <2>2. committed' = Append(committed, c) /\ open' = <<>> /\ db' = db /\ doubled' = doubled
        /\ n < Len(Kinds)
    BY <2>1, CommitIs
  <2>3. c \in Commitment
    BY <2>1, <2>2, CommitTypes, s \in Nat
  <2>4. c.before = Before /\ c.after = db /\ c.tx.rows = open
    BY DEF Committing, CommitTx
  <2> HIDE DEF c, n
  <2>5. /\ Len(committed') = n + 1 /\ committed' # <<>> /\ committed'[n + 1] = c
        /\ \A i \in 1 .. n : committed'[i] = committed[i]
    BY <1>3, <2>2, <2>3, AppendProperties DEF n
  <2>6. Before' = db
    BY <2>4, <2>5 DEF Before
  <2>7. ASSUME ~doubled' PROVE LogLeads' /\ Leads(Before', open', db')
    <3>1. LogLeads /\ Leads(Before, open, db) /\ Sane(db)
      BY <1>4, <2>2, <2>7
    <3>2. Leads(Before', open', db')
      BY <2>2, <2>6, <3>1, LeadsNowhere
    <3>3. ASSUME NEW i \in 1 .. n + 1
          PROVE  Leads(committed'[i].before, committed'[i].tx.rows, committed'[i].after)
      <4>1. CASE i = n + 1
        BY <2>4, <2>5, <3>1, <4>1
      <4>2. CASE i # n + 1
        <5>1. i \in 1 .. n
          BY <1>3, <4>2 DEF n
        <5>2. QED BY <2>5, <3>1, <5>1 DEF LogLeads, n
      <4>3. QED BY <4>1, <4>2
    <3>4. ASSUME NEW i \in 1 .. n + 1, i + 1 <= n + 1
          PROVE  committed'[i + 1].before = committed'[i].after
      <4>1. i \in 1 .. n /\ n \in Nat
        BY <1>3, <3>4 DEF n
      <4>2. CASE i = n
        <5>1. committed'[i + 1].before = Before /\ committed'[i] = committed[n]
          BY <2>4, <2>5, <4>1, <4>2
        <5>2. committed # <<>>
          BY <4>1, <4>2 DEF n
        <5>3. QED BY <4>2, <5>1, <5>2 DEF Before, n
      <4>3. CASE i # n
        <5>1. i + 1 \in 1 .. n
          BY <4>1, <4>3
        <5>2. committed'[i + 1] = committed[i + 1] /\ committed'[i] = committed[i]
          BY <2>5, <4>1, <5>1
        <5>3. QED BY <3>1, <4>1, <5>1, <5>2 DEF LogLeads, n
      <4>4. QED BY <4>2, <4>3
    <3>5. Sane(Before')
      BY <2>6, <3>1
    <3>6. LogLeads'
      BY <2>5, <3>3, <3>4, <3>5 DEF LogLeads
    <3>7. QED BY <3>2, <3>6
  <2>8. History'
    BY <1>1, <2>7 DEF History
  <2>9. QED BY <1>2, <2>8
<1>8. QED
  BY <1>5, <1>6, <1>7 DEF LogStep, SetSavepoint, Ddl, Rotate, Tick, mysqlVars

\* Until the recovery, neither the scanner nor its caller touches the history.
LEMMA HistoryKept ==
  ASSUME History, UNCHANGED <<db, open, committed, doubled>>,
         cons.pc # "executed", cons'.pc # "executed", ~Working' => open = <<>>
  PROVE  History'
<1>1. Before' = Before
  BY DEF Before
<1>2. LogLeads => LogLeads'
  BY <1>1 DEF LogLeads
<1>3. QED BY <1>1, <1>2 DEF History

LEMMA SqlReverses ==
  ASSUME NEW tx \in Transaction, NEW schema
  PROVE  Reverses([tx |-> tx, stmts |-> GenerateSQL(tx, schema)])
BY DEF Reverses, GenerateSQL

LEMMA CallStepHistory ==
  ASSUME Types, History, Generated, CallStep
  PROVE  History' /\ Generated'
<1>1. cons \in ConsRec /\ cons.got \in Seq(Result) /\ cons'.pc \in {"next", "deliver", "ended", "executed", "idle"}
  BY ConsFacts, CallKeepsTypes DEF ConsType, ConsRec
<1>2. UNCHANGED <<open, committed, doubled>>
  BY CallKeepsTypes
<1>3. CASE \E w \in Requests : StartStream(w[1], w[2])
  <2>1. /\ Working /\ db' = db /\ open = <<>>
        /\ cons'.pc \in {"next", "ended"} /\ cons'.got = <<>> /\ cons'.kind = "stream"
    BY <1>3 DEF StartStream, Idle, mysqlVars
  <2>2. History'
    BY <1>2, <2>1, HistoryKept DEF Working, History
  <2>3. Generated'
    BY <2>1 DEF Generated
  <2>4. QED BY <2>2, <2>3
<1>4. CASE \E f \in Flashbacks : RunFlashback(f[1], f[2])
  <2>1. Working /\ open = <<>> /\ db' = db /\ cons'.pc = "next" /\ cons'.got = <<>> /\ cons'.kind = "flashback"
    BY <1>4 DEF RunFlashback, Idle, mysqlVars
  <2>2. History'
    BY <1>2, <2>1, HistoryKept DEF Working, History
  <2>3. Generated'
    BY <2>1 DEF Generated
  <2>4. QED BY <2>2, <2>3
<1>5. CASE Cancel
  <2>1. cons' = cons /\ db' = db /\ cons.pc # "executed"
    BY <1>5 DEF Cancel, mysqlVars
  <2>2. History'
    BY <1>2, <2>1, HistoryKept DEF Working, History
  <2>3. Generated'
    BY <2>1 DEF Generated
  <2>4. QED BY <2>2, <2>3
<1>6. CASE StreamNext
  <2>1. cons.kind = "stream" /\ cons.pc = "next" /\ db' = db
    BY <1>6 DEF StreamNext, mysqlVars
  <2>2. CASE \E known \in FetchSchemas(IF Head(txs).truncated THEN <<>> ELSE Head(txs).rows, cons.schema) :
               /\ NextIsTx
               /\ cons' = [cons EXCEPT !.pc = "deliver", !.schema = known,
                            !.at = [tx |-> Head(txs), stmts |-> GenerateSQL(Head(txs), known)]]
    <3>1. PICK known : /\ NextIsTx
             /\ cons' = [cons EXCEPT !.pc = "deliver", !.schema = known,
                          !.at = [tx |-> Head(txs), stmts |-> GenerateSQL(Head(txs), known)]]
      BY <2>2
    <3>2. Head(txs) \in Transaction
      BY <3>1, ConsFacts, HeadTailProperties DEF NextIsTx
    <3> DEFINE r == [tx |-> Head(txs), stmts |-> GenerateSQL(Head(txs), known)]
    <3>3. Reverses(r)
      BY <3>2, SqlReverses
    <3> HIDE DEF r
    <3>4. cons' = [cons EXCEPT !.pc = "deliver", !.schema = known, !.at = r]
      BY <3>1 DEF r
    <3>5. cons'.pc = "deliver" /\ cons'.at = r /\ cons'.got = cons.got /\ cons'.kind = cons.kind
      BY <1>1, <3>4 DEF ConsRec
    <3>6. History'
      BY <1>2, <2>1, <3>5, HistoryKept DEF Working, History
    <3>7. Generated'
      BY <2>1, <3>3, <3>5 DEF Generated
    <3>8. QED BY <3>6, <3>7
  <2>3. ASSUME NEW outcome, cons' = [cons EXCEPT !.pc = "ended", !.at = None, !.outcome = outcome]
        PROVE  History' /\ Generated'
    <3>1. cons'.pc = "ended" /\ cons'.got = cons.got /\ cons'.kind = cons.kind
      BY <1>1, <2>3 DEF ConsRec
    <3>2. History'
      BY <1>2, <2>1, <3>1, HistoryKept DEF Working, History
    <3>3. Generated'
      BY <2>1, <3>1 DEF Generated
    <3>4. QED BY <3>2, <3>3
  <2>4. QED BY <1>6, <2>2, <2>3 DEF StreamNext, StreamReturns
<1>7. CASE StreamDeliver
  <2>1. cons.kind = "stream" /\ cons.pc = "deliver" /\ db' = db
    BY <1>7 DEF StreamDeliver, mysqlVars
  <2> DEFINE more == Append(cons.got, cons.at)
             sent == [cons EXCEPT !.got = more, !.at = None]
  <2>2. /\ cons.at \in Result /\ Reverses(cons.at)
        /\ \A j \in 1 .. Len(cons.got) : Reverses(cons.got[j])
    BY <2>1, ConsFacts DEF Generated
  <2>3. \A j \in 1 .. Len(more) : Reverses(more[j])
    <3>1. /\ Len(more) = Len(cons.got) + 1 /\ more[Len(cons.got) + 1] = cons.at
          /\ \A j \in 1 .. Len(cons.got) : more[j] = cons.got[j]
      BY <1>1, <2>2, AppendProperties
    <3> HIDE DEF more
    <3>2. Len(cons.got) \in Nat
      BY <1>1
    <3>3. QED BY <2>2, <3>1, <3>2
  <2>4. /\ cons'.pc \in {"ended", "next"}
        /\ cons'.got \in {more, cons.got} /\ cons'.kind = cons.kind
    <3> DEFINE Ended(c, outcome) == [c EXCEPT !.pc = "ended", !.at = None, !.outcome = outcome]
    <3>1. \/ cons' = Ended(sent, "done") \/ cons' = Ended(cons, "failed")
          \/ cons' = [sent EXCEPT !.pc = "next"]
      BY <1>7 DEF StreamDeliver, StreamReturns
    <3> HIDE DEF more
    <3>2. QED BY <1>1, <3>1 DEF ConsRec
  <2>5. History'
    BY <1>2, <2>1, <2>4, HistoryKept DEF Working, History
  <2> HIDE DEF more, sent
  <2>6. Generated'
    BY <2>1, <2>2, <2>3, <2>4 DEF Generated
  <2>7. QED BY <2>5, <2>6
<1>8. CASE FlashbackNext
  <2>1. cons.kind = "flashback" /\ cons.pc = "next" /\ db' = db
    BY <1>8 DEF FlashbackNext, mysqlVars
  <2> DEFINE all == [i \in 1 .. Len(cons.got) |->
                       [tx |-> cons.got[i].tx, stmts |-> Generate(cons.got[i].tx.rows, cons.schema)]]
             outcome == IF cons.got = <<>> THEN "failed" ELSE "done"
  <2>2. \A j \in 1 .. Len(all) : Reverses(all[j])
    <3> DEFINE R(i) == [tx |-> cons.got[i].tx, stmts |-> Generate(cons.got[i].tx.rows, cons.schema)]
    <3>1. ASSUME NEW j \in 1 .. Len(cons.got) PROVE Reverses(R(j))
      BY DEF Reverses
    <3>2. Len(cons.got) \in Nat
      BY <1>1
    <3> HIDE DEF R
    <3>3. Len([i \in 1 .. Len(cons.got) |-> R(i)]) = Len(cons.got)
      BY <3>2
    <3>4. \A j \in 1 .. Len(cons.got) : [i \in 1 .. Len(cons.got) |-> R(i)][j] = R(j)
      OBVIOUS
    <3>5. QED BY <3>1, <3>3, <3>4 DEF R
  <2>3. \/ \E known, got : cons' = [cons EXCEPT !.schema = known, !.got = got]
        \/ cons' = [cons EXCEPT !.pc = "ended", !.outcome = outcome, !.got = all]
        \/ cons' = [cons EXCEPT !.pc = "ended", !.outcome = "failed"]
    BY <1>8 DEF FlashbackNext
  <2> HIDE DEF all, outcome
  <2>4. /\ cons'.pc \in {"ended", "next"} /\ cons'.kind = "flashback"
        /\ cons'.pc = "ended" /\ cons'.outcome = "done" => cons'.got = all
    BY <1>1, <2>1, <2>3 DEF ConsRec
  <2>5. History'
    BY <1>2, <2>1, <2>4, HistoryKept DEF Working, History
  <2>6. Generated'
    BY <2>2, <2>4 DEF Generated
  <2>7. QED BY <2>5, <2>6
<1>9. CASE Execute
  <2>1. PICK order \in Orders :
          /\ cons.pc = "ended" /\ cons.outcome = "done"
          /\ cons' = [cons EXCEPT !.pc = "executed", !.order = order]
          /\ db' = ExecuteAll(db, Plan(order))
    BY <1>9 DEF Execute
  <2>2. cons'.pc = "executed" /\ cons'.got = cons.got /\ cons'.kind = cons.kind
        /\ cons'.outcome = "done" /\ cons'.order = order
    BY <1>1, <2>1 DEF ConsRec
  <2>3. Generated'
    BY <2>1, <2>2 DEF Generated, Orders
  <2>4. Plan(cons.order)' = Plan(order) /\ Before' = Before
    BY <1>2, <2>2 DEF Plan, Statements, Staged, Before
  <2>5. ASSUME ~doubled PROVE LogLeads' /\ db' = ExecuteAll(Before', Plan(cons.order)')
    <3>1. LogLeads /\ Leads(Before, open, db) /\ open = <<>>
      BY <2>1, <2>5 DEF History, Working
    <3>2. db = Before
      BY <3>1, LeadsStays
    <3>3. LogLeads'
      BY <1>2, <2>4, <3>1 DEF LogLeads
    <3>4. QED BY <2>1, <2>4, <3>2, <3>3
  <2>6. open = <<>> /\ open' = open /\ doubled' = doubled
    BY <1>2, <2>1 DEF History, Working
  <2>7. History'
    BY <2>2, <2>5, <2>6 DEF History
  <2>8. QED BY <2>3, <2>7
<1>10. QED BY <1>3, <1>4, <1>5, <1>6, <1>7, <1>8, <1>9 DEF CallStep, Recovers

LEMMA HistoryStep ==
  ASSUME Types, History, Generated, [Next]_vars
  PROVE  History' /\ Generated'
<1>1. CASE UNCHANGED <<mysqlVars, cons>>
  <2>1. UNCHANGED <<db, open, committed, doubled, cons>>
    BY <1>1 DEF mysqlVars
  <2>2. Generated'
    BY <2>1 DEF Generated, Orders
  <2>3. Before' = Before /\ Plan(cons.order)' = Plan(cons.order)
    BY <2>1 DEF Before, Plan, Statements, Staged
  <2>4. History'
    BY <2>1, <2>3 DEF History, LogLeads, Working
  <2>5. QED BY <2>2, <2>4
<1>2. CASE LogStep
  BY <1>2, LogStepHistory
<1>3. CASE CallStep
  BY <1>3, CallStepHistory
<1>4. QED BY <1>1, <1>2, <1>3, NextIs DEF vars

\* What the transactions from the i-th on did, up to the (i + k)-th.
RowsFrom(i, k) == FlattenSeq([j \in 1 .. k + 1 |-> committed[(i + j) - 1].tx.rows])

LEMMA SuffixLeads ==
  ASSUME Types, LogLeads, NEW i \in 1 .. Len(committed)
  PROVE  /\ RowsFrom(i, Len(committed) - i) \in Seq(RowChange)
         /\ Leads(committed[i].before, RowsFrom(i, Len(committed) - i), Before)
<1> DEFINE n == Len(committed)
           rowsOf == [j \in 1 .. n |-> committed[j].tx.rows]
           part == [k \in Nat |-> [j \in 1 .. k + 1 |-> committed[(i + j) - 1].tx.rows]]
           Right(k) == /\ part[k] \in Seq(Seq(RowChange)) /\ FlattenSeq(part[k]) \in Seq(RowChange)
                       /\ Leads(committed[i].before, FlattenSeq(part[k]), committed[i + k].after)
           P == {k \in Nat : i + k <= n => Right(k)}
<1>1. n \in Nat /\ i \in 1 .. n /\ committed \in Seq(Commitment)
  BY DEF Types, LogType
<1>2. ASSUME NEW j \in 1 .. n PROVE committed[j].tx.rows \in Seq(RowChange)
  <2>1. committed[j] \in Commitment
    BY <1>1, ElementOfSeq
  <2>2. QED BY <2>1 DEF Commitment, LogTx
<1>3. ASSUME NEW j \in 1 .. n
      PROVE  Leads(committed[j].before, committed[j].tx.rows, committed[j].after)
  BY DEF LogLeads
<1>4. ASSUME NEW j \in 1 .. n, j + 1 <= n PROVE committed[j + 1].before = committed[j].after
  BY <1>4 DEF LogLeads
<1> HIDE DEF n
<1>5. 0 \in P
  <2> DEFINE rows == committed[i].tx.rows
  <2>1. part[0] = <<rows>>
    <3>1. part[0] = [j \in 1 .. 1 |-> rows]
      <4>1. 0 + 1 = 1 /\ (i + 1) - 1 = i
        BY <1>1
      <4>2. \A j \in 1 .. 1 : committed[(i + j) - 1].tx.rows = rows
        BY <4>1
      <4>3. part[0] = [j \in 1 .. 0 + 1 |-> committed[(i + j) - 1].tx.rows]
        OBVIOUS
      <4> HIDE DEF part, rows
      <4>4. QED BY <4>1, <4>2, <4>3
    <3> HIDE DEF part, rows
    <3>2. QED BY <3>1
  <2>2. rows \in Seq(RowChange)
    BY <1>1, <1>2
  <2>3. Leads(committed[i].before, rows, committed[i].after)
    BY <1>1, <1>3
  <2> HIDE DEF rows, part
  <2>4. FlattenSeq(part[0]) = rows /\ part[0] \in Seq(Seq(RowChange))
    BY <2>1, <2>2, FlattenSingle
  <2>5. i + 0 = i
    BY <1>1
  <2>6. QED BY <2>2, <2>3, <2>4, <2>5
<1>6. ASSUME NEW k \in Nat, k \in P PROVE k + 1 \in P
  <2>1. SUFFICES ASSUME i + (k + 1) <= n PROVE Right(k + 1)
    <3> HIDE DEF Right
    <3>1. QED BY k + 1 \in Nat
  <2> DEFINE m == i + k
             rows == committed[m + 1].tx.rows
  <2>2. m \in 1 .. n /\ m + 1 \in 1 .. n /\ m + 1 <= n /\ i + (k + 1) = m + 1 /\ m <= n
    BY <1>1, <2>1
  <2>3. /\ part[k] \in Seq(Seq(RowChange)) /\ FlattenSeq(part[k]) \in Seq(RowChange)
        /\ Leads(committed[i].before, FlattenSeq(part[k]), committed[m].after)
    BY <1>6, <2>2
  <2>4. rows \in Seq(RowChange) /\ Leads(committed[m].after, rows, committed[m + 1].after)
    BY <1>2, <1>3, <1>4, <2>2
  <2>5. part[k + 1] = Append(part[k], rows)
    <3> DEFINE f == [j \in 1 .. (k + 1) + 1 |-> committed[(i + j) - 1].tx.rows]
    <3>1. part[k + 1] = f /\ part[k] = [j \in 1 .. k + 1 |-> committed[(i + j) - 1].tx.rows]
      OBVIOUS
    <3>2. f[(k + 1) + 1] = rows
      <4>1. (i + ((k + 1) + 1)) - 1 = m + 1 /\ (k + 1) + 1 \in 1 .. (k + 1) + 1
        BY <1>1
      <4>2. QED BY <4>1
    <3>3. f = Append([j \in 1 .. k + 1 |-> committed[(i + j) - 1].tx.rows], rows)
      <4> DEFINE g == [j \in 1 .. k + 1 |-> committed[(i + j) - 1].tx.rows]
      <4>1. DOMAIN f = 1 .. (k + 1) + 1 /\ \A j \in 1 .. k + 1 : f[j] = g[j]
        BY k + 1 \in Nat
      <4>2. g = part[k] /\ Len(g) = k + 1
        OBVIOUS
      <4>3. Append(g, rows) = [j \in 1 .. (k + 1) + 1 |-> IF j <= k + 1 THEN g[j] ELSE rows]
        BY <2>3, <2>4, <4>2
      <4>4. f = [j \in 1 .. (k + 1) + 1 |-> f[j]]
        OBVIOUS
      <4> HIDE DEF f, g, rows
      <4>5. \A j \in 1 .. (k + 1) + 1 : f[j] = IF j <= k + 1 THEN g[j] ELSE rows
        <5> SUFFICES ASSUME NEW j \in 1 .. (k + 1) + 1
                     PROVE  f[j] = IF j <= k + 1 THEN g[j] ELSE rows
          OBVIOUS
        <5>1. CASE j <= k + 1
          BY <4>1, <5>1
        <5>2. CASE ~(j <= k + 1)
          BY <3>2, <5>2, j = (k + 1) + 1
        <5>3. QED BY <5>1, <5>2
      <4>6. QED BY <4>3, <4>4, <4>5 DEF g
    <3>4. QED BY <3>1, <3>3
  <2> HIDE DEF part, rows, m
  <2>6. part[k + 1] \in Seq(Seq(RowChange))
    BY <2>3, <2>4, <2>5, AppendProperties
  <2>7. FlattenSeq(part[k + 1]) = FlattenSeq(part[k]) \o rows
    BY <2>3, <2>4, <2>5, FlattenAppend
  <2>8. FlattenSeq(part[k + 1]) \in Seq(RowChange)
    BY <2>6, FlattenType
  <2>9. Leads(committed[i].before, FlattenSeq(part[k + 1]), committed[m + 1].after)
    BY <2>3, <2>4, <2>7, LeadsOn
  <2>10. QED BY <2>2, <2>6, <2>8, <2>9
<1> HIDE DEF P
<1>7. n - i \in P
  BY <1>1, <1>5, <1>6, Induction
<1>8. i + (n - i) = n /\ n - i \in Nat
  BY <1>1
<1>9. Before = committed[n].after
  BY <1>1 DEF Before, n
<1>10. part[n - i] = [j \in 1 .. (n - i) + 1 |-> committed[(i + j) - 1].tx.rows]
  BY <1>8
<1>11. FlattenSeq(part[n - i]) = RowsFrom(i, n - i)
  BY <1>10 DEF RowsFrom
<1> HIDE DEF part
<1>12. QED BY <1>7, <1>8, <1>9, <1>11 DEF P, n

Unwarned(stmts) == \A k \in 1 .. Len(stmts) : stmts[k].sql # ""

LEMMA UnwarnedResult ==
  ASSUME NEW r, r.tx.rows \in Seq(RowChange), Reverses(r), Unwarned(r.stmts)
  PROVE  r.stmts = Generate(r.tx.rows, Tables)
<1>1. CASE \E schema : r.stmts = Generate(r.tx.rows, schema)
  <2>1. PICK schema : r.stmts = Generate(r.tx.rows, schema)
    BY <1>1
  <2>2. \A k \in 1 .. Len(Generate(r.tx.rows, schema)) : Generate(r.tx.rows, schema)[k].sql # ""
    BY <2>1 DEF Unwarned
  <2>3. QED BY <2>1, <2>2, GenerateType
<1>2. CASE \E t : r.stmts = << Warning(t) >>
  <2>1. PICK t : r.stmts = << Warning(t) >>
    BY <1>2
  <2>2. << Warning(t) >>[1].sql = "" /\ 1 \in 1 .. Len(<< Warning(t) >>)
    <3> DEFINE w == Warning(t)
    <3>1. w.sql = ""
      BY DEF Warning
    <3> HIDE DEF w
    <3>2. << w >>[1] = w /\ 1 \in 1 .. Len(<< w >>)
      OBVIOUS
    <3>3. QED BY <3>1, <3>2 DEF w
  <2>3. QED BY <2>1, <2>2 DEF Unwarned
<1>3. QED BY <1>1, <1>2 DEF Reverses

\* A transaction that was found once is staged as it was generated.
LEMMA StagedWhole ==
  ASSUME Types, OneResultEach, NEW i \in 1 .. Len(cons.got)
  PROVE  Staged(cons.got[i].tx.id) = cons.got[i].stmts
<1> DEFINE s == cons.got[i].stmts
<1>1. s \in Seq(Statement)
  <2>1. cons.got[i] \in Result
    BY ConsFacts, ElementOfSeq
  <2>2. QED BY <2>1 DEF Result
<1>2. {j \in 1 .. Len(cons.got) : cons.got[j].tx.id = cons.got[i].tx.id} = {i}
  BY DEF OneResultEach
<1>3. {Len(cons.got[j].stmts) : j \in {i}} = {Len(s)} /\ Max({Len(s)}) = Len(s)
  <2>1. Len(s) \in Nat
    BY <1>1
  <2> HIDE DEF s
  <2>2. Max({Len(s)}) = Len(s)
    BY <2>1 DEF Max
  <2>3. QED BY <2>2 DEF s
<1>4. ASSUME NEW k \in 1 .. Len(s)
      PROVE  Min({j \in {i} : k <= Len(cons.got[j].stmts)}) = i
  <2>1. {j \in {i} : k <= Len(cons.got[j].stmts)} = {i}
    BY <1>1
  <2>2. Min({i}) = i
    BY ConsFacts DEF Min
  <2>3. QED BY <2>1, <2>2
<1>5. Staged(cons.got[i].tx.id)
        = [k \in 1 .. Len(s) |->
             cons.got[Min({j \in {i} : k <= Len(cons.got[j].stmts)})].stmts[k]]
  BY <1>2, <1>3 DEF Staged
<1>6. s = [k \in 1 .. Len(s) |-> s[k]]
  BY <1>1
<1>7. QED BY <1>4, <1>5, <1>6

\* The j-th of the results that were executed, counted from the end.
Chosen(j) == cons.got[cons.order[Len(cons.order) + 1 - j]]

LEMMA PlanUndoes ==
  ASSUME Types, Generated, cons.pc = "executed", cons.kind = "flashback" \/ OneResultEach,
         \A j \in 1 .. Len(cons.order) : Unwarned(Chosen(j).stmts)
  PROVE  Plan(cons.order)
           = Generate(FlattenSeq([j \in 1 .. Len(cons.order) |-> Chosen(j).tx.rows]), Tables)
<1> DEFINE n == Len(cons.order)
           seqs == [j \in 1 .. n |-> Chosen(j).tx.rows]
           stmts == [j \in 1 .. n |-> Chosen(j).stmts]
<1>1. n \in Nat /\ cons.got \in Seq(Result) /\ cons.order \in Seq(1 .. Len(cons.got))
  BY ConsFacts, OrderType DEF Generated
<1>2. ASSUME NEW j \in 1 .. n
      PROVE  /\ cons.order[j] \in 1 .. Len(cons.got)
             /\ n + 1 - j \in 1 .. n
  BY <1>1, ElementOfSeq
<1>3. ASSUME NEW j \in 1 .. n
      PROVE  /\ Chosen(j).tx.rows \in Seq(RowChange) /\ Chosen(j).stmts \in Seq(Statement)
             /\ Chosen(j).stmts = Generate(Chosen(j).tx.rows, Tables)
  <2> DEFINE k == cons.order[n + 1 - j]
  <2>1. k \in 1 .. Len(cons.got) /\ Chosen(j) = cons.got[k]
    BY <1>2 DEF Chosen
  <2> HIDE DEF k
  <2>2. cons.got[k] \in Result
    BY <1>1, <2>1, ElementOfSeq
  <2>3. Chosen(j).tx.rows \in Seq(RowChange) /\ Chosen(j).stmts \in Seq(Statement)
    BY <2>1, <2>2 DEF Result, Transaction
  <2>4. Reverses(Chosen(j)) /\ Unwarned(Chosen(j).stmts)
    <3>1. cons.kind = "stream" \/ (cons.pc \in {"ended", "executed"} /\ cons.outcome = "done")
      BY DEF Generated
    <3>2. QED BY <2>1, <3>1 DEF Generated
  <2>5. QED BY <2>3, <2>4, UnwarnedResult
<1>4. seqs \in Seq(Seq(RowChange)) /\ Len(seqs) = n /\ stmts \in Seq(Seq(Statement)) /\ Len(stmts) = n
  BY <1>1, <1>3
<1>5. stmts = [j \in 1 .. Len(seqs) |-> Generate(seqs[j], Tables)]
  BY <1>3, <1>4
<1>6. [i \in 1 .. n |-> Statements(cons.order[i])] = Reverse(stmts)
  <2>1. ASSUME NEW i \in 1 .. n PROVE Statements(cons.order[i]) = stmts[(n - i) + 1]
    <3>1. (n - i) + 1 \in 1 .. n /\ n + 1 - ((n - i) + 1) = i
      BY <1>1
    <3>2. stmts[(n - i) + 1] = cons.got[cons.order[i]].stmts
      BY <3>1 DEF Chosen
    <3>3. cons.order[i] \in 1 .. Len(cons.got)
      BY <1>2
    <3>4. QED BY <3>2, <3>3, StagedWhole DEF Statements
  <2> HIDE DEF stmts, n
  <2>2. QED BY <1>4, <2>1 DEF Reverse
<1>7. Plan(cons.order) = FlattenSeq(Reverse(stmts))
  BY <1>6 DEF Plan
<1> HIDE DEF seqs, stmts
<1>8. Plan(cons.order) = Generate(FlattenSeq(seqs), Tables)
  BY <1>4, <1>5, <1>7, FlattenGenerate
<1>9. QED BY <1>8 DEF seqs

LEMMA UndoneWhenFound ==
  ASSUME Types, History, Generated
  PROVE  Restored
<1> SUFFICES ASSUME cons.pc = "executed", ~doubled, cons.kind = "flashback" \/ OneResultEach,
                    NEW i \in 1 .. Len(committed), UndoesSince(i)
             PROVE  db = committed[i].before
  BY DEF Restored
<1> DEFINE n == Len(committed)
           rows == FlattenSeq([j \in 1 .. Len(cons.order) |-> Chosen(j).tx.rows])
<1>1. LogLeads /\ db = ExecuteAll(Before, Plan(cons.order))
  BY DEF History
<1>2. /\ rows = FlattenSeq([j \in 1 .. n + 1 - i |-> committed[i + j - 1].tx.rows])
      /\ \A j \in 1 .. Len(cons.order) : Unwarned(Chosen(j).stmts)
  <2> DEFINE m == Len(cons.order)
             chosen == [j \in 1 .. m |-> cons.got[cons.order[m + 1 - j]]]
  <2>1. \A j \in 1 .. m : chosen[j] = Chosen(j)
    BY DEF Chosen
  <2>2. [j \in 1 .. m |-> chosen[j].tx.rows] = [j \in 1 .. m |-> Chosen(j).tx.rows]
    BY <2>1
  <2>3. /\ FlattenSeq([j \in 1 .. m |-> chosen[j].tx.rows])
             = FlattenSeq([j \in 1 .. n + 1 - i |-> committed[i + j - 1].tx.rows])
        /\ \A j \in 1 .. m : Unwarned(chosen[j].stmts)
    BY DEF UndoesSince, Unwarned
  <2> HIDE DEF chosen
  <2>4. QED BY <2>1, <2>2, <2>3
<1>3. Plan(cons.order) = Generate(rows, Tables)
  BY <1>2, PlanUndoes
<1>4. rows = RowsFrom(i, n - i)
  <2>1. n \in Nat /\ n + 1 - i = (n - i) + 1
    BY DEF Types, LogType
  <2>2. \A j \in 1 .. n + 1 - i : committed[i + j - 1].tx.rows = committed[(i + j) - 1].tx.rows
    <3>1. \A j \in 1 .. n + 1 - i : i + j - 1 = (i + j) - 1
      BY <2>1
    <3>2. QED BY <3>1
  <2>3. [j \in 1 .. n + 1 - i |-> committed[i + j - 1].tx.rows]
          = [j \in 1 .. (n - i) + 1 |-> committed[(i + j) - 1].tx.rows]
    BY <2>1, <2>2
  <2>4. QED BY <1>2, <2>3 DEF RowsFrom
<1>5. rows \in Seq(RowChange) /\ Leads(committed[i].before, rows, Before)
  BY <1>1, <1>4, SuffixLeads
<1> HIDE DEF rows
<1>6. ExecuteAll(Before, Generate(rows, Tables)) = committed[i].before
  BY <1>5, UndoAll
<1>7. QED BY <1>1, <1>3, <1>6

\* Executing the reverse SQL of all transactions from some point on, newest
\* first as the client of a scan may ask for it (generator.go:21-92,
\* handler.go:1330-1353), or of a single transaction, puts the database back to
\* that point exactly, whatever the tables, rows, filters, files and channel
\* capacities, unless a statement came with a warning, a row was doubled or two
\* results had one ID.  Of the other orders, the one that the web page proposes
\* among them, it says nothing.
THEOREM UndoSound == Spec => []Restored
<1> DEFINE Inv == Types /\ History /\ Generated
<1>1. Init => Inv
  BY TypesInit, HistoryInit
<1>2. Inv /\ [Next]_vars => Inv'
  BY TypesKept, HistoryStep
<1>3. Inv => Restored
  BY UndoneWhenFound
<1>4. QED BY <1>1, <1>2, <1>3, PTL DEF Spec

-----------------------------------------------------------------------------
(* What a scan finds.  First the shape of a log: its files fs, the *)
(* transactions cs in them and the time now at which it was read.  *)

NoTorn == \A i \in 1 .. Len(committed) : ~committed[i].torn

\* Where the k-th row change of a transaction is written, and BEGIN for k = 0.
Lead(c) == IF c.tx.gtid = None THEN 0 ELSE 1
AtRow(c, k) == c.first + Lead(c) + 2 * k

\* The row changes of a transaction in its file, each behind its table map.
RowsWritten(c, file) ==
  \A k \in 1 .. Len(c.tx.rows) :
    /\ file[AtRow(c, k) - 1].type = "map"
    /\ file[AtRow(c, k) - 1].table = c.tx.rows[k].table
    /\ file[AtRow(c, k)].type = "rows"
    /\ file[AtRow(c, k)].table = c.tx.rows[k].table
    /\ file[AtRow(c, k)].change = c.tx.rows[k]

EndWritten(c, e) ==
  /\ e.ts = c.tx.ts
  /\ \/ e.type = "commit" /\ c.tx.gtid = None /\ c.tx.id = <<"anonymous", c.tx.ts, c.tx.rows>>
     \/ e.type = "xid" /\ c.tx.id = IF c.tx.gtid = None THEN e.id ELSE c.tx.gtid

Written(c, file) ==
  /\ Len(c.tx.rows) > 0
  /\ 1 <= c.first /\ c.last = AtRow(c, Len(c.tx.rows)) + 1 /\ c.last <= Len(file)
  /\ c.tx.gtid # None => file[c.first].type = "gtid" /\ file[c.first].id = c.tx.gtid
  /\ file[AtRow(c, 0)].type = "begin"
  /\ RowsWritten(c, file)
  /\ EndWritten(c, file[c.last])

AllWritten(fs, cs) ==
  \A i \in 1 .. Len(cs) : cs[i].file \in 1 .. Len(fs) /\ Written(cs[i], fs[cs[i].file])

\* A transaction c lies before a transaction d, or before position p of file f.
EndsBefore(c, f, p) == c.file < f \/ (c.file = f /\ c.last < p)

Ordered(cs) ==
  \A i, j \in 1 .. Len(cs) : i < j => EndsBefore(cs[i], cs[j].file, cs[j].first)

\* A position between the transactions; what is there is a DDL statement.
Gap(fs, cs, f, p) ==
  /\ p \in 1 .. Len(fs[f])
  /\ \A i \in 1 .. Len(cs) : cs[i].file = f => p < cs[i].first \/ cs[i].last < p

DdlAt(fs, cs, f, p) == Gap(fs, cs, f, p) /\ fs[f][p].type = "query"

GapsAreDdl(fs, cs) ==
  \A f \in 1 .. Len(fs) : \A p \in 1 .. Len(fs[f]) : Gap(fs, cs, f, p) =>
    \/ DdlAt(fs, cs, f, p)
    \/ fs[f][p].type = "gtid" /\ DdlAt(fs, cs, f, p + 1)

\* No event is later than a transaction that does not end before it.
TimesGrow(fs, cs, now) ==
  /\ \A i \in 1 .. Len(cs) : cs[i].tx.ts <= now
  /\ \A f \in 1 .. Len(fs) : \A p \in 1 .. Len(fs[f]) :
       /\ fs[f][p].ts <= now
       /\ \A i \in 1 .. Len(cs) : ~EndsBefore(cs[i], f, p) => fs[f][p].ts <= cs[i].tx.ts

LogShape(fs, cs, now) ==
  AllWritten(fs, cs) /\ Ordered(cs) /\ GapsAreDdl(fs, cs) /\ TimesGrow(fs, cs, now)

-----------------------------------------------------------------------------
(* The scanner's place in the log: it is about to read position p of the *)
(* file q.file, with q.pending at hand, and has read it from off on.     *)

\* The first n transactions are those that end before position p of file f.
Split(cs, n, f, p) == \A i \in 1 .. Len(cs) : i <= n <=> EndsBefore(cs[i], f, p)

\* The next transaction has not begun.
Ahead(cs, n, f, p) == n < Len(cs) => cs[n + 1].file # f \/ cs[n + 1].first >= p

AtDdl(fs, cs, n, p, q) ==
  /\ q.pending # None /\ q.pending.rows = <<>>
  /\ Ahead(cs, n, q.file, p) /\ DdlAt(fs, cs, q.file, p)

\* k row changes of the next transaction have been read.
Inside(c, k, p, q) ==
  /\ q.pending = [rows |-> SubSeq(c.tx.rows, 1, k), gtid |-> c.tx.gtid, ts |-> None, xid |-> None]
  /\ \/ k = 0 /\ Lead(c) = 1 /\ p = AtRow(c, 0)
     \/ p = AtRow(c, k) + 1
     \/ k < Len(c.tx.rows) /\ p = AtRow(c, k) + 2 /\ c.tx.rows[k + 1].table \in q.maps

Within(cs, n, p, q, off) ==
  /\ n < Len(cs) /\ cs[n + 1].file = q.file /\ cs[n + 1].first > off
  /\ \E k \in 0 .. Len(cs[n + 1].tx.rows) : Inside(cs[n + 1], k, p, q)

Place(fs, cs, n, p, q, off) ==
  /\ Split(cs, n, q.file, p)
  /\ \/ q.pending = None /\ Ahead(cs, n, q.file, p)
     \/ AtDdl(fs, cs, n, p, q)
     \/ Within(cs, n, p, q, off)

Offset == IF filter.start[1] = parse.file THEN filter.start[2] ELSE 0
InFile == parse.pc \in {"check", "next", "send", "blocked"}
Pos == IF InFile THEN HeadPos ELSE Offset + 1

\* The channel of events holds what comes next in the file.
SourceReads ==
  /\ source.pc # "none" /\ HeadPos > Offset
  /\ \A k \in 1 .. Len(source.evs) :
       (HeadPos + k) - 1 <= Len(SourceFile) /\ source.evs[k] = SourceFile[(HeadPos + k) - 1]
  /\ source.pc = "closed" /\ source.err = None => source.next > Len(SourceFile)

\* What was found so far, from the caller's results back to the parse loop.
GotTxs == [i \in 1 .. Len(cons.got) |-> cons.got[i].tx]
AtTx == IF cons.pc = "deliver" THEN << cons.at.tx >> ELSE <<>>
SentTx == IF Sending(parse) THEN << parse.tx >> ELSE <<>>
Pipe == GotTxs \o (AtTx \o (txs \o SentTx))

Agrees(s, cs, w) == Len(s) = Len(cs) /\ \A i \in 1 .. Len(s) : StandsFor(s[i], cs[i], w)

\* The wanted ones among the first n transactions are found, and the others lie
\* ahead; all of them are when the scan ends without an error.
Progress ==
  \E n \in 0 .. Len(committed) :
    /\ Agrees(Pipe, WantedOf(committed, cons.wire)[n], cons.wire)
    /\ parse.pc = "ended" /\ parse.err = None => n = Len(committed)
    /\ parse.pc # "ended" => Place(files, committed, n, Pos, parse, Offset)

\* The files that are left to read.
InRange ==
  /\ parse.last = IF filter.end[1] = 0 THEN Len(files) ELSE filter.end[1]
  /\ parse.file >= filter.start[1]
  /\ parse.pc = "open" => parse.pending = None

\* The filter is what the caller asked for.
Asked ==
  \/ cons.wire \in {w[1] : w \in Requests} /\ filter = WsFilterToBinlog(cons.wire)
  \/ cons.wire \in FlashFilters /\ filter = cons.wire

Live == cons.pc \in {"next", "deliver"}
\* What the theorem assumes of a scan: it was started, at the boundary of a
\* transaction, in a log without savepoints.
Premise == filter # None /\ StartsAtBoundary /\ NoTorn

Faithful ==
  /\ Len(cons.got) <= Len(WantedTxs)
  /\ \A i \in 1 .. Len(cons.got) : StandsFor(cons.got[i].tx, WantedTxs[i], cons.wire)
  /\ cons.outcome = "done" /\ Len(cons.got) < cons.limit => Len(cons.got) = Len(WantedTxs)

\* The clock, and what the caller has done so far.
CallerState ==
  /\ 1 <= clock /\ clock <= MaxTime
  /\ Working => filter = None /\ txs = <<>>
  /\ filter # None => parse.pc # "idle" /\ Asked
  /\ closed => cons.pc \in {"ended", "executed"}
  /\ Live => cons.outcome = None

Scanning == (InFile => SourceReads) /\ InRange /\ Progress

\* The inductive invariant: the log has its shape; while the caller is there the
\* scanner has found what was wanted up to its place; the results are faithful
\* when the caller has left.
ScanInv ==
  /\ NoTorn => LogShape(files, committed, clock)
  /\ CallerState
  /\ Premise /\ Live => Scanning
  /\ Premise /\ cons.pc \in {"ended", "executed"} => Faithful
  /\ Premise /\ cons.pc \in {"ended", "executed"} => Faithful
LEMMA FlattenPairs ==
  ASSUME NEW S, NEW seqs \in Seq(Seq(S)), \A k \in 1 .. Len(seqs) : Len(seqs[k]) = 2
  PROVE  /\ Len(FlattenSeq(seqs)) = 2 * Len(seqs)
         /\ \A k \in 1 .. Len(seqs) : /\ FlattenSeq(seqs)[2 * k - 1] = seqs[k][1]
                                      /\ FlattenSeq(seqs)[2 * k] = seqs[k][2]
<1> DEFINE n == Len(seqs)
<1>1. PICK f : Joins(f, seqs, S)
  BY JoinsExists
<1>2. FlattenSeq(seqs) = f[n]
  BY <1>1, FlattenJoins
<1> DEFINE Pairs(m) == /\ f[m] \in Seq(S) /\ Len(f[m]) = 2 * m
                       /\ \A k \in 1 .. m : f[m][2 * k - 1] = seqs[k][1] /\ f[m][2 * k] = seqs[k][2]
           P == {m \in Nat : m <= n => Pairs(m)}
<1>3. n \in Nat /\ f[0] = <<>> /\ f \in [0 .. n -> Seq(S)]
  BY <1>1 DEF Joins
<1>4. ASSUME NEW m \in 1 .. n PROVE f[m] = f[m - 1] \o seqs[m] /\ seqs[m] \in Seq(S) /\ Len(seqs[m]) = 2
  BY <1>1, ElementOfSeq DEF Joins
<1>5. 0 \in P
  <2>1. Pairs(0)
    BY <1>3
  <2> HIDE DEF Pairs
  <2>2. QED BY <2>1
<1>6. ASSUME NEW m \in Nat, m \in P PROVE m + 1 \in P
  <2>1. ASSUME m + 1 <= n PROVE Pairs(m + 1)
    <3> DEFINE a == f[m]
               b == seqs[m + 1]
               c == f[m + 1]
    <3>1. m <= n /\ m + 1 \in 1 .. n /\ (m + 1) - 1 = m
      BY <1>3, <2>1
    <3>2. Pairs(m)
      <4> HIDE DEF Pairs
      <4>1. QED BY <1>6, <3>1
    <3>3. c = a \o b /\ b \in Seq(S) /\ Len(b) = 2
      <4> HIDE DEF Pairs
      <4>1. QED BY <1>4, <3>1
    <3>4. a \in Seq(S) /\ Len(a) = 2 * m
      BY <3>2
    <3>5. \A k \in 1 .. m : a[2 * k - 1] = seqs[k][1] /\ a[2 * k] = seqs[k][2]
      BY <3>2
    <3> HIDE DEF a, b, c
    <3>6. c \in Seq(S) /\ Len(c) = 2 * m + 2
          /\ (\A i \in 1 .. 2 * m : c[i] = a[i]) /\ (\A i \in 1 .. 2 : c[2 * m + i] = b[i])
      <4>1. /\ Len(a \o b) = Len(a) + Len(b) /\ a \o b \in Seq(S)
            /\ \A i \in 1 .. Len(a) + Len(b) : (a \o b)[i] = IF i <= Len(a) THEN a[i] ELSE b[i - Len(a)]
        BY <3>3, <3>4, ConcatProperties
      <4>2. c \in Seq(S) /\ Len(c) = 2 * m + 2
        BY <3>3, <3>4, <4>1
      <4>3. \A i \in 1 .. 2 * m : c[i] = a[i]
        BY <3>3, <3>4, <4>1
      <4>4. ASSUME NEW i \in 1 .. 2 PROVE c[2 * m + i] = b[i]
        <5>1. 2 * m + i \in 1 .. Len(a) + Len(b) /\ ~(2 * m + i <= Len(a)) /\ (2 * m + i) - Len(a) = i
          BY <3>3, <3>4
        <5>2. QED BY <3>3, <4>1, <5>1
      <4>5. QED BY <4>2, <4>3, <4>4
    <3>7. ASSUME NEW k \in 1 .. m + 1 PROVE c[2 * k - 1] = seqs[k][1] /\ c[2 * k] = seqs[k][2]
      <4>1. CASE k <= m
        <5>1. 2 * k - 1 \in 1 .. 2 * m /\ 2 * k \in 1 .. 2 * m /\ k \in 1 .. m
          BY <4>1
        <5>2. QED BY <3>5, <3>6, <5>1
      <4>2. CASE k = m + 1
        <5>1. 2 * k - 1 = 2 * m + 1 /\ 2 * k = 2 * m + 2 /\ seqs[k] = b
          BY <4>2 DEF b
        <5>2. c[2 * m + 1] = b[1] /\ c[2 * m + 2] = b[2]
          BY <3>6
        <5>3. QED BY <5>1, <5>2
      <4>3. QED BY <4>1, <4>2
    <3>8. Len(c) = 2 * (m + 1)
      BY <3>6
    <3>9. QED BY <3>6, <3>7, <3>8 DEF c
  <2> HIDE DEF Pairs
  <2>2. QED BY <2>1
<1> HIDE DEF P, Pairs
<1>7. n \in P
  BY <1>3, <1>5, <1>6, Induction
<1>8. Pairs(n)
  BY <1>3, <1>7 DEF P
<1>9. QED BY <1>2, <1>8 DEF Pairs

-----------------------------------------------------------------------------
(* A commit writes a transaction as a whole. *)

LEMMA ConcatAt ==
  ASSUME NEW S, NEW a \in Seq(S), NEW b \in Seq(S)
  PROVE  /\ a \o b \in Seq(S) /\ Len(a \o b) = Len(a) + Len(b)
         /\ \A i \in 1 .. Len(a) : (a \o b)[i] = a[i]
         /\ \A i \in 1 .. Len(b) : (a \o b)[Len(a) + i] = b[i]
<1>1. /\ Len(a \o b) = Len(a) + Len(b) /\ a \o b \in Seq(S)
      /\ \A i \in 1 .. Len(a) + Len(b) : (a \o b)[i] = IF i <= Len(a) THEN a[i] ELSE b[i - Len(a)]
  BY ConcatProperties
<1>2. Len(a) \in Nat /\ Len(b) \in Nat
  OBVIOUS
<1>3. \A i \in 1 .. Len(a) : (a \o b)[i] = a[i]
  BY <1>1, <1>2
<1>4. ASSUME NEW i \in 1 .. Len(b) PROVE (a \o b)[Len(a) + i] = b[i]
  <2>1. Len(a) + i \in 1 .. Len(a) + Len(b) /\ ~(Len(a) + i <= Len(a)) /\ (Len(a) + i) - Len(a) = i
    BY <1>2
  <2>2. QED BY <1>1, <2>1
<1>5. QED BY <1>1, <1>3, <1>4

\* The events of a commit that no savepoint tears, by number.
MapOf(c, s) == [type |-> "map", ts |-> s, table |-> c.table]
RowsOf(c, s) == [type |-> "rows", ts |-> s, table |-> c.table, change |-> c]
HeadLen == IF Kind = "gtid" THEN 1 ELSE 0

LaidOut(s, ev) ==
  /\ Len(ev) = HeadLen + 2 * Len(open) + 2
  /\ Kind = "gtid" =>
       ev[1] = [type |-> "gtid", ts |-> clock, id |-> <<"gtid", Len(committed) + 1>>]
  /\ ev[HeadLen + 1] = [type |-> "begin", ts |-> s]
  /\ \A k \in 1 .. Len(open) : /\ ev[HeadLen + 2 * k] = MapOf(open[k], s)
                               /\ ev[HeadLen + 2 * k + 1] = RowsOf(open[k], s)
  /\ ev[HeadLen + 2 * Len(open) + 2] = CommitEnd
  /\ \A p \in 1 .. Len(ev) : ev[p].ts <= clock

LEMMA BodyLaidOut ==
  ASSUME Types, points = {}, NEW s \in Nat, s <= clock
  PROVE  /\ CommitBody(s) \in Seq({e \in Event : e.ts <= clock})
         /\ Len(CommitBody(s)) = 2 * Len(open)
         /\ \A k \in 1 .. Len(open) : /\ CommitBody(s)[2 * k - 1] = MapOf(open[k], s)
                                      /\ CommitBody(s)[2 * k] = RowsOf(open[k], s)
<1> DEFINE S == {e \in Event : e.ts <= clock}
           m == Len(open)
           Part(k) == << MapOf(open[k], s), RowsOf(open[k], s) >>
           parts == [k \in 1 .. m |-> Part(k)]
<1>1. open \in Seq(RowChange) /\ m \in Nat
  BY DEF Types, LogType
<1>2. ASSUME NEW k \in 1 .. m PROVE ChangeEvents(open[k], s, k \in points) = Part(k)
  <2>1. k \notin points
    OBVIOUS
  <2> DEFINE a == MapOf(open[k], s)
             b == RowsOf(open[k], s)
  <2>2. ChangeEvents(open[k], s, k \in points) = <<a, b>> \o <<>>
    BY <2>1 DEF ChangeEvents, MapOf, RowsOf
  <2> HIDE DEF a, b
  <2>3. <<a, b>> \o <<>> = <<a, b>>
    BY <<a, b>> \in Seq({a, b}), ConcatEmptySeq
  <2>4. QED BY <2>2, <2>3 DEF a, b
<1>3. ASSUME NEW k \in 1 .. m
      PROVE  Part(k) \in Seq(S) /\ Len(Part(k)) = 2
             /\ Part(k)[1] = MapOf(open[k], s) /\ Part(k)[2] = RowsOf(open[k], s)
  <2>1. open[k] \in RowChange
    BY <1>1, ElementOfSeq
  <2> DEFINE a == MapOf(open[k], s)
             b == RowsOf(open[k], s)
  <2>2. a \in S /\ b \in S
    BY <2>1, RowChangeTable DEF Event, MapOf, RowsOf
  <2> HIDE DEF a, b, S
  <2>3. <<a, b>> \in Seq(S) /\ Len(<<a, b>>) = 2 /\ <<a, b>>[1] = a /\ <<a, b>>[2] = b
    BY <2>2
  <2>4. QED BY <2>3 DEF a, b
<1>4. CommitBody(s) = FlattenSeq(parts)
  <2>1. [k \in 1 .. m |-> ChangeEvents(open[k], s, k \in points)] = parts
    BY <1>2
  <2>2. QED BY <2>1 DEF CommitBody
<1> HIDE DEF S, Part, m
<1>5. parts \in Seq(Seq(S)) /\ Len(parts) = m /\ \A k \in 1 .. m : parts[k] = Part(k)
  BY <1>1, <1>3
<1> HIDE DEF parts
<1>6. \A k \in 1 .. Len(parts) : Len(parts[k]) = 2
  BY <1>3, <1>5
<1>7. /\ FlattenSeq(parts) \in Seq(S) /\ Len(FlattenSeq(parts)) = 2 * m
      /\ \A k \in 1 .. m : /\ FlattenSeq(parts)[2 * k - 1] = Part(k)[1]
                           /\ FlattenSeq(parts)[2 * k] = Part(k)[2]
  <2>1. FlattenSeq(parts) \in Seq(S)
    BY <1>5, FlattenType
  <2>2. /\ Len(FlattenSeq(parts)) = 2 * Len(parts)
        /\ \A k \in 1 .. Len(parts) : /\ FlattenSeq(parts)[2 * k - 1] = parts[k][1]
                                      /\ FlattenSeq(parts)[2 * k] = parts[k][2]
    BY <1>5, <1>6, FlattenPairs
  <2>3. QED BY <1>5, <2>1, <2>2
<1>8. QED BY <1>3, <1>4, <1>7 DEF m, S

LEMMA CommitLaidOut ==
  ASSUME Types, points = {}, NEW s \in Nat, s <= clock, Len(committed) < Len(Kinds)
  PROVE  LaidOut(s, CommitEvents(s))
<1> DEFINE S == {e \in Event : e.ts <= clock}
           m == Len(open)
           h == HeadLen
           head == CommitHead
           b == << [type |-> "begin", ts |-> s] >>
           body == CommitBody(s)
           e == << CommitEnd >>
           ev == CommitEvents(s)
<1>1. open \in Seq(RowChange) /\ m \in Nat /\ h \in {0, 1} /\ clock \in Nat
  BY DEF Types, LogType, HeadLen
<1>2. head \in Seq(S) /\ Len(head) = h
      /\ (Kind = "gtid" =>
            head[1] = [type |-> "gtid", ts |-> clock, id |-> <<"gtid", Len(committed) + 1>>])
  <2> DEFINE g == [type |-> "gtid", ts |-> clock, id |-> <<"gtid", Len(committed) + 1>>]
  <2>1. ASSUME Kind = "gtid" PROVE g \in S
    <3>1. head = <<g>>
      BY <2>1 DEF CommitHead
    <3>2. head \in Seq(Event) /\ head[1] \in Event
      <4>1. head \in Seq(Event)
        BY CommitTypes
      <4>2. QED BY <3>1, <4>1, ElementOfSeq, Len(<<g>>) = 1
    <3>3. g.ts = clock
      OBVIOUS
    <3> HIDE DEF g, head
    <3>4. head[1] = g
      BY <3>1
    <3>5. QED BY <1>1, <3>2, <3>3, <3>4
  <2>2. head = IF Kind = "gtid" THEN <<g>> ELSE <<>>
    BY DEF CommitHead
  <2> HIDE DEF g, head, S
  <2>3. CASE Kind = "gtid"
    BY <2>1, <2>2, <2>3 DEF HeadLen, g
  <2>4. CASE Kind # "gtid"
    BY <2>2, <2>4 DEF HeadLen
  <2>5. QED BY <2>3, <2>4
<1>3. b \in Seq(S) /\ Len(b) = 1 /\ b[1] = [type |-> "begin", ts |-> s]
  <2> DEFINE g == [type |-> "begin", ts |-> s]
  <2>1. g \in S
    BY DEF Event
  <2> HIDE DEF g, S
  <2>2. QED BY <2>1 DEF g
<1>4. body \in Seq(S) /\ Len(body) = 2 * m
      /\ \A k \in 1 .. m : body[2 * k - 1] = MapOf(open[k], s) /\ body[2 * k] = RowsOf(open[k], s)
  BY BodyLaidOut
<1>5. e \in Seq(S) /\ Len(e) = 1 /\ e[1] = CommitEnd
  <2>1. CommitEnd \in Event /\ CommitEnd.ts = clock
    BY CommitTypes DEF CommitEnd
  <2>2. CommitEnd \in S
    BY <1>1, <2>1
  <2> HIDE DEF S
  <2>3. QED BY <2>2
<1> DEFINE c1 == head \o b
           c2 == c1 \o body
           c3 == c2 \o e
<1>6. ev = c3
  BY DEF CommitEvents
<1> HIDE DEF S, m, h, head, b, body, e, ev
<1>7. /\ c1 \in Seq(S) /\ Len(c1) = h + 1 /\ \A i \in 1 .. h : c1[i] = head[i]
      /\ c1[h + 1] = b[1]
  <2>1. head \in Seq(S)
    BY <1>2
  <2>2. b \in Seq(S)
    BY <1>3
  <2>3. /\ head \o b \in Seq(S) /\ Len(head \o b) = Len(head) + Len(b)
        /\ \A i \in 1 .. Len(head) : (head \o b)[i] = head[i]
        /\ \A i \in 1 .. Len(b) : (head \o b)[Len(head) + i] = b[i]
    BY <2>1, <2>2, ConcatAt
  <2>4. (head \o b)[Len(head) + 1] = b[1]
    BY <1>3, <2>3
  <2>5. QED BY <1>1, <1>2, <1>3, <2>3, <2>4
<1> HIDE DEF c1
<1>8. /\ c2 \in Seq(S) /\ Len(c2) = h + 1 + 2 * m /\ \A i \in 1 .. h + 1 : c2[i] = c1[i]
      /\ \A i \in 1 .. 2 * m : c2[h + 1 + i] = body[i]
  <2>1. c1 \in Seq(S)
    BY <1>7
  <2>2. body \in Seq(S)
    BY <1>4
  <2>3. /\ c1 \o body \in Seq(S) /\ Len(c1 \o body) = Len(c1) + Len(body)
        /\ \A i \in 1 .. Len(c1) : (c1 \o body)[i] = c1[i]
        /\ \A i \in 1 .. Len(body) : (c1 \o body)[Len(c1) + i] = body[i]
    BY <2>1, <2>2, ConcatAt
  <2>4. Len(c1) = h + 1 /\ Len(body) = 2 * m
    BY <1>4, <1>7
  <2>5. QED BY <2>3, <2>4
<1> HIDE DEF c2
<1>9. /\ c3 \in Seq(S) /\ Len(c3) = h + 2 * m + 2 /\ \A i \in 1 .. h + 1 + 2 * m : c3[i] = c2[i]
      /\ c3[h + 2 * m + 2] = e[1]
  <2>1. Len(c2) \in Nat /\ Len(c2) + 1 = h + 2 * m + 2
    BY <1>1, <1>8
  <2>2. /\ c3 \in Seq(S) /\ Len(c3) = Len(c2) + Len(e) /\ \A i \in 1 .. Len(c2) : c3[i] = c2[i]
        /\ \A i \in 1 .. Len(e) : c3[Len(c2) + i] = e[i]
    <3>1. c2 \in Seq(S)
      BY <1>8
    <3>2. e \in Seq(S)
      BY <1>5
    <3>3. /\ c2 \o e \in Seq(S) /\ Len(c2 \o e) = Len(c2) + Len(e)
          /\ \A i \in 1 .. Len(c2) : (c2 \o e)[i] = c2[i]
          /\ \A i \in 1 .. Len(e) : (c2 \o e)[Len(c2) + i] = e[i]
      BY <3>1, <3>2, ConcatAt
    <3>4. QED BY <3>3
  <2>3. c3[Len(c2) + 1] = e[1]
    BY <1>5, <2>2
  <2>4. QED BY <1>5, <1>8, <2>1, <2>2, <2>3
<1> HIDE DEF c3
<1>10. ASSUME NEW k \in 1 .. m
       PROVE  c3[h + 2 * k] = MapOf(open[k], s) /\ c3[h + 2 * k + 1] = RowsOf(open[k], s)
  <2>1. /\ 2 * k - 1 \in 1 .. 2 * m /\ 2 * k \in 1 .. 2 * m
        /\ h + 1 + (2 * k - 1) = h + 2 * k /\ h + 1 + 2 * k = h + 2 * k + 1
        /\ h + 2 * k \in 1 .. h + 1 + 2 * m /\ h + 2 * k + 1 \in 1 .. h + 1 + 2 * m
    BY <1>1
  <2>2. c2[h + 1 + (2 * k - 1)] = body[2 * k - 1] /\ c2[h + 1 + 2 * k] = body[2 * k]
    BY <1>8, <2>1
  <2>3. QED BY <1>4, <1>9, <2>1, <2>2
<1>11. c3[h + 1] = [type |-> "begin", ts |-> s]
  BY <1>1, <1>3, <1>7, <1>8, <1>9, h + 1 \in 1 .. h + 1, h + 1 \in 1 .. h + 1 + 2 * m
<1>12. ASSUME Kind = "gtid"
       PROVE c3[1] = [type |-> "gtid", ts |-> clock, id |-> <<"gtid", Len(committed) + 1>>]
  <2>1. h = 1
    BY <1>12 DEF HeadLen, h
  <2>2. c3[1] = head[1]
    BY <1>1, <1>7, <1>8, <1>9, <2>1
  <2>3. QED BY <1>2, <1>12, <2>2
<1>13. ASSUME NEW p \in 1 .. Len(c3) PROVE c3[p].ts <= clock
  <2>1. c3[p] \in S
    BY <1>9, ElementOfSeq
  <2>2. QED BY <2>1 DEF S
<1>14. LaidOut(s, c3)
  BY <1>5, <1>9, <1>10, <1>11, <1>12, <1>13 DEF LaidOut, h, m
<1>15. QED BY <1>6, <1>14 DEF ev

LEMMA CommitFields ==
  ASSUME NEW c \in Commitment
  PROVE  /\ c.file \in Nat /\ c.first \in Nat /\ c.last \in Nat
         /\ c.tx.ts \in Nat /\ c.tx.rows \in Seq(RowChange) /\ Len(c.tx.rows) \in Nat
         /\ c.tx.gtid \in EventId \union {None}
         /\ Lead(c) \in {0, 1} /\ (c.tx.gtid # None <=> Lead(c) = 1)
<1>1. c.tx \in LogTx /\ c.file \in Nat /\ c.first \in Nat /\ c.last \in Nat
  BY DEF Commitment
<1>2. c.tx.ts \in Nat /\ c.tx.rows \in Seq(RowChange) /\ c.tx.gtid \in EventId \union {None}
  BY <1>1 DEF LogTx
<1>3. QED BY <1>1, <1>2 DEF Lead

LEMMA RowAt ==
  ASSUME NEW c \in Commitment, NEW file, Written(c, file), NEW k \in 0 .. Len(c.tx.rows)
  PROVE  /\ AtRow(c, k) \in Nat /\ AtRow(c, k) = c.first + Lead(c) + 2 * k
         /\ c.first <= AtRow(c, k) /\ AtRow(c, k) < c.last
         /\ k > 0 => c.first < AtRow(c, k) - 1
<1>1. c.first \in Nat /\ Lead(c) \in {0, 1} /\ k \in Nat /\ Len(c.tx.rows) \in Nat
  BY CommitFields
<1>2. c.last = AtRow(c, Len(c.tx.rows)) + 1
  BY DEF Written
<1>3. AtRow(c, k) = c.first + Lead(c) + 2 * k
      /\ AtRow(c, Len(c.tx.rows)) = c.first + Lead(c) + 2 * Len(c.tx.rows)
  BY DEF AtRow
<1>4. k <= Len(c.tx.rows)
  BY <1>1
<1>5. QED BY <1>1, <1>2, <1>3, <1>4

LEMMA WrittenGrows ==
  ASSUME NEW c \in Commitment, NEW file, NEW more, Len(file) \in Nat, Len(more) \in Nat,
         Len(file) <= Len(more), \A p \in 1 .. Len(file) : more[p] = file[p],
         Written(c, file)
  PROVE  Written(c, more)
<1> DEFINE m == Len(c.tx.rows)
<1>1. c.first \in Nat /\ c.last \in Nat /\ Lead(c) \in {0, 1} /\ m \in Nat
  BY CommitFields
<1>2. 1 <= c.first /\ c.last = AtRow(c, m) + 1 /\ c.last <= Len(file)
  BY DEF Written
<1>3. ASSUME NEW k \in 0 .. m
      PROVE  AtRow(c, k) \in 1 .. Len(file) /\ (k > 0 => AtRow(c, k) - 1 \in 1 .. Len(file))
  <2>1. /\ AtRow(c, k) \in Nat /\ c.first <= AtRow(c, k) /\ AtRow(c, k) < c.last
        /\ k > 0 => c.first < AtRow(c, k) - 1
    BY RowAt
  <2>2. QED BY <1>1, <1>2, <2>1
<1>4. RowsWritten(c, more)
  <2>1. SUFFICES ASSUME NEW k \in 1 .. m
                 PROVE /\ more[AtRow(c, k) - 1].type = "map"
                       /\ more[AtRow(c, k) - 1].table = c.tx.rows[k].table
                       /\ more[AtRow(c, k)].type = "rows"
                       /\ more[AtRow(c, k)].table = c.tx.rows[k].table
                       /\ more[AtRow(c, k)].change = c.tx.rows[k]
    BY DEF RowsWritten
  <2>2. k \in 0 .. m /\ k > 0
    BY <1>1
  <2>3. AtRow(c, k) \in 1 .. Len(file) /\ AtRow(c, k) - 1 \in 1 .. Len(file)
    BY <1>3, <2>2
  <2>4. more[AtRow(c, k)] = file[AtRow(c, k)] /\ more[AtRow(c, k) - 1] = file[AtRow(c, k) - 1]
    BY <2>3
  <2>5. RowsWritten(c, file)
    BY DEF Written
  <2>6. QED BY <2>4, <2>5 DEF RowsWritten
<1>5. more[AtRow(c, 0)] = file[AtRow(c, 0)] /\ file[AtRow(c, 0)].type = "begin"
  <2>1. 0 \in 0 .. m
    BY <1>1
  <2>2. QED BY <1>3, <2>1 DEF Written
<1>6. /\ c.first \in 1 .. Len(file) /\ c.last \in 1 .. Len(file)
  <2>1. 0 \in 0 .. m
    BY <1>1
  <2>2. c.first <= AtRow(c, 0) /\ AtRow(c, 0) < c.last /\ AtRow(c, 0) \in Nat
    BY <2>1, RowAt
  <2>3. QED BY <1>1, <1>2, <2>2
<1>7. more[c.first] = file[c.first] /\ more[c.last] = file[c.last]
  BY <1>6
<1>8. c.last <= Len(more)
  BY <1>1, <1>2
<1>9. /\ m > 0 /\ EndWritten(c, file[c.last])
      /\ c.tx.gtid # None => file[c.first].type = "gtid" /\ file[c.first].id = c.tx.gtid
  BY DEF Written
<1>10. QED BY <1>2, <1>4, <1>5, <1>7, <1>8, <1>9 DEF Written

\* A transaction is written where a commit puts it.
LEMMA CommitWritten ==
  ASSUME Types, NEW s \in Nat, open # <<>>, Len(committed) < Len(Kinds),
         NEW ev, LaidOut(s, ev), Committing(s).last = Len(files[Len(files)]) + Len(ev),
         NEW file, Len(file) = Len(files[Len(files)]) + Len(ev),
         \A j \in 1 .. Len(ev) : file[Len(files[Len(files)]) + j] = ev[j]
  PROVE  Written(Committing(s), file)
<1> DEFINE c == Committing(s)
           L == Len(files[Len(files)])
           m == Len(open)
           h == HeadLen
           n == Len(committed) + 1
<1>1. c \in Commitment /\ Kind \in {"gtid", "xid", "commit"} /\ open \in Seq(RowChange) /\ m \in Nat
  <2>1. open \in Seq(RowChange)
    BY DEF Types, LogType
  <2>2. QED BY <2>1, CommitTypes
<1>2. /\ c.first = L + 1 /\ c.tx = CommitTx /\ c.last = L + Len(ev)
      /\ CommitTx.rows = open /\ CommitTx.id = CommitId /\ CommitTx.ts = clock
      /\ CommitTx.gtid = IF Kind = "gtid" THEN CommitId ELSE None
  BY DEF Committing, CommitTx
<1>3. L \in Nat
  BY <1>1, <1>2, CommitFields
<1>4. m > 0
  BY <1>1
<1>5. Lead(c) = h /\ h \in {0, 1} /\ (Kind = "gtid" <=> h = 1) /\ (c.tx.gtid # None <=> Kind = "gtid")
  <2>1. CASE Kind = "gtid"
    <3>1. CommitId \in EventId
      <4>1. n \in Nat
        BY DEF Types, LogType
      <4> HIDE DEF n
      <4>2. <<"gtid", n>> \in EventId
        BY <4>1 DEF EventId
      <4>3. CommitId = <<"gtid", n>>
        BY <2>1 DEF CommitId, n
      <4>4. QED BY <4>2, <4>3
    <3>2. None \notin EventId
      BY RecoveryAssumption DEF RecoveryAssumption
    <3>3. c.tx.gtid # None
      BY <1>2, <2>1, <3>1, <3>2
    <3>4. QED BY <2>1, <3>3 DEF Lead, HeadLen
  <2>2. CASE Kind # "gtid"
    BY <1>2, <2>2 DEF Lead, HeadLen
  <2>3. QED BY <2>1, <2>2
<1>6. /\ Len(ev) = h + 2 * m + 2
      /\ Kind = "gtid" => ev[1] = [type |-> "gtid", ts |-> clock, id |-> <<"gtid", n>>]
      /\ ev[h + 1] = [type |-> "begin", ts |-> s]
      /\ \A k \in 1 .. m : ev[h + 2 * k] = MapOf(open[k], s) /\ ev[h + 2 * k + 1] = RowsOf(open[k], s)
      /\ ev[h + 2 * m + 2] = CommitEnd
  BY DEF LaidOut
<1>7. \A j \in 1 .. Len(ev) : file[L + j] = ev[j]
  OBVIOUS
<1>8. \A k \in 0 .. m : AtRow(c, k) = L + (h + 2 * k + 1)
  BY <1>2, <1>3, <1>5 DEF AtRow
<1> HIDE DEF c, L, m, h, n
<1>9. c.last = AtRow(c, m) + 1 /\ c.last = Len(file) /\ 1 <= c.first
  <2>1. m \in 0 .. m
    BY <1>1
  <2>2. AtRow(c, m) = L + (h + 2 * m + 1)
    BY <1>8, <2>1
  <2>3. Len(file) = L + Len(ev)
    BY DEF L
  <2>4. /\ c.last = L + Len(ev) /\ c.first = L + 1 /\ Len(ev) = h + 2 * m + 2
        /\ L \in Nat /\ m \in Nat /\ h \in Nat
    BY <1>1, <1>2, <1>3, <1>5, <1>6
  <2>5. c.last = AtRow(c, m) + 1
    BY <2>2, <2>4
  <2>6. c.last = Len(file)
    BY <2>3, <2>4
  <2>7. 1 <= c.first
    BY <2>4
  <2>8. QED BY <2>5, <2>6, <2>7
<1>10. RowsWritten(c, file)
  <2>1. SUFFICES ASSUME NEW k \in 1 .. m
                 PROVE  /\ file[AtRow(c, k) - 1] = MapOf(open[k], s)
                        /\ file[AtRow(c, k)] = RowsOf(open[k], s)
    <3>1. c.tx.rows = open
      BY <1>2
    <3> DEFINE a(k) == file[AtRow(c, k) - 1]
               b(k) == file[AtRow(c, k)]
    <3>2. \A k \in 1 .. m : a(k) = MapOf(open[k], s) /\ b(k) = RowsOf(open[k], s)
      OBVIOUS
    <3> HIDE DEF a, b
    <3>3. \A k \in 1 .. m : /\ a(k).type = "map" /\ a(k).table = open[k].table
                            /\ b(k).type = "rows" /\ b(k).table = open[k].table
                            /\ b(k).change = open[k]
      BY <3>2 DEF MapOf, RowsOf
    <3>4. QED BY <3>1, <3>3 DEF RowsWritten, m, a, b
  <2>2. /\ h + 2 * k \in 1 .. Len(ev) /\ h + 2 * k + 1 \in 1 .. Len(ev) /\ k \in 0 .. m
        /\ (L + (h + 2 * k + 1)) - 1 = L + (h + 2 * k)
    <3>1. L \in Nat /\ m \in Nat /\ h \in Nat /\ Len(ev) = h + 2 * m + 2
      BY <1>1, <1>3, <1>5, <1>6
    <3>2. QED BY <3>1
  <2>3. AtRow(c, k) = L + (h + 2 * k + 1) /\ AtRow(c, k) - 1 = L + (h + 2 * k)
    BY <1>8, <2>2
  <2>4. file[L + (h + 2 * k)] = ev[h + 2 * k] /\ file[L + (h + 2 * k + 1)] = ev[h + 2 * k + 1]
    BY <1>7, <2>2
  <2>5. QED BY <1>6, <2>3, <2>4
<1>11. file[AtRow(c, 0)] = [type |-> "begin", ts |-> s]
  <2>1. h + 1 \in 1 .. Len(ev) /\ 0 \in 0 .. m /\ h + 2 * 0 + 1 = h + 1
    BY <1>1, <1>5, <1>6
  <2>2. AtRow(c, 0) = L + (h + 1)
    BY <1>8, <2>1
  <2>3. QED BY <1>6, <1>7, <2>1, <2>2
<1>12. ASSUME c.tx.gtid # None
       PROVE  file[c.first].type = "gtid" /\ file[c.first].id = c.tx.gtid
  <2>1. Kind = "gtid" /\ h = 1 /\ c.first = L + 1 /\ 1 \in 1 .. Len(ev)
    BY <1>1, <1>2, <1>5, <1>6, <1>12
  <2>2. file[c.first] = [type |-> "gtid", ts |-> clock, id |-> <<"gtid", n>>]
    BY <1>6, <1>7, <2>1
  <2>3. c.tx.gtid = <<"gtid", n>>
    BY <1>2, <2>1 DEF CommitId, n
  <2>4. QED BY <2>2, <2>3
<1>13. EndWritten(c, file[c.last])
  <2>1. Len(ev) \in 1 .. Len(ev)
    BY <1>1, <1>5, <1>6
  <2>2. file[c.last] = CommitEnd
    BY <1>2, <1>6, <1>7, <2>1
  <2>3. c.tx.ts = clock /\ c.tx.rows = open /\ c.tx.id = CommitId
    BY <1>2
  <2>4. CommitEnd.ts = clock
    BY DEF CommitEnd
  <2>5. CASE Kind = "gtid"
    <3>1. CommitEnd.type = "xid" /\ c.tx.gtid = CommitId /\ c.tx.gtid # None
      BY <1>2, <1>5, <2>5 DEF CommitEnd
    <3>2. QED BY <2>2, <2>3, <2>4, <3>1 DEF EndWritten
  <2>6. CASE Kind = "xid"
    <3>1. CommitEnd.type = "xid" /\ c.tx.gtid = None /\ CommitEnd.id = CommitId
      BY <1>2, <2>6 DEF CommitEnd, CommitId
    <3>2. QED BY <2>2, <2>3, <2>4, <3>1 DEF EndWritten
  <2>7. CASE Kind = "commit"
    <3>1. CommitEnd.type = "commit" /\ c.tx.gtid = None /\ CommitId = <<"anonymous", clock, open>>
      BY <1>2, <2>7 DEF CommitEnd, CommitId
    <3>2. QED BY <2>2, <2>3, <2>4, <3>1 DEF EndWritten
  <2>8. QED BY <1>1, <2>5, <2>6, <2>7
<1>14. Len(c.tx.rows) > 0 /\ Len(c.tx.rows) = m
  BY <1>2, <1>4 DEF m
<1>15. c.last <= Len(file)
  <2>1. c.last \in Nat
    BY <1>1, CommitFields
  <2>2. QED BY <1>9, <2>1
<1>16. Written(c, file)
  BY <1>9, <1>10, <1>11, <1>12, <1>13, <1>14, <1>15 DEF Written
<1>17. QED BY <1>16 DEF c

-----------------------------------------------------------------------------
(* MySQL keeps the shape of the log. *)

\* Files gs hold what files fs do, at the same positions.
Grown(fs, gs) ==
  /\ Len(fs) <= Len(gs)
  /\ \A f \in 1 .. Len(fs) : /\ Len(fs[f]) <= Len(gs[f])
                             /\ \A p \in 1 .. Len(fs[f]) : gs[f][p] = fs[f][p]

OldAt(fs, f, p) == f \in 1 .. Len(fs) /\ p \in 1 .. Len(fs[f])

\* What is new at position p of file f comes after the transactions cs.
NewAt(cs, gs, ds, now, f, p) ==
  /\ gs[f][p].ts <= now
  /\ \A i \in 1 .. Len(cs) : EndsBefore(cs[i], f, p)
  /\ Gap(gs, ds, f, p) => \/ DdlAt(gs, ds, f, p)
                          \/ gs[f][p].type = "gtid" /\ DdlAt(gs, ds, f, p + 1)

\* A transaction that is new to files fs.
NewTx(fs, c, now) ==
  /\ c.tx.ts = now
  /\ \A f, p : OldAt(fs, f, p) => c.file # f \/ p < c.first

LEMMA ShapeGrows ==
  ASSUME NEW fs \in Seq(Seq(Event)), NEW gs \in Seq(Seq(Event)), Grown(fs, gs), NEW now \in Nat,
         NEW cs \in Seq(Commitment), NEW ds \in Seq(Commitment), LogShape(fs, cs, now),
         Len(cs) <= Len(ds), \A i \in 1 .. Len(cs) : ds[i] = cs[i],
         AllWritten(gs, ds), Ordered(ds),
         \A i \in 1 .. Len(ds) : i <= Len(cs) \/ NewTx(fs, ds[i], now),
         \A f \in 1 .. Len(gs) : \A p \in 1 .. Len(gs[f]) :
           OldAt(fs, f, p) \/ NewAt(cs, gs, ds, now, f, p)
  PROVE  LogShape(gs, ds, now)
<1>1. Len(cs) \in Nat /\ Len(ds) \in Nat /\ Len(fs) \in Nat /\ Len(gs) \in Nat
  OBVIOUS
<1>6. ASSUME NEW i \in 1 .. Len(cs) PROVE i \in 1 .. Len(ds) /\ ds[i] = cs[i]
  BY <1>1
<1>7. ASSUME NEW i \in 1 .. Len(ds), i <= Len(cs) PROVE i \in 1 .. Len(cs) /\ ds[i] = cs[i]
  BY <1>1, <1>7
<1>2. ASSUME NEW f, NEW p, OldAt(fs, f, p)
      PROVE  /\ gs[f][p] = fs[f][p] /\ p \in 1 .. Len(gs[f]) /\ f \in 1 .. Len(gs)
             /\ Gap(gs, ds, f, p) => Gap(fs, cs, f, p)
             /\ Gap(fs, cs, f, p) => Gap(gs, ds, f, p)
  <2>1. f \in 1 .. Len(fs) /\ p \in 1 .. Len(fs[f]) /\ f \in 1 .. Len(gs)
    BY <1>1, <1>2 DEF Grown, OldAt
  <2>2. Len(fs[f]) \in Nat /\ Len(gs[f]) \in Nat
    BY <2>1, ElementOfSeq
  <2>3. gs[f][p] = fs[f][p] /\ p \in 1 .. Len(gs[f])
    <3>1. gs[f][p] = fs[f][p] /\ Len(fs[f]) <= Len(gs[f])
      BY <2>1 DEF Grown
    <3>2. QED BY <2>1, <2>2, <3>1
  <2>4. ASSUME Gap(gs, ds, f, p) PROVE Gap(fs, cs, f, p)
    <3>1. SUFFICES ASSUME NEW i \in 1 .. Len(cs), cs[i].file = f
                   PROVE  p < cs[i].first \/ cs[i].last < p
      BY <2>1 DEF Gap
    <3>2. i \in 1 .. Len(ds) /\ ds[i].file = f
      BY <1>6, <3>1
    <3>3. p < ds[i].first \/ ds[i].last < p
      BY <2>4, <3>2 DEF Gap
    <3>4. QED BY <1>6, <3>3
  <2>5. ASSUME Gap(fs, cs, f, p) PROVE Gap(gs, ds, f, p)
    <3>1. SUFFICES ASSUME NEW i \in 1 .. Len(ds), ds[i].file = f
                   PROVE  p < ds[i].first \/ ds[i].last < p
      BY <2>3 DEF Gap
    <3>2. CASE i <= Len(cs)
      <4>1. i \in 1 .. Len(cs) /\ cs[i].file = f
        BY <1>7, <3>1, <3>2
      <4>2. p < cs[i].first \/ cs[i].last < p
        BY <2>5, <4>1 DEF Gap
      <4>3. QED BY <1>7, <3>2, <4>2
    <3>3. CASE NewTx(fs, ds[i], now)
      BY <1>2, <3>1, <3>3 DEF NewTx
    <3>4. QED BY <3>2, <3>3
  <2>6. QED BY <2>1, <2>3, <2>4, <2>5
<1>3. GapsAreDdl(gs, ds)
  <2>1. SUFFICES ASSUME NEW f \in 1 .. Len(gs), NEW p \in 1 .. Len(gs[f]), Gap(gs, ds, f, p)
                 PROVE  \/ DdlAt(gs, ds, f, p)
                        \/ gs[f][p].type = "gtid" /\ DdlAt(gs, ds, f, p + 1)
    BY DEF GapsAreDdl
  <2>2. CASE OldAt(fs, f, p)
    <3>1. Gap(fs, cs, f, p) /\ gs[f][p] = fs[f][p]
      BY <1>2, <2>1, <2>2
    <3>2. \/ DdlAt(fs, cs, f, p)
          \/ fs[f][p].type = "gtid" /\ DdlAt(fs, cs, f, p + 1)
      BY <2>2, <3>1 DEF LogShape, GapsAreDdl, OldAt
    <3>3. CASE DdlAt(fs, cs, f, p)
      BY <2>1, <3>1, <3>3 DEF DdlAt
    <3>4. CASE fs[f][p].type = "gtid" /\ DdlAt(fs, cs, f, p + 1)
      <4>1. OldAt(fs, f, p + 1)
        BY <2>2, <3>4 DEF DdlAt, Gap, OldAt
      <4>2. Gap(gs, ds, f, p + 1) /\ gs[f][p + 1] = fs[f][p + 1]
        BY <1>2, <3>4, <4>1 DEF DdlAt
      <4>3. QED BY <3>1, <3>4, <4>2 DEF DdlAt
    <3>5. QED BY <3>2, <3>3, <3>4
  <2>3. CASE NewAt(cs, gs, ds, now, f, p)
    BY <2>1, <2>3 DEF NewAt
  <2>4. QED BY <2>2, <2>3
<1>4. TimesGrow(gs, ds, now)
  <2>1. TimesGrow(fs, cs, now)
    BY DEF LogShape
  <2>2. ASSUME NEW i \in 1 .. Len(ds) PROVE ds[i].tx.ts <= now /\ (i > Len(cs) => ds[i].tx.ts = now)
    <3>1. CASE i <= Len(cs)
      <4>1. i \in 1 .. Len(cs) /\ ds[i] = cs[i]
        BY <1>7, <3>1
      <4>2. cs[i].tx.ts <= now
        BY <2>1, <4>1 DEF TimesGrow
      <4>3. QED BY <1>1, <3>1, <4>1, <4>2
    <3>2. CASE NewTx(fs, ds[i], now)
      BY <3>2 DEF NewTx
    <3>3. QED BY <1>1, <3>1, <3>2
  <2>3. ASSUME NEW f \in 1 .. Len(gs), NEW p \in 1 .. Len(gs[f])
        PROVE  /\ gs[f][p].ts <= now
               /\ \A i \in 1 .. Len(cs) : ~EndsBefore(cs[i], f, p) => gs[f][p].ts <= cs[i].tx.ts
    <3>1. CASE OldAt(fs, f, p)
      BY <1>2, <2>1, <3>1 DEF TimesGrow, OldAt
    <3>2. CASE NewAt(cs, gs, ds, now, f, p)
      BY <3>2 DEF NewAt
    <3>3. QED BY <3>1, <3>2
  <2>4. ASSUME NEW f \in 1 .. Len(gs), NEW p \in 1 .. Len(gs[f]), NEW i \in 1 .. Len(ds),
               ~EndsBefore(ds[i], f, p)
        PROVE  gs[f][p].ts <= ds[i].tx.ts
    <3>1. CASE i <= Len(cs)
      <4>1. i \in 1 .. Len(cs) /\ ds[i] = cs[i]
        BY <1>1, <3>1
      <4>2. QED BY <2>3, <2>4, <4>1
    <3>2. CASE i > Len(cs)
      BY <2>2, <2>3, <3>2
    <3>3. QED BY <1>1, <3>1, <3>2
  <2>5. QED BY <2>2, <2>3, <2>4 DEF TimesGrow
<1>5. QED BY <1>3, <1>4 DEF LogShape

LEMMA AllWrittenGrows ==
  ASSUME NEW fs \in Seq(Seq(Event)), NEW gs \in Seq(Seq(Event)), Grown(fs, gs),
         NEW cs \in Seq(Commitment), AllWritten(fs, cs)
  PROVE  AllWritten(gs, cs)
<1>1. SUFFICES ASSUME NEW i \in 1 .. Len(cs)
               PROVE  cs[i].file \in 1 .. Len(gs) /\ Written(cs[i], gs[cs[i].file])
  BY DEF AllWritten
<1> DEFINE f == cs[i].file
<1>2. f \in 1 .. Len(fs) /\ Written(cs[i], fs[f])
  BY DEF AllWritten
<1>3. f \in 1 .. Len(gs)
  BY <1>2 DEF Grown
<1>4. cs[i] \in Commitment /\ fs[f] \in Seq(Event) /\ gs[f] \in Seq(Event)
  BY <1>2, <1>3, ElementOfSeq
<1>5. Len(fs[f]) <= Len(gs[f]) /\ \A p \in 1 .. Len(fs[f]) : gs[f][p] = fs[f][p]
  BY <1>2 DEF Grown
<1> HIDE DEF f
<1>6. Len(fs[f]) \in Nat /\ Len(gs[f]) \in Nat
  BY <1>4
<1>7. Written(cs[i], gs[f])
  BY <1>2, <1>4, <1>5, <1>6, WrittenGrows
<1>8. QED BY <1>3, <1>7 DEF f

\* Events are written behind those of the last file.
Extended(fs, ev) == [fs EXCEPT ![Len(fs)] = @ \o ev]

LEMMA FileGrows ==
  ASSUME NEW fs \in Seq(Seq(Event)), fs # <<>>, NEW ev \in Seq(Event)
  PROVE  /\ Len(fs) \in 1 .. Len(fs) /\ fs[Len(fs)] \in Seq(Event)
         /\ Extended(fs, ev) \in Seq(Seq(Event)) /\ Len(Extended(fs, ev)) = Len(fs)
         /\ Grown(fs, Extended(fs, ev))
         /\ \A f \in 1 .. Len(fs) : f # Len(fs) => Extended(fs, ev)[f] = fs[f]
         /\ Len(Extended(fs, ev)[Len(fs)]) = Len(fs[Len(fs)]) + Len(ev)
         /\ \A j \in 1 .. Len(ev) : Extended(fs, ev)[Len(fs)][Len(fs[Len(fs)]) + j] = ev[j]
<1> DEFINE N == Len(fs)
           old == fs[N]
           new == old \o ev
           gs == Extended(fs, ev)
<1>1. N \in 1 .. N /\ old \in Seq(Event) /\ N \in Nat
  BY ElementOfSeq, Len(fs) \in 1 .. Len(fs)
<1> HIDE DEF old
<1>2. /\ new \in Seq(Event) /\ Len(new) = Len(old) + Len(ev)
      /\ \A i \in 1 .. Len(old) : new[i] = old[i]
      /\ \A j \in 1 .. Len(ev) : new[Len(old) + j] = ev[j]
  <2>1. old \in Seq(Event)
    BY <1>1
  <2>2. QED BY <2>1, ConcatAt
<1> HIDE DEF new
<1>3. gs = [fs EXCEPT ![N] = new]
  BY DEF new, old, Extended
<1> HIDE DEF gs
<1>4. /\ gs \in Seq(Seq(Event)) /\ Len(gs) = N
      /\ \A f \in 1 .. N : gs[f] = IF f = N THEN new ELSE fs[f]
  <2>1. new \in Seq(Event) /\ N \in 1 .. Len(fs)
    BY <1>1, <1>2
  <2> DEFINE g == [fs EXCEPT ![N] = new]
             S == Seq(Event)
  <2>2. fs \in Seq(S) /\ new \in S /\ N \in 1 .. Len(fs)
    BY <2>1
  <2> HIDE DEF S, N
  <2>3. /\ g \in Seq(S) /\ Len(g) = Len(fs)
        /\ \A f \in 1 .. Len(fs) : g[f] = IF f = N THEN new ELSE fs[f]
    BY <2>2, ExceptSeq
  <2>4. gs = g
    BY <1>3
  <2> HIDE DEF g
  <2>5. QED BY <2>3, <2>4 DEF S, N
<1>5. gs[N] = new /\ \A f \in 1 .. N : f # N => gs[f] = fs[f]
  BY <1>1, <1>4
<1>6. Grown(fs, gs)
  <2>1. ASSUME NEW f \in 1 .. N
        PROVE  Len(fs[f]) <= Len(gs[f]) /\ \A p \in 1 .. Len(fs[f]) : gs[f][p] = fs[f][p]
    <3>1. CASE f = N
      <4>1. fs[f] = old /\ gs[f] = new
        BY <1>5, <3>1 DEF old
      <4>2. Len(old) \in Nat /\ Len(ev) \in Nat
        BY <1>1
      <4>3. Len(old) <= Len(new)
        BY <1>2, <4>2
      <4>4. QED BY <1>2, <4>1, <4>3
    <3>2. CASE f # N
      <4>1. Len(fs[f]) \in Nat
        BY ElementOfSeq
      <4>2. QED BY <1>5, <3>2, <4>1
    <3>3. QED BY <3>1, <3>2
  <2>2. Len(fs) <= Len(gs)
    <3>1. Len(gs) = Len(fs) /\ Len(fs) \in Nat
      BY <1>1, <1>4
    <3> HIDE DEF N
    <3>2. QED BY <3>1
  <2>3. \A f \in 1 .. Len(fs) : Len(fs[f]) <= Len(gs[f]) /\ \A p \in 1 .. Len(fs[f]) : gs[f][p] = fs[f][p]
    BY <2>1
  <2> HIDE DEF N
  <2>4. QED BY <2>2, <2>3 DEF Grown
<1>7. QED BY <1>1, <1>2, <1>4, <1>5, <1>6 DEF old, gs

LEMMA ShapeInit == Init => LogShape(files, committed, clock)
<1> SUFFICES ASSUME Init PROVE LogShape(files, committed, clock)
  OBVIOUS
<1>1. committed = <<>> /\ Len(committed) = 0 /\ files = << <<>> >> /\ Len(files) = 1 /\ Len(files[1]) = 0
  BY DEF Init
<1>2. AllWritten(files, committed) /\ Ordered(committed)
  BY <1>1 DEF AllWritten, Ordered
<1>3. ASSUME NEW f \in 1 .. Len(files), NEW p \in 1 .. Len(files[f]) PROVE FALSE
  <2>1. f = 1
    BY <1>1
  <2>2. QED BY <1>1, <2>1
<1>4. GapsAreDdl(files, committed)
  BY <1>3 DEF GapsAreDdl
<1>5. TimesGrow(files, committed, clock)
  BY <1>1, <1>3 DEF TimesGrow
<1>6. QED BY <1>2, <1>4, <1>5 DEF LogShape

\* The clock does not run backwards.
LEMMA ShapeLater ==
  ASSUME NEW fs \in Seq(Seq(Event)), NEW cs \in Seq(Commitment), NEW now \in Nat, NEW later \in Nat,
         now <= later, LogShape(fs, cs, now)
  PROVE  LogShape(fs, cs, later)
<1>1. ASSUME NEW i \in 1 .. Len(cs) PROVE cs[i].tx.ts <= later
  <2>1. cs[i].tx.ts \in Nat /\ cs[i].tx.ts <= now
    BY ElementOfSeq, CommitFields DEF LogShape, TimesGrow
  <2>2. QED BY <2>1
<1>2. ASSUME NEW f \in 1 .. Len(fs), NEW p \in 1 .. Len(fs[f]) PROVE fs[f][p].ts <= later
  <2>1. fs[f] \in Seq(Event)
    BY ElementOfSeq
  <2>2. fs[f][p] \in Event
    BY <2>1, ElementOfSeq
  <2>3. fs[f][p].ts \in Nat
    BY <2>2, EventFacts
  <2>4. fs[f][p].ts <= now
    BY DEF LogShape, TimesGrow
  <2>5. QED BY <2>3, <2>4
<1>3. TimesGrow(fs, cs, later)
  BY <1>1, <1>2 DEF LogShape, TimesGrow
<1>4. QED BY <1>3 DEF LogShape

LEMMA RotateShape ==
  ASSUME Types, Rotate, LogShape(files, committed, clock)
  PROVE  LogShape(files', committed', clock')
<1> DEFINE gs == Append(files, <<>>)
<1>1. /\ files \in Seq(Seq(Event)) /\ committed \in Seq(Commitment) /\ clock \in Nat
      /\ files' = gs /\ committed' = committed /\ clock' = clock
  BY DEF Types, LogType, Rotate, mysqlVars
<1>2. /\ gs \in Seq(Seq(Event)) /\ Len(gs) = Len(files) + 1 /\ Len(files) \in Nat
      /\ \A f \in 1 .. Len(files) : gs[f] = files[f]
      /\ gs[Len(files) + 1] = <<>>
  <2>1. files \in Seq(Seq(Event))
    BY <1>1
  <2>2. <<>> \in Seq(Event)
    OBVIOUS
  <2>3. QED BY <2>1, <2>2, AppendProperties
<1> HIDE DEF gs
<1>3. Grown(files, gs)
  <2>1. ASSUME NEW f \in 1 .. Len(files) PROVE Len(files[f]) <= Len(gs[f])
    <3>1. Len(files[f]) \in Nat
      BY <1>1, ElementOfSeq
    <3>2. QED BY <1>2, <3>1
  <2>2. Len(files) <= Len(gs)
    BY <1>2
  <2>3. QED BY <1>2, <2>1, <2>2 DEF Grown
<1>4. AllWritten(gs, committed) /\ Ordered(committed)
  BY <1>1, <1>2, <1>3, AllWrittenGrows DEF LogShape
<1>5. ASSUME NEW f \in 1 .. Len(gs), NEW p \in 1 .. Len(gs[f]) PROVE OldAt(files, f, p)
  <2>1. CASE f = Len(files) + 1
    BY <1>2, <2>1
  <2>2. CASE f \in 1 .. Len(files)
    BY <1>2, <2>2 DEF OldAt
  <2>3. QED BY <1>2, <2>1, <2>2
<1>6. /\ Len(committed) <= Len(committed)
      /\ \A i \in 1 .. Len(committed) : i <= Len(committed) \/ NewTx(files, committed[i], clock)
  BY <1>1
<1>7. LogShape(gs, committed, clock)
  BY <1>1, <1>2, <1>3, <1>4, <1>5, <1>6, ShapeGrows
<1>8. QED BY <1>1, <1>7

\* The transactions lie before what comes behind the last file.
LEMMA AllBefore ==
  ASSUME NEW fs \in Seq(Seq(Event)), NEW cs \in Seq(Commitment), AllWritten(fs, cs),
         NEW i \in 1 .. Len(cs), NEW p \in Nat, Len(fs[Len(fs)]) < p
  PROVE  EndsBefore(cs[i], Len(fs), p)
<1>1. cs[i].file \in 1 .. Len(fs) /\ Written(cs[i], fs[cs[i].file])
  BY DEF AllWritten
<1>2. cs[i].last <= Len(fs[cs[i].file])
  BY <1>1 DEF Written
<1>3. cs[i].last \in Nat /\ Len(fs[cs[i].file]) \in Nat /\ Len(fs) \in Nat
  <2>1. cs[i] \in Commitment /\ fs[cs[i].file] \in Seq(Event)
    BY <1>1, ElementOfSeq
  <2>2. QED BY <2>1, CommitFields
<1>4. CASE cs[i].file < Len(fs)
  BY <1>4 DEF EndsBefore
<1>5. CASE cs[i].file = Len(fs)
  BY <1>2, <1>3, <1>5 DEF EndsBefore
<1>6. QED BY <1>1, <1>3, <1>4, <1>5

LEMMA DdlShape ==
  ASSUME Types, Ddl, LogShape(files, committed, clock)
  PROVE  LogShape(files', committed', clock')
<1> DEFINE g == [type |-> "gtid", ts |-> clock, id |-> <<"gtid", 0>>]
           q == [type |-> "query", ts |-> clock]
           ev == <<g, q>>
           N == Len(files)
           L == Len(files[N])
           gs == Extended(files, ev)
<1>1. /\ files \in Seq(Seq(Event)) /\ files # <<>> /\ committed \in Seq(Commitment) /\ clock \in Nat
      /\ files' = gs /\ committed' = committed /\ clock' = clock
  BY DEF Types, LogType, Ddl, mysqlVars, Extended
<1>2. g \in Event /\ q \in Event
  <2>1. <<"gtid", 0>> \in EventId
    BY DEF EventId
  <2>2. QED BY <1>1, <2>1 DEF Event
<1>3. g.type = "gtid" /\ g.ts = clock /\ q.type = "query" /\ q.ts = clock
  OBVIOUS
<1> HIDE DEF g, q
<1>4. ev \in Seq(Event) /\ Len(ev) = 2 /\ ev[1] = g /\ ev[2] = q
  BY <1>2
<1> HIDE DEF ev
<1>5. /\ N \in 1 .. N /\ files[N] \in Seq(Event)
      /\ gs \in Seq(Seq(Event)) /\ Len(gs) = N /\ Grown(files, gs)
      /\ \A f \in 1 .. N : f # N => gs[f] = files[f]
      /\ Len(gs[N]) = L + Len(ev)
      /\ \A j \in 1 .. Len(ev) : gs[N][L + j] = ev[j]
  <2>2. files \in Seq(Seq(Event)) /\ files # <<>>
    BY <1>1
  <2>3. ev \in Seq(Event)
    BY <1>4
  <2> HIDE DEF gs
  <2>4. /\ Len(files) \in 1 .. Len(files) /\ files[Len(files)] \in Seq(Event)
        /\ gs \in Seq(Seq(Event)) /\ Len(gs) = Len(files) /\ Grown(files, gs)
        /\ \A f \in 1 .. Len(files) : f # Len(files) => gs[f] = files[f]
        /\ Len(gs[Len(files)]) = Len(files[Len(files)]) + Len(ev)
        /\ \A j \in 1 .. Len(ev) : gs[Len(files)][Len(files[Len(files)]) + j] = ev[j]
    BY <2>2, <2>3, FileGrows DEF gs
  <2>5. QED BY <2>4
<1>6. L \in Nat
  <2>1. files[N] \in Seq(Event)
    BY <1>5
  <2> HIDE DEF N
  <2>2. QED BY <2>1
<1>7. gs[N][L + 1] = g /\ gs[N][L + 2] = q /\ Len(gs[N]) = L + 2
  <2>1. 1 \in 1 .. Len(ev) /\ 2 \in 1 .. Len(ev)
    BY <1>4
  <2>2. QED BY <1>4, <1>5, <2>1
<1>8. AllWritten(gs, committed) /\ Ordered(committed) /\ AllWritten(files, committed)
  BY <1>1, <1>5, AllWrittenGrows DEF LogShape
<1> HIDE DEF N, L, gs
<1>9. ASSUME NEW p \in {L + 1, L + 2}
      PROVE  \A i \in 1 .. Len(committed) : EndsBefore(committed[i], N, p)
  <2>1. p \in Nat /\ L < p
    BY <1>6
  <2>2. QED BY <1>1, <1>8, <2>1, AllBefore DEF N, L
<1>10. Gap(gs, committed, N, L + 2)
  <2>1. ASSUME NEW i \in 1 .. Len(committed), committed[i].file = N PROVE committed[i].last < L + 2
    <3>1. EndsBefore(committed[i], N, L + 2) /\ N \in Nat
      BY <1>5, <1>9
    <3>2. QED BY <2>1, <3>1 DEF EndsBefore
  <2>2. L + 2 \in 1 .. Len(gs[N])
    BY <1>6, <1>7
  <2>3. QED BY <2>1, <2>2 DEF Gap
<1>11. DdlAt(gs, committed, N, L + 2)
  BY <1>3, <1>7, <1>10 DEF DdlAt
<1>12. ASSUME NEW f \in 1 .. Len(gs), NEW p \in 1 .. Len(gs[f]), ~OldAt(files, f, p)
       PROVE  NewAt(committed, gs, committed, clock, f, p)
  <2>1. f = N
    <3>1. CASE f # N
      <4>1. f \in 1 .. N /\ gs[f] = files[f]
        BY <1>5, <3>1
      <4>2. OldAt(files, f, p)
        BY <4>1 DEF OldAt, N
      <4>3. QED BY <1>12, <4>2
    <3>2. QED BY <3>1
  <2>2. p \in {L + 1, L + 2}
    <3>1. p \in 1 .. L + 2 /\ p \notin 1 .. L
      BY <1>5, <1>7, <1>12, <2>1 DEF OldAt, N, L
    <3>2. QED BY <1>6, <3>1
  <2>3. CASE p = L + 1
    <3>1. gs[f][p] = g /\ DdlAt(gs, committed, f, p + 1)
      <4>1. p + 1 = L + 2
        BY <1>6, <2>3
      <4>2. QED BY <1>7, <1>11, <2>1, <2>3, <4>1
    <3>2. QED BY <1>1, <1>3, <1>9, <2>1, <2>3, <3>1 DEF NewAt
  <2>4. CASE p = L + 2
    BY <1>1, <1>3, <1>7, <1>9, <1>11, <2>1, <2>4 DEF NewAt
  <2>5. QED BY <2>2, <2>3, <2>4
<1>13. /\ Len(committed) <= Len(committed)
       /\ \A i \in 1 .. Len(committed) : i <= Len(committed) \/ NewTx(files, committed[i], clock)
  BY <1>1
<1>14. LogShape(gs, committed, clock)
  BY <1>1, <1>5, <1>8, <1>12, <1>13, ShapeGrows
<1>15. QED BY <1>1, <1>14 DEF gs

LEMMA CommitShape ==
  ASSUME Types, NEW s \in 1 .. MaxTime, Commit(s), NoTorn', LogShape(files, committed, clock)
  PROVE  LogShape(files', committed', clock')
<1> DEFINE c == Committing(s)
           ev == CommitEvents(s)
           N == Len(files)
           L == Len(files[N])
           K == Len(committed)
           gs == Extended(files, ev)
           ds == Append(committed, c)
<1>1. /\ files \in Seq(Seq(Event)) /\ files # <<>> /\ committed \in Seq(Commitment) /\ clock \in Nat
      /\ open \in Seq(RowChange) /\ s \in Nat
  BY DEF Types, LogType
<1>2. /\ open # <<>> /\ K < Len(Kinds) /\ s <= clock
      /\ files' = gs /\ committed' = ds /\ clock' = clock
  BY CommitIs DEF Extended
<1>3. ev \in Seq(Event) /\ c \in Commitment
  BY <1>1, <1>2, CommitTypes
<1>4. /\ c.tx.ts = clock /\ c.file = N /\ c.first = L + 1 /\ c.last = L + Len(ev)
      /\ c.torn = (points # {})
  BY DEF Committing, CommitTx
<1> HIDE DEF c, ev
<1>5. /\ ds \in Seq(Commitment) /\ Len(ds) = K + 1 /\ K \in Nat
      /\ \A i \in 1 .. K : ds[i] = committed[i]
      /\ ds[K + 1] = c
  <2>1. committed \in Seq(Commitment)
    BY <1>1
  <2>2. c \in Commitment
    BY <1>3
  <2>3. QED BY <2>1, <2>2, AppendProperties
<1>6. points = {}
  <2>1. K + 1 \in 1 .. Len(ds)
    BY <1>5
  <2>2. ~ds[K + 1].torn
    BY <1>2, <2>1 DEF NoTorn
  <2>3. QED BY <1>4, <1>5, <2>2
<1>7. LaidOut(s, ev)
  BY <1>1, <1>2, <1>6, CommitLaidOut DEF ev
<1>8. \A p \in 1 .. Len(ev) : ev[p].ts <= clock
  BY <1>7 DEF LaidOut
<1>9. /\ N \in 1 .. N /\ files[N] \in Seq(Event)
      /\ gs \in Seq(Seq(Event)) /\ Len(gs) = N /\ Grown(files, gs)
      /\ \A f \in 1 .. N : f # N => gs[f] = files[f]
      /\ Len(gs[N]) = L + Len(ev)
      /\ \A j \in 1 .. Len(ev) : gs[N][L + j] = ev[j]
  <2>2. files \in Seq(Seq(Event)) /\ files # <<>>
    BY <1>1
  <2>3. ev \in Seq(Event)
    BY <1>3
  <2> HIDE DEF gs
  <2>4. /\ Len(files) \in 1 .. Len(files) /\ files[Len(files)] \in Seq(Event)
        /\ gs \in Seq(Seq(Event)) /\ Len(gs) = Len(files) /\ Grown(files, gs)
        /\ \A f \in 1 .. Len(files) : f # Len(files) => gs[f] = files[f]
        /\ Len(gs[Len(files)]) = Len(files[Len(files)]) + Len(ev)
        /\ \A j \in 1 .. Len(ev) : gs[Len(files)][Len(files[Len(files)]) + j] = ev[j]
    BY <2>2, <2>3, FileGrows DEF gs
  <2>5. QED BY <2>4
<1>10. L \in Nat /\ N \in Nat
  <2>1. files[N] \in Seq(Event) /\ N \in 1 .. N
    BY <1>9
  <2> HIDE DEF N
  <2>2. QED BY <2>1
<1>11. Written(c, gs[N])
  <2>1. /\ open # <<>> /\ Len(committed) < Len(Kinds) /\ Committing(s).last = Len(files[Len(files)]) + Len(ev)
        /\ s \in Nat
    BY <1>1, <1>2, <1>4 DEF c
  <2>2. /\ Len(gs[N]) = Len(files[Len(files)]) + Len(ev)
        /\ \A j \in 1 .. Len(ev) : gs[N][Len(files[Len(files)]) + j] = ev[j]
    BY <1>9
  <2> HIDE DEF N, gs
  <2>3. QED BY <1>7, <2>1, <2>2, CommitWritten DEF c
<1> HIDE DEF N, L, K, gs, ds
<1>12. AllWritten(gs, ds)
  <2>1. AllWritten(gs, committed)
    BY <1>1, <1>9, AllWrittenGrows DEF LogShape
  <2>2. SUFFICES ASSUME NEW i \in 1 .. Len(ds)
                 PROVE  ds[i].file \in 1 .. Len(gs) /\ Written(ds[i], gs[ds[i].file])
    BY DEF AllWritten
  <2>3. CASE i \in 1 .. K
    BY <1>5, <2>1, <2>3 DEF AllWritten, K
  <2>4. CASE i = K + 1
    BY <1>4, <1>5, <1>9, <1>11, <2>4
  <2>5. QED BY <1>5, <2>3, <2>4
<1>13. \A i \in 1 .. K : \A p \in Nat : L < p => EndsBefore(committed[i], N, p)
  BY <1>1, AllBefore DEF LogShape, N, L, K
<1>14. Ordered(ds)
  <2>1. SUFFICES ASSUME NEW i \in 1 .. Len(ds), NEW j \in 1 .. Len(ds), i < j
                 PROVE  EndsBefore(ds[i], ds[j].file, ds[j].first)
    BY DEF Ordered
  <2>2. i \in 1 .. K /\ ds[i] = committed[i]
    BY <1>5, <2>1
  <2>3. CASE j \in 1 .. K
    <3>1. Ordered(committed)
      BY DEF LogShape
    <3>2. EndsBefore(committed[i], committed[j].file, committed[j].first)
      BY <2>1, <2>2, <2>3, <3>1 DEF Ordered, K
    <3>3. QED BY <1>5, <2>2, <2>3, <3>2
  <2>4. CASE j = K + 1
    <3>1. L + 1 \in Nat /\ L < L + 1
      BY <1>10
    <3>2. EndsBefore(committed[i], N, L + 1)
      BY <1>13, <2>2, <3>1
    <3>3. QED BY <1>4, <1>5, <2>2, <2>4, <3>2
  <2>5. QED BY <1>5, <2>3, <2>4
<1>15. ASSUME NEW i \in 1 .. Len(ds) PROVE i <= K \/ NewTx(files, ds[i], clock)
  <2>1. CASE i = K + 1
    <3>1. SUFFICES ASSUME NEW f, NEW p, OldAt(files, f, p) PROVE c.file # f \/ p < c.first
      BY <1>4, <1>5, <2>1 DEF NewTx
    <3>2. CASE f = N
      BY <1>4, <1>10, <3>1, <3>2 DEF OldAt, L, N
    <3>3. QED BY <1>4, <3>2
  <2>2. QED BY <1>5, <2>1
<1>16. ASSUME NEW f \in 1 .. Len(gs), NEW p \in 1 .. Len(gs[f]), ~OldAt(files, f, p)
       PROVE  NewAt(committed, gs, ds, clock, f, p)
  <2>1. f = N
    <3>1. CASE f # N
      <4>1. f \in 1 .. N /\ gs[f] = files[f]
        BY <1>9, <3>1
      <4>2. OldAt(files, f, p)
        BY <4>1 DEF OldAt, N
      <4>3. QED BY <1>16, <4>2
    <3>2. QED BY <3>1
  <2>2. Len(ev) \in Nat
    BY <1>3
  <2>3. p \in 1 .. L + Len(ev) /\ p \notin 1 .. L
    BY <1>9, <1>16, <2>1 DEF OldAt, N, L
  <2>4. L < p /\ p <= L + Len(ev) /\ p \in Nat /\ p - L \in 1 .. Len(ev) /\ L + (p - L) = p
    BY <1>10, <2>2, <2>3
  <2>5. gs[f][p].ts <= clock
    <3>1. gs[f][p] = ev[p - L]
      BY <1>9, <2>1, <2>4
    <3>2. QED BY <1>8, <2>4, <3>1
  <2>6. \A i \in 1 .. Len(committed) : EndsBefore(committed[i], f, p)
    BY <1>13, <2>1, <2>4 DEF K
  <2>7. ~Gap(gs, ds, f, p)
    <3>1. K + 1 \in 1 .. Len(ds) /\ ds[K + 1].file = f
      BY <1>4, <1>5, <2>1
    <3>2. ~(p < ds[K + 1].first) /\ ~(ds[K + 1].last < p)
      BY <1>4, <1>5, <1>10, <2>2, <2>4
    <3>3. QED BY <3>1, <3>2 DEF Gap
  <2>8. QED BY <2>5, <2>6, <2>7 DEF NewAt
<1>17. /\ Len(committed) <= Len(ds) /\ \A i \in 1 .. Len(committed) : ds[i] = committed[i]
       /\ \A i \in 1 .. Len(ds) : i <= Len(committed) \/ NewTx(files, ds[i], clock)
  BY <1>5, <1>15 DEF K
<1>18. LogShape(gs, ds, clock)
  BY <1>1, <1>5, <1>9, <1>12, <1>14, <1>16, <1>17, ShapeGrows
<1>19. QED BY <1>1, <1>2, <1>18 DEF gs, ds, N

ClockRuns == 1 <= clock /\ clock <= MaxTime

LEMMA LogStepShape ==
  ASSUME Types, LogStep, NoTorn', ClockRuns, NoTorn => LogShape(files, committed, clock)
  PROVE  LogShape(files', committed', clock') /\ ClockRuns'
<1>1. /\ files \in Seq(Seq(Event)) /\ committed \in Seq(Commitment) /\ clock \in Nat
  BY DEF Types, LogType
<1>2. CASE (\E c \in Changes(db) : Change(c)) \/ SetSavepoint
  <2>1. UNCHANGED <<files, committed, clock>>
    BY <1>2 DEF Change, SetSavepoint, scanVars
  <2>2. NoTorn
    BY <2>1 DEF NoTorn
  <2>3. QED BY <2>1, <2>2 DEF ClockRuns
<1>3. CASE Ddl \/ Rotate
  <2>1. UNCHANGED <<committed, clock>>
    BY <1>3 DEF Ddl, Rotate, mysqlVars
  <2>2. NoTorn
    BY <2>1 DEF NoTorn
  <2>3. LogShape(files', committed', clock')
    BY <1>3, <2>2, DdlShape, RotateShape
  <2>4. QED BY <2>1, <2>3 DEF ClockRuns
<1>4. CASE Tick
  <2>1. UNCHANGED <<files, committed>> /\ clock' = clock + 1 /\ clock < MaxTime
    BY <1>4 DEF Tick, scanVars
  <2>2. NoTorn
    BY <2>1 DEF NoTorn
  <2>3. clock + 1 \in Nat /\ clock <= clock + 1
    BY <1>1
  <2>4. LogShape(files, committed, clock + 1)
    BY <1>1, <2>2, <2>3, ShapeLater
  <2>5. MaxTime \in Nat
    BY ScannerAssumption DEF ScannerAssumption
  <2>6. QED BY <1>1, <2>1, <2>4, <2>5 DEF ClockRuns
<1>5. CASE \E s \in 1 .. MaxTime : Commit(s)
  <2>1. PICK s \in 1 .. MaxTime : Commit(s)
    BY <1>5
  <2>2. committed' = Append(committed, Committing(s)) /\ clock' = clock
    BY <2>1, CommitIs
  <2>3. NoTorn
    <3>1. ASSUME NEW i \in 1 .. Len(committed) PROVE ~committed[i].torn
      <4>1. Committing(s) \in Commitment
        BY <2>1, CommitIs, CommitTypes, s \in Nat
      <4> DEFINE c == Committing(s)
      <4> HIDE DEF c
      <4>2. i \in 1 .. Len(Append(committed, c)) /\ Append(committed, c)[i] = committed[i]
        BY <1>1, <4>1, AppendProperties DEF c
      <4>3. ~Append(committed, c)[i].torn
        BY <2>2, <4>2 DEF NoTorn, c
      <4>4. QED BY <4>2, <4>3
    <3>2. QED BY <3>1 DEF NoTorn
  <2>4. LogShape(files', committed', clock')
    BY <2>1, <2>3, CommitShape
  <2>5. QED BY <2>2, <2>4 DEF ClockRuns
<1>6. QED BY <1>2, <1>3, <1>4, <1>5 DEF LogStep

-----------------------------------------------------------------------------
(* The transactions that a scan has to find. *)

\* The wanted ones of the first n transactions, from those of the first n - 1.
WantedStep(log, w, s, n) == IF Wanted(log[n], w) THEN Append(s, log[n]) ELSE s

LEMMA WantedOfIs ==
  ASSUME NEW log \in Seq(Commitment), NEW w
  PROVE  /\ WantedOf(log, w)[0] = <<>>
         /\ \A n \in 1 .. Len(log) :
              WantedOf(log, w)[n] = WantedStep(log, w, WantedOf(log, w)[n - 1], n)
         /\ \A n \in 0 .. Len(log) : WantedOf(log, w)[n] \in Seq(Commitment)
<1> DEFINE N == Len(log)
           D == Seq(Commitment)
           step == [p \in D \X (1 .. N) |-> WantedStep(log, w, p[1], p[2])]
           After(g) == g = [n \in 0 .. N |-> IF n = 0 THEN <<>>
                                             ELSE IF Wanted(log[n], w) THEN Append(g[n - 1], log[n])
                                                  ELSE g[n - 1]]
           h == CHOOSE g : After(g)
<1>1. N \in Nat /\ <<>> \in D
  OBVIOUS
<1>2. ASSUME NEW s \in D, NEW n \in 1 .. N PROVE WantedStep(log, w, s, n) \in D
  <2>1. log[n] \in Commitment
    BY ElementOfSeq
  <2>2. Append(s, log[n]) \in Seq(Commitment)
    BY <2>1, AppendProperties
  <2>3. QED BY <2>2 DEF WantedStep
<1>3. ASSUME NEW s \in D, NEW n \in 1 .. N
      PROVE  step[<<s, n>>] = WantedStep(log, w, s, n) /\ step[<<s, n>>] \in D
  BY <1>2
<1> HIDE DEF step, D
<1>4. PICK f : Iterates(f, D, N, <<>>, step)
  BY <1>1, <1>3, Recursion DEF StepsWithin
<1>5. /\ f \in [0 .. N -> D] /\ f[0] = <<>>
      /\ \A n \in 1 .. N : f[n] = WantedStep(log, w, f[n - 1], n)
  <2>1. ASSUME NEW n \in 1 .. N PROVE n - 1 \in 0 .. N
    BY <1>1
  <2>2. QED BY <1>1, <1>3, <1>4, <2>1 DEF Iterates
<1>6. After(f)
  <2>1. \A n \in 0 .. N : f[n] = IF n = 0 THEN <<>>
                                 ELSE IF Wanted(log[n], w) THEN Append(f[n - 1], log[n]) ELSE f[n - 1]
    BY <1>1, <1>5 DEF WantedStep
  <2>2. f = [n \in 0 .. N |-> f[n]]
    BY <1>5
  <2>3. [n \in 0 .. N |-> f[n]]
          = [n \in 0 .. N |-> IF n = 0 THEN <<>>
                              ELSE IF Wanted(log[n], w) THEN Append(f[n - 1], log[n]) ELSE f[n - 1]]
    BY <2>1
  <2>4. QED BY <2>2, <2>3
<1>7. After(h)
  BY <1>6
<1>8. WantedOf(log, w) = h
  BY DEF WantedOf
<1>9. h[0] = <<>> /\ \A n \in 1 .. N : h[n] = WantedStep(log, w, h[n - 1], n)
  <2> HIDE DEF h
  <2>1. \A n \in 0 .. N : h[n] = IF n = 0 THEN <<>>
                                 ELSE IF Wanted(log[n], w) THEN Append(h[n - 1], log[n]) ELSE h[n - 1]
    BY <1>7
  <2>2. ASSUME NEW n \in 1 .. N PROVE n \in 0 .. N /\ n # 0
    BY <1>1
  <2>3. 0 \in 0 .. N
    BY <1>1
  <2>4. QED BY <2>1, <2>2, <2>3 DEF WantedStep
<1> DEFINE P == {k \in Nat : k <= N => h[k] \in D}
<1> HIDE DEF h, N
<1>10. 0 \in P
  BY <1>1, <1>9
<1>11. ASSUME NEW k \in Nat, k \in P PROVE k + 1 \in P
  <2>1. CASE k + 1 <= N
    <3>1. k + 1 \in 1 .. N /\ (k + 1) - 1 = k /\ k <= N
      BY <1>1, <2>1
    <3>2. h[k] \in D /\ h[k + 1] = WantedStep(log, w, h[k], k + 1)
      BY <1>9, <1>11, <3>1
    <3>3. h[k + 1] \in D
      BY <1>2, <3>1, <3>2
    <3>4. QED BY <3>3
  <2>2. QED BY <2>1
<1> HIDE DEF P
<1>12. \A n \in 0 .. N : h[n] \in D
  <2>1. \A n \in Nat : n \in P
    BY <1>10, <1>11, Induction
  <2>2. QED BY <1>1, <2>1 DEF P
<1>13. QED BY <1>8, <1>9, <1>12 DEF N, D

\* The sequence t goes on where s ends.
Begins(s, t) == Len(s) <= Len(t) /\ \A i \in 1 .. Len(s) : t[i] = s[i]

LEMMA WantedGrow ==
  ASSUME NEW log \in Seq(Commitment), NEW w, NEW n \in 0 .. Len(log)
  PROVE  /\ Begins(WantedOf(log, w)[n], WantedOf(log, w)[Len(log)])
         /\ (\A i \in n + 1 .. Len(log) : ~Wanted(log[i], w))
              => WantedOf(log, w)[Len(log)] = WantedOf(log, w)[n]
<1> DEFINE N == Len(log)
           W == WantedOf(log, w)
           Unwanted == \A i \in n + 1 .. N : ~Wanted(log[i], w)
           Good(k) == Begins(W[n], W[n + k]) /\ (Unwanted => W[n + k] = W[n])
           P == {k \in Nat : n + k <= N => Good(k)}
<1>1. N \in Nat /\ n \in Nat /\ n <= N
  OBVIOUS
<1>2. /\ \A i \in 1 .. N : W[i] = WantedStep(log, w, W[i - 1], i)
      /\ \A i \in 0 .. N : W[i] \in Seq(Commitment)
  BY WantedOfIs
<1> HIDE DEF N, W, Unwanted
<1>3. 0 \in P
  <2>1. n + 0 = n /\ W[n] \in Seq(Commitment)
    BY <1>1, <1>2
  <2>2. Len(W[n]) \in Nat
    BY <2>1
  <2>3. Begins(W[n], W[n + 0])
    BY <2>1, <2>2 DEF Begins
  <2>4. QED BY <2>1, <2>3
<1>4. ASSUME NEW k \in Nat, k \in P PROVE k + 1 \in P
  <2>1. SUFFICES ASSUME n + (k + 1) <= N PROVE Good(k + 1)
    OBVIOUS
  <2> DEFINE m == n + k
  <2>2. /\ m <= N /\ m \in 0 .. N /\ m + 1 \in 1 .. N /\ (m + 1) - 1 = m /\ n + (k + 1) = m + 1
        /\ m + 1 \in n + 1 .. N
    BY <1>1, <2>1
  <2>3. Begins(W[n], W[m]) /\ (Unwanted => W[m] = W[n])
    BY <1>4, <2>2
  <2> HIDE DEF m
  <2>4. W[m + 1] = WantedStep(log, w, W[m], m + 1) /\ W[m] \in Seq(Commitment)
        /\ log[m + 1] \in Commitment /\ W[n] \in Seq(Commitment)
    <3>1. W[m + 1] = WantedStep(log, w, W[m], m + 1)
      BY <1>2, <2>2
    <3>2. log[m + 1] \in Commitment
      BY <2>2, ElementOfSeq DEF N
    <3>3. QED BY <1>1, <1>2, <2>2, <3>1, <3>2
  <2>5. CASE Wanted(log[m + 1], w)
    <3>1. W[m + 1] = Append(W[m], log[m + 1])
      BY <2>4, <2>5 DEF WantedStep
    <3>2. Len(W[m + 1]) = Len(W[m]) + 1 /\ \A i \in 1 .. Len(W[m]) : W[m + 1][i] = W[m][i]
      <4>1. W[m] \in Seq(Commitment)
        BY <2>4
      <4>2. log[m + 1] \in Commitment
        BY <2>4
      <4>3. QED BY <3>1, <4>1, <4>2, AppendProperties
    <3>3. Len(W[m]) \in Nat /\ Len(W[n]) \in Nat
      BY <2>4
    <3>4. Begins(W[n], W[m + 1])
      BY <2>3, <3>2, <3>3 DEF Begins
    <3>5. ~Unwanted
      BY <2>2, <2>5 DEF Unwanted
    <3>6. QED BY <2>2, <3>4, <3>5
  <2>6. CASE ~Wanted(log[m + 1], w)
    <3>1. W[m + 1] = W[m]
      BY <2>4, <2>6 DEF WantedStep
    <3>2. QED BY <2>2, <2>3, <3>1
  <2>7. QED BY <2>5, <2>6
<1> HIDE DEF P
<1>5. \A k \in Nat : k \in P
  BY <1>3, <1>4, Induction
<1>6. Good(N - n)
  <2>1. N - n \in Nat /\ n + (N - n) <= N
    BY <1>1
  <2>2. QED BY <1>5, <2>1 DEF P
<1>7. n + (N - n) = N
  BY <1>1
<1>8. QED BY <1>6, <1>7 DEF N, W, Unwanted

LEMMA LogFacts ==
  ASSUME NEW fs, NEW cs \in Seq(Commitment), NEW now, LogShape(fs, cs, now), NEW i \in 1 .. Len(cs)
  PROVE  /\ cs[i] \in Commitment /\ cs[i].file \in 1 .. Len(fs) /\ Written(cs[i], fs[cs[i].file])
         /\ cs[i].first \in Nat /\ cs[i].last \in Nat
         /\ 1 <= cs[i].first /\ cs[i].first < cs[i].last /\ cs[i].last <= Len(fs[cs[i].file])
<1> DEFINE c == cs[i]
<1>1. c \in Commitment
  BY ElementOfSeq
<1>2. c.file \in 1 .. Len(fs) /\ Written(c, fs[c.file])
  BY DEF LogShape, AllWritten
<1> HIDE DEF c
<1>3. 1 <= c.first /\ c.last <= Len(fs[c.file])
  BY <1>2 DEF Written
<1>4. c.first \in Nat /\ c.last \in Nat /\ 0 \in 0 .. Len(c.tx.rows)
  BY <1>1, CommitFields
<1>5. c.first <= AtRow(c, 0) /\ AtRow(c, 0) < c.last /\ AtRow(c, 0) \in Nat
  BY <1>1, <1>2, <1>4, RowAt
<1>6. c.first < c.last
  BY <1>4, <1>5
<1>7. QED BY <1>1, <1>2, <1>3, <1>4, <1>6 DEF c

LEMMA BeforeChain ==
  ASSUME NEW fs, NEW cs \in Seq(Commitment), NEW now, LogShape(fs, cs, now), NEW f \in Int, NEW p \in Int,
         NEW i \in 1 .. Len(cs), NEW j \in 1 .. Len(cs), i < j, EndsBefore(cs[j], f, p)
  PROVE  EndsBefore(cs[i], f, p)
<1>1. EndsBefore(cs[i], cs[j].file, cs[j].first)
  BY DEF LogShape, Ordered
<1>2. cs[j].first < cs[j].last /\ cs[j].first \in Nat /\ cs[j].last \in Nat /\ cs[i].last \in Nat
  BY LogFacts
<1>3. cs[i].file \in Nat /\ cs[j].file \in Nat
  BY ElementOfSeq, CommitFields
<1>4. QED BY <1>1, <1>2, <1>3 DEF EndsBefore

LEMMA SplitExists ==
  ASSUME NEW fs, NEW cs \in Seq(Commitment), NEW now, LogShape(fs, cs, now), NEW f \in Int, NEW p \in Int
  PROVE  \E n \in 0 .. Len(cs) : Split(cs, n, f, p)
<1> DEFINE N == Len(cs)
           E(i) == EndsBefore(cs[i], f, p)
           T == {n \in 0 .. N : \A i \in n + 1 .. N : ~E(i)}
<1>1. N \in Nat
  OBVIOUS
<1>2. \A i \in 1 .. N, j \in 1 .. N : i < j /\ E(j) => E(i)
  BY BeforeChain
<1> HIDE DEF E, N
<1>3. N \in T /\ T \subseteq Nat
  BY <1>1
<1>4. PICK n \in T : \A m \in T : n <= m
  BY <1>3, LeastNumber
<1>5. n \in 0 .. N /\ \A i \in n + 1 .. N : ~E(i)
  BY <1>4
<1>6. ASSUME NEW i \in 1 .. N, i <= n PROVE E(i)
  <2>1. n - 1 \notin T /\ n - 1 \in 0 .. N
    BY <1>1, <1>3, <1>4, <1>5, <1>6
  <2>2. PICK j \in (n - 1) + 1 .. N : E(j)
    BY <2>1
  <2>3. j = n /\ n \in 1 .. N
    BY <1>1, <1>5, <1>6, <2>2
  <2>4. CASE i = n
    BY <2>2, <2>3, <2>4
  <2>5. CASE i < n
    BY <1>2, <2>2, <2>3, <2>5
  <2>6. QED BY <1>1, <1>5, <1>6, <2>4, <2>5
<1>7. \A i \in 1 .. N : i <= n <=> E(i)
  BY <1>1, <1>5, <1>6
<1>8. QED BY <1>5, <1>7 DEF Split, E, N

\* The end of a file is the beginning of the next one.
LEMMA NextFileSplit ==
  ASSUME NEW fs, NEW cs \in Seq(Commitment), NEW now, LogShape(fs, cs, now), NEW n,
         NEW f \in Int, NEW p \in Int, Len(fs[f]) < p, Len(fs[f]) \in Nat, Split(cs, n, f, p)
  PROVE  Split(cs, n, f + 1, 1)
<1>1. SUFFICES ASSUME NEW i \in 1 .. Len(cs)
               PROVE  EndsBefore(cs[i], f, p) <=> EndsBefore(cs[i], f + 1, 1)
  BY DEF Split
<1>2. cs[i].last \in Nat /\ 1 < cs[i].last /\ cs[i].last <= Len(fs[cs[i].file]) /\ cs[i].first \in Nat
      /\ cs[i].file \in Nat
  BY LogFacts, CommitFields
<1>3. CASE cs[i].file = f
  BY <1>2, <1>3 DEF EndsBefore
<1>4. CASE cs[i].file # f
  BY <1>2, <1>4 DEF EndsBefore
<1>5. QED BY <1>3, <1>4

-----------------------------------------------------------------------------
(* The filter lets through what is wanted. *)

\* A committed transaction as the parse loop sends it, before it is cut off.
Whole(c) ==
  [id |-> c.tx.id, gtid |-> c.tx.gtid, ts |-> c.tx.ts, rows |-> c.tx.rows, truncated |-> FALSE]

\* A time that w asks for.
InTime(ts, w) == /\ w.range[1] # None => ts >= w.range[1]
                 /\ w.range[2] # None => ts <= w.range[2]

LEMMA AskedFacts ==
  ASSUME Asked
  PROVE  /\ filter.start = cons.wire.start /\ filter.end = cons.wire.end
         /\ filter.gtids = cons.wire.gtids /\ filter.selected = cons.wire.selected
         /\ filter.tables = cons.wire.tables /\ filter.maxRows = cons.wire.maxRows
         /\ filter.maxRows \in Nat
         /\ filter.start[1] \in Nat /\ filter.start[2] \in Nat
         /\ filter.end[1] \in Nat /\ filter.end[2] \in Nat
         /\ \A ts \in 0 .. MaxTime :
              /\ InTime(ts, cons.wire)
                   <=> (filter.range # None => filter.range[1] <= ts /\ ts <= filter.range[2])
              /\ filter.range # None /\ ts > filter.range[2]
                   => \A late \in Nat : ts <= late => ~InTime(late, cons.wire)
<1> DEFINE w == cons.wire
           Times(f, v) ==
             \A ts \in 0 .. MaxTime :
               /\ InTime(ts, v) <=> (f.range # None => f.range[1] <= ts /\ ts <= f.range[2])
               /\ f.range # None /\ ts > f.range[2] => \A late \in Nat : ts <= late => ~InTime(late, v)
<1>1. None \notin Nat /\ MaxTime \in Nat
  BY ScannerAssumption DEF ScannerAssumption
<1>2. CASE w \in {v[1] : v \in Requests} /\ filter = WsFilterToBinlog(w)
  <2>1. PICK v \in Requests : w = v[1]
    BY <1>2
  <2>2. w \in [range : Bound \X Bound, gtids : {w.gtids}, selected : {w.selected},
               tables : {w.tables}, start : Nat \X Nat, end : Nat \X Nat, maxRows : Nat]
    BY <2>1, RecoveryAssumption DEF RecoveryAssumption
  <2> DEFINE R == IF w.range = <<None, None>> THEN None
                  ELSE <<IF w.range[1] = None THEN 0 ELSE w.range[1],
                         IF w.range[2] = None THEN FarFuture ELSE w.range[2]>>
  <2>3. filter = [w EXCEPT !.range = R]
    BY <1>2 DEF WsFilterToBinlog
  <2> HIDE DEF R, w
  <2>4. /\ filter.start = w.start /\ filter.end = w.end /\ filter.gtids = w.gtids
        /\ filter.selected = w.selected /\ filter.tables = w.tables /\ filter.maxRows = w.maxRows
        /\ filter.range = R
    BY <2>2, <2>3
  <2>5. w.start \in Nat \X Nat /\ w.end \in Nat \X Nat /\ w.maxRows \in Nat /\ w.range \in Bound \X Bound
    BY <2>2
  <2> DEFINE a == w.range[1]
             b == w.range[2]
  <2>6. a \in Nat \union {None} /\ b \in Nat \union {None} /\ w.range = <<a, b>>
    BY <2>5 DEF Bound
  <2> HIDE DEF a, b
  <2>7. /\ R = None <=> a = None /\ b = None
        /\ R # None => /\ R[1] = IF a = None THEN 0 ELSE a
                       /\ R[2] = IF b = None THEN MaxTime + 2 ELSE b
    <3> DEFINE x == IF a = None THEN 0 ELSE a
               y == IF b = None THEN FarFuture ELSE b
    <3>1. R = IF <<a, b>> = <<None, None>> THEN None ELSE <<x, y>>
      BY <2>6 DEF R, a, b
    <3>2. <<a, b>> = <<None, None>> <=> a = None /\ b = None
      OBVIOUS
    <3>3. x \in Nat /\ y \in Nat
      BY <1>1, <2>6 DEF FarFuture
    <3>4. <<x, y>> \in Nat \X Nat
      BY <3>3
    <3>5. <<x, y>>[1] = x /\ <<x, y>>[2] = y /\ y = IF b = None THEN MaxTime + 2 ELSE b
      BY DEF FarFuture
    <3> HIDE DEF x, y
    <3>6. <<x, y>> # None
      BY <3>4, RecoveryAssumption DEF RecoveryAssumption
    <3>7. QED BY <3>1, <3>2, <3>5, <3>6 DEF x
  <2>8. \A ts : InTime(ts, w) <=> (a # None => ts >= a) /\ (b # None => ts <= b)
    BY DEF InTime, a, b
  <2>9. Times(filter, w)
    <3>1. SUFFICES ASSUME NEW ts \in 0 .. MaxTime
                   PROVE  /\ InTime(ts, w) <=> (R # None => R[1] <= ts /\ ts <= R[2])
                          /\ R # None /\ ts > R[2] => \A late \in Nat : ts <= late => ~InTime(late, w)
      BY <2>4
    <3>2. CASE R = None
      BY <2>7, <2>8, <3>2
    <3>3. CASE R # None
      <4>1. InTime(ts, w) <=> R[1] <= ts /\ ts <= R[2]
        BY <1>1, <2>6, <2>7, <2>8, <3>3
      <4>2. ASSUME ts > R[2], NEW late \in Nat, ts <= late PROVE ~InTime(late, w)
        BY <1>1, <2>6, <2>7, <2>8, <3>3, <4>2
      <4>3. QED BY <3>3, <4>1, <4>2
    <3>4. QED BY <3>2, <3>3
  <2>10. QED BY <2>4, <2>5, <2>9 DEF w
<1>3. CASE w \in FlashFilters /\ filter = w
  <2>1. PICK v \in Flashbacks : w = FlashFilter(v[1], v[2])
    BY <1>3 DEF FlashFilters
  <2>2. v[2] \in Nat
    BY RecoveryAssumption DEF RecoveryAssumption
  <2>3. /\ w.start = <<0, 0>> /\ w.end = <<0, 0>> /\ w.maxRows = 0 /\ w.range = <<0, v[2]>>
    BY <2>1 DEF FlashFilter
  <2>4. <<0, v[2]>> # None /\ <<0, v[2]>>[1] = 0 /\ <<0, v[2]>>[2] = v[2]
    <3>1. <<0, v[2]>> \in Nat \X Nat
      BY <2>2
    <3>2. QED BY <3>1, RecoveryAssumption DEF RecoveryAssumption
  <2> HIDE DEF w
  <2>5. \A ts : InTime(ts, w) <=> ts >= 0 /\ ts <= v[2]
    BY <1>1, <2>2, <2>3, <2>4 DEF InTime
  <2>6. Times(w, w)
    BY <2>2, <2>3, <2>4, <2>5
  <2>7. QED BY <1>3, <2>3, <2>6 DEF w
<1>4. QED BY <1>2, <1>3 DEF Asked

\* What the filter does not look at: where a transaction lies.
InPlace(c, w) ==
  /\ w.start[1] # 0 => \/ c.file > w.start[1]
                       \/ c.file = w.start[1] /\ c.first > w.start[2]
  /\ w.end[1] # 0 => \/ c.file < w.end[1]
                     \/ c.file = w.end[1] /\ c.last <= w.end[2]

LEMMA WantedIs ==
  ASSUME NEW c, NEW w
  PROVE  Wanted(c, w) <=>
           /\ InPlace(c, w) /\ InTime(c.tx.ts, w)
           /\ w.gtids # None /\ c.tx.gtid # None => c.tx.gtid \in w.gtids
           /\ w.selected # {} => c.tx.id \in w.selected
           /\ w.tables # {} => \E i \in 1 .. Len(c.tx.rows) : c.tx.rows[i].table \in w.tables
BY DEF Wanted, InPlace, InTime

LEMMA MatchesWanted ==
  ASSUME Asked, NEW c \in Commitment, c.tx.ts <= MaxTime, InPlace(c, cons.wire)
  PROVE  MatchesFilter(Whole(c), filter) <=> Wanted(c, cons.wire)
<1> DEFINE w == cons.wire
           tx == Whole(c)
<1>1. tx.id = c.tx.id /\ tx.gtid = c.tx.gtid /\ tx.ts = c.tx.ts /\ tx.rows = c.tx.rows
  BY DEF Whole
<1> HIDE DEF tx
<1>2. c.tx.ts \in 0 .. MaxTime
  BY CommitFields, ScannerAssumption DEF ScannerAssumption
<1>3. /\ filter.gtids = w.gtids /\ filter.selected = w.selected /\ filter.tables = w.tables
      /\ InTime(c.tx.ts, w)
           <=> (filter.range # None => filter.range[1] <= c.tx.ts /\ c.tx.ts <= filter.range[2])
  BY <1>2, AskedFacts
<1> HIDE DEF w
<1>4. MatchesFilter(tx, filter) <=>
        /\ InTime(c.tx.ts, w)
        /\ w.gtids # None /\ c.tx.gtid # None => c.tx.gtid \in w.gtids
        /\ w.selected # {} => c.tx.id \in w.selected
        /\ w.tables # {} => \E i \in 1 .. Len(c.tx.rows) : c.tx.rows[i].table \in w.tables
  BY <1>1, <1>3 DEF MatchesFilter
<1>5. InPlace(c, w)
  BY DEF w
<1>6. QED BY <1>4, <1>5, WantedIs DEF tx, w

LEMMA TruncateStandsFor ==
  ASSUME Asked, NEW c \in Commitment
  PROVE  StandsFor(Truncate(Whole(c)), c, cons.wire)
<1> DEFINE m == filter.maxRows
           rows == c.tx.rows
           tx == Whole(c)
           cut == m > 0 /\ Len(rows) > m
<1>1. cons.wire.maxRows = m
  BY AskedFacts
<1>2. tx.id = c.tx.id /\ tx.rows = rows /\ tx.truncated = FALSE
  BY DEF Whole
<1>3. CASE cut
  <2> DEFINE short == SubSeq(rows, 1, m)
             u == [tx EXCEPT !.rows = short, !.truncated = TRUE]
  <2>1. Truncate(tx) = u
    BY <1>2, <1>3 DEF Truncate
  <2> HIDE DEF short, rows
  <2>3. u.id = c.tx.id /\ u.rows = short /\ u.truncated = TRUE
    BY DEF Whole
  <2> HIDE DEF u
  <2>4. QED BY <1>1, <1>3, <2>1, <2>3 DEF StandsFor, short, rows
<1>4. CASE ~cut
  <2>1. Truncate(tx) = tx
    BY <1>2, <1>4 DEF Truncate
  <2>2. QED BY <1>1, <1>2, <1>4, <2>1 DEF StandsFor
<1>5. QED BY <1>3, <1>4

\* A scan of a log whose transactions are whole.
Context ==
  /\ Types /\ LogShape(files, committed, clock) /\ ClockRuns
  /\ Asked /\ parse.pc # "idle" /\ filter # None

LEMMA ContextFacts ==
  ASSUME Context
  PROVE  /\ files \in Seq(Seq(Event)) /\ committed \in Seq(Commitment) /\ clock \in Nat
         /\ parse \in ParseRec /\ parse.file \in 1 .. Len(files) /\ parse.file <= parse.last
         /\ parse.last \in Nat /\ SourceFile \in Seq(Event) /\ Len(SourceFile) \in Nat
         /\ LogShape(files, committed, clock)
<1>1. files \in Seq(Seq(Event)) /\ committed \in Seq(Commitment) /\ clock \in Nat /\ Len(files) \in Nat
  BY DEF Context, Types, LogType
<1>2. /\ parse \in ParseRec /\ parse.file \in Nat /\ parse.last \in Nat
      /\ 1 <= parse.file /\ parse.file <= parse.last /\ parse.last <= Len(files)
  BY ParseFacts DEF Context
<1>3. parse.file \in 1 .. Len(files)
  BY <1>1, <1>2
<1>4. files[parse.file] \in Seq(Event)
  BY <1>1, <1>3, ElementOfSeq
<1>5. QED BY <1>1, <1>2, <1>3, <1>4 DEF SourceFile, Context

LEMMA EndUnwanted ==
  ASSUME Context, InRange, NEW n \in 0 .. Len(committed), NEW p \in Int,
         Split(committed, n, parse.file, p), NEW i \in n + 1 .. Len(committed),
         \/ PastEndPos(p)
         \/ p \in 1 .. Len(SourceFile) /\ PastTimeEnd(SourceFile[p])
         \/ parse.file >= parse.last /\ p > Len(SourceFile)
  PROVE  ~Wanted(committed[i], cons.wire)
<1> DEFINE c == committed[i]
           f == parse.file
           w == cons.wire
<1>1. /\ files \in Seq(Seq(Event)) /\ committed \in Seq(Commitment) /\ f \in 1 .. Len(files)
      /\ parse.last \in Nat /\ f <= parse.last /\ Len(files) \in Nat /\ Len(SourceFile) \in Nat
      /\ LogShape(files, committed, clock) /\ clock <= MaxTime /\ clock \in Nat
  BY ContextFacts DEF Context, ClockRuns
<1>2. i \in 1 .. Len(committed) /\ ~(i <= n)
  OBVIOUS
<1>3. ~EndsBefore(c, f, p)
  BY <1>2 DEF Split
<1>4. /\ c \in Commitment /\ c.file \in 1 .. Len(files) /\ c.last \in Nat
      /\ c.last <= Len(files[c.file])
  BY <1>1, <1>2, LogFacts
<1>5. c.tx.ts \in Nat
  BY <1>4, CommitFields
<1>6. filter.end = w.end /\ filter.end[1] \in Nat /\ filter.end[2] \in Nat
  BY AskedFacts DEF Context
<1> HIDE DEF c, w
<1>7. CASE PastEndPos(p)
  <2>1. w.end[1] = f /\ p > w.end[2] /\ w.end[1] # 0
    BY <1>1, <1>6, <1>7 DEF PastEndPos
  <2>2. ~InPlace(c, w)
    BY <1>1, <1>3, <1>4, <1>6, <2>1 DEF InPlace, EndsBefore
  <2>3. QED BY <2>2, WantedIs DEF c, w
<1>8. CASE p \in 1 .. Len(SourceFile) /\ PastTimeEnd(SourceFile[p])
  <2> DEFINE ts == SourceFile[p].ts
  <2>1. ts <= clock /\ ts <= c.tx.ts
    BY <1>1, <1>2, <1>3, <1>8 DEF LogShape, TimesGrow, SourceFile, c
  <2>2. ts \in Nat
    <3>1. SourceFile \in Seq(Event)
      BY ContextFacts
    <3>2. SourceFile[p] \in Event
      BY <1>8, <3>1, ElementOfSeq
    <3>3. QED BY <3>2, EventFacts
  <2>3. filter.range # None /\ ts > filter.range[2]
    BY <1>8 DEF PastTimeEnd
  <2> HIDE DEF ts
  <2>4. ts \in 0 .. MaxTime
    BY <1>1, <2>1, <2>2, ScannerAssumption DEF ScannerAssumption
  <2>5. ~InTime(c.tx.ts, w)
    BY <1>5, <2>1, <2>3, <2>4, AskedFacts DEF Context, w
  <2>6. QED BY <2>5, WantedIs DEF c, w
<1>9. CASE f >= parse.last /\ p > Len(SourceFile)
  <2>1. f = parse.last
    BY <1>1, <1>9
  <2>2. c.file = f => c.last < p
    BY <1>1, <1>4, <1>9 DEF SourceFile
  <2>3. c.file > f
    BY <1>1, <1>3, <1>4, <2>2 DEF EndsBefore
  <2>4. filter.end[1] # 0 /\ filter.end[1] = f
    BY <1>1, <1>4, <2>1, <2>3 DEF InRange
  <2>5. ~InPlace(c, w)
    BY <1>1, <1>4, <1>6, <2>3, <2>4 DEF InPlace
  <2>6. QED BY <2>5, WantedIs DEF c, w
<1>10. QED BY <1>7, <1>8, <1>9

LEMMA StartUnwanted ==
  ASSUME NEW fs, NEW cs \in Seq(Commitment), NEW now, LogShape(fs, cs, now),
         NEW w, w.start[1] \in Nat, w.start[2] \in Nat, NEW n, NEW f, NEW p,
         f = IF w.start[1] = 0 THEN 1 ELSE w.start[1],
         p = (IF w.start[1] = f THEN w.start[2] ELSE 0) + 1,
         Split(cs, n, f, p), NEW i \in 1 .. Len(cs), i <= n
  PROVE  ~Wanted(cs[i], w)
<1> DEFINE c == cs[i]
<1>1. EndsBefore(c, f, p)
  BY DEF Split
<1>2. /\ c.file \in Nat /\ c.file >= 1 /\ c.first \in Nat /\ c.last \in Nat
      /\ 1 <= c.first /\ c.first < c.last
  <2>1. c \in Commitment /\ c.file \in 1 .. Len(fs) /\ 1 <= c.first /\ c.first < c.last
        /\ c.first \in Nat /\ c.last \in Nat
    BY LogFacts
  <2>2. QED BY <2>1, CommitFields
<1> HIDE DEF c
<1>3. CASE w.start[1] = 0
  <2>1. f = 1 /\ p = 1
    BY <1>3
  <2>2. QED BY <1>1, <1>2, <2>1 DEF EndsBefore
<1>4. CASE w.start[1] # 0
  <2>1. f = w.start[1] /\ p = w.start[2] + 1 /\ w.start[1] # 0
    BY <1>4
  <2>2. ~InPlace(c, w)
    BY <1>1, <1>2, <2>1 DEF EndsBefore, InPlace
  <2>3. QED BY <2>2, WantedIs DEF c
<1>5. QED BY <1>3, <1>4

LEMMA ReadInPlace ==
  ASSUME Context, InRange, NEW c \in Commitment, c.file = parse.file, c.first > Offset,
         ~PastEndPos(c.last)
  PROVE  InPlace(c, cons.wire)
<1>1. parse.file \in Nat /\ parse.file <= parse.last /\ parse.last \in Nat
  BY ContextFacts
<1>2. c.first \in Nat /\ c.last \in Nat
  BY CommitFields
<1>3. /\ filter.start = cons.wire.start /\ filter.start[1] \in Nat /\ filter.start[2] \in Nat
      /\ filter.end = cons.wire.end /\ filter.end[1] \in Nat /\ filter.end[2] \in Nat
  BY AskedFacts DEF Context
<1>4. QED BY <1>1, <1>2, <1>3 DEF InRange, InPlace, PastEndPos, Offset

-----------------------------------------------------------------------------
(* The parse loop reads an event. *)

\* A position outside the transactions.
LEMMA GapStep ==
  ASSUME NEW fs, NEW cs \in Seq(Commitment), NEW now, LogShape(fs, cs, now),
         NEW n \in 0 .. Len(cs), NEW f \in Int, NEW p \in Int,
         Gap(fs, cs, f, p), Split(cs, n, f, p), Ahead(cs, n, f, p)
  PROVE  Split(cs, n, f, p + 1) /\ Ahead(cs, n, f, p + 1)
<1>1. \A i \in 1 .. Len(cs) :
        /\ cs[i].first \in Nat /\ cs[i].last \in Nat /\ cs[i].first < cs[i].last
        /\ cs[i].file \in Nat
  BY LogFacts, CommitFields
<1>2. \A i \in 1 .. Len(cs) : cs[i].file = f => p < cs[i].first \/ cs[i].last < p
  BY DEF Gap
<1>3. ASSUME NEW i \in 1 .. Len(cs) PROVE EndsBefore(cs[i], f, p) <=> EndsBefore(cs[i], f, p + 1)
  BY <1>1, <1>2 DEF EndsBefore
<1>4. Split(cs, n, f, p + 1)
  BY <1>3 DEF Split
<1>5. ASSUME n < Len(cs), cs[n + 1].file = f PROVE cs[n + 1].first >= p + 1
  <2>1. n + 1 \in 1 .. Len(cs) /\ cs[n + 1].first >= p
    BY <1>5 DEF Ahead
  <2>2. p < cs[n + 1].first \/ cs[n + 1].last < p
    BY <1>2, <1>5, <2>1
  <2>3. QED BY <1>1, <2>1, <2>2
<1>6. QED BY <1>4, <1>5 DEF Ahead

\* A position within the next transaction, and its last one.
LEMMA InsideStep ==
  ASSUME NEW fs, NEW cs \in Seq(Commitment), NEW now, LogShape(fs, cs, now),
         NEW n \in 0 .. Len(cs), NEW f \in Int, NEW p \in Int, n < Len(cs), cs[n + 1].file = f,
         Split(cs, n, f, p)
  PROVE  /\ p < cs[n + 1].last => Split(cs, n, f, p + 1)
         /\ p = cs[n + 1].last => Split(cs, n + 1, f, p + 1) /\ Ahead(cs, n + 1, f, p + 1)
<1> DEFINE c == cs[n + 1]
<1>1. \A i \in 1 .. Len(cs) :
        /\ cs[i].first \in Nat /\ cs[i].last \in Nat /\ cs[i].first < cs[i].last
        /\ cs[i].file \in Nat
  BY LogFacts, CommitFields
<1>2. n + 1 \in 1 .. Len(cs)
  OBVIOUS
<1>3. ASSUME NEW i \in 1 .. Len(cs), n + 1 < i
      PROVE  ~EndsBefore(cs[i], f, c.last + 1) /\ (cs[i].file = f => cs[i].first > c.last)
  <2>1. EndsBefore(c, cs[i].file, cs[i].first)
    BY <1>2, <1>3 DEF LogShape, Ordered
  <2>2. /\ cs[i].first \in Nat /\ cs[i].last \in Nat /\ cs[i].first < cs[i].last /\ cs[i].file \in Nat
        /\ c.last \in Nat /\ c.file = f
    BY <1>1, <1>2
  <2>3. QED BY <2>1, <2>2 DEF EndsBefore
<1>4. ASSUME NEW i \in 1 .. Len(cs), i <= n, NEW r \in Int, p <= r PROVE EndsBefore(cs[i], f, r)
  <2>1. EndsBefore(cs[i], f, p)
    BY <1>4 DEF Split
  <2>2. cs[i].last \in Nat
    BY <1>1
  <2>3. QED BY <1>4, <2>1, <2>2 DEF EndsBefore
<1>5. c.last \in Nat /\ c.file = f
  BY <1>1, <1>2
<1>6. ASSUME p < c.last PROVE Split(cs, n, f, p + 1)
  <2>1. SUFFICES ASSUME NEW i \in 1 .. Len(cs) PROVE i <= n <=> EndsBefore(cs[i], f, p + 1)
    BY DEF Split
  <2>2. CASE i <= n
    BY <1>4, <2>2, p <= p + 1, p + 1 \in Int
  <2>3. CASE i = n + 1
    BY <1>5, <1>6, <2>3 DEF EndsBefore
  <2>4. CASE n + 1 < i
    <3>1. ~EndsBefore(cs[i], f, c.last + 1) /\ cs[i].last \in Nat
      BY <1>1, <1>3, <2>4
    <3>2. QED BY <1>5, <1>6, <2>4, <3>1 DEF EndsBefore
  <2>5. QED BY <2>2, <2>3, <2>4
<1>7. ASSUME p = c.last PROVE Split(cs, n + 1, f, p + 1) /\ Ahead(cs, n + 1, f, p + 1)
  <2>1. ASSUME NEW i \in 1 .. Len(cs) PROVE i <= n + 1 <=> EndsBefore(cs[i], f, p + 1)
    <3>1. CASE i <= n
      BY <1>4, <3>1, p <= p + 1, p + 1 \in Int
    <3>2. CASE i = n + 1
      BY <1>5, <1>7, <3>2 DEF EndsBefore
    <3>3. CASE n + 1 < i
      BY <1>3, <1>7, <3>3
    <3>4. QED BY <3>1, <3>2, <3>3
  <2>2. ASSUME n + 1 < Len(cs) PROVE cs[(n + 1) + 1].file # f \/ cs[(n + 1) + 1].first >= p + 1
    <3>1. (n + 1) + 1 \in 1 .. Len(cs) /\ n + 1 < (n + 1) + 1
      BY <2>2
    <3>2. cs[(n + 1) + 1].file = f => cs[(n + 1) + 1].first > c.last
      BY <1>3, <3>1
    <3>3. cs[(n + 1) + 1].first \in Nat
      BY <1>1, <3>1
    <3>4. QED BY <1>5, <1>7, <3>2, <3>3
  <2>3. QED BY <2>1, <2>2 DEF Split, Ahead
<1>8. QED BY <1>6, <1>7

\* Behind a transaction and not in a gap, the next transaction begins.
LEMMA NextBegins ==
  ASSUME NEW fs, NEW cs \in Seq(Commitment), NEW now, LogShape(fs, cs, now),
         NEW n \in 0 .. Len(cs), NEW f \in Int, NEW p \in 1 .. Len(fs[f]),
         ~Gap(fs, cs, f, p), Split(cs, n, f, p), Ahead(cs, n, f, p)
  PROVE  n < Len(cs) /\ cs[n + 1].file = f /\ p = cs[n + 1].first
<1>1. PICK i \in 1 .. Len(cs) : cs[i].file = f /\ ~(p < cs[i].first) /\ ~(cs[i].last < p)
  BY DEF Gap
<1>2. /\ cs[i].first \in Nat /\ cs[i].last \in Nat /\ p \in Int /\ Len(cs) \in Nat
      /\ cs[i].first < cs[i].last
  BY LogFacts
<1>3. ~EndsBefore(cs[i], f, p)
  BY <1>1, <1>2 DEF EndsBefore
<1>4. ~(i <= n)
  BY <1>3 DEF Split
<1>5. n + 1 \in 1 .. Len(cs) /\ n + 1 <= i /\ n < Len(cs)
  BY <1>2, <1>4
<1>6. ASSUME n + 1 < i PROVE FALSE
  <2>1. EndsBefore(cs[n + 1], cs[i].file, cs[i].first)
    BY <1>5, <1>6 DEF LogShape, Ordered
  <2>2. cs[n + 1].last \in Nat
    BY <1>5, LogFacts
  <2>3. EndsBefore(cs[n + 1], f, p)
    BY <1>1, <1>2, <2>1, <2>2 DEF EndsBefore
  <2>4. n + 1 <= n
    BY <1>5, <2>3 DEF Split
  <2>5. QED BY <2>4
<1>7. i = n + 1
  BY <1>5, <1>6
<1>8. cs[n + 1].first >= p
  BY <1>1, <1>5, <1>7 DEF Ahead
<1>9. QED BY <1>1, <1>2, <1>5, <1>7, <1>8

\* What is pending within a transaction.
Pend(rows, gtid) == [rows |-> rows, gtid |-> gtid, ts |-> None, xid |-> None]

\* What the parse loop makes of an event.
LEMMA EmitIs ==
  ASSUME parse \in ParseRec, NEW p
  PROVE  LET q == Emit(p)
             sent == p # None /\ p.rows # <<>> /\ MatchesFilter(NewTransaction(p), filter)
         IN /\ q.pending = None /\ q.maps = parse.maps /\ q.file = parse.file
            /\ sent => q.pc = "send" /\ q.tx = Truncate(NewTransaction(p))
            /\ ~sent => q.pc = "check"
<1> DEFINE tx == Truncate(NewTransaction(p))
           sent == p # None /\ p.rows # <<>> /\ MatchesFilter(NewTransaction(p), filter)
<1>1. Emit(p) = IF sent THEN [parse EXCEPT !.pc = "send", !.pending = None, !.tx = tx]
                ELSE [parse EXCEPT !.pc = "check", !.pending = None]
  BY DEF Emit
<1> HIDE DEF tx, sent
<1>2. CASE sent
  BY <1>1, <1>2 DEF ParseRec, sent, tx
<1>3. CASE ~sent
  BY <1>1, <1>3 DEF ParseRec, sent
<1>4. QED BY <1>2, <1>3

LEMMA HandleEventIs ==
  ASSUME parse \in ParseRec, NEW e
  PROVE  LET q == HandleEvent(e)
             goesOn == q.pc = "check" /\ q.file = parse.file
         IN /\ e.type = "map" =>
                 goesOn /\ q.pending = parse.pending /\ q.maps = parse.maps \union {e.table}
            /\ e.type = "rows" /\ e.table \in parse.maps =>
                 /\ goesOn /\ q.maps = parse.maps
                 /\ q.pending = [Pending EXCEPT !.rows = Append(@, e.change)]
            /\ e.type = "begin" => goesOn /\ q.maps = parse.maps /\ q.pending = Pending
            /\ e.type = "gtid" =>
                 goesOn /\ q.maps = parse.maps /\ q.pending = [Pending EXCEPT !.gtid = e.id]
<1> DEFINE p1 == [Pending EXCEPT !.rows = Append(@, e.change)]
           p2 == Pending
           p3 == [Pending EXCEPT !.gtid = e.id]
           q == HandleEvent(e)
<1>1. ASSUME e.type = "map" PROVE q = [parse EXCEPT !.pc = "check", !.maps = @ \union {e.table}]
  BY <1>1 DEF HandleEvent, ParseRec
<1>2. ASSUME e.type = "rows", e.table \in parse.maps
      PROVE  q = [parse EXCEPT !.pc = "check", !.pending = p1]
  BY <1>2 DEF HandleEvent, ParseRec
<1>3. ASSUME e.type = "begin" PROVE q = [parse EXCEPT !.pc = "check", !.pending = p2]
  BY <1>3 DEF HandleEvent, ParseRec
<1>4. ASSUME e.type = "gtid" PROVE q = [parse EXCEPT !.pc = "check", !.pending = p3]
  BY <1>4 DEF HandleEvent, ParseRec
<1> HIDE DEF p1, p2, p3, q
<1>5. ASSUME e.type = "map"
      PROVE  q.pc = "check" /\ q.file = parse.file /\ q.pending = parse.pending
             /\ q.maps = parse.maps \union {e.table}
  BY <1>1, <1>5 DEF ParseRec
<1>6. ASSUME e.type = "rows", e.table \in parse.maps
      PROVE  q.pc = "check" /\ q.file = parse.file /\ q.pending = p1 /\ q.maps = parse.maps
  BY <1>2, <1>6 DEF ParseRec
<1>7. ASSUME e.type = "begin"
      PROVE  q.pc = "check" /\ q.file = parse.file /\ q.pending = p2 /\ q.maps = parse.maps
  BY <1>3, <1>7 DEF ParseRec
<1>8. ASSUME e.type = "gtid"
      PROVE  q.pc = "check" /\ q.file = parse.file /\ q.pending = p3 /\ q.maps = parse.maps
  BY <1>4, <1>8 DEF ParseRec
<1>9. QED BY <1>5, <1>6, <1>7, <1>8 DEF p1, p2, p3, q

LEMMA EndEvent ==
  ASSUME parse \in ParseRec, NEW c \in Commitment, NEW e \in Event, EndWritten(c, e),
         Len(c.tx.rows) > 0, parse.pending = Pend(c.tx.rows, c.tx.gtid)
  PROVE  LET q == HandleEvent(e)
             tx == Whole(c)
         IN /\ q.pending = None /\ q.maps = parse.maps /\ q.file = parse.file
            /\ IF MatchesFilter(tx, filter) THEN q.pc = "send" /\ q.tx = Truncate(tx)
               ELSE q.pc = "check"
<1> DEFINE rows == c.tx.rows
           gtid == c.tx.gtid
           P(x) == [rows |-> rows, gtid |-> gtid, ts |-> e.ts, xid |-> x]
<1>1. /\ rows \in Seq(RowChange) /\ rows # <<>> /\ gtid \in EventId \union {None}
      /\ e.ts = c.tx.ts /\ e.ts \in Nat
  <2>1. rows \in Seq(RowChange) /\ gtid \in EventId \union {None} /\ c.tx.ts \in Nat
    BY CommitFields
  <2>2. e.ts = c.tx.ts
    BY DEF EndWritten
  <2>3. QED BY <2>1, <2>2
<1>2. None \notin Nat /\ None \notin EventId /\ None \notin Pendings
  BY ScannerAssumption, RecoveryAssumption DEF ScannerAssumption, RecoveryAssumption
<1>3. parse.pending = [rows |-> rows, gtid |-> gtid, ts |-> None, xid |-> None]
  BY DEF Pend
<1> HIDE DEF rows, gtid
<1>4. parse.pending # None
  <2>1. parse.pending \in Pendings
    BY <1>1, <1>3 DEF Pendings
  <2>2. QED BY <1>2, <2>1
<1>5. ASSUME NEW x \in EventId \union {None}, c.tx.id = TxID(P(x), e.ts), HandleEvent(e) = Emit(P(x))
      PROVE  LET q == HandleEvent(e)
                 tx == Whole(c)
             IN /\ q.pending = None /\ q.maps = parse.maps /\ q.file = parse.file
                /\ IF MatchesFilter(tx, filter) THEN q.pc = "send" /\ q.tx = Truncate(tx)
                   ELSE q.pc = "check"
  <2> DEFINE p == P(x)
  <2>1. p # None
    <3>1. p \in Pendings
      BY <1>1 DEF Pendings
    <3>2. QED BY <1>2, <3>1
  <2>2. p.rows = rows /\ p.gtid = gtid /\ p.ts = e.ts
    OBVIOUS
  <2>3. c.tx.id = TxID(p, e.ts) /\ HandleEvent(e) = Emit(p)
    BY <1>5
  <2> HIDE DEF p, P
  <2>4. p.ts # None
    BY <1>1, <1>2, <2>2
  <2>5. NewTransaction(p) = Whole(c)
    BY <1>1, <2>2, <2>3, <2>4 DEF NewTransaction, Whole, rows, gtid
  <2>6. QED BY <1>1, <2>1, <2>2, <2>3, <2>5, EmitIs
<1>6. CASE e.type = "commit" /\ gtid = None /\ c.tx.id = <<"anonymous", c.tx.ts, rows>>
  <2>1. HandleEvent(e) = Emit([parse.pending EXCEPT !.ts = e.ts])
    BY <1>4, <1>6 DEF HandleEvent
  <2>2. [parse.pending EXCEPT !.ts = e.ts] = P(None)
    BY <1>3
  <2>3. P(None).gtid = None /\ P(None).xid = None /\ P(None).rows = rows
    BY <1>6
  <2>4. TxID(P(None), e.ts) = <<"anonymous", e.ts, rows>>
    BY <2>3 DEF TxID
  <2>5. QED BY <1>1, <1>5, <1>6, <2>1, <2>2, <2>4
<1>7. CASE e.type = "xid" /\ c.tx.id = IF gtid = None THEN e.id ELSE gtid
  <2>1. HandleEvent(e) = Emit([parse.pending EXCEPT !.xid = e.id, !.ts = e.ts])
    BY <1>4, <1>7 DEF HandleEvent
  <2>2. [parse.pending EXCEPT !.xid = e.id, !.ts = e.ts] = P(e.id)
    <3> DEFINE x == e.id
               s == e.ts
    <3> HIDE DEF x, s
    <3>1. [parse.pending EXCEPT !.xid = x, !.ts = s]
            = [rows |-> rows, gtid |-> gtid, ts |-> s, xid |-> x]
      <4> DEFINE R == [rows |-> rows, gtid |-> gtid, ts |-> None, xid |-> x]
      <4>1. [parse.pending EXCEPT !.xid = x] = R
        BY <1>3
      <4>2. [R EXCEPT !.ts = s] = [rows |-> rows, gtid |-> gtid, ts |-> s, xid |-> x]
        OBVIOUS
      <4> HIDE DEF R
      <4>3. [[parse.pending EXCEPT !.xid = x] EXCEPT !.ts = s]
              = [rows |-> rows, gtid |-> gtid, ts |-> s, xid |-> x]
        BY <4>1, <4>2
      <4>4. QED BY <4>3
    <3>2. QED BY <3>1 DEF x, s
  <2>3. e.id \in EventId
    BY <1>7, EventFacts
  <2>4. P(e.id).gtid = gtid /\ P(e.id).xid = e.id
    OBVIOUS
  <2>5. e.id # None
    BY <1>2, <2>3
  <2> HIDE DEF P
  <2>6. TxID(P(e.id), e.ts) = c.tx.id
    <3>1. CASE gtid = None
      BY <1>7, <2>4, <2>5, <3>1 DEF TxID
    <3>2. CASE gtid # None
      BY <1>7, <2>4, <3>2 DEF TxID
    <3>3. QED BY <3>1, <3>2
  <2>7. QED BY <1>5, <2>1, <2>2, <2>3, <2>6
<1>8. QED BY <1>6, <1>7 DEF EndWritten, rows, gtid

\* The loop goes on within what it reads, or it has read a transaction.
GoesOn(n, p, q, off) == q.pc = "check" /\ Place(files, committed, n, p + 1, q, off)

Finishes(n, p, q, off) ==
  /\ n < Len(committed) /\ committed[n + 1].file = parse.file
  /\ committed[n + 1].first > off /\ committed[n + 1].last = p
  /\ Place(files, committed, n + 1, p + 1, q, off)
  /\ LET tx == Whole(committed[n + 1])
     IN IF MatchesFilter(tx, filter) THEN q.pc = "send" /\ q.tx = Truncate(tx) ELSE q.pc = "check"

LEMMA PendFacts ==
  ASSUME NEW rows \in Seq(RowChange), NEW gtid \in EventId \union {None}
  PROVE  /\ Pend(rows, gtid) # None
         /\ Pend(rows, gtid).rows = rows /\ Pend(rows, gtid).gtid = gtid
         /\ \A id : [Pend(rows, gtid) EXCEPT !.gtid = id] = Pend(rows, id)
         /\ \A c : [Pend(rows, gtid) EXCEPT !.rows = Append(@, c)] = Pend(Append(rows, c), gtid)
<1>1. Pend(rows, gtid) \in Pendings
  BY DEF Pend, Pendings
<1>2. Pend(rows, gtid) # None
  BY <1>1, RecoveryAssumption DEF RecoveryAssumption
<1>3. Pend(rows, gtid).rows = rows /\ Pend(rows, gtid).gtid = gtid
  BY DEF Pend
<1>4. \A id : [Pend(rows, gtid) EXCEPT !.gtid = id] = Pend(rows, id)
  BY DEF Pend
<1>5. ASSUME NEW c PROVE [Pend(rows, gtid) EXCEPT !.rows = Append(@, c)] = Pend(Append(rows, c), gtid)
  <2> DEFINE more == Append(rows, c)
  <2>1. [Pend(rows, gtid) EXCEPT !.rows = Append(@, c)] = [Pend(rows, gtid) EXCEPT !.rows = more]
    BY DEF Pend
  <2> HIDE DEF more
  <2>2. [Pend(rows, gtid) EXCEPT !.rows = more] = Pend(more, gtid)
    BY DEF Pend
  <2>3. QED BY <2>1, <2>2 DEF more
<1>6. QED BY <1>2, <1>3, <1>4, <1>5

LEMMA PrefixRows ==
  ASSUME NEW rows \in Seq(RowChange)
  PROVE  /\ SubSeq(rows, 1, 0) = <<>> /\ SubSeq(rows, 1, Len(rows)) = rows
         /\ \A k \in 0 .. Len(rows) : SubSeq(rows, 1, k) \in Seq(RowChange)
         /\ \A k \in 0 .. Len(rows) : k < Len(rows) =>
              SubSeq(rows, 1, k + 1) = Append(SubSeq(rows, 1, k), rows[k + 1])
<1>1. SubSeq(rows, 1, 0) = <<>> /\ SubSeq(rows, 1, Len(rows)) = rows
  BY SubSeqEmpty, SubSeqFull
<1>2. Len(rows) \in Nat /\ \A i \in 1 .. Len(rows) : rows[i] \in RowChange
  BY ElementOfSeq
<1>3. ASSUME NEW k \in 0 .. Len(rows)
      PROVE  /\ SubSeq(rows, 1, k) \in Seq(RowChange) /\ Len(SubSeq(rows, 1, k)) = k
             /\ \A i \in 1 .. k : SubSeq(rows, 1, k)[i] = rows[i]
  <2>1. \A i \in 1 .. k : rows[i] \in RowChange
    BY <1>2
  <2>2. k \in Int /\ 1 \in Int /\ k - 1 + 1 = k /\ \A i \in 1 .. k : 1 + i - 1 = i
    BY <1>2
  <2>3. /\ SubSeq(rows, 1, k) \in Seq(RowChange)
        /\ Len(SubSeq(rows, 1, k)) = IF 1 <= k THEN k - 1 + 1 ELSE 0
        /\ \A i \in 1 .. k - 1 + 1 : SubSeq(rows, 1, k)[i] = rows[1 + i - 1]
    BY <2>1, <2>2, SubSeqProperties
  <2>4. QED BY <2>2, <2>3
<1>4. ASSUME NEW k \in 0 .. Len(rows), k < Len(rows)
      PROVE  SubSeq(rows, 1, k + 1) = Append(SubSeq(rows, 1, k), rows[k + 1])
  <2> DEFINE a == SubSeq(rows, 1, k)
             b == SubSeq(rows, 1, k + 1)
  <2>1. k + 1 \in 0 .. Len(rows) /\ rows[k + 1] \in RowChange /\ k \in Nat
    BY <1>2, <1>4
  <2>2. a \in Seq(RowChange) /\ Len(a) = k /\ \A i \in 1 .. k : a[i] = rows[i]
    BY <1>3
  <2>3. b \in Seq(RowChange) /\ Len(b) = k + 1 /\ \A i \in 1 .. k + 1 : b[i] = rows[i]
    BY <1>3, <2>1
  <2> HIDE DEF a, b
  <2>4. /\ Append(a, rows[k + 1]) \in Seq(RowChange) /\ Len(Append(a, rows[k + 1])) = k + 1
        /\ \A i \in 1 .. k : Append(a, rows[k + 1])[i] = a[i]
        /\ Append(a, rows[k + 1])[k + 1] = rows[k + 1]
    <3>1. a \in Seq(RowChange)
      BY <2>2
    <3>2. rows[k + 1] \in RowChange
      BY <2>1
    <3>3. Len(a) = k
      BY <2>2
    <3>4. QED BY <3>1, <3>2, <3>3, AppendProperties
  <2> DEFINE d == Append(a, rows[k + 1])
  <2>5. d \in Seq(RowChange) /\ Len(d) = k + 1 /\ \A i \in 1 .. k : d[i] = a[i] /\ d[k + 1] = rows[k + 1]
    BY <2>4
  <2>6. \A i \in 1 .. k + 1 : d[i] = b[i]
    <3>1. d[k + 1] = rows[k + 1] /\ \A i \in 1 .. k : d[i] = a[i]
      BY <2>4
    <3>2. ASSUME NEW i \in 1 .. k + 1 PROVE i \in 1 .. k \/ i = k + 1
      BY <2>1
    <3>3. k + 1 \in 1 .. k + 1
      BY <2>1
    <3> HIDE DEF d
    <3>4. QED BY <2>2, <2>3, <3>1, <3>2, <3>3
  <2> HIDE DEF d
  <2>7. d = b
    BY <2>3, <2>5, <2>6, SeqEqual
  <2>8. QED BY <2>7 DEF a, b, d
<1>5. QED BY <1>1, <1>3, <1>4

LEMMA GapEvent ==
  ASSUME Context, NEW n \in 0 .. Len(committed), NEW p \in 1 .. Len(SourceFile), NEW off \in Int,
         Split(committed, n, parse.file, p), parse.pending = None, Ahead(committed, n, parse.file, p),
         Gap(files, committed, parse.file, p)
  PROVE  GoesOn(n, p, HandleEvent(SourceFile[p]), off)
<1> DEFINE f == parse.file
           e == SourceFile[p]
           q == HandleEvent(e)
<1>1. /\ committed \in Seq(Commitment) /\ parse \in ParseRec /\ f \in Int /\ p \in Int
      /\ LogShape(files, committed, clock) /\ f \in 1 .. Len(files) /\ SourceFile = files[f]
  BY ContextFacts DEF SourceFile
<1>2. Split(committed, n, f, p + 1) /\ Ahead(committed, n, f, p + 1)
  BY <1>1, GapStep
<1>3. \/ DdlAt(files, committed, f, p)
      \/ e.type = "gtid" /\ DdlAt(files, committed, f, p + 1)
  BY <1>1 DEF LogShape, GapsAreDdl
<1>4. CASE e.type = "query"
  <2>1. q = Emit(None)
    BY <1>4 DEF HandleEvent
  <2>2. q.pending = None /\ q.file = f /\ q.pc = "check"
    BY <1>1, <2>1, EmitIs
  <2> HIDE DEF q
  <2>3. QED BY <1>2, <2>2 DEF GoesOn, Place, q
<1>5. CASE e.type = "gtid" /\ DdlAt(files, committed, f, p + 1)
  <2>1. q.pc = "check" /\ q.file = f /\ q.pending = [Pending EXCEPT !.gtid = e.id]
    BY <1>1, <1>5, HandleEventIs
  <2>2. e.id \in EventId
    <3>1. e \in Event
      BY ContextFacts, ElementOfSeq
    <3>2. QED BY <1>5, <3>1, EventFacts
  <2>3. Pending = Pend(<<>>, None)
    BY DEF Pending, Fresh, Pend
  <2> DEFINE id == e.id
  <2> HIDE DEF q, id
  <2>4. q.pending = Pend(<<>>, id)
    <3>1. [Pend(<<>>, None) EXCEPT !.gtid = id] = Pend(<<>>, id)
      BY DEF Pend
    <3>2. QED BY <2>1, <2>3, <3>1 DEF id
  <2>5. q.pending # None /\ q.pending.rows = <<>>
    <3> DEFINE rows == <<>>
    <3>1. rows \in Seq(RowChange)
      OBVIOUS
    <3>2. id \in EventId \union {None}
      BY <2>2 DEF id
    <3> HIDE DEF rows
    <3>3. Pend(rows, id) # None /\ Pend(rows, id).rows = rows
      BY <3>1, <3>2, PendFacts
    <3>4. QED BY <2>4, <3>3 DEF rows
  <2>6. AtDdl(files, committed, n, p + 1, q)
    BY <1>2, <1>5, <2>1, <2>5 DEF AtDdl
  <2>7. QED BY <1>2, <2>1, <2>6 DEF GoesOn, Place, q
<1>6. QED BY <1>1, <1>3, <1>4, <1>5 DEF DdlAt

LEMMA FirstEvent ==
  ASSUME Context, NEW n \in 0 .. Len(committed), NEW p \in 1 .. Len(SourceFile), NEW off \in Int,
         off < p, Split(committed, n, parse.file, p), parse.pending = None,
         n < Len(committed), committed[n + 1].file = parse.file, p = committed[n + 1].first
  PROVE  GoesOn(n, p, HandleEvent(SourceFile[p]), off)
<1> DEFINE f == parse.file
           c == committed[n + 1]
           e == SourceFile[p]
           q == HandleEvent(e)
<1>1. /\ committed \in Seq(Commitment) /\ parse \in ParseRec /\ f \in Int /\ p \in Int
      /\ LogShape(files, committed, clock) /\ SourceFile = files[f] /\ n + 1 \in 1 .. Len(committed)
  BY ContextFacts DEF SourceFile
<1>2. c \in Commitment /\ Written(c, files[f]) /\ c.first < c.last /\ c.first \in Nat /\ c.last \in Nat
  BY <1>1, LogFacts
<1>3. Split(committed, n, f, p + 1)
  BY <1>1, <1>2, InsideStep
<1>4. /\ Lead(c) \in {0, 1} /\ (c.tx.gtid # None <=> Lead(c) = 1) /\ c.tx.rows \in Seq(RowChange)
      /\ c.tx.gtid \in EventId \union {None} /\ 0 \in 0 .. Len(c.tx.rows)
  BY <1>2, CommitFields
<1>5. SubSeq(c.tx.rows, 1, 0) = <<>>
  BY <1>4, PrefixRows
<1>6. AtRow(c, 0) = c.first + Lead(c)
  BY <1>2, <1>4 DEF AtRow
<1>7. Pending = Pend(<<>>, None) /\ <<>> \in Seq(RowChange)
  BY DEF Pending, Fresh, Pend
<1>8. ASSUME q.pc = "check", q.file = f, q.pending = Pend(<<>>, c.tx.gtid),
             (Lead(c) = 1 /\ p + 1 = AtRow(c, 0)) \/ p + 1 = AtRow(c, 0) + 1
      PROVE  GoesOn(n, p, q, off)
  <2> HIDE DEF q, c
  <2>1. Inside(c, 0, p + 1, q)
    BY <1>5, <1>8 DEF Inside, Pend
  <2>2. Within(committed, n, p + 1, q, off)
    BY <1>1, <1>4, <1>8, <2>1 DEF Within, c
  <2>3. QED BY <1>3, <1>8, <2>2 DEF GoesOn, Place
<1>9. CASE Lead(c) = 1
  <2>1. e.type = "gtid" /\ e.id = c.tx.gtid
    BY <1>1, <1>2, <1>4, <1>9 DEF Written
  <2>2. q.pc = "check" /\ q.file = f /\ q.pending = [Pending EXCEPT !.gtid = e.id]
    BY <1>1, <2>1, HandleEventIs
  <2> DEFINE id == e.id
  <2> HIDE DEF q, id
  <2>3. [Pend(<<>>, None) EXCEPT !.gtid = id] = Pend(<<>>, id)
    BY DEF Pend
  <2>4. q.pending = Pend(<<>>, c.tx.gtid)
    BY <1>7, <2>1, <2>2, <2>3 DEF id
  <2>5. p + 1 = AtRow(c, 0)
    BY <1>6, <1>9
  <2>6. QED BY <1>8, <1>9, <2>2, <2>4, <2>5 DEF q
<1>10. CASE Lead(c) = 0
  <2>1. AtRow(c, 0) = p
    BY <1>2, <1>6, <1>10
  <2>2. e.type = "begin"
    BY <1>1, <1>2, <2>1 DEF Written
  <2>3. q.pc = "check" /\ q.file = f /\ q.pending = Pending
    BY <1>1, <2>2, HandleEventIs
  <2>4. c.tx.gtid = None
    BY <1>4, <1>10
  <2> HIDE DEF q
  <2>5. QED BY <1>7, <1>8, <2>1, <2>3, <2>4 DEF q
<1>11. QED BY <1>4, <1>9, <1>10

LEMMA DdlEvent ==
  ASSUME Context, NEW n \in 0 .. Len(committed), NEW p \in 1 .. Len(SourceFile), NEW off \in Int,
         Split(committed, n, parse.file, p), AtDdl(files, committed, n, p, parse)
  PROVE  GoesOn(n, p, HandleEvent(SourceFile[p]), off)
<1> DEFINE f == parse.file
           e == SourceFile[p]
           q == HandleEvent(e)
<1>1. /\ committed \in Seq(Commitment) /\ parse \in ParseRec /\ f \in Int /\ p \in Int
      /\ LogShape(files, committed, clock) /\ SourceFile = files[f]
  BY ContextFacts DEF SourceFile
<1>2. /\ parse.pending.rows = <<>> /\ Ahead(committed, n, f, p)
      /\ Gap(files, committed, f, p) /\ e.type = "query"
  BY <1>1 DEF AtDdl, DdlAt
<1>3. Split(committed, n, f, p + 1) /\ Ahead(committed, n, f, p + 1)
  BY <1>1, <1>2, GapStep
<1>4. q = Emit(parse.pending)
  BY <1>2 DEF HandleEvent
<1>5. q.pending = None /\ q.file = f /\ q.pc = "check"
  BY <1>1, <1>2, <1>4, EmitIs
<1> HIDE DEF q
<1>6. QED BY <1>3, <1>5 DEF GoesOn, Place, q

LEMMA InnerEvent ==
  ASSUME Context, NEW n \in 0 .. Len(committed), NEW p \in 1 .. Len(SourceFile), NEW off \in Int,
         Split(committed, n, parse.file, p), Within(committed, n, p, parse, off)
  PROVE  \/ GoesOn(n, p, HandleEvent(SourceFile[p]), off)
         \/ Finishes(n, p, HandleEvent(SourceFile[p]), off)
<1> DEFINE f == parse.file
           c == committed[n + 1]
           rows == c.tx.rows
           m == Len(rows)
           e == SourceFile[p]
           q == HandleEvent(e)
<1>1. /\ committed \in Seq(Commitment) /\ parse \in ParseRec /\ f \in Int /\ p \in Int
      /\ LogShape(files, committed, clock) /\ SourceFile = files[f] /\ SourceFile \in Seq(Event)
  BY ContextFacts DEF SourceFile
<1>2. n < Len(committed) /\ c.file = f /\ c.first > off
  BY DEF Within
<1>3. n + 1 \in 1 .. Len(committed)
  BY <1>2
<1>4. c \in Commitment /\ Written(c, files[f]) /\ c.first < c.last /\ c.first \in Nat /\ c.last \in Nat
  BY <1>1, <1>2, <1>3, LogFacts
<1>5. /\ Lead(c) \in {0, 1} /\ (c.tx.gtid # None <=> Lead(c) = 1) /\ rows \in Seq(RowChange)
      /\ c.tx.gtid \in EventId \union {None} /\ m \in Nat
  BY <1>4, CommitFields
<1>6. PICK k \in 0 .. m : Inside(c, k, p, parse)
  BY DEF Within
<1>7. /\ parse.pending = Pend(SubSeq(rows, 1, k), c.tx.gtid)
      /\ \/ k = 0 /\ Lead(c) = 1 /\ p = AtRow(c, 0)
         \/ p = AtRow(c, k) + 1
         \/ k < m /\ p = AtRow(c, k) + 2 /\ rows[k + 1].table \in parse.maps
  BY <1>6 DEF Inside, Pend
<1>8. SubSeq(rows, 1, k) \in Seq(RowChange) /\ SubSeq(rows, 1, m) = rows
      /\ (k < m => SubSeq(rows, 1, k + 1) = Append(SubSeq(rows, 1, k), rows[k + 1]))
  BY <1>5, PrefixRows
<1>9. parse.pending # None /\ Pending = parse.pending
  <2> DEFINE some == SubSeq(rows, 1, k)
             id == c.tx.gtid
  <2>1. some \in Seq(RowChange)
    BY <1>8
  <2>2. id \in EventId \union {None}
    BY <1>5
  <2>3. parse.pending = Pend(some, id)
    BY <1>7
  <2> HIDE DEF some, id
  <2>4. QED BY <2>1, <2>2, <2>3, PendFacts DEF Pending
<1> HIDE DEF c, rows, m, e, q
<1>10. /\ AtRow(c, k) = c.first + Lead(c) + 2 * k /\ c.last = c.first + Lead(c) + 2 * m + 1
       /\ AtRow(c, 0) = c.first + Lead(c)
       /\ AtRow(c, k + 1) = c.first + Lead(c) + 2 * k + 2
       /\ c.first \in Nat /\ c.last \in Nat /\ Lead(c) \in 0 .. 1 /\ k \in Nat /\ m \in Nat /\ k <= m
  <2>2. c.last = AtRow(c, m) + 1
    BY <1>4 DEF Written, m, rows
  <2>3. c.first \in Nat /\ c.last \in Nat /\ Lead(c) \in 0 .. 1 /\ k \in Nat /\ m \in Nat /\ k <= m
    BY <1>4, <1>5
  <2>4. AtRow(c, 0) = c.first + Lead(c) + 2 * 0 /\ AtRow(c, k) = c.first + Lead(c) + 2 * k
        /\ AtRow(c, m) = c.first + Lead(c) + 2 * m /\ AtRow(c, k + 1) = c.first + Lead(c) + 2 * (k + 1)
    BY DEF AtRow
  <2> DEFINE a == c.first
             b == Lead(c)
             r0 == AtRow(c, 0)
             r1 == AtRow(c, k)
             r2 == AtRow(c, k + 1)
             r3 == AtRow(c, m)
             z == c.last
  <2>5. /\ r0 = a + b + 2 * 0 /\ r1 = a + b + 2 * k /\ r2 = a + b + 2 * (k + 1)
        /\ r3 = a + b + 2 * m /\ z = r3 + 1
        /\ a \in Nat /\ b \in 0 .. 1 /\ k \in Nat /\ m \in Nat
    BY <2>2, <2>3, <2>4
  <2> HIDE DEF a, b, r0, r1, r2, r3, z
  <2>6. r0 = a + b /\ r2 = a + b + 2 * k + 2 /\ z = a + b + 2 * m + 1
    BY <2>5
  <2>7. QED BY <2>3, <2>5, <2>6 DEF a, b, r0, r1, r2, r3, z
<1>11. ASSUME p < c.last, q.pc = "check", q.file = f, NEW j \in 0 .. m, Inside(c, j, p + 1, q)
       PROVE  GoesOn(n, p, q, off)
  <2>1. Split(committed, n, f, p + 1)
    BY <1>1, <1>2, <1>11, InsideStep DEF c
  <2>2. Within(committed, n, p + 1, q, off)
    BY <1>2, <1>11 DEF Within, c, m, rows
  <2>3. QED BY <1>11, <2>1, <2>2 DEF GoesOn, Place
<1>12. CASE k = 0 /\ Lead(c) = 1 /\ p = AtRow(c, 0)
  <2>1. e.type = "begin"
    BY <1>1, <1>4, <1>12 DEF Written, e
  <2>2. q.pc = "check" /\ q.file = f /\ q.pending = parse.pending
    BY <1>1, <1>9, <2>1, HandleEventIs DEF q
  <2>3. p + 1 = AtRow(c, k) + 1
    BY <1>12
  <2>4. Inside(c, k, p + 1, q)
    BY <1>7, <2>2, <2>3 DEF Inside, Pend, rows
  <2>5. p < c.last
    BY <1>10, <1>12
  <2>6. QED BY <1>11, <2>2, <2>4, <2>5 DEF q, e
<1>13. CASE p = AtRow(c, k) + 1 /\ k < m
  <2>1. k + 1 \in 1 .. m /\ AtRow(c, k + 1) - 1 = p /\ p < c.last /\ p + 1 = AtRow(c, k) + 2
    <3> DEFINE a == c.first
               b == Lead(c)
               r1 == AtRow(c, k)
               r2 == AtRow(c, k + 1)
               z == c.last
    <3>1. /\ r1 = a + b + 2 * k /\ r2 = a + b + 2 * k + 2 /\ z = a + b + 2 * m + 1
          /\ a \in Nat /\ b \in 0 .. 1 /\ k \in Nat /\ m \in Nat /\ p = r1 + 1 /\ k < m
      BY <1>10, <1>13
    <3> HIDE DEF a, b, r1, r2, z
    <3>2. k + 1 \in 1 .. m /\ r2 - 1 = p /\ p < z /\ p + 1 = r1 + 2
      BY <3>1
    <3>3. QED BY <3>2 DEF r1, r2, z
  <2>2. RowsWritten(c, files[f])
    BY <1>4 DEF Written
  <2>3. e.type = "map" /\ e.table = rows[k + 1].table
    <3>1. files[f][AtRow(c, k + 1) - 1].type = "map"
          /\ files[f][AtRow(c, k + 1) - 1].table = rows[k + 1].table
      BY <2>1, <2>2 DEF RowsWritten, rows, m
    <3>2. QED BY <1>1, <2>1, <3>1 DEF e
  <2>4. q.pc = "check" /\ q.file = f /\ q.pending = parse.pending
        /\ q.maps = parse.maps \union {e.table}
    BY <1>1, <2>3, HandleEventIs DEF q
  <2>5. Inside(c, k, p + 1, q)
    BY <1>7, <1>13, <2>1, <2>3, <2>4 DEF Inside, Pend, rows, m
  <2>6. QED BY <1>11, <2>1, <2>4, <2>5 DEF q, e
<1>14. CASE k < m /\ p = AtRow(c, k) + 2 /\ rows[k + 1].table \in parse.maps
  <2>1. k + 1 \in 1 .. m /\ AtRow(c, k + 1) = p /\ p < c.last /\ p + 1 = AtRow(c, k + 1) + 1
        /\ k + 1 \in 0 .. m
    <3> DEFINE a == c.first
               b == Lead(c)
               r1 == AtRow(c, k)
               r2 == AtRow(c, k + 1)
               z == c.last
    <3>1. /\ r1 = a + b + 2 * k /\ r2 = a + b + 2 * k + 2 /\ z = a + b + 2 * m + 1
          /\ a \in Nat /\ b \in 0 .. 1 /\ k \in Nat /\ m \in Nat /\ p = r1 + 2 /\ k < m
      BY <1>10, <1>14
    <3> HIDE DEF a, b, r1, r2, z
    <3>2. k + 1 \in 1 .. m /\ r2 = p /\ p < z /\ p + 1 = r2 + 1 /\ k + 1 \in 0 .. m
      BY <3>1
    <3>3. QED BY <3>2 DEF r1, r2, z
  <2>2. RowsWritten(c, files[f])
    BY <1>4 DEF Written
  <2>3. e.type = "rows" /\ e.table = rows[k + 1].table /\ e.change = rows[k + 1]
    <3>1. files[f][AtRow(c, k + 1)].type = "rows"
          /\ files[f][AtRow(c, k + 1)].table = rows[k + 1].table
          /\ files[f][AtRow(c, k + 1)].change = rows[k + 1]
      BY <2>1, <2>2 DEF RowsWritten, rows, m
    <3>2. QED BY <1>1, <2>1, <3>1 DEF e
  <2>4. q.pc = "check" /\ q.file = f /\ q.pending = [Pending EXCEPT !.rows = Append(@, e.change)]
    BY <1>1, <1>14, <2>3, HandleEventIs DEF q
  <2> DEFINE some == SubSeq(rows, 1, k)
             id == c.tx.gtid
             d == e.change
  <2>5. q.pending = Pend(Append(some, d), id)
    <3>1. some \in Seq(RowChange)
      BY <1>8
    <3>2. id \in EventId \union {None}
      BY <1>5
    <3>3. Pending = Pend(some, id)
      BY <1>7, <1>9
    <3> HIDE DEF some, id, d
    <3>4. [Pend(some, id) EXCEPT !.rows = Append(@, d)] = Pend(Append(some, d), id)
      BY <3>1, <3>2, PendFacts
    <3>5. QED BY <2>4, <3>3, <3>4 DEF d
  <2>6. Append(some, d) = SubSeq(rows, 1, k + 1)
    BY <1>8, <1>14, <2>3
  <2> HIDE DEF some, id, d
  <2>7. Inside(c, k + 1, p + 1, q)
    BY <2>1, <2>5, <2>6 DEF Inside, Pend, rows, id
  <2>8. QED BY <1>11, <2>1, <2>4, <2>7 DEF q, e
<1>15. CASE p = AtRow(c, k) + 1 /\ k = m
  <2>1. p = c.last
    BY <1>10, <1>15
  <2>2. Split(committed, n + 1, f, p + 1) /\ Ahead(committed, n + 1, f, p + 1)
    BY <1>1, <1>2, <2>1, InsideStep DEF c
  <2>3. EndWritten(c, e) /\ Len(c.tx.rows) > 0
    BY <1>1, <1>4, <2>1 DEF Written, e
  <2>4. e \in Event
    BY <1>1, ElementOfSeq DEF e
  <2>5. parse.pending = Pend(c.tx.rows, c.tx.gtid)
    BY <1>7, <1>8, <1>15 DEF rows
  <2>6. /\ q.pending = None /\ q.file = f
        /\ LET tx == Whole(c)
           IN IF MatchesFilter(tx, filter) THEN q.pc = "send" /\ q.tx = Truncate(tx)
              ELSE q.pc = "check"
    BY <1>1, <1>4, <2>3, <2>4, <2>5, EndEvent DEF q
  <2>7. Place(files, committed, n + 1, p + 1, q, off)
    BY <2>2, <2>6 DEF Place
  <2>8. Finishes(n, p, q, off)
    BY <1>2, <2>1, <2>6, <2>7 DEF Finishes, c
  <2>9. QED BY <2>8 DEF q, e
<1>16. QED BY <1>5, <1>7, <1>12, <1>13, <1>14, <1>15

\* The parse loop reads the event at its place.
LEMMA EventRead ==
  ASSUME Context, NEW n \in 0 .. Len(committed), NEW p \in 1 .. Len(SourceFile), NEW off \in Int,
         off < p, Place(files, committed, n, p, parse, off)
  PROVE  \/ GoesOn(n, p, HandleEvent(SourceFile[p]), off)
         \/ Finishes(n, p, HandleEvent(SourceFile[p]), off)
<1> DEFINE f == parse.file
<1>1. Split(committed, n, f, p)
  BY DEF Place
<1>2. CASE parse.pending = None /\ Ahead(committed, n, f, p)
  <2>1. CASE Gap(files, committed, f, p)
    BY <1>1, <1>2, <2>1, GapEvent
  <2>2. CASE ~Gap(files, committed, f, p)
    <3>1. /\ committed \in Seq(Commitment) /\ f \in Int /\ LogShape(files, committed, clock)
          /\ p \in 1 .. Len(files[f])
      BY ContextFacts DEF SourceFile
    <3>2. n < Len(committed) /\ committed[n + 1].file = f /\ p = committed[n + 1].first
      BY <1>1, <1>2, <2>2, <3>1, NextBegins
    <3>3. QED BY <1>1, <1>2, <3>2, FirstEvent
  <2>3. QED BY <2>1, <2>2
<1>3. CASE AtDdl(files, committed, n, p, parse)
  BY <1>1, <1>3, DdlEvent
<1>4. CASE Within(committed, n, p, parse, off)
  BY <1>1, <1>4, InnerEvent
<1>5. QED BY <1>2, <1>3, <1>4 DEF Place

-----------------------------------------------------------------------------
(* The steps of the scanner keep its place. *)

\* The log and what was asked for stay; the caller stays, too.
Still == Steady /\ UNCHANGED mysqlVars

LEMMA StillFacts ==
  ASSUME Still
  PROVE  /\ UNCHANGED <<files, filter, cancelled, closed, cons, committed, clock>>
         /\ GotTxs' = GotTxs /\ AtTx' = AtTx
         /\ (StartsAtBoundary' <=> StartsAtBoundary) /\ (NoTorn' <=> NoTorn)
         /\ (Live' <=> Live)
<1>1. UNCHANGED <<files, filter, cancelled, closed, cons, committed, clock>>
  BY DEF Still, Steady, mysqlVars
<1>2. GotTxs' = GotTxs /\ AtTx' = AtTx
  BY <1>1 DEF GotTxs, AtTx
<1>3. (StartsAtBoundary' <=> StartsAtBoundary) /\ (NoTorn' <=> NoTorn) /\ (Live' <=> Live)
  BY <1>1 DEF StartsAtBoundary, NoTorn, Live
<1>4. QED BY <1>1, <1>2, <1>3

LEMMA PipeFacts ==
  ASSUME Types
  PROVE  /\ GotTxs \in Seq(Transaction) /\ Len(GotTxs) = Len(cons.got)
         /\ \A i \in 1 .. Len(cons.got) : GotTxs[i] = cons.got[i].tx
         /\ AtTx \in Seq(Transaction) /\ txs \in Seq(Transaction) /\ SentTx \in Seq(Transaction)
         /\ Len(cons.got) \in Nat
<1>1. cons.got \in Seq(Result) /\ txs \in Seq(Transaction) /\ Len(cons.got) \in Nat
  BY ConsFacts
<1>2. \A i \in 1 .. Len(cons.got) : cons.got[i].tx \in Transaction
  <2>1. SUFFICES ASSUME NEW i \in 1 .. Len(cons.got) PROVE cons.got[i].tx \in Transaction
    OBVIOUS
  <2>2. cons.got[i] \in Result
    BY <1>1, ElementOfSeq
  <2>3. QED BY <2>2 DEF Result
<1>3. GotTxs \in Seq(Transaction) /\ Len(GotTxs) = Len(cons.got)
      /\ \A i \in 1 .. Len(cons.got) : GotTxs[i] = cons.got[i].tx
  BY <1>1, <1>2 DEF GotTxs
<1>4. AtTx \in Seq(Transaction)
  <2>1. CASE cons.pc = "deliver"
    <3> DEFINE a == cons.at.tx
    <3>1. cons.at \in Result
      BY <2>1, ConsFacts
    <3>2. a \in Transaction
      BY <3>1 DEF Result
    <3>3. AtTx = << a >>
      BY <2>1 DEF AtTx
    <3> HIDE DEF a
    <3>4. QED BY <3>2, <3>3
  <2>2. CASE cons.pc # "deliver"
    BY <2>2 DEF AtTx
  <2>3. QED BY <2>1, <2>2
<1>5. SentTx \in Seq(Transaction)
  <2>1. CASE Sending(parse)
    <3> DEFINE a == parse.tx
    <3>1. a \in Transaction
      BY <2>1, ScanFacts
    <3>2. SentTx = << a >>
      BY <2>1 DEF SentTx
    <3> HIDE DEF a
    <3>3. QED BY <3>1, <3>2
  <2>2. CASE ~Sending(parse)
    BY <2>2 DEF SentTx
  <2>3. QED BY <2>1, <2>2
<1>6. QED BY <1>1, <1>3, <1>4, <1>5

LEMMA SentNothing ==
  ASSUME ~Sending(parse)
  PROVE  SentTx = <<>>
BY DEF SentTx

LEMMA ProgressFrom ==
  ASSUME UNCHANGED <<files, committed>>, cons'.wire = cons.wire, NEW n \in 0 .. Len(committed),
         Agrees(Pipe', WantedOf(committed, cons.wire)[n], cons.wire),
         parse'.pc = "ended" /\ parse'.err = None => n = Len(committed),
         parse'.pc # "ended" => Place(files, committed, n, Pos', parse', Offset')
  PROVE  Progress'
BY DEF Progress

\* A step that leaves the parse loop where it is.
LEMMA ParseRests ==
  ASSUME Still, Scanning, UNCHANGED <<parse, txs>>, InFile => HeadPos' = HeadPos
  PROVE  InRange' /\ Progress' /\ (InFile' <=> InFile) /\ Offset' = Offset /\ SourceFile' = SourceFile
<1>1. UNCHANGED <<files, filter, cons, committed>> /\ GotTxs' = GotTxs /\ AtTx' = AtTx
  BY StillFacts
<1>2. /\ InFile' <=> InFile
      /\ Offset' = Offset /\ SourceFile' = SourceFile
  BY <1>1 DEF InFile, Offset, SourceFile
<1>3. InRange'
  BY <1>1 DEF Scanning, InRange
<1>4. Pos' = Pos
  BY <1>2 DEF Pos
<1>5. Pipe' = Pipe
  <2>1. SentTx' = SentTx
    BY DEF SentTx
  <2>2. QED BY <1>1, <2>1 DEF Pipe
<1>6. Progress'
  <2>1. PICK n \in 0 .. Len(committed) :
          /\ Agrees(Pipe, WantedOf(committed, cons.wire)[n], cons.wire)
          /\ parse.pc = "ended" /\ parse.err = None => n = Len(committed)
          /\ parse.pc # "ended" => Place(files, committed, n, Pos, parse, Offset)
    BY DEF Scanning, Progress
  <2>2. QED BY <1>1, <1>2, <1>4, <1>5, <2>1, ProgressFrom
<1>7. QED BY <1>2, <1>3, <1>6

LEMMA SourceFacts ==
  ASSUME Types
  PROVE  /\ source \in SourceRec /\ source.next \in Nat /\ source.evs \in Seq(Event)
         /\ Len(source.evs) \in Nat /\ HeadPos = source.next - Len(source.evs) /\ HeadPos \in Int
<1>1. source \in SourceRec
  BY ScanFacts
<1>2. source.next \in Nat /\ source.evs \in Seq(Event)
  BY <1>1 DEF SourceRec
<1>3. Len(source.evs) \in Nat
  BY <1>2
<1>4. QED BY <1>1, <1>2, <1>3 DEF HeadPos

LEMMA SourceSendScans ==
  ASSUME Context, Still, SourceSend, Scanning
  PROVE  Scanning'
<1> DEFINE evs == source.evs
           next == source.next
           e == SourceFile[next]
<1>1. /\ source \in SourceRec /\ next \in Nat /\ evs \in Seq(Event) /\ Len(evs) \in Nat
      /\ HeadPos = next - Len(evs)
  BY SourceFacts DEF Context
<1>2. /\ source.pc = "run" /\ next <= Len(SourceFile) /\ UNCHANGED <<parse, txs>>
      /\ source' = [source EXCEPT !.next = next + 1, !.evs = Append(evs, e)]
  BY DEF SourceSend
<1>3. e \in Event
  <2>1. SourceFile \in Seq(Event) /\ Len(SourceFile) \in Nat
    BY ContextFacts
  <2>2. next > 0
    BY <1>2, ParseFacts DEF Context
  <2>3. next \in 1 .. Len(SourceFile)
    BY <1>1, <1>2, <2>1, <2>2
  <2>4. QED BY <2>1, <2>3, ElementOfSeq
<1> HIDE DEF e
<1>4. /\ source'.pc = "run" /\ source'.next = next + 1 /\ source'.evs = Append(evs, e)
  <2> DEFINE more == Append(evs, e)
  <2> HIDE DEF more
  <2>1. source' = [source EXCEPT !.next = next + 1, !.evs = more]
    BY <1>2 DEF more
  <2>2. source'.pc = source.pc /\ source'.next = next + 1 /\ source'.evs = more
    BY <1>1, <2>1 DEF SourceRec
  <2>3. QED BY <1>2, <2>2 DEF more
<1> HIDE DEF evs, next
<1>5. /\ Append(evs, e) \in Seq(Event) /\ Len(Append(evs, e)) = Len(evs) + 1
      /\ \A i \in 1 .. Len(evs) : Append(evs, e)[i] = evs[i]
      /\ Append(evs, e)[Len(evs) + 1] = e
  <2>1. evs \in Seq(Event)
    BY <1>1
  <2>2. QED BY <1>3, <2>1, AppendProperties
<1>6. HeadPos' = HeadPos
  BY <1>1, <1>4, <1>5 DEF HeadPos
<1>7. InRange' /\ Progress' /\ (InFile' <=> InFile) /\ Offset' = Offset /\ SourceFile' = SourceFile
  BY <1>2, <1>6, ParseRests
<1>8. ASSUME InFile PROVE SourceReads'
  <2>1. /\ HeadPos > Offset
        /\ \A k \in 1 .. Len(evs) :
             (HeadPos + k) - 1 <= Len(SourceFile) /\ evs[k] = SourceFile[(HeadPos + k) - 1]
    BY <1>8 DEF Scanning, SourceReads, evs
  <2> DEFINE some == Append(evs, e)
             h == HeadPos
  <2>2. /\ Len(some) = Len(evs) + 1
        /\ \A i \in 1 .. Len(evs) : some[i] = evs[i]
        /\ some[Len(evs) + 1] = e
        /\ h = next - Len(evs)
    BY <1>1, <1>5
  <2> HIDE DEF some, h
  <2>3. ASSUME NEW k \in 1 .. Len(some)
        PROVE  (h + k) - 1 <= Len(SourceFile) /\ some[k] = SourceFile[(h + k) - 1]
    <3>1. CASE k \in 1 .. Len(evs)
      BY <2>1, <2>2, <3>1 DEF h
    <3>2. CASE k = Len(evs) + 1
      <4> DEFINE l == Len(evs)
      <4>1. l \in Nat /\ next \in Nat /\ h = next - l /\ k = l + 1
        BY <1>1, <2>2, <3>2
      <4> HIDE DEF l
      <4>2. (h + k) - 1 = next
        BY <4>1
      <4>3. next <= Len(SourceFile) /\ e = SourceFile[next]
        BY <1>2 DEF next, e
      <4>4. some[k] = e
        BY <2>2, <3>2
      <4>5. QED BY <4>2, <4>3, <4>4
    <3>3. QED BY <1>1, <2>2, <3>1, <3>2
  <2>4. source'.evs = some /\ source'.pc = "run" /\ HeadPos' = h
    BY <1>4, <1>6 DEF some, h
  <2>5. QED BY <1>7, <2>1, <2>3, <2>4 DEF SourceReads, h
<1>9. QED BY <1>7, <1>8 DEF Scanning

LEMMA SourceEndScans ==
  ASSUME Context, Still, SourceEnd, Scanning
  PROVE  Scanning'
<1>1. source \in SourceRec
  BY SourceFacts DEF Context
<1>2. PICK e \in {None, "canceled", "corrupt"} :
        /\ e = None => source.next > Len(SourceFile)
        /\ source' = [source EXCEPT !.pc = "closed", !.err = e]
        /\ UNCHANGED <<parse, txs>>
  BY DEF SourceEnd
<1>3. source'.pc = "closed" /\ source'.err = e /\ source'.next = source.next /\ source'.evs = source.evs
  BY <1>1, <1>2 DEF SourceRec
<1>4. HeadPos' = HeadPos
  BY <1>3 DEF HeadPos
<1>5. InRange' /\ Progress' /\ (InFile' <=> InFile) /\ Offset' = Offset /\ SourceFile' = SourceFile
  BY <1>2, <1>4, ParseRests
<1>6. ASSUME InFile PROVE SourceReads'
  BY <1>2, <1>3, <1>4, <1>5, <1>6 DEF Scanning, SourceReads
<1>7. QED BY <1>5, <1>6 DEF Scanning

LEMMA PlaceAlike ==
  ASSUME NEW fs, NEW cs, NEW n, NEW p, NEW q, NEW r, NEW off, Place(fs, cs, n, p, q, off),
         r.file = q.file, r.pending = q.pending, r.maps = q.maps
  PROVE  Place(fs, cs, n, p, r, off)
BY DEF Place, AtDdl, Within, Inside

LEMMA ProgressIs ==
  ASSUME Scanning
  PROVE  \E n \in 0 .. Len(committed) :
           /\ Agrees(Pipe, WantedOf(committed, cons.wire)[n], cons.wire)
           /\ parse.pc = "ended" /\ parse.err = None => n = Len(committed)
           /\ parse.pc # "ended" => Place(files, committed, n, Pos, parse, Offset)
BY DEF Scanning, Progress

\* The loop goes on without reading anything.
LEMMA ParseMoves ==
  ASSUME Still, Scanning, InFile, InFile', source' = source, Pipe' = Pipe,
         parse'.file = parse.file, parse'.last = parse.last,
         parse'.pending = parse.pending, parse'.maps = parse.maps
  PROVE  Scanning'
<1>1. UNCHANGED <<files, filter, cons, committed>>
  BY StillFacts
<1>2. Offset' = Offset /\ SourceFile' = SourceFile /\ HeadPos' = HeadPos
  BY <1>1 DEF Offset, SourceFile, HeadPos
<1>3. SourceReads'
  <2>1. SourceReads
    BY DEF Scanning
  <2>2. QED BY <1>2, <2>1 DEF SourceReads
<1>4. InRange'
  BY <1>1 DEF Scanning, InRange, InFile
<1>5. Pos' = Pos
  BY <1>2 DEF Pos
<1>6. PICK n \in 0 .. Len(committed) :
        /\ Agrees(Pipe, WantedOf(committed, cons.wire)[n], cons.wire)
        /\ parse.pc # "ended" => Place(files, committed, n, Pos, parse, Offset)
  BY ProgressIs
<1>7. parse.pc # "ended" /\ parse'.pc # "ended"
  BY DEF InFile
<1>8. Place(files, committed, n, Pos, parse', Offset)
  BY <1>6, <1>7, PlaceAlike
<1>9. Progress'
  BY <1>1, <1>2, <1>5, <1>6, <1>7, <1>8, ProgressFrom
<1>10. QED BY <1>3, <1>4, <1>9 DEF Scanning

\* None of the transactions that are not read yet is wanted.
NoMore ==
  \A n \in 0 .. Len(committed) : Place(files, committed, n, Pos, parse, Offset) =>
    \A i \in n + 1 .. Len(committed) : ~Wanted(committed[i], cons.wire)

LEMMA ParseEndScans ==
  ASSUME Context, Still, Scanning, ~Sending(parse), parse.pc # "ended",
         NEW err \in {None, "canceled", "corrupt", "open"}, ParseEnd(err), err = None => NoMore
  PROVE  Scanning'
<1>1. parse' = [parse EXCEPT !.pc = "ended", !.err = err, !.pending = None] /\ txs' = txs
  BY DEF ParseEnd
<1>2. parse'.pc = "ended" /\ parse'.err = err /\ parse'.file = parse.file /\ parse'.last = parse.last
  BY <1>1, ContextFacts DEF ParseRec
<1>3. UNCHANGED <<files, filter, cons, committed>> /\ GotTxs' = GotTxs /\ AtTx' = AtTx
  BY StillFacts
<1>4. ~InFile' /\ ~Sending(parse')
  BY <1>2 DEF InFile, Sending
<1>5. InRange'
  BY <1>2, <1>3 DEF Scanning, InRange
<1>6. Pipe' = Pipe
  <2>1. SentTx' = SentTx
    BY <1>4 DEF SentTx
  <2>2. QED BY <1>1, <1>3, <2>1 DEF Pipe
<1>7. PICK n \in 0 .. Len(committed) :
        /\ Agrees(Pipe, WantedOf(committed, cons.wire)[n], cons.wire)
        /\ parse.pc # "ended" => Place(files, committed, n, Pos, parse, Offset)
  BY ProgressIs
<1>8. Progress'
  <2>1. CASE err # None
    BY <1>2, <1>3, <1>6, <1>7, <2>1, ProgressFrom
  <2>2. CASE err = None
    <3>1. \A i \in n + 1 .. Len(committed) : ~Wanted(committed[i], cons.wire)
      BY <1>7, <2>2 DEF NoMore
    <3>2. committed \in Seq(Commitment) /\ Len(committed) \in 0 .. Len(committed)
      BY ContextFacts
    <3>3. WantedOf(committed, cons.wire)[Len(committed)] = WantedOf(committed, cons.wire)[n]
      BY <3>1, <3>2, WantedGrow
    <3>4. Agrees(Pipe', WantedOf(committed, cons.wire)[Len(committed)], cons.wire)
      BY <1>6, <1>7, <3>3
    <3>5. QED BY <1>2, <1>3, <3>2, <3>4, ProgressFrom
  <2>3. QED BY <2>1, <2>2
<1>9. QED BY <1>4, <1>5, <1>8 DEF Scanning

\* Between the transactions nothing is pending when a file is opened.
LEMMA PlaceIdle ==
  ASSUME Context, NEW n \in 0 .. Len(committed), NEW p, NEW off,
         Place(files, committed, n, p, parse, off), parse.pending = None
  PROVE  Split(committed, n, parse.file, p) /\ Ahead(committed, n, parse.file, p)
<1>1. Split(committed, n, parse.file, p)
  BY DEF Place
<1>2. ~AtDdl(files, committed, n, p, parse)
  BY DEF AtDdl
<1>3. ~Within(committed, n, p, parse, off)
  <2>1. SUFFICES ASSUME Within(committed, n, p, parse, off) PROVE FALSE
    OBVIOUS
  <2> DEFINE c == committed[n + 1]
  <2>2. n < Len(committed)
    BY <2>1 DEF Within
  <2>3. c \in Commitment
    <3>1. committed \in Seq(Commitment) /\ n + 1 \in 1 .. Len(committed)
      BY <2>2, ContextFacts
    <3>2. QED BY <3>1, ElementOfSeq
  <2>4. c.tx.rows \in Seq(RowChange) /\ c.tx.gtid \in EventId \union {None}
    BY <2>3 DEF Commitment, LogTx
  <2>5. PICK k \in 0 .. Len(c.tx.rows) : Inside(c, k, p, parse)
    BY <2>1 DEF Within
  <2> HIDE DEF c
  <2>6. parse.pending = Pend(SubSeq(c.tx.rows, 1, k), c.tx.gtid)
    BY <2>5 DEF Inside, Pend
  <2>7. SubSeq(c.tx.rows, 1, k) \in Seq(RowChange)
    BY <2>4, <2>5, PrefixRows
  <2>8. Pend(SubSeq(c.tx.rows, 1, k), c.tx.gtid) # None
    BY <2>4, <2>7, PendFacts
  <2>9. QED BY <2>6, <2>8
<1>4. QED BY <1>1, <1>2, <1>3 DEF Place

LEMMA OpenScans ==
  ASSUME Context, Still, OpenFileSource, Scanning
  PROVE  Scanning'
<1>1. parse.pc = "open" /\ ~Sending(parse) /\ ~InFile
  BY DEF OpenFileSource, Parsing, Sending, InFile
<1>2. CASE ParseEnd("open")
  <2>1. "open" # None
    BY ScannerAssumption DEF ScannerAssumption
  <2>2. QED BY <1>1, <1>2, <2>1, ParseEndScans
<1>3. CASE ~ParseEnd("open")
  <2>1. /\ source' = [NoSource EXCEPT !.pc = "run", !.next = Offset + 1]
        /\ parse' = [parse EXCEPT !.pc = "check", !.pending = None, !.maps = {}]
        /\ txs' = txs
    BY <1>3 DEF OpenFileSource, Offset
  <2>2. parse'.pc = "check" /\ parse'.pending = None /\ parse'.file = parse.file
        /\ parse'.last = parse.last
    BY <2>1, ContextFacts DEF ParseRec
  <2>3. source'.pc = "run" /\ source'.next = Offset + 1 /\ source'.evs = <<>>
    <3> DEFINE o == Offset + 1
    <3>1. source' = [NoSource EXCEPT !.pc = "run", !.next = o]
      BY <2>1
    <3> HIDE DEF o
    <3>2. source'.pc = "run" /\ source'.next = o /\ source'.evs = <<>>
      BY <3>1 DEF NoSource
    <3>3. QED BY <3>2 DEF o
  <2>4. UNCHANGED <<files, filter, cons, committed>> /\ GotTxs' = GotTxs /\ AtTx' = AtTx
    BY StillFacts
  <2>5. InFile' /\ ~Sending(parse') /\ Offset' = Offset
    BY <2>2, <2>4 DEF InFile, Sending, Offset
  <2>6. Offset \in Nat
    <3>1. filter.start[2] \in Nat
      BY AskedFacts DEF Context
    <3>2. QED BY <3>1 DEF Offset
  <2>7. HeadPos' = Offset + 1
    BY <2>3, <2>6, Len(<<>>) = 0 DEF HeadPos
  <2>8. SourceReads'
    BY <2>3, <2>5, <2>6, <2>7 DEF SourceReads
  <2>9. InRange'
    BY <2>2, <2>4 DEF Scanning, InRange
  <2>10. Pos' = Offset + 1 /\ Pos = Offset + 1
    BY <1>1, <2>5, <2>7 DEF Pos
  <2>11. Pipe' = Pipe
    <3>1. SentTx' = SentTx
      BY <1>1, <2>5 DEF SentTx
    <3>2. QED BY <2>1, <2>4, <3>1 DEF Pipe
  <2>12. PICK n \in 0 .. Len(committed) :
          /\ Agrees(Pipe, WantedOf(committed, cons.wire)[n], cons.wire)
          /\ parse.pc # "ended" => Place(files, committed, n, Pos, parse, Offset)
    BY ProgressIs
  <2>13. parse.pending = None
    BY <1>1 DEF Scanning, InRange
  <2>14. Split(committed, n, parse.file, Pos) /\ Ahead(committed, n, parse.file, Pos)
    BY <1>1, <2>12, <2>13, PlaceIdle
  <2>15. Place(files, committed, n, Pos', parse', Offset')
    BY <2>2, <2>10, <2>14 DEF Place
  <2>16. Progress'
    BY <2>2, <2>4, <2>11, <2>12, <2>15, ProgressFrom
  <2>17. QED BY <2>8, <2>9, <2>16 DEF Scanning
<1>4. QED BY <1>2, <1>3

LEMMA CheckScans ==
  ASSUME Context, Still, ParseCheck, Scanning
  PROVE  Scanning'
<1>1. parse.pc = "check" /\ ~Sending(parse) /\ InFile
  BY DEF ParseCheck, Parsing, Sending, InFile
<1>2. CASE ParseEnd("canceled")
  <2>1. "canceled" # None
    BY ScannerAssumption DEF ScannerAssumption
  <2>2. QED BY <1>1, <1>2, <2>1, ParseEndScans
<1>3. CASE ~ParseEnd("canceled")
  <2>1. parse' = [parse EXCEPT !.pc = "next"] /\ UNCHANGED <<source, txs>>
    BY <1>3 DEF ParseCheck
  <2>2. parse'.pc = "next" /\ parse'.pending = parse.pending /\ parse'.file = parse.file
        /\ parse'.last = parse.last /\ parse'.maps = parse.maps
    BY <2>1, ContextFacts DEF ParseRec
  <2>3. InFile' /\ ~Sending(parse')
    BY <2>2 DEF InFile, Sending
  <2>4. Pipe' = Pipe
    <3>1. SentTx' = SentTx
      BY <1>1, <2>3 DEF SentTx
    <3>2. QED BY <2>1, <3>1, StillFacts DEF Pipe
  <2>5. QED BY <1>1, <2>1, <2>2, <2>3, <2>4, ParseMoves
<1>4. QED BY <1>2, <1>3

\* A transaction at the end of the pipe.
LEMMA ConcatLast ==
  ASSUME NEW S, NEW a \in Seq(S), NEW b \in Seq(S), NEW c \in Seq(S), NEW t \in S
  PROVE  /\ a \o (b \o (c \o <<>>)) \in Seq(S)
         /\ a \o (b \o (c \o << t >>)) = Append(a \o (b \o (c \o <<>>)), t)
         /\ Append(c, t) \o <<>> = c \o << t >>
<1>1. c \o <<>> = c /\ c \o << t >> = Append(c, t) /\ Append(c, t) \in Seq(S)
  BY AppendProperties
<1>2. b \o c \in Seq(S)
  OBVIOUS
<1>3. a \o (b \o c) \in Seq(S)
  BY <1>2
<1>4. b \o Append(c, t) = Append(b \o c, t)
  BY <1>1
<1> DEFINE d == b \o c
<1> HIDE DEF d
<1>5. d \in Seq(S)
  BY <1>2 DEF d
<1>6. a \o Append(d, t) = Append(a \o d, t)
  BY <1>5
<1>7. Append(c, t) \o <<>> = Append(c, t)
  BY <1>1
<1>8. QED BY <1>1, <1>3, <1>4, <1>6, <1>7 DEF d

LEMMA PipeLast ==
  ASSUME Types, Still, ~Sending(parse), txs' = txs, Sending(parse'), parse'.tx \in Transaction
  PROVE  Pipe \in Seq(Transaction) /\ Pipe' = Append(Pipe, parse'.tx)
<1> DEFINE t == parse'.tx
           a == GotTxs
           b == AtTx
<1>1. SentTx = <<>> /\ SentTx' = << t >>
  BY DEF SentTx
<1>2. a \in Seq(Transaction)
  BY PipeFacts
<1>3. b \in Seq(Transaction) 
  BY PipeFacts
<1>4. txs \in Seq(Transaction)
  BY PipeFacts
<1>5. GotTxs' = a /\ AtTx' = b
  BY StillFacts
<1>6. Pipe = a \o (b \o (txs \o <<>>)) /\ Pipe' = a \o (b \o (txs \o << t >>))
  BY <1>1, <1>5 DEF Pipe
<1>7. t \in Transaction
  OBVIOUS
<1> HIDE DEF a, b, t
<1>8. Pipe \in Seq(Transaction) /\ Pipe' = Append(Pipe, t)
  <2> DEFINE whole == a \o (b \o (txs \o <<>>))
             more == a \o (b \o (txs \o << t >>))
  <2>1. whole \in Seq(Transaction)
    BY <1>2, <1>3, <1>4, <1>7, ConcatLast
  <2>2. more = Append(whole, t)
    BY <1>2, <1>3, <1>4, <1>7, ConcatLast
  <2>3. Pipe = whole /\ Pipe' = more
    BY <1>6
  <2> HIDE DEF whole, more
  <2>4. QED BY <2>1, <2>2, <2>3
<1>9. QED BY <1>8 DEF t

LEMMA SendScans ==
  ASSUME Context, Still, ParseSend, Scanning
  PROVE  Scanning'
<1>1. parse.pc \in {"send", "blocked"} /\ InFile /\ Sending(parse) /\ source' = source
  BY DEF ParseSend, Parsing, InFile, Sending
<1>2. parse.tx \in Transaction
  BY <1>1, ScanFacts DEF Context
<1>3. CASE parse' = [parse EXCEPT !.pc = "blocked"] /\ txs' = txs
  <2>1. parse'.pc = "blocked" /\ parse'.pending = parse.pending /\ parse'.file = parse.file
        /\ parse'.last = parse.last /\ parse'.maps = parse.maps /\ parse'.tx = parse.tx
    BY <1>3, ContextFacts DEF ParseRec
  <2>2. InFile' /\ Sending(parse')
    BY <2>1 DEF InFile, Sending
  <2>3. Pipe' = Pipe
    <3>1. SentTx' = SentTx
      BY <1>1, <2>1, <2>2 DEF SentTx
    <3>2. QED BY <1>3, <3>1, StillFacts DEF Pipe
  <2>4. QED BY <1>1, <2>1, <2>2, <2>3, ParseMoves
<1>4. CASE parse' = [parse EXCEPT !.pc = "check", !.tx = None] /\ txs' = Append(txs, parse.tx)
  <2>1. parse'.pc = "check" /\ parse'.pending = parse.pending /\ parse'.file = parse.file
        /\ parse'.last = parse.last /\ parse'.maps = parse.maps
    BY <1>4, ContextFacts DEF ParseRec
  <2>2. InFile' /\ ~Sending(parse')
    BY <2>1 DEF InFile, Sending
  <2>3. Pipe' = Pipe
    <3> DEFINE t == parse.tx
    <3>1. SentTx = << t >> /\ SentTx' = <<>>
      BY <1>1, <2>2 DEF SentTx
    <3>2. txs \in Seq(Transaction)
      BY PipeFacts DEF Context
    <3>3. t \in Transaction /\ txs' = Append(txs, t)
      BY <1>2, <1>4
    <3> HIDE DEF t
    <3>4. Append(txs, t) \o <<>> = txs \o << t >>
      BY <3>2, <3>3, ConcatLast
    <3>5. txs' \o SentTx' = txs \o SentTx
      BY <3>1, <3>3, <3>4
    <3>6. QED BY <3>5, StillFacts DEF Pipe
  <2>4. QED BY <1>1, <2>1, <2>2, <2>3, ParseMoves
<1>5. QED BY <1>3, <1>4 DEF ParseSend

LEMMA AgreesMore ==
  ASSUME NEW s \in Seq(Transaction), NEW cs \in Seq(Commitment), NEW w, Agrees(s, cs, w),
         NEW t \in Transaction, NEW c \in Commitment, StandsFor(t, c, w)
  PROVE  Agrees(Append(s, t), Append(cs, c), w)
<1>1. Len(s) = Len(cs) /\ Len(s) \in Nat
  BY DEF Agrees
<1>2. \A i \in 1 .. Len(s) : StandsFor(s[i], cs[i], w)
  BY DEF Agrees
<1> DEFINE more == Append(s, t)
           log == Append(cs, c)
<1>3. /\ Len(more) = Len(s) + 1 /\ Len(log) = Len(s) + 1
      /\ more[Len(s) + 1] = t /\ log[Len(s) + 1] = c
      /\ \A i \in 1 .. Len(s) : more[i] = s[i] /\ log[i] = cs[i]
  BY <1>1, AppendProperties
<1> HIDE DEF more, log
<1>4. ASSUME NEW i \in 1 .. Len(more) PROVE StandsFor(more[i], log[i], w)
  <2>1. CASE i \in 1 .. Len(s)
    BY <1>2, <1>3, <2>1
  <2>2. CASE i = Len(s) + 1
    BY <1>3, <2>2
  <2>3. QED BY <1>1, <1>3, <2>1, <2>2
<1>5. Agrees(more, log, w)
  BY <1>3, <1>4 DEF Agrees
<1>6. QED BY <1>5 DEF more, log

\* The head of the channel of events is the event at the scanner's place.
LEMMA HeadEvent ==
  ASSUME Context, Scanning, InFile, source.evs # <<>>
  PROVE  /\ Pos = HeadPos /\ HeadPos \in 1 .. Len(SourceFile)
         /\ Head(source.evs) = SourceFile[HeadPos] /\ Offset \in Nat /\ Offset < HeadPos
<1>1. HeadPos > Offset
      /\ \A k \in 1 .. Len(source.evs) :
           (HeadPos + k) - 1 <= Len(SourceFile) /\ source.evs[k] = SourceFile[(HeadPos + k) - 1]
  BY DEF Scanning, SourceReads
<1>2. source.evs \in Seq(Event) /\ HeadPos \in Int /\ Len(SourceFile) \in Nat
  BY SourceFacts, ContextFacts DEF Context
<1>3. Offset \in Nat
  <2>1. filter.start[2] \in Nat
    BY AskedFacts DEF Context
  <2>2. QED BY <2>1 DEF Offset
<1>4. 1 \in 1 .. Len(source.evs) /\ Head(source.evs) = source.evs[1]
  BY <1>2
<1> DEFINE h == HeadPos
<1>5. h \in Int
  BY <1>2
<1> HIDE DEF h
<1>6. (h + 1) - 1 = h
  BY <1>5
<1>7. h <= Len(SourceFile) /\ Head(source.evs) = SourceFile[h]
  BY <1>1, <1>4, <1>6 DEF h
<1>8. QED BY <1>1, <1>2, <1>3, <1>7 DEF h, Pos

\* What is next in the channel after its head was taken.
LEMMA TailReads ==
  ASSUME Context, Still, Scanning, InFile, source.evs # <<>>, parse'.file = parse.file,
         source' = [source EXCEPT !.evs = Tail(@)]
  PROVE  HeadPos' = HeadPos + 1 /\ SourceReads' /\ Offset' = Offset
<1> DEFINE evs == source.evs
           rest == Tail(evs)
           h == HeadPos
           m == Len(evs)
           next == source.next
<1>1. source \in SourceRec /\ evs \in Seq(Event) /\ m \in Nat /\ next \in Nat /\ h = next - m
  BY SourceFacts DEF Context
<1>2. evs # <<>>
  OBVIOUS
<1>3. /\ Len(rest) = m - 1 /\ m > 0
      /\ \A k \in 1 .. Len(rest) : rest[k] = evs[k + 1]
  <2>1. evs \in Seq(Event)
    BY <1>1
  <2>2. QED BY <1>2, <2>1, HeadTailProperties
<1>4. source'.evs = rest /\ source'.pc = source.pc /\ source'.err = source.err
      /\ source'.next = next
  <2>1. source' = [source EXCEPT !.evs = rest]
    OBVIOUS
  <2> HIDE DEF rest
  <2>2. QED BY <1>1, <2>1 DEF SourceRec
<1>5. /\ source.pc # "none" /\ h > Offset
      /\ \A k \in 1 .. m : (h + k) - 1 <= Len(SourceFile) /\ evs[k] = SourceFile[(h + k) - 1]
      /\ source.pc = "closed" /\ source.err = None => next > Len(SourceFile)
  BY DEF Scanning, SourceReads
<1>6. UNCHANGED <<files, filter>>
  BY StillFacts
<1>7. Offset' = Offset /\ SourceFile' = SourceFile
  BY <1>6 DEF Offset, SourceFile
<1>8. HeadPos' = next - Len(rest)
  BY <1>4 DEF HeadPos
<1>9. Offset \in Nat
  <2>1. filter.start[2] \in Nat
    BY AskedFacts DEF Context
  <2>2. QED BY <2>1 DEF Offset
<1> HIDE DEF evs, rest, h, m, next
<1>10. HeadPos' = h + 1
  BY <1>1, <1>3, <1>8
<1>11. ASSUME NEW k \in 1 .. Len(rest)
       PROVE  ((h + 1) + k) - 1 <= Len(SourceFile) /\ rest[k] = SourceFile[((h + 1) + k) - 1]
  <2>1. k + 1 \in 1 .. m /\ ((h + 1) + k) - 1 = (h + (k + 1)) - 1
    BY <1>1, <1>3
  <2>2. rest[k] = evs[k + 1]
    BY <1>3
  <2>3. QED BY <1>5, <2>1, <2>2
<1>12. h + 1 > Offset
  BY <1>1, <1>5, <1>9
<1>13. SourceReads'
  BY <1>4, <1>5, <1>7, <1>10, <1>11, <1>12 DEF SourceReads
<1>14. QED BY <1>7, <1>10, <1>13 DEF h

\* The transaction that ends at the scanner's place is sent if it is wanted.
LEMMA FinishesScans ==
  ASSUME Context, Still, Scanning, InFile, ~Sending(parse), NEW n \in 0 .. Len(committed),
         Agrees(Pipe, WantedOf(committed, cons.wire)[n], cons.wire),
         parse'.file = parse.file, InFile', txs' = txs, Sending(parse') => parse'.tx \in Transaction,
         NEW p, ~PastEndPos(p), Finishes(n, p, parse', Offset)
  PROVE  n + 1 \in 0 .. Len(committed)
         /\ Agrees(Pipe', WantedOf(committed, cons.wire)[n + 1], cons.wire)
<1> DEFINE c == committed[n + 1]
           w == cons.wire
           W == WantedOf(committed, w)
<1>1. /\ n < Len(committed) /\ c.file = parse.file /\ c.first > Offset /\ c.last = p
      /\ IF MatchesFilter(Whole(c), filter)
         THEN parse'.pc = "send" /\ parse'.tx = Truncate(Whole(c)) ELSE parse'.pc = "check"
  BY DEF Finishes
<1>2. committed \in Seq(Commitment)
  BY ContextFacts
<1>3. n + 1 \in 1 .. Len(committed) /\ (n + 1) - 1 = n
  BY <1>1
<1>4. c \in Commitment
  BY <1>2, <1>3, ElementOfSeq
<1>5. c.tx.ts <= MaxTime
  <2>1. c.tx.ts <= clock
    BY <1>3 DEF Context, LogShape, TimesGrow
  <2>2. clock <= MaxTime /\ clock \in Nat /\ MaxTime \in Nat /\ c.tx.ts \in Nat
    BY <1>4, ContextFacts, CommitFields, ScannerAssumption DEF Context, ClockRuns, ScannerAssumption
  <2>3. QED BY <2>1, <2>2
<1>6. Asked /\ InRange
  BY DEF Context, Scanning
<1>7. W[n] \in Seq(Commitment) /\ W[n + 1] = WantedStep(committed, w, W[n], n + 1)
  BY <1>2, <1>3, WantedOfIs
<1>8. WantedStep(committed, w, W[n], n + 1) = IF Wanted(c, w) THEN Append(W[n], c) ELSE W[n]
  BY DEF WantedStep
<1>9. n + 1 \in 0 .. Len(committed)
  BY <1>3
<1> HIDE DEF c
<1>10. InPlace(c, w)
  BY <1>1, <1>4, <1>6, ReadInPlace
<1>11. MatchesFilter(Whole(c), filter) <=> Wanted(c, w)
  BY <1>4, <1>5, <1>6, <1>10, MatchesWanted
<1>12. StandsFor(Truncate(Whole(c)), c, w)
  BY <1>4, <1>6, TruncateStandsFor
<1> HIDE DEF w, W
<1>13. Agrees(Pipe, W[n], w)
  BY DEF w, W
<1>14. CASE Wanted(c, w)
  <2>1. Sending(parse') /\ parse'.tx = Truncate(Whole(c))
    BY <1>1, <1>11, <1>14 DEF Sending
  <2> DEFINE t == parse'.tx
             s == W[n]
  <2>2. t \in Transaction /\ StandsFor(t, c, w)
    BY <1>12, <2>1
  <2>3. Pipe \in Seq(Transaction) /\ Pipe' = Append(Pipe, t)
    BY <2>1, <2>2, PipeLast DEF Context
  <2>4. s \in Seq(Commitment) /\ Agrees(Pipe, s, w)
    BY <1>7, <1>13
  <2> HIDE DEF t, s
  <2> DEFINE pipe == Pipe
  <2>5. pipe \in Seq(Transaction) /\ Agrees(pipe, s, w)
    BY <2>3, <2>4
  <2> HIDE DEF pipe
  <2>6. Agrees(Append(pipe, t), Append(s, c), w)
    BY <1>4, <2>2, <2>4, <2>5, AgreesMore
  <2>7. W[n + 1] = Append(s, c)
    BY <1>7, <1>8, <1>14 DEF s
  <2>8. Agrees(Pipe', W[n + 1], w)
    BY <2>3, <2>6, <2>7 DEF pipe
  <2>9. QED BY <1>9, <2>8 DEF w, W
<1>15. CASE ~Wanted(c, w)
  <2>1. ~Sending(parse')
    BY <1>1, <1>11, <1>15 DEF Sending
  <2>2. Pipe' = Pipe
    <3>1. SentTx' = SentTx
      BY <2>1 DEF SentTx
    <3>2. QED BY <3>1, StillFacts DEF Pipe
  <2>3. W[n + 1] = W[n]
    BY <1>7, <1>8, <1>15
  <2>4. QED BY <1>9, <1>13, <2>2, <2>3 DEF w, W
<1>16. QED BY <1>14, <1>15

LEMMA EventScans ==
  ASSUME Context, Still, Scanning, parse.pc = "next", source.evs # <<>>, ~PastEndPos(HeadPos),
         parse' = HandleEvent(Head(source.evs)), source' = [source EXCEPT !.evs = Tail(@)],
         txs' = txs, Types'
  PROVE  Scanning'
<1>1. InFile /\ ~Sending(parse) /\ parse.pc # "ended"
  BY DEF InFile, Sending
<1>2. /\ Pos = HeadPos /\ HeadPos \in 1 .. Len(SourceFile)
      /\ Head(source.evs) = SourceFile[HeadPos] /\ Offset \in Nat /\ Offset < HeadPos
  BY <1>1, HeadEvent
<1>3. /\ parse'.pc \in {"send", "check"} /\ parse'.file = parse.file /\ parse'.last = parse.last
  <2> DEFINE e == Head(source.evs)
  <2>1. parse' = HandleEvent(e) /\ parse \in ParseRec
    BY ContextFacts
  <2> HIDE DEF e
  <2>2. QED BY <2>1, HandleEventGoesOn
<1>4. HeadPos' = HeadPos + 1 /\ SourceReads' /\ Offset' = Offset
  BY <1>1, <1>3, TailReads
<1>5. InFile' /\ parse'.pc # "ended"
  BY <1>3 DEF InFile
<1>6. UNCHANGED <<files, filter, cons, committed>>
  BY StillFacts
<1>7. InRange'
  BY <1>3, <1>6 DEF Scanning, InRange
<1>8. PICK n \in 0 .. Len(committed) :
        /\ Agrees(Pipe, WantedOf(committed, cons.wire)[n], cons.wire)
        /\ parse.pc # "ended" => Place(files, committed, n, Pos, parse, Offset)
  BY ProgressIs
<1>9. \/ GoesOn(n, HeadPos, parse', Offset)
      \/ Finishes(n, HeadPos, parse', Offset)
  <2>1. Offset \in Int /\ Place(files, committed, n, HeadPos, parse, Offset)
    BY <1>1, <1>2, <1>8
  <2>2. parse' = HandleEvent(SourceFile[HeadPos])
    BY <1>2
  <2>3. \/ GoesOn(n, HeadPos, HandleEvent(SourceFile[HeadPos]), Offset)
        \/ Finishes(n, HeadPos, HandleEvent(SourceFile[HeadPos]), Offset)
    BY <1>2, <2>1, EventRead
  <2>4. QED BY <2>2, <2>3
<1>10. Pos' = HeadPos + 1
  BY <1>4, <1>5 DEF Pos
<1>11. CASE GoesOn(n, HeadPos, parse', Offset)
  <2>1. parse'.pc = "check" /\ Place(files, committed, n, HeadPos + 1, parse', Offset)
    BY <1>11 DEF GoesOn
  <2>2. Pipe' = Pipe
    <3>1. ~Sending(parse')
      BY <2>1 DEF Sending
    <3>2. SentTx' = SentTx
      BY <1>1, <3>1 DEF SentTx
    <3>3. QED BY <3>2, StillFacts DEF Pipe
  <2>3. Progress'
    BY <1>4, <1>5, <1>6, <1>8, <1>10, <2>1, <2>2, ProgressFrom
  <2>4. QED BY <1>4, <1>7, <2>3 DEF Scanning
<1>12. CASE Finishes(n, HeadPos, parse', Offset)
  <2>1. Sending(parse') => parse'.tx \in Transaction
    BY DEF Types, ScanType, Sending
  <2>2. n + 1 \in 0 .. Len(committed)
        /\ Agrees(Pipe', WantedOf(committed, cons.wire)[n + 1], cons.wire)
    BY <1>1, <1>3, <1>5, <1>8, <1>12, <2>1, FinishesScans
  <2>3. Place(files, committed, n + 1, HeadPos + 1, parse', Offset)
    BY <1>12 DEF Finishes
  <2>4. Progress'
    BY <1>4, <1>5, <1>6, <1>10, <2>2, <2>3, ProgressFrom
  <2>5. QED BY <1>4, <1>7, <2>4 DEF Scanning
<1>13. QED BY <1>9, <1>11, <1>12

\* At the end of a file nothing is pending.
LEMMA PlaceAtEnd ==
  ASSUME Context, NEW n \in 0 .. Len(committed), NEW p \in Int, NEW off,
         Place(files, committed, n, p, parse, off), p > Len(SourceFile)
  PROVE  Split(committed, n, parse.file, p) /\ Ahead(committed, n, parse.file, p)
<1> DEFINE f == parse.file
<1>1. Len(files[f]) \in Nat /\ p > Len(files[f])
  BY ContextFacts DEF SourceFile
<1>2. ~AtDdl(files, committed, n, p, parse)
  BY <1>1 DEF AtDdl, DdlAt, Gap
<1>3. ~Within(committed, n, p, parse, off)
  <2>1. SUFFICES ASSUME Within(committed, n, p, parse, off) PROVE FALSE
    OBVIOUS
  <2> DEFINE c == committed[n + 1]
             m == Len(c.tx.rows)
             lead == Lead(c)
             first == c.first
  <2>2. n < Len(committed) /\ c.file = f
    BY <2>1 DEF Within
  <2>3. PICK k \in 0 .. m : Inside(c, k, p, parse)
    BY <2>1 DEF Within
  <2>4. n + 1 \in 1 .. Len(committed) /\ committed \in Seq(Commitment)
    BY <2>2, ContextFacts
  <2>5. c \in Commitment /\ Written(c, files[f])
    BY <2>2, <2>4, ContextFacts, LogFacts
  <2>6. first \in Nat /\ m \in Nat
    BY <2>5, CommitFields DEF Commitment, LogTx
  <2>7. lead \in {0, 1}
    BY DEF Lead
  <2>8. (first + lead + 2 * m) + 1 <= Len(files[f])
    BY <2>5 DEF Written, AtRow
  <2>9. \/ p = first + lead + 2 * 0
        \/ p = (first + lead + 2 * k) + 1
        \/ k < m /\ p = (first + lead + 2 * k) + 2
    BY <2>3 DEF Inside, AtRow
  <2> HIDE DEF c, m, lead, first
  <2>10. QED BY <1>1, <2>3, <2>6, <2>7, <2>8, <2>9
<1>4. QED BY <1>2, <1>3 DEF Place

LEMMA PosAtEnd ==
  ASSUME Context, Scanning, parse.pc = "next", source.evs = <<>>, source.pc = "closed", source.err = None
  PROVE  Pos = HeadPos /\ HeadPos \in Int /\ HeadPos > Len(SourceFile)
<1>1. InFile /\ SourceReads
  BY DEF InFile, Scanning
<1>2. source.next > Len(SourceFile)
  BY <1>1 DEF SourceReads
<1>3. source.next \in Nat /\ Len(source.evs) = 0
  BY SourceFacts DEF Context
<1>4. HeadPos = source.next - 0
  BY <1>3 DEF HeadPos
<1>5. HeadPos = source.next
  BY <1>3, <1>4
<1>6. QED BY <1>1, <1>2, <1>3, <1>5 DEF Pos

LEMMA NextFileScans ==
  ASSUME Context, Still, Scanning, parse.pc = "next",
         source.evs = <<>>, source.pc = "closed", source.err = None,
         parse.file < parse.last,
         parse' = [parse EXCEPT !.pc = "open", !.file = @ + 1, !.pending = None],
         source' = NoSource, txs' = txs
  PROVE  Scanning'
<1> DEFINE f == parse.file
<1>1. /\ parse \in ParseRec /\ f \in Nat /\ parse.last \in Nat /\ Len(files) \in Nat
      /\ committed \in Seq(Commitment) /\ LogShape(files, committed, clock)
      /\ Len(SourceFile) \in Nat
  BY ContextFacts DEF ParseRec
<1>2. parse'.pc = "open" /\ parse'.file = f + 1 /\ parse'.last = parse.last /\ parse'.pending = None
  <2> DEFINE k == f + 1
  <2>1. parse' = [parse EXCEPT !.pc = "open", !.file = k, !.pending = None]
    OBVIOUS
  <2> HIDE DEF k
  <2>2. parse'.pc = "open" /\ parse'.file = k /\ parse'.last = parse.last /\ parse'.pending = None
    BY <1>1, <2>1 DEF ParseRec
  <2>3. QED BY <2>2 DEF k
<1>3. UNCHANGED <<files, filter, cons, committed>>
  BY StillFacts
<1>4. ~InFile' /\ ~Sending(parse') /\ ~Sending(parse)
  BY <1>2 DEF InFile, Sending
<1>5. Pipe' = Pipe
  <2>1. SentTx' = SentTx
    BY <1>4 DEF SentTx
  <2>2. QED BY <2>1, StillFacts DEF Pipe
<1>6. f >= filter.start[1] /\ filter.start[1] \in Nat
  BY AskedFacts DEF Scanning, InRange, Context
<1>7. InRange'
  BY <1>1, <1>2, <1>3, <1>6 DEF Scanning, InRange
<1>8. Offset' = 0
  BY <1>1, <1>2, <1>3, <1>6 DEF Offset
<1>9. Pos' = 1
  BY <1>4, <1>8 DEF Pos
<1>10. PICK n \in 0 .. Len(committed) :
        /\ Agrees(Pipe, WantedOf(committed, cons.wire)[n], cons.wire)
        /\ parse.pc # "ended" => Place(files, committed, n, Pos, parse, Offset)
  BY ProgressIs
<1>11. HeadPos \in Int /\ Len(files[f]) < HeadPos /\ Split(committed, n, f, HeadPos)
  <2>1. Pos = HeadPos /\ HeadPos \in Int /\ HeadPos > Len(SourceFile)
    BY PosAtEnd
  <2>2. QED BY <1>10, <2>1, PlaceAtEnd DEF SourceFile
<1>12. Split(committed, n, f + 1, 1)
  BY <1>1, <1>11, NextFileSplit DEF SourceFile
<1>13. Ahead(committed, n, f + 1, 1)
  <2>1. ASSUME n < Len(committed) PROVE committed[n + 1].first >= 1
    <3>1. n + 1 \in 1 .. Len(committed)
      BY <2>1
    <3>2. QED BY <1>1, <3>1, LogFacts
  <2>2. QED BY <2>1 DEF Ahead
<1>14. Place(files, committed, n, Pos', parse', Offset')
  BY <1>2, <1>9, <1>12, <1>13 DEF Place
<1>15. Progress'
  BY <1>2, <1>3, <1>5, <1>10, <1>14, ProgressFrom
<1>16. QED BY <1>4, <1>7, <1>15 DEF Scanning

LEMMA NothingMore ==
  ASSUME Context, Scanning, parse.pc = "next",
         \/ source.evs # <<>> /\ (PastEndPos(HeadPos) \/ PastTimeEnd(Head(source.evs)))
         \/ /\ source.evs = <<>> /\ source.pc = "closed" /\ source.err = None
            /\ parse.file >= parse.last
  PROVE  NoMore
<1>1. InFile
  BY DEF InFile
<1>2. Pos \in Int /\ \/ PastEndPos(Pos)
                     \/ Pos \in 1 .. Len(SourceFile) /\ PastTimeEnd(SourceFile[Pos])
                     \/ parse.file >= parse.last /\ Pos > Len(SourceFile)
  <2>1. CASE source.evs # <<>> /\ (PastEndPos(HeadPos) \/ PastTimeEnd(Head(source.evs)))
    <3>1. /\ Pos = HeadPos /\ HeadPos \in 1 .. Len(SourceFile)
          /\ Head(source.evs) = SourceFile[HeadPos]
      BY <1>1, <2>1, HeadEvent
    <3>2. QED BY <2>1, <3>1
  <2>2. CASE source.evs = <<>> /\ source.pc = "closed" /\ source.err = None /\ parse.file >= parse.last
    BY <2>2, PosAtEnd
  <2>3. QED BY <2>1, <2>2
<1>3. ASSUME NEW n \in 0 .. Len(committed), Place(files, committed, n, Pos, parse, Offset),
             NEW i \in n + 1 .. Len(committed)
      PROVE  ~Wanted(committed[i], cons.wire)
  <2>1. Split(committed, n, parse.file, Pos)
    BY <1>3 DEF Place
  <2>2. InRange
    BY DEF Scanning
  <2>3. QED BY <1>2, <2>1, <2>2, EndUnwanted
<1>4. QED BY <1>3 DEF NoMore

LEMMA NextScans ==
  ASSUME Context, Still, ParseNext, Scanning, Types'
  PROVE  Scanning'
<1>1. parse.pc = "next" /\ ~Sending(parse)
  BY DEF ParseNext, Parsing, Sending
<1>2. CASE source.evs # <<>> /\ (PastEndPos(HeadPos) \/ PastTimeEnd(Head(source.evs))) /\ ParseEnd(None)
  BY <1>1, <1>2, NothingMore, ParseEndScans
<1>3. CASE source.evs # <<>> /\ ~PastEndPos(HeadPos) /\ parse' = HandleEvent(Head(source.evs))
           /\ source' = [source EXCEPT !.evs = Tail(@)] /\ txs' = txs
  BY <1>1, <1>3, EventScans
<1>4. CASE source.evs = <<>> /\ source.pc = "closed" /\ source.err = None /\ FileDone
  <2>1. CASE parse.file < parse.last
    BY <1>1, <1>4, <2>1, NextFileScans DEF FileDone
  <2>2. CASE ~(parse.file < parse.last)
    <3>1. ParseEnd(None)
      BY <1>4, <2>2 DEF FileDone
    <3>2. parse.file >= parse.last
      BY <2>2, ContextFacts DEF ParseRec
    <3>3. QED BY <1>1, <1>4, <3>1, <3>2, NothingMore, ParseEndScans
  <2>3. QED BY <2>1, <2>2
<1>5. CASE source.err # None /\ ParseEnd(source.err)
  <2>1. source.err \in {None, "canceled", "corrupt", "open"}
    BY SourceFacts DEF Context, SourceRec
  <2>2. QED BY <1>1, <1>5, <2>1, ParseEndScans
<1>6. CASE ParseEnd("canceled")
  <2>1. "canceled" # None
    BY ScannerAssumption DEF ScannerAssumption
  <2>2. QED BY <1>1, <1>6, <2>1, ParseEndScans
<1>7. QED BY <1>2, <1>3, <1>4, <1>5, <1>6 DEF ParseNext

\* As long as its caller has not left.
LEMMA ScannerScans ==
  ASSUME Context, Still, SourceRuns \/ ParseRuns, Scanning, ~closed, Types'
  PROVE  Scanning'
BY SourceSendScans, SourceEndScans, OpenScans, CheckScans, NextScans, SendScans
   DEF SourceRuns, ParseRuns, ParseDrop

-----------------------------------------------------------------------------
(* The steps of the caller. *)

\* A caller that takes what is there leaves the scanner where it is.
LEMMA CallerScans ==
  ASSUME UNCHANGED <<files, filter, committed, source, parse>>, cons'.wire = cons.wire,
         Pipe' = Pipe, Scanning
  PROVE  Scanning'
<1>1. /\ Offset' = Offset /\ SourceFile' = SourceFile /\ HeadPos' = HeadPos
      /\ InFile' <=> InFile
  BY DEF Offset, SourceFile, HeadPos, InFile
<1>2. Pos' = Pos
  BY <1>1 DEF Pos
<1>3. InFile' => SourceReads'
  BY <1>1 DEF Scanning, SourceReads
<1>4. InRange'
  BY DEF Scanning, InRange
<1>5. PICK n \in 0 .. Len(committed) :
        /\ Agrees(Pipe, WantedOf(committed, cons.wire)[n], cons.wire)
        /\ parse.pc = "ended" /\ parse.err = None => n = Len(committed)
        /\ parse.pc # "ended" => Place(files, committed, n, Pos, parse, Offset)
  BY ProgressIs
<1>6. Progress'
  BY <1>1, <1>2, <1>5, ProgressFrom
<1>7. QED BY <1>3, <1>4, <1>6 DEF Scanning

\* What comes out of the pipe first are the first of the wanted transactions.
Foremost(s) ==
  /\ Len(s) <= Len(WantedTxs)
  /\ \A i \in 1 .. Len(s) : StandsFor(s[i], WantedTxs[i], cons.wire)

LEMMA PrefixFaithful ==
  ASSUME Types, Scanning, NEW s \in Seq(Transaction), NEW t \in Seq(Transaction), Pipe = s \o t
  PROVE  /\ Foremost(s)
         /\ parse.pc = "ended" /\ parse.err = None /\ t = <<>> => Len(s) = Len(WantedTxs)
<1> DEFINE w == cons.wire
           N == Len(committed)
<1>1. PICK n \in 0 .. N :
        /\ Agrees(Pipe, WantedOf(committed, cons.wire)[n], cons.wire)
        /\ parse.pc = "ended" /\ parse.err = None => n = Len(committed)
        /\ parse.pc # "ended" => Place(files, committed, n, Pos, parse, Offset)
  BY ProgressIs
<1> DEFINE u == WantedOf(committed, w)[n]
           v == WantedOf(committed, w)[N]
<1>2. committed \in Seq(Commitment)
  BY DEF Types, LogType
<1>3. Begins(u, v)
  BY <1>2, WantedGrow
<1>4. u \in Seq(Commitment)
  BY <1>1, <1>2, WantedOfIs
<1>5. v \in Seq(Commitment)
  BY <1>2, WantedOfIs
<1>6. Agrees(s \o t, u, w) /\ WantedTxs = v
  BY <1>1 DEF WantedTxs
<1>7. parse.pc = "ended" /\ parse.err = None => u = v
  BY <1>1
<1> HIDE DEF w, N, u, v
<1>8. /\ Len(s \o t) = Len(s) + Len(t) /\ Len(s) \in Nat /\ Len(t) \in Nat
      /\ \A i \in 1 .. Len(s) : (s \o t)[i] = s[i]
  BY ConcatProperties
<1>9. Len(s \o t) = Len(u) /\ \A i \in 1 .. Len(s \o t) : StandsFor((s \o t)[i], u[i], w)
  BY <1>6 DEF Agrees
<1>10. Len(u) <= Len(v) /\ \A i \in 1 .. Len(u) : v[i] = u[i]
  BY <1>3 DEF Begins
<1>11. Len(u) \in Nat /\ Len(v) \in Nat
  BY <1>4, <1>5
<1>12. Len(s) <= Len(v)
  BY <1>8, <1>9, <1>10, <1>11
<1>13. ASSUME NEW i \in 1 .. Len(s) PROVE StandsFor(s[i], v[i], w)
  <2>1. i \in 1 .. Len(s \o t) /\ i \in 1 .. Len(u)
    BY <1>8, <1>9
  <2>2. (s \o t)[i] = s[i] /\ v[i] = u[i]
    BY <1>8, <1>10, <2>1
  <2>3. StandsFor((s \o t)[i], u[i], w)
    BY <1>9, <2>1
  <2>4. QED BY <2>2, <2>3
<1>14. Foremost(s)
  BY <1>6, <1>12, <1>13 DEF Foremost, w
<1>15. ASSUME parse.pc = "ended" /\ parse.err = None /\ t = <<>> PROVE Len(s) = Len(WantedTxs)
  <2>1. Len(t) = 0
    BY <1>15
  <2>2. Len(s) = Len(u)
    BY <1>8, <1>9, <2>1
  <2>3. QED BY <1>6, <1>7, <1>15, <2>2
<1>16. QED BY <1>14, <1>15

LEMMA FaithfulFrom ==
  ASSUME UNCHANGED committed, cons'.wire = cons.wire, NEW s, Foremost(s), Len(cons'.got) = Len(s),
         \A i \in 1 .. Len(s) : cons'.got[i].tx = s[i],
         cons'.outcome = "done" /\ Len(s) < cons'.limit => Len(s) = Len(WantedTxs)
  PROVE  Faithful'
<1>1. WantedTxs' = WantedTxs
  BY DEF WantedTxs
<1>2. QED BY <1>1 DEF Faithful, Foremost

LEMMA GotFaithful ==
  ASSUME Types, Scanning
  PROVE  /\ Foremost(GotTxs)
         /\ cons.pc = "next" /\ NextIsEOF => Len(GotTxs) = Len(WantedTxs)
         /\ cons.pc = "deliver" =>
              /\ cons.at.tx \in Transaction
              /\ Append(GotTxs, cons.at.tx) \in Seq(Transaction)
              /\ Foremost(Append(GotTxs, cons.at.tx))
<1> DEFINE g == GotTxs
           rest == txs \o SentTx
           behind == AtTx \o rest
<1>1. g \in Seq(Transaction) 
  BY PipeFacts
<1>2. AtTx \in Seq(Transaction) /\ txs \in Seq(Transaction) /\ SentTx \in Seq(Transaction)
  BY PipeFacts
<1>3. rest \in Seq(Transaction)
  BY <1>2
<1>4. behind \in Seq(Transaction)
  BY <1>2, <1>3
<1>5. Pipe = g \o behind
  BY DEF Pipe
<1>6. Foremost(g) /\ (parse.pc = "ended" /\ parse.err = None /\ behind = <<>> => Len(g) = Len(WantedTxs))
  <2> HIDE DEF g, behind
  <2>1. QED BY <1>1, <1>4, <1>5, PrefixFaithful
<1>7. ASSUME cons.pc = "next", NextIsEOF PROVE Len(g) = Len(WantedTxs)
  <2>1. parse.pc = "ended" /\ parse.err = None /\ txs = <<>>
    BY <1>7 DEF NextIsEOF, Parsing
  <2>2. AtTx = <<>> /\ SentTx = <<>>
    BY <1>7, <2>1 DEF AtTx, SentTx, Sending
  <2>3. behind = <<>>
    BY <2>1, <2>2, ConcatEmptySeq, <<>> \in Seq(Transaction)
  <2>4. QED BY <1>6, <2>1, <2>3
<1>8. ASSUME cons.pc = "deliver"
      PROVE  /\ cons.at.tx \in Transaction /\ Append(g, cons.at.tx) \in Seq(Transaction)
             /\ Foremost(Append(g, cons.at.tx))
  <2> DEFINE a == cons.at.tx
             more == Append(g, a)
  <2>1. a \in Transaction
    BY <1>8, ConsFacts DEF Result
  <2>2. AtTx = << a >>
    BY <1>8 DEF AtTx
  <2> HIDE DEF g, a, rest
  <2>3. more \in Seq(Transaction) /\ more = g \o << a >>
    BY <1>1, <2>1, AppendProperties
  <2>4. << a >> \in Seq(Transaction)
    BY <2>1
  <2>5. g \o (<< a >> \o rest) = (g \o << a >>) \o rest
    BY <1>1, <1>3, <2>4, ConcatAssociative
  <2>6. Pipe = more \o rest
    BY <1>5, <2>2, <2>3, <2>5
  <2>7. Foremost(more)
    <3>1. more \in Seq(Transaction)
      BY <2>3
    <3> HIDE DEF more
    <3>2. QED BY <1>3, <2>6, <3>1, PrefixFaithful
  <2>8. QED BY <2>1, <2>3, <2>7 DEF a
<1>9. QED BY <1>6, <1>7, <1>8

\* A caller in a scan goes on, without losing or inventing a transaction, or
\* it leaves with what it got.
CallerMoves ==
  /\ UNCHANGED <<files, filter, source, parse, committed, clock>> /\ cons'.wire = cons.wire
  /\ Live
  /\ \/ Live' /\ closed' = closed /\ cons'.outcome = cons.outcome /\ Pipe' = Pipe
     \/ cons'.pc = "ended" /\ (Scanning => Faithful')

\* The results at hand are all that was wanted, or the scan failed.
LEMMA LeavesFaithful ==
  ASSUME Types, Scanning, UNCHANGED committed, cons'.wire = cons.wire,
         Len(cons'.got) = Len(cons.got), \A i \in 1 .. Len(cons.got) : cons'.got[i].tx = cons.got[i].tx,
         cons'.outcome = "done" => cons.pc = "next" /\ NextIsEOF
  PROVE  Faithful'
<1> DEFINE s == GotTxs
<1>1. Len(s) = Len(cons.got) /\ \A i \in 1 .. Len(cons.got) : s[i] = cons.got[i].tx
  BY PipeFacts
<1>2. Foremost(s) /\ (cons.pc = "next" /\ NextIsEOF => Len(s) = Len(WantedTxs))
  BY GotFaithful
<1> HIDE DEF s
<1>3. Len(cons'.got) = Len(s) /\ \A i \in 1 .. Len(s) : cons'.got[i].tx = s[i]
  BY <1>1
<1>4. cons'.outcome = "done" /\ Len(s) < cons'.limit => Len(s) = Len(WantedTxs)
  BY <1>2
<1>5. QED BY <1>2, <1>3, <1>4, FaithfulFrom

LEMMA StreamNextMoves ==
  ASSUME Types, StreamNext
  PROVE  CallerMoves
<1>1. /\ UNCHANGED <<files, filter, source, parse>> /\ UNCHANGED mysqlVars
      /\ cons.pc = "next" /\ cons \in ConsRec
  BY ConsFacts DEF StreamNext
<1>2. UNCHANGED <<files, filter, source, parse, committed, clock>> /\ Live
  BY <1>1 DEF mysqlVars, Live
<1>3. CASE NextIsTx /\ txs' = Tail(txs) /\ UNCHANGED <<cancelled, closed>> /\
           \E known \in FetchSchemas(IF Head(txs).truncated THEN <<>> ELSE Head(txs).rows, cons.schema) :
             cons' = [cons EXCEPT !.pc = "deliver", !.schema = known,
                        !.at = [tx |-> Head(txs), stmts |-> GenerateSQL(Head(txs), known)]]
  <2> DEFINE tx == Head(txs)
  <2>1. PICK known : cons' = [cons EXCEPT !.pc = "deliver", !.schema = known,
                        !.at = [tx |-> tx, stmts |-> GenerateSQL(tx, known)]]
    BY <1>3
  <2>2. txs \in Seq(Transaction) /\ txs # <<>>
    BY <1>3, PipeFacts DEF NextIsTx
  <2>3. tx \in Transaction
    BY <2>2, HeadTailProperties
  <2> HIDE DEF tx
  <2> DEFINE r == [tx |-> tx, stmts |-> GenerateSQL(tx, known)]
  <2>4. r.tx = tx
    OBVIOUS
  <2> HIDE DEF r
  <2>5. cons' = [cons EXCEPT !.pc = "deliver", !.schema = known, !.at = r]
    BY <2>1 DEF r
  <2>6. /\ cons'.pc = "deliver" /\ cons'.at = r /\ cons'.got = cons.got /\ cons'.wire = cons.wire
        /\ cons'.outcome = cons.outcome
    BY <1>1, <2>5 DEF ConsRec
  <2>7. GotTxs' = GotTxs /\ AtTx = <<>> /\ AtTx' = << tx >> /\ SentTx' = SentTx
    BY <1>1, <2>4, <2>6 DEF GotTxs, AtTx, SentTx
  <2>8. <<>> \o (txs \o SentTx) = << tx >> \o (Tail(txs) \o SentTx)
    <3> DEFINE rest == Tail(txs)
               sent == SentTx
    <3>1. txs = << tx >> \o rest
      <4>1. txs = << Head(txs) >> \o Tail(txs)
        BY <2>2
      <4>2. QED BY <4>1 DEF tx
    <3>2. rest \in Seq(Transaction)
      BY <2>2, HeadTailProperties
    <3>3. sent \in Seq(Transaction)
      BY PipeFacts
    <3>4. << tx >> \in Seq(Transaction)
      BY <2>3
    <3> HIDE DEF rest, sent
    <3>5. (<< tx >> \o rest) \o sent = << tx >> \o (rest \o sent)
      BY <3>2, <3>3, <3>4, ConcatAssociative
    <3>6. txs \o sent \in Seq(Transaction)
      BY <2>2, <3>3
    <3>7. <<>> \o (txs \o sent) = txs \o sent
      BY <3>6, ConcatEmptySeq
    <3>8. QED BY <3>1, <3>5, <3>7 DEF rest, sent
  <2>9. Pipe' = Pipe
    BY <1>3, <2>7, <2>8 DEF Pipe
  <2>10. QED BY <1>2, <1>3, <2>6, <2>9 DEF CallerMoves, Live
<1>4. ASSUME NEW outcome, StreamReturns(cons, outcome), outcome = "done" => NextIsEOF
      PROVE  CallerMoves
  <2>1. cons' = [cons EXCEPT !.pc = "ended", !.at = None, !.outcome = outcome]
    BY <1>4 DEF StreamReturns
  <2>2. cons'.pc = "ended" /\ cons'.got = cons.got /\ cons'.wire = cons.wire /\ cons'.outcome = outcome
    BY <1>1, <2>1 DEF ConsRec
  <2>3. Scanning => Faithful'
    BY <1>1, <1>2, <1>4, <2>2, LeavesFaithful
  <2>4. QED BY <1>2, <2>2, <2>3 DEF CallerMoves
<1>5. QED
  <2>1. \/ NextIsEOF /\ StreamReturns(cons, "done")
        \/ StreamReturns(cons, "failed")
        \/ NextIsTx /\ txs' = Tail(txs) /\ UNCHANGED <<cancelled, closed>> /\
           \E known \in FetchSchemas(IF Head(txs).truncated THEN <<>> ELSE Head(txs).rows, cons.schema) :
             cons' = [cons EXCEPT !.pc = "deliver", !.schema = known,
                        !.at = [tx |-> Head(txs), stmts |-> GenerateSQL(Head(txs), known)]]
    BY DEF StreamNext
  <2>2. QED BY <1>3, <1>4, <2>1

LEMMA StreamDeliverMoves ==
  ASSUME Types, StreamDeliver
  PROVE  CallerMoves
<1>1. /\ UNCHANGED <<files, filter, source, parse, txs>> /\ UNCHANGED mysqlVars
      /\ cons.pc = "deliver" /\ cons \in ConsRec /\ cons.at \in Result /\ cons.got \in Seq(Result)
  BY ConsFacts DEF StreamDeliver
<1>2. UNCHANGED <<files, filter, source, parse, committed, clock>> /\ Live
  BY <1>1 DEF mysqlVars, Live
<1> DEFINE sent == [cons EXCEPT !.got = Append(@, cons.at), !.at = None]
           at == cons.at
           got == cons.got
           more == Append(got, at)
           n == Len(got)
<1>3. /\ more \in Seq(Result) /\ Len(more) = n + 1 /\ more[n + 1] = at /\ n \in Nat
      /\ \A i \in 1 .. n : more[i] = got[i]
  <2>1. got \in Seq(Result) /\ at \in Result
    BY <1>1
  <2> HIDE DEF got, at
  <2>2. QED BY <2>1, AppendProperties
<1> HIDE DEF more
<1>4. /\ sent.pc = "deliver" /\ sent.got = more /\ sent.wire = cons.wire /\ sent.limit = cons.limit
      /\ sent.outcome = cons.outcome /\ DOMAIN sent = DOMAIN cons
  <2>1. sent = [cons EXCEPT !.got = more, !.at = None]
    BY DEF more
  <2> HIDE DEF sent
  <2>2. QED BY <1>1, <2>1 DEF ConsRec
<1> HIDE DEF sent, at, got, n
<1>5. \/ Len(sent.got) >= cons.limit /\ StreamReturns(sent, "done")
      \/ ~(Len(sent.got) >= cons.limit) /\ cons' = [sent EXCEPT !.pc = "next"] /\ closed' = closed
      \/ StreamReturns(cons, "failed")
  BY DEF StreamDeliver, sent
<1>6. Len(GotTxs) = n /\ GotTxs \in Seq(Transaction) /\ \A i \in 1 .. n : GotTxs[i] = got[i].tx
  BY PipeFacts DEF n, got
<1> DEFINE a == at.tx
           s == Append(GotTxs, a)
<1>7. a \in Transaction
  BY <1>1 DEF at, Result
<1> HIDE DEF a
<1>8. /\ Len(s) = n + 1 /\ s[n + 1] = a /\ s = GotTxs \o << a >>
      /\ \A i \in 1 .. n : s[i] = GotTxs[i]
  BY <1>6, <1>7, AppendProperties
<1> HIDE DEF s
<1>9. \A i \in 1 .. Len(s) : more[i].tx = s[i]
  <2>1. SUFFICES ASSUME NEW i \in 1 .. Len(s) PROVE more[i].tx = s[i]
    OBVIOUS
  <2>2. CASE i \in 1 .. n
    BY <1>3, <1>6, <1>8, <2>2
  <2>3. CASE i = n + 1
    BY <1>3, <1>8, <2>3 DEF a
  <2>4. QED BY <1>3, <1>8, <2>2, <2>3
<1>10. CASE Len(sent.got) >= cons.limit /\ StreamReturns(sent, "done")
  <2>1. cons' = [sent EXCEPT !.pc = "ended", !.at = None, !.outcome = "done"]
    BY <1>10 DEF StreamReturns
  <2>2. /\ cons'.pc = "ended" /\ cons'.got = more /\ cons'.wire = cons.wire
        /\ cons'.limit = cons.limit
    <3>1. DOMAIN sent = {"pc", "kind", "wire", "limit", "got", "at", "schema", "outcome",
                        "order"}
      BY <1>1, <1>4 DEF ConsRec
    <3>2. QED BY <1>4, <2>1, <3>1
  <2>3. Scanning => Faithful'
    <3>1. SUFFICES ASSUME Scanning PROVE Faithful'
      OBVIOUS
    <3>2. Foremost(s)
      BY <1>1, <3>1, GotFaithful DEF s, a, at
    <3>3. cons.limit \in Int
      BY <1>1 DEF ConsRec
    <3>4. ~(Len(s) < cons'.limit)
      BY <1>3, <1>4, <1>8, <1>10, <2>2, <3>3
    <3>5. Len(cons'.got) = Len(s) /\ \A i \in 1 .. Len(s) : cons'.got[i].tx = s[i]
      BY <1>3, <1>8, <1>9, <2>2
    <3>6. QED BY <1>2, <2>2, <3>2, <3>4, <3>5, FaithfulFrom
  <2>4. QED BY <1>2, <2>2, <2>3 DEF CallerMoves
<1>11. CASE cons' = [sent EXCEPT !.pc = "next"] /\ closed' = closed
  <2>1. /\ cons'.pc = "next" /\ cons'.got = more /\ cons'.wire = cons.wire
        /\ cons'.outcome = cons.outcome
    <3>1. DOMAIN sent = {"pc", "kind", "wire", "limit", "got", "at", "schema", "outcome",
                        "order"}
      BY <1>1, <1>4 DEF ConsRec
    <3>2. QED BY <1>4, <1>11, <3>1
  <2>2. AtTx = << a >> /\ AtTx' = <<>> /\ SentTx' = SentTx
    BY <1>1, <2>1 DEF AtTx, SentTx, a, at
  <2>3. GotTxs' = s
    <3>1. GotTxs' = [i \in 1 .. Len(more) |-> more[i].tx]
      BY <2>1 DEF GotTxs
    <3>2. s \in Seq(Transaction)
      BY <1>6, <1>7, AppendProperties DEF s
    <3>3. s = [i \in 1 .. Len(s) |-> s[i]]
      BY <3>2
    <3>4. Len(more) = Len(s)
      BY <1>3, <1>8
    <3>5. QED BY <1>9, <3>1, <3>3, <3>4
  <2>4. Pipe' = Pipe
    <3> DEFINE g == GotTxs
               rest == txs \o SentTx
    <3>1. g \in Seq(Transaction) /\ << a >> \in Seq(Transaction)
      BY <1>6, <1>7
    <3>2. txs \in Seq(Transaction) /\ SentTx \in Seq(Transaction)
      BY PipeFacts
    <3>3. rest \in Seq(Transaction)
      BY <3>2
    <3>4. Pipe = g \o (<< a >> \o rest) /\ Pipe' = s \o (<<>> \o rest)
      BY <1>1, <2>2, <2>3 DEF Pipe
    <3>5. s = g \o << a >>
      BY <1>8
    <3> HIDE DEF g, rest
    <3>6. (g \o << a >>) \o rest = g \o (<< a >> \o rest)
      BY <3>1, <3>3, ConcatAssociative
    <3>7. <<>> \o rest = rest
      BY <3>3, ConcatEmptySeq
    <3>8. QED BY <3>4, <3>5, <3>6, <3>7
  <2>5. QED BY <1>2, <1>11, <2>1, <2>4 DEF CallerMoves, Live
<1>12. CASE StreamReturns(cons, "failed")
  <2>1. cons' = [cons EXCEPT !.pc = "ended", !.at = None, !.outcome = "failed"]
    BY <1>12 DEF StreamReturns
  <2>2. /\ cons'.pc = "ended" /\ cons'.got = cons.got /\ cons'.wire = cons.wire
        /\ cons'.outcome = "failed"
    BY <1>1, <2>1 DEF ConsRec
  <2>3. Scanning => Faithful'
    BY <1>2, <2>2, LeavesFaithful
  <2>4. QED BY <1>2, <2>2, <2>3 DEF CallerMoves
<1>13. QED BY <1>5, <1>10, <1>11, <1>12

LEMMA FlashbackNextMoves ==
  ASSUME Types, FlashbackNext
  PROVE  CallerMoves
<1>1. /\ UNCHANGED <<files, filter, source, parse>> /\ UNCHANGED mysqlVars
      /\ cons.pc = "next" /\ cons \in ConsRec /\ cons.got \in Seq(Result)
  BY ConsFacts DEF FlashbackNext
<1>2. UNCHANGED <<files, filter, source, parse, committed, clock>> /\ Live
  BY <1>1 DEF mysqlVars, Live
<1> DEFINE got == cons.got
           n == Len(got)
<1>3. Len(GotTxs) = n /\ n \in Nat /\ \A i \in 1 .. n : GotTxs[i] = got[i].tx
  BY PipeFacts
<1>4. CASE NextIsTx /\ txs' = Tail(txs) /\ UNCHANGED closed /\
           \E known \in FetchSchemas(Head(txs).rows, cons.schema) :
             cons' = [cons EXCEPT !.schema = known,
                                  !.got = Append(@, [tx |-> Head(txs), stmts |-> <<>>])]
  <2> DEFINE tx == Head(txs)
             r == [tx |-> tx, stmts |-> <<>>]
             more == Append(got, r)
             rest == Tail(txs)
  <2>1. PICK known : cons' = [cons EXCEPT !.schema = known, !.got = more]
    BY <1>4
  <2>2. txs \in Seq(Transaction) /\ txs # <<>>
    BY <1>4, PipeFacts DEF NextIsTx
  <2>3. tx \in Transaction /\ rest \in Seq(Transaction)
    BY <2>2, HeadTailProperties
  <2>4. r \in Result /\ r.tx = tx
    BY <2>3, ResultType, <<>> \in Seq(Statement)
  <2>5. txs = << tx >> \o rest
    BY <2>2
  <2> HIDE DEF tx, r, rest
  <2>6. /\ more \in Seq(Result) /\ Len(more) = n + 1 /\ more[n + 1] = r
        /\ \A i \in 1 .. n : more[i] = got[i]
    <3>1. got \in Seq(Result)
      BY <1>1
    <3> HIDE DEF got
    <3>2. QED BY <2>4, <3>1, AppendProperties
  <2> HIDE DEF more, got, n
  <2>7. /\ cons'.pc = "next" /\ cons'.got = more /\ cons'.wire = cons.wire
        /\ cons'.outcome = cons.outcome
    BY <1>1, <2>1 DEF ConsRec
  <2>8. AtTx = <<>> /\ AtTx' = <<>> /\ SentTx' = SentTx
    BY <1>1, <2>7 DEF AtTx, SentTx
  <2> DEFINE g == GotTxs
             s == Append(g, tx)
             sent == SentTx
  <2>9. g \in Seq(Transaction)
    BY PipeFacts
  <2>10. sent \in Seq(Transaction)
    BY PipeFacts
  <2>11. Len(g) = n /\ \A i \in 1 .. n : g[i] = got[i].tx
    BY <1>3
  <2>12. GotTxs' = [i \in 1 .. Len(more) |-> more[i].tx]
    BY <2>7 DEF GotTxs
  <2>13. Pipe = g \o (<<>> \o (txs \o sent)) /\ Pipe' = GotTxs' \o (<<>> \o (rest \o sent))
    BY <1>4, <2>8 DEF Pipe, rest
  <2> HIDE DEF g, sent
  <2>14. /\ s \in Seq(Transaction) /\ Len(s) = n + 1 /\ s[n + 1] = tx /\ s = g \o << tx >>
         /\ \A i \in 1 .. n : s[i] = g[i]
    <3>1. s = g \o << tx >>
      BY <2>3, <2>9
    <3>2. s \in Seq(Transaction) /\ Len(s) = Len(g) + 1 /\ s[Len(g) + 1] = tx
          /\ \A i \in 1 .. Len(g) : s[i] = g[i]
      BY <2>3, <2>9, AppendProperties
    <3>3. Len(g) = n
      BY <2>11
    <3>4. QED BY <3>1, <3>2, <3>3
  <2> HIDE DEF s
  <2>15. GotTxs' = s
    <3>1. ASSUME NEW i \in 1 .. n + 1 PROVE more[i].tx = s[i]
      <4>1. CASE i \in 1 .. n
        BY <2>6, <2>11, <2>14, <4>1
      <4>2. CASE i = n + 1
        BY <2>4, <2>6, <2>14, <4>2
      <4>3. QED BY <1>3, <4>1, <4>2
    <3>2. s = [i \in 1 .. Len(s) |-> s[i]]
      BY <2>14
    <3>3. Len(s) = n + 1 /\ Len(more) = n + 1
      BY <2>6, <2>14
    <3>4. QED BY <2>12, <3>1, <3>2, <3>3
  <2>16. Pipe' = Pipe
    <3>1. << tx >> \in Seq(Transaction)
      BY <2>3
    <3>2. rest \o sent \in Seq(Transaction) /\ txs \o sent \in Seq(Transaction)
      BY <2>2, <2>3, <2>10
    <3>3. <<>> \o (txs \o sent) = txs \o sent /\ <<>> \o (rest \o sent) = rest \o sent
      BY <3>2, ConcatEmptySeq
    <3>4. txs \o sent = << tx >> \o (rest \o sent)
      BY <2>3, <2>5, <2>10, <3>1, ConcatAssociative
    <3>5. g \o (<< tx >> \o (rest \o sent)) = (g \o << tx >>) \o (rest \o sent)
      <4> DEFINE behind == rest \o sent
      <4>1. behind \in Seq(Transaction)
        BY <3>2
      <4> HIDE DEF behind
      <4>2. g \o (<< tx >> \o behind) = (g \o << tx >>) \o behind
        BY <2>9, <3>1, <4>1, ConcatAssociative
      <4>3. QED BY <4>2 DEF behind
    <3>6. QED BY <2>13, <2>14, <2>15, <3>3, <3>4, <3>5
  <2>17. QED BY <1>2, <1>4, <2>7, <2>16 DEF CallerMoves, Live
<1>5. CASE /\ NextIsEOF
           /\ cons' = [cons EXCEPT !.pc = "ended",
                !.outcome = IF cons.got = <<>> THEN "failed" ELSE "done",
                !.got = [i \in 1 .. Len(@) |->
                           [tx |-> @[i].tx, stmts |-> Generate(@[i].tx.rows, cons.schema)]]]
  <2> DEFINE R(i) == [tx |-> got[i].tx, stmts |-> Generate(got[i].tx.rows, cons.schema)]
             all == [i \in 1 .. n |-> R(i)]
             outcome == IF got = <<>> THEN "failed" ELSE "done"
  <2>1. cons' = [cons EXCEPT !.pc = "ended", !.outcome = outcome, !.got = all]
    BY <1>5
  <2>2. \A i \in 1 .. n : R(i).tx = got[i].tx
    OBVIOUS
  <2> HIDE DEF R, outcome
  <2>3. Len(all) = n /\ \A i \in 1 .. n : all[i].tx = got[i].tx
    BY <1>3, <2>2
  <2> HIDE DEF all
  <2>4. cons'.pc = "ended" /\ cons'.wire = cons.wire /\ cons'.got = all
    BY <1>1, <2>1 DEF ConsRec
  <2>5. Scanning => Faithful'
    BY <1>1, <1>2, <1>5, <2>3, <2>4, LeavesFaithful
  <2>6. QED BY <1>2, <2>4, <2>5 DEF CallerMoves
<1>6. CASE cons' = [cons EXCEPT !.pc = "ended", !.outcome = "failed"]
  <2>1. /\ cons'.pc = "ended" /\ cons'.got = cons.got /\ cons'.wire = cons.wire
        /\ cons'.outcome = "failed"
    BY <1>1, <1>6 DEF ConsRec
  <2>2. Scanning => Faithful'
    BY <1>2, <2>1, LeavesFaithful
  <2>3. QED BY <1>2, <2>1, <2>2 DEF CallerMoves
<1>7. QED
  <2> HIDE DEF got, n
  <2>1. QED BY <1>4, <1>5, <1>6 DEF FlashbackNext

LEMMA RecoversMoves ==
  ASSUME Types, Recovers
  PROVE  CallerMoves
BY StreamNextMoves, StreamDeliverMoves, FlashbackNextMoves DEF Recovers

\* Everything that a faithful result is about.
LEMMA FaithfulStays ==
  ASSUME UNCHANGED committed, cons'.got = cons.got, cons'.wire = cons.wire,
         cons'.outcome = cons.outcome, cons'.limit = cons.limit, Faithful
  PROVE  Faithful'
<1>1. WantedTxs' = WantedTxs
  BY DEF WantedTxs
<1>2. QED BY <1>1 DEF Faithful

LEMMA ContextFrom ==
  ASSUME Types, ScanInv, Premise
  PROVE  Context
BY DEF ScanInv, CallerState, Premise, Context, ClockRuns

\* The log and the filter stay once a scan was started.
LEMMA PremiseStays ==
  ASSUME UNCHANGED <<files, filter, committed, clock>>, ScanInv
  PROVE  (Premise' <=> Premise) /\ (NoTorn' => LogShape(files, committed, clock)')
<1>1. (NoTorn' <=> NoTorn) /\ (StartsAtBoundary' <=> StartsAtBoundary)
  BY DEF NoTorn, StartsAtBoundary
<1>2. Premise' <=> Premise
  BY <1>1 DEF Premise
<1>3. NoTorn => LogShape(files, committed, clock)
  BY DEF ScanInv
<1>4. QED BY <1>1, <1>2, <1>3

LEMMA AskedStays ==
  ASSUME filter' = filter, cons'.wire = cons.wire, Asked
  PROVE  Asked'
BY DEF Asked

LEMMA MovesKeep ==
  ASSUME Types, ScanInv, CallerMoves
  PROVE  ScanInv'
<1>1. /\ UNCHANGED <<files, filter, source, parse, committed, clock>> /\ cons'.wire = cons.wire
      /\ Live
  BY DEF CallerMoves
<1>2. (Premise' <=> Premise) /\ (NoTorn' => LogShape(files, committed, clock)')
  BY <1>1, PremiseStays
<1>3. CallerState /\ (Premise => Scanning)
  BY <1>1 DEF ScanInv
<1>4. ~closed
  BY <1>1, <1>3 DEF CallerState, Live
<1>5. Asked' \/ filter' = None
  BY <1>1, <1>3, AskedStays DEF CallerState
<1>6. CASE Live' /\ closed' = closed /\ cons'.outcome = cons.outcome /\ Pipe' = Pipe
  <2>1. Premise' => Scanning'
    BY <1>1, <1>2, <1>3, <1>6, CallerScans
  <2>2. CallerState'
    BY <1>1, <1>3, <1>4, <1>5, <1>6 DEF CallerState, Live, Working
  <2>3. QED BY <1>2, <1>6, <2>1, <2>2 DEF ScanInv, Live
<1>7. CASE cons'.pc = "ended" /\ (Scanning => Faithful')
  <2>1. CallerState'
    BY <1>1, <1>3, <1>5, <1>7 DEF CallerState, Live, Working
  <2>2. QED BY <1>2, <1>3, <1>7, <2>1 DEF ScanInv, Live
<1>8. QED BY <1>6, <1>7 DEF CallerMoves

LEMMA CancelKeeps ==
  ASSUME Types, ScanInv, Cancel
  PROVE  ScanInv'
<1>1. UNCHANGED <<files, filter, closed, source, parse, txs, cons>> /\ UNCHANGED mysqlVars
  BY DEF Cancel
<1>2. UNCHANGED <<files, filter, source, parse, committed, clock>> /\ cons'.wire = cons.wire
  BY <1>1 DEF mysqlVars
<1>3. (Premise' <=> Premise) /\ (NoTorn' => LogShape(files, committed, clock)')
  BY <1>2, PremiseStays
<1>4. Pipe' = Pipe
  BY <1>1 DEF Pipe, GotTxs, AtTx, SentTx
<1>5. Premise' /\ Live' => Scanning'
  BY <1>1, <1>2, <1>3, <1>4, CallerScans DEF ScanInv, Live
<1>6. Premise' /\ cons'.pc \in {"ended", "executed"} => Faithful'
  BY <1>1, <1>2, <1>3, FaithfulStays DEF ScanInv
<1>7. CallerState'
  BY <1>1, <1>2, AskedStays DEF ScanInv, CallerState, Live, Working
<1>8. QED BY <1>3, <1>5, <1>6, <1>7 DEF ScanInv

LEMMA ExecuteKeeps ==
  ASSUME Types, ScanInv, Execute
  PROVE  ScanInv'
<1>1. PICK order \in Orders :
        /\ cons' = [cons EXCEPT !.pc = "executed", !.order = order]
        /\ cons.pc = "ended" /\ cons \in ConsRec
        /\ UNCHANGED <<files, filter, closed, source, parse, txs>> /\ UNCHANGED <<clock, committed>>
  BY ConsFacts DEF Execute, scanVars
<1>2. /\ cons'.pc = "executed" /\ cons'.got = cons.got /\ cons'.wire = cons.wire
      /\ cons'.outcome = cons.outcome /\ cons'.limit = cons.limit
  BY <1>1 DEF ConsRec
<1>3. (Premise' <=> Premise) /\ (NoTorn' => LogShape(files, committed, clock)')
  BY <1>1, PremiseStays
<1>4. Premise' => Faithful'
  BY <1>1, <1>2, <1>3, FaithfulStays DEF ScanInv
<1>5. CallerState'
  BY <1>1, <1>2, AskedStays DEF ScanInv, CallerState, Live, Working
<1>6. QED BY <1>2, <1>3, <1>4, <1>5 DEF ScanInv, Live

-----------------------------------------------------------------------------
(* A scan starts. *)

LEMMA NoneWanted ==
  ASSUME NEW log \in Seq(Commitment), NEW w, NEW n \in 0 .. Len(log),
         \A i \in 1 .. n : ~Wanted(log[i], w)
  PROVE  WantedOf(log, w)[n] = <<>>
<1> DEFINE W == WantedOf(log, w)
           P == {k \in Nat : k <= n => W[k] = <<>>}
<1>1. W[0] = <<>> /\ \A i \in 1 .. Len(log) : W[i] = WantedStep(log, w, W[i - 1], i)
  BY WantedOfIs
<1> HIDE DEF W
<1>2. n \in Nat /\ n <= Len(log) /\ Len(log) \in Nat
  OBVIOUS
<1>3. 0 \in P
  BY <1>1
<1>4. ASSUME NEW k \in Nat, k \in P PROVE k + 1 \in P
  <2>1. SUFFICES ASSUME k + 1 <= n PROVE W[k + 1] = <<>>
    OBVIOUS
  <2>2. W[k] = <<>> /\ k + 1 \in 1 .. Len(log) /\ k + 1 \in 1 .. n /\ (k + 1) - 1 = k
    BY <1>2, <1>4, <2>1
  <2>3. W[k + 1] = WantedStep(log, w, W[k], k + 1)
    BY <1>1, <2>2
  <2>4. ~Wanted(log[k + 1], w)
    BY <2>2
  <2>5. QED BY <2>2, <2>3, <2>4 DEF WantedStep
<1> HIDE DEF P
<1>5. \A k \in Nat : k \in P
  BY <1>3, <1>4, Induction
<1>6. QED BY <1>2, <1>5 DEF P, W

LEMMA StartFacts ==
  ASSUME NEW w, NEW f, \/ w \in {v[1] : v \in Requests} /\ f = WsFilterToBinlog(w)
                       \/ w \in FlashFilters /\ f = w
  PROVE  f.start = w.start /\ f.end = w.end /\ f.start \in Nat \X Nat /\ f.end \in Nat \X Nat
<1>1. CASE w \in {v[1] : v \in Requests} /\ f = WsFilterToBinlog(w)
  <2>1. PICK v \in Requests : w = v[1]
    BY <1>1
  <2>2. w \in [range : Bound \X Bound, gtids : {w.gtids}, selected : {w.selected},
               tables : {w.tables}, start : Nat \X Nat, end : Nat \X Nat, maxRows : Nat]
    BY <2>1, RecoveryAssumption DEF RecoveryAssumption
  <2>3. f.start = w.start /\ f.end = w.end
    BY <1>1, <2>2 DEF WsFilterToBinlog
  <2>4. QED BY <2>2, <2>3
<1>2. CASE w \in FlashFilters /\ f = w
  BY <1>2 DEF FlashFilters, FlashFilter
<1>3. QED BY <1>1, <1>2

\* The files that a scan reads.
LEMMA StartFiles ==
  ASSUME Types, NEW f, f.start \in Nat \X Nat, f.end \in Nat \X Nat, ScanStarts(f)
  PROVE  /\ filter' = f /\ UNCHANGED <<files, cancelled, closed, source, txs>>
         /\ parse'.pc = "open" /\ parse'.pending = None
         /\ parse'.file = IF f.start[1] = 0 THEN 1 ELSE f.start[1]
         /\ parse'.last = IF f.end[1] = 0 THEN Len(files) ELSE f.end[1]
<1> DEFINE lo == IF f.start[1] = 0 THEN 1 ELSE f.start[1]
           hi == IF f.end[1] = 0 THEN Len(files) ELSE f.end[1]
<1>1. PICK range : range = EnumerateBinlogFiles(f) /\ range # None
        /\ parse' = [NotParsing EXCEPT !.pc = "open", !.file = range[1], !.last = range[2]]
        /\ filter' = f /\ UNCHANGED <<files, cancelled, closed, source, txs>>
  BY DEF ScanStarts
<1>2. EnumerateBinlogFiles(f) = IF files = <<>> \/ lo > Len(files) \/ hi > Len(files) \/ lo > hi
                                THEN None ELSE <<lo, hi>>
  BY DEF EnumerateBinlogFiles
<1> HIDE DEF lo, hi
<1>3. range[1] = lo /\ range[2] = hi
  BY <1>1, <1>2
<1>4. parse' = [NotParsing EXCEPT !.pc = "open", !.file = lo, !.last = hi]
  BY <1>1, <1>3
<1>5. parse'.pc = "open" /\ parse'.pending = None /\ parse'.file = lo /\ parse'.last = hi
  BY <1>4 DEF NotParsing
<1>6. QED BY <1>1, <1>5 DEF lo, hi

LEMMA StartScans ==
  ASSUME Types, ScanInv, Working, ~Working', NEW w, NEW f, ScanStarts(f), UNCHANGED mysqlVars,
         \/ w \in {v[1] : v \in Requests} /\ f = WsFilterToBinlog(w)
         \/ w \in FlashFilters /\ f = w,
         cons'.pc = "next", cons'.got = <<>>, cons'.wire = w, cons'.outcome = None
  PROVE  ScanInv'
<1>1. f.start = w.start /\ f.end = w.end /\ f.start \in Nat \X Nat /\ f.end \in Nat \X Nat
  BY StartFacts
<1>2. f.start[1] \in Nat /\ f.start[2] \in Nat
  BY <1>1
<1>3. /\ filter' = f /\ UNCHANGED <<files, cancelled, closed, source, txs>>
      /\ parse'.pc = "open" /\ parse'.pending = None
      /\ parse'.file = IF f.start[1] = 0 THEN 1 ELSE f.start[1]
      /\ parse'.last = IF f.end[1] = 0 THEN Len(files) ELSE f.end[1]
  BY <1>1, StartFiles
<1>4. CallerState /\ (NoTorn => LogShape(files, committed, clock)) /\ UNCHANGED <<committed, clock>>
  BY DEF ScanInv, mysqlVars
<1>5. txs = <<>> /\ ~closed /\ closed' = closed
  BY <1>3, <1>4 DEF CallerState, Working
<1>6. Asked'
  BY <1>3 DEF Asked
<1>7. CallerState'
  BY <1>3, <1>4, <1>5, <1>6 DEF CallerState, Live, Working
<1>8. (NoTorn' <=> NoTorn) /\ (NoTorn' => LogShape(files, committed, clock)')
  BY <1>3, <1>4 DEF NoTorn
<1>9. ASSUME Premise' PROVE Scanning'
  <2>1. LogShape(files, committed, clock) /\ StartsAtBoundary'
    BY <1>4, <1>8, <1>9 DEF Premise
  <2>2. committed \in Seq(Commitment)
    BY DEF Types, LogType
  <2> DEFINE g == parse'.file
             o == IF f.start[1] = g THEN f.start[2] ELSE 0
             p == o + 1
  <2>3. g \in Nat /\ o \in Nat /\ p \in Int /\ g >= f.start[1]
    BY <1>2, <1>3
  <2>4. PICK n \in 0 .. Len(committed) : Split(committed, n, g, p)
    <3> HIDE DEF g, p
    <3>1. g \in Int /\ p \in Int
      BY <2>3
    <3>2. QED BY <2>1, <2>2, <3>1, SplitExists
  <2>5. ~InFile' /\ ~Sending(parse')
    BY <1>3 DEF InFile, Sending
  <2>6. Offset' = o
    BY <1>3 DEF Offset
  <2>7. Pos' = p
    BY <2>5, <2>6 DEF Pos
  <2>8. InRange'
    BY <1>3, <2>3 DEF InRange
  <2>9. \A i \in 1 .. n : ~Wanted(committed[i], w)
    <3>1. SUFFICES ASSUME NEW i \in 1 .. n PROVE ~Wanted(committed[i], w)
      OBVIOUS
    <3>2. i \in 1 .. Len(committed) /\ i <= n
      BY <2>4
    <3>3. g = IF w.start[1] = 0 THEN 1 ELSE w.start[1]
      BY <1>1, <1>3
    <3>4. p = (IF w.start[1] = g THEN w.start[2] ELSE 0) + 1
      BY <1>1
    <3>5. w.start[1] \in Nat /\ w.start[2] \in Nat
      BY <1>1, <1>2
    <3> HIDE DEF g, p
    <3>6. QED BY <2>1, <2>2, <2>4, <3>2, <3>3, <3>4, <3>5, StartUnwanted
  <2>10. WantedOf(committed, w)[n] = <<>>
    BY <2>2, <2>9, NoneWanted
  <2>11. Pipe' = <<>>
    <3>1. GotTxs' = <<>>
      BY Len(<<>>) = 0 DEF GotTxs
    <3>2. AtTx' = <<>> /\ txs' = <<>> /\ SentTx' = <<>>
      BY <1>3, <1>5, <2>5 DEF AtTx, SentTx
    <3>3. <<>> \o (<<>> \o (<<>> \o <<>>)) = <<>>
      BY ConcatEmptySeq, <<>> \in Seq(Transaction)
    <3>4. QED BY <3>1, <3>2, <3>3 DEF Pipe
  <2>12. Agrees(<<>>, <<>>, w)
    BY Len(<<>>) = 0 DEF Agrees
  <2>13. Ahead(committed, n, g, p)
    <3>1. SUFFICES ASSUME n < Len(committed), committed[n + 1].file = g
                   PROVE  committed[n + 1].first >= p
      BY DEF Ahead
    <3> DEFINE c == committed[n + 1]
    <3>2. n + 1 \in 1 .. Len(committed)
      BY <3>1
    <3>3. c.first \in Nat /\ c.last \in Nat /\ 1 <= c.first /\ c.file = g
      BY <2>1, <2>2, <3>1, <3>2, LogFacts
    <3>4. ~EndsBefore(c, g, p)
      BY <2>4, <3>2 DEF Split
    <3>5. f.start[1] = c.file => ~(c.first <= f.start[2] /\ f.start[2] < c.last)
      <4>1. StartsAtBoundary' <=> \A i \in 1 .. Len(committed) :
              f.start[1] = committed[i].file =>
                ~(committed[i].first <= f.start[2] /\ f.start[2] < committed[i].last)
        BY <1>3, <1>4 DEF StartsAtBoundary
      <4>2. QED BY <2>1, <3>2, <4>1
    <3>6. c.last >= p
      BY <2>3, <3>3, <3>4 DEF EndsBefore
    <3> HIDE DEF c
    <3>7. c.first >= p
      <4>1. CASE f.start[1] = g
        BY <1>2, <3>3, <3>5, <3>6, <4>1
      <4>2. CASE f.start[1] # g
        BY <3>3, <4>2
      <4>3. QED BY <4>1, <4>2
    <3>8. QED BY <3>7 DEF c
  <2>14. Place(files', committed', n, Pos', parse', Offset')
    BY <1>3, <1>4, <2>4, <2>7, <2>13 DEF Place
  <2> HIDE DEF g, p, o
  <2>15. Agrees(Pipe', WantedOf(committed', cons'.wire)[n], cons'.wire)
    BY <1>4, <2>10, <2>11, <2>12
  <2>16. parse'.pc # "ended" /\ n \in 0 .. Len(committed')
    BY <1>3, <1>4
  <2>17. Progress'
    BY <2>14, <2>15, <2>16 DEF Progress
  <2>18. QED BY <2>5, <2>8, <2>17 DEF Scanning
<1>10. QED BY <1>7, <1>8, <1>9 DEF ScanInv, Live

LEMMA StartStreamKeeps ==
  ASSUME Types, ScanInv, NEW v \in Requests, StartStream(v[1], v[2])
  PROVE  ScanInv'
<1> DEFINE w == v[1]
           f == WsFilterToBinlog(w)
           max == IF v[2] <= 0 THEN DefaultPreview ELSE v[2]
           new == [Idle EXCEPT !.pc = "next", !.kind = "stream", !.wire = w, !.limit = max]
<1>1. /\ \/ ScanStarts(f) /\ cons' = new
         \/ cons' = [new EXCEPT !.pc = "ended", !.outcome = "failed"] /\ UNCHANGED scanVars
      /\ Working /\ UNCHANGED mysqlVars
  BY DEF StartStream
<1>2. w \in {u[1] : u \in Requests} /\ f = WsFilterToBinlog(w)
  OBVIOUS
<1> HIDE DEF f, max, w
<1>3. new.pc = "next" /\ new.got = <<>> /\ new.wire = w /\ new.outcome = None
  BY DEF Idle
<1>4. [new EXCEPT !.pc = "ended", !.outcome = "failed"].pc = "ended"
  BY DEF Idle
<1> HIDE DEF new
<1>5. CASE ScanStarts(f) /\ cons' = new
  <2>1. ~Working'
    BY <1>3, <1>5 DEF Working
  <2>2. QED BY <1>1, <1>2, <1>3, <1>5, <2>1, StartScans
<1>6. CASE cons' = [new EXCEPT !.pc = "ended", !.outcome = "failed"] /\ UNCHANGED scanVars
  <2>1. UNCHANGED <<files, filter, closed, parse, committed, clock>>
    BY <1>1, <1>6 DEF scanVars, mysqlVars
  <2>2. CallerState /\ filter = None
    BY <1>1 DEF ScanInv, CallerState
  <2>3. ~Premise'
    BY <2>1, <2>2 DEF Premise
  <2>4. NoTorn' => LogShape(files, committed, clock)'
    BY <2>1, PremiseStays
  <2>5. CallerState'
    BY <1>4, <1>6, <2>1, <2>2 DEF CallerState, Live, Working
  <2>6. QED BY <2>3, <2>4, <2>5 DEF ScanInv
<1>7. QED BY <1>1, <1>5, <1>6

LEMMA RunFlashbackKeeps ==
  ASSUME Types, ScanInv, NEW v \in Flashbacks, RunFlashback(v[1], v[2])
  PROVE  ScanInv'
<1> DEFINE g == FlashFilter(v[1], v[2])
           limit == Len(committed) + 2
<1>1. /\ ScanStarts(g)
      /\ cons' = [Idle EXCEPT !.pc = "next", !.kind = "flashback", !.wire = g, !.limit = limit]
      /\ Working /\ UNCHANGED mysqlVars
  BY DEF RunFlashback, FlashFilter
<1>2. g \in FlashFilters
  BY DEF FlashFilters
<1> HIDE DEF g, limit
<1>3. cons'.pc = "next" /\ cons'.got = <<>> /\ cons'.wire = g /\ cons'.outcome = None
  BY <1>1 DEF Idle
<1>4. ~Working'
  BY <1>3 DEF Working
<1>5. QED BY <1>1, <1>2, <1>3, <1>4, StartScans

-----------------------------------------------------------------------------
(* What a scan finds holds throughout. *)

LEMMA ScanInvInit == Init => ScanInv
<1> SUFFICES ASSUME Init PROVE ScanInv
  OBVIOUS
<1>1. /\ cons = Idle /\ filter = None /\ txs = <<>> /\ closed = FALSE /\ clock = 1
  BY DEF Init, ScannerInit
<1>2. cons.pc = "idle" /\ cons.outcome = None
  BY <1>1 DEF Idle
<1>3. MaxTime \in Nat \ {0}
  BY ScannerAssumption DEF ScannerAssumption
<1>4. CallerState
  BY <1>1, <1>2, <1>3 DEF CallerState, Live, Working
<1>5. QED BY <1>2, <1>4, ShapeInit DEF ScanInv, Live

LEMMA ClockStays ==
  ASSUME Types, LogStep, 1 <= clock, clock <= MaxTime
  PROVE  1 <= clock' /\ clock' <= MaxTime
<1>1. clock \in Nat /\ MaxTime \in Nat
  BY ScannerAssumption DEF Types, LogType, ScannerAssumption
<1>2. clock' = clock \/ (clock < MaxTime /\ clock' = clock + 1)
  BY DEF LogStep, Change, SetSavepoint, Ddl, Rotate, Tick, Commit, mysqlVars
<1>3. QED BY <1>1, <1>2

LEMMA TornStays ==
  ASSUME Types, LogStep, NoTorn'
  PROVE  NoTorn
<1>1. committed \in Seq(Commitment)
  BY DEF Types, LogType
<1>2. CASE \E s \in 1 .. MaxTime : Commit(s)
  <2>1. PICK c : committed' = Append(committed, c)
    BY <1>2 DEF Commit
  <2>2. Len(committed') = Len(committed) + 1 /\ \A i \in 1 .. Len(committed) : committed'[i] = committed[i]
    BY <1>1, <2>1
  <2>3. Len(committed) \in Nat
    BY <1>1
  <2>4. QED BY <2>2, <2>3 DEF NoTorn
<1>3. CASE ~\E s \in 1 .. MaxTime : Commit(s)
  <2>1. committed' = committed
    BY <1>3 DEF LogStep, Change, SetSavepoint, Ddl, Rotate, Tick, mysqlVars
  <2>2. QED BY <2>1 DEF NoTorn
<1>4. QED BY <1>2, <1>3

LEMMA LogStepKeeps ==
  ASSUME Types, ScanInv, LogStep
  PROVE  ScanInv'
<1>1. UNCHANGED <<filter, cancelled, closed, source, parse, txs, cons>>
  BY LogKeepsTypes
<1>2. Working
  BY DEF LogStep, Change, SetSavepoint, Ddl, Rotate, Tick, Commit
<1>3. CallerState /\ ClockRuns /\ (NoTorn => LogShape(files, committed, clock))
  BY DEF ScanInv, CallerState, ClockRuns
<1>4. NoTorn' => LogShape(files', committed', clock')
  BY <1>3, LogStepShape
<1>5. 1 <= clock' /\ clock' <= MaxTime
  BY <1>3, ClockStays DEF ClockRuns
<1>6. CallerState'
  BY <1>1, <1>2, <1>3, <1>5 DEF CallerState, Live, Working
<1>7. ~Live' /\ cons'.pc \notin {"ended", "executed"}
  BY <1>1, <1>2 DEF Live, Working
<1>8. QED BY <1>4, <1>6, <1>7 DEF ScanInv

LEMMA ParseGoesOn ==
  ASSUME Types, ParseRuns
  PROVE  parse'.pc # "idle"
<1>1. parse \in ParseRec
  BY ScanFacts
<1>2. ASSUME NEW err, ParseEnd(err) PROVE parse'.pc # "idle"
  BY <1>1, <1>2 DEF ParseEnd, ParseRec
<1>3. CASE OpenFileSource
  BY <1>1, <1>2, <1>3 DEF OpenFileSource, ParseRec
<1>4. CASE ParseCheck
  BY <1>1, <1>2, <1>4 DEF ParseCheck, ParseRec
<1>5. CASE ParseNext
  <2>1. CASE parse' = HandleEvent(Head(source.evs))
    <3> DEFINE e == Head(source.evs)
    <3>1. parse' = HandleEvent(e)
      BY <2>1
    <3> HIDE DEF e
    <3>2. QED BY <1>1, <3>1, HandleEventGoesOn
  <2>2. CASE FileDone
    BY <1>1, <1>2, <2>2 DEF FileDone, ParseRec
  <2>3. QED BY <1>2, <1>5, <2>1, <2>2 DEF ParseNext
<1>6. CASE ParseSend
  BY <1>1, <1>6 DEF ParseSend, ParseRec
<1>7. CASE ParseDrop
  BY <1>1, <1>7 DEF ParseDrop, ParseRec
<1>8. QED BY <1>3, <1>4, <1>5, <1>6, <1>7 DEF ParseRuns

LEMMA ScannerKeeps ==
  ASSUME Types, Types', ScanInv, SourceRuns \/ ParseRuns, UNCHANGED <<mysqlVars, cons>>
  PROVE  ScanInv'
<1>1. Still
  BY SourceKeepsTypes, ParseKeepsTypes DEF Still
<1>2. UNCHANGED <<files, filter, cancelled, closed, cons, committed, clock>> /\ (Live' <=> Live)
  BY <1>1, StillFacts
<1>3. (Premise' <=> Premise) /\ (NoTorn' => LogShape(files, committed, clock)')
  BY <1>2, PremiseStays
<1>4. CallerState
  BY DEF ScanInv
<1>5. filter # None => parse'.pc # "idle"
  <2>1. SourceRuns => parse' = parse
    BY DEF SourceRuns, SourceSend, SourceEnd
  <2>2. QED BY <1>4, <2>1, ParseGoesOn DEF CallerState
<1>6. Working => txs' = <<>>
  <2>1. Working => parse.pc = "idle" /\ source.pc = "none"
    BY DEF Types, Started
  <2>2. ~Working
    BY <2>1 DEF SourceRuns, SourceSend, SourceEnd, ParseRuns, OpenFileSource, ParseCheck, ParseNext,
                ParseSend, ParseDrop, Parsing
  <2>3. QED BY <2>2
<1>7. Asked' <=> Asked
  BY <1>2 DEF Asked
<1>8. CallerState'
  BY <1>2, <1>4, <1>5, <1>6, <1>7 DEF CallerState, Working
<1>9. ASSUME Premise', Live' PROVE Scanning'
  <2>1. Premise /\ Live
    BY <1>2, <1>3, <1>9
  <2>2. Scanning /\ ~closed
    BY <1>4, <2>1 DEF ScanInv, CallerState, Live
  <2>3. Context
    BY <2>1, ContextFrom
  <2>4. QED BY <1>1, <2>2, <2>3, ScannerScans
<1>10. Premise' /\ cons'.pc \in {"ended", "executed"} => Faithful'
  BY <1>2, <1>3, FaithfulStays DEF ScanInv
<1>11. QED BY <1>3, <1>8, <1>9, <1>10 DEF ScanInv

LEMMA ScanInvKept ==
  ASSUME Types, Types', ScanInv, [Next]_vars
  PROVE  ScanInv'
<1>1. CASE CallStep
  BY <1>1, StartStreamKeeps, RunFlashbackKeeps, RecoversMoves, MovesKeep, CancelKeeps, ExecuteKeeps
     DEF CallStep
<1>2. CASE UNCHANGED vars
  <2>1. UNCHANGED <<files, filter, cancelled, closed, source, parse, txs, committed, clock, cons>>
    BY <1>2 DEF vars, scanVars, mysqlVars
  <2>2. (Premise' <=> Premise) /\ (NoTorn' => LogShape(files, committed, clock)')
    BY <2>1, PremiseStays
  <2>3. Pipe' = Pipe
    BY <2>1 DEF Pipe, GotTxs, AtTx, SentTx
  <2>4. Premise' /\ Live' => Scanning'
    BY <2>1, <2>2, <2>3, CallerScans DEF ScanInv, Live
  <2>5. Premise' /\ cons'.pc \in {"ended", "executed"} => Faithful'
    BY <2>1, <2>2, FaithfulStays DEF ScanInv
  <2>6. CallerState'
    BY <2>1, AskedStays DEF ScanInv, CallerState, Live, Working
  <2>7. QED BY <2>2, <2>4, <2>5, <2>6 DEF ScanInv
<1>3. QED BY <1>1, <1>2, LogStepKeeps, ScannerKeeps, NextIs

\* The results of a scan are the committed transactions that were asked for,
\* each once and whole, in commit order, and none is missing when the scan
\* ends without an error and below its limit (engine.go:98-101, :202).  As long
\* as its caller is there, what the scan found so far are the wanted ones among
\* the transactions that end before the scanner's place in the log, in the order
\* of the log, and they lie in the pipe from the parse loop to the caller.
THEOREM ScanSound == Spec => []ScanIsFaithful
<1>1. Types /\ ScanInv => ScanIsFaithful
  <2>1. SUFFICES ASSUME Types, ScanInv, cons.pc # "idle", Premise PROVE Faithful
    BY DEF ScanIsFaithful, Faithful, Premise, NoTorn
  <2>2. CASE cons.pc \in {"ended", "executed"}
    BY <2>1, <2>2 DEF ScanInv
  <2>3. CASE Live
    <3> DEFINE s == GotTxs
    <3>1. Scanning /\ cons.outcome = None
      BY <2>1, <2>3 DEF ScanInv, CallerState
    <3>2. Foremost(s)
      BY <2>1, <3>1, GotFaithful
    <3>3. Len(s) = Len(cons.got) /\ \A i \in 1 .. Len(cons.got) : s[i] = cons.got[i].tx
      BY <2>1, PipeFacts
    <3>4. None # "done"
      BY RecoveryAssumption DEF RecoveryAssumption
    <3>5. QED BY <3>1, <3>2, <3>3, <3>4 DEF Faithful, Foremost
  <2>4. cons.pc \in {"idle", "next", "deliver", "ended", "executed"}
    BY <2>1, ConsFacts DEF ConsRec
  <2>5. QED BY <2>1, <2>2, <2>3, <2>4 DEF Live
<1>2. Types /\ Types' /\ ScanInv /\ [Next]_vars => ScanInv'
  BY ScanInvKept
<1>3. QED BY AlwaysTypes, ScanInvInit, <1>1, <1>2, PTL DEF Spec
=============================================================================

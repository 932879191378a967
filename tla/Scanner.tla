------------------------------- MODULE Scanner -------------------------------
(***************************************************************************)
(* The binlog scanner of the agent (internal/binlog): one goroutine reads  *)
(* the events of a file into a channel (FileSource), a second one groups   *)
(* them into transactions and sends those that match the filter to a       *)
(* channel (runParseLoop), and the caller takes them with Next until it    *)
(* gets an error or io.EOF, and then calls Close.                          *)
(*                                                                         *)
(* An event's position is its number in its file.  Transactions never span *)
(* two files.  Event times are numbers; the scan happens at Now, later     *)
(* than every event.                                                       *)
(***************************************************************************)
EXTENDS Integers, Sequences

CONSTANTS
  None,      \* no value
  Cap,       \* the capacity of the channels, 16 in the code
  MaxTime,   \* events carry times 1 .. MaxTime
  Quiet,     \* bound: the tables whose scans are not disturbed
  Faults     \* what may go wrong, a subset of AllFaults

(***************************************************************************)
(* cancel     the context of the scan is cancelled                         *)
(* corrupt    an event cannot be parsed                                    *)
(* open       a file cannot be opened                                      *)
(* schema     a table's columns cannot be fetched                          *)
(* savepoint  a transaction sets a savepoint, which MySQL writes to the    *)
(*            binlog as a query of its own                                 *)
(***************************************************************************)
AllFaults == {"cancel", "corrupt", "open", "schema", "savepoint"}

ASSUME ScannerAssumption ==
  /\ Cap \in Nat \ {0}
  /\ MaxTime \in Nat \ {0}
  /\ Faults \subseteq AllFaults
  /\ None \notin Nat /\ None \notin {"canceled", "corrupt", "open"}

Now == MaxTime + 1
FarFuture == MaxTime + 2

VARIABLES
  files,      \* the archive: a sequence of files, each a sequence of events
  filter,     \* the filter of the scan
  cancelled,  \* the context of the scan is cancelled
  closed,     \* Close was called
  source,     \* the FileSource of the file at hand
  parse,      \* the parse loop
  txs         \* the channel of transactions

\* A fault of the environment, in a log without changes of the quiet tables
\* and without queries.
Disturbed(fault) ==
  /\ fault \in Faults
  /\ \A i \in 1 .. Len(files) : \A j \in 1 .. Len(files[i]) :
       /\ files[i][j].type # "query"
       /\ files[i][j].type = "rows" => files[i][j].table \notin Quiet

scanVars == <<files, filter, cancelled, closed, source, parse, txs>>

NoSource == [pc |-> "none", next |-> 0, evs |-> <<>>, err |-> None, stop |-> FALSE]

NotParsing == [pc |-> "idle", file |-> 0, last |-> 0, pending |-> None,
               maps |-> {}, tx |-> None, err |-> None]

ScannerInit ==
  /\ filter = None
  /\ cancelled = FALSE
  /\ closed = FALSE
  /\ source = NoSource
  /\ parse = NotParsing
  /\ txs = <<>>

-----------------------------------------------------------------------------
(***************************************************************************)
(* The filter.  The server sends times that may be missing on either side; *)
(* positions name a file (0 for none) and a position in it.                *)
(***************************************************************************)
WsFilterToBinlog(w) ==
  [w EXCEPT !.range = IF w.range = <<None, None>> THEN None
                      ELSE <<IF w.range[1] = None THEN 0 ELSE w.range[1],
                             IF w.range[2] = None THEN FarFuture ELSE w.range[2]>>]

MatchesFilter(tx, f) ==
  /\ f.range # None => f.range[1] <= tx.ts /\ tx.ts <= f.range[2]
  /\ f.gtids # None /\ tx.gtid # None => tx.gtid \in f.gtids
  /\ f.selected # {} => tx.id \in f.selected
  /\ f.tables # {} => \E i \in 1 .. Len(tx.rows) : tx.rows[i].table \in f.tables

\* The files to read, None if the range of files is not there.
EnumerateBinlogFiles(f) ==
  LET lo == IF f.start[1] = 0 THEN 1 ELSE f.start[1]
      hi == IF f.end[1] = 0 THEN Len(files) ELSE f.end[1]
  IN IF files = <<>> \/ lo > Len(files) \/ hi > Len(files) \/ lo > hi
     THEN None ELSE <<lo, hi>>

-----------------------------------------------------------------------------
(***************************************************************************)
(* FileSource.                                                             *)
(***************************************************************************)
SourceStopped == cancelled \/ source.stop

SourceFile == files[parse.file]

\* The next event goes to the channel.
SourceSend ==
  /\ source.pc = "run"
  /\ source.next <= Len(SourceFile)
  /\ Len(source.evs) < Cap
  /\ source' = [source EXCEPT !.next = @ + 1,
                              !.evs = Append(@, SourceFile[source.next])]
  /\ UNCHANGED <<files, filter, cancelled, closed, parse, txs>>

\* Mutant: a parser error closes the channel of events and nothing else.
SourceEndSilent ==
  /\ source.pc = "run"
  /\ \/ source.next > Len(SourceFile)
     \/ source.next <= Len(SourceFile) /\ SourceStopped
     \/ source.next <= Len(SourceFile) /\ Disturbed("corrupt")
  /\ source' = [source EXCEPT !.pc = "closed"]
  /\ UNCHANGED <<files, filter, cancelled, closed, parse, txs>>

\* Mutant: the channel is closed after an error only.
SourceEndOnError ==
  /\ source.pc = "run"
  /\ source.next <= Len(SourceFile)
  /\ SourceStopped \/ Disturbed("corrupt")
  /\ source' = [source EXCEPT !.pc = "closed", !.err = IF SourceStopped THEN "canceled" ELSE "corrupt"]
  /\ UNCHANGED <<files, filter, cancelled, closed, parse, txs>>

\* The end of the file, a cancelled context (the parser wraps the callback's
\* error, so it is not context.Canceled itself) or an event that cannot be
\* parsed: the error is left for Next and the channel is closed.
SourceEnd ==
  /\ source.pc = "run"
  /\ \E e \in {None, "canceled", "corrupt"} :
       /\ e = None => source.next > Len(SourceFile)
       /\ e # None => source.next <= Len(SourceFile)
       /\ e = "canceled" => SourceStopped
       /\ e = "corrupt" => Disturbed("corrupt")
       /\ source' = [source EXCEPT !.pc = "closed", !.err = e]
  /\ UNCHANGED <<files, filter, cancelled, closed, parse, txs>>

-----------------------------------------------------------------------------
(***************************************************************************)
(* The parse loop.                                                         *)
(***************************************************************************)
Parsing(pc) == parse.pc = pc

\* Close of the FileSource cancels its own context.
SourceClosed == [source EXCEPT !.stop = TRUE]

\* The loop ends; err is left for Next.
ParseEnd(err) ==
  /\ parse' = [parse EXCEPT !.pc = "ended", !.err = err, !.pending = None]
  /\ source' = SourceClosed
  /\ UNCHANGED txs

OpenFileSource ==
  /\ Parsing("open")
  /\ \/ LET offset == IF filter.start[1] = parse.file THEN filter.start[2] ELSE 0
        IN /\ source' = [NoSource EXCEPT !.pc = "run", !.next = offset + 1]
           /\ parse' = [parse EXCEPT !.pc = "check", !.pending = None, !.maps = {}]
           /\ UNCHANGED txs
     \/ Disturbed("open") /\ ParseEnd("open")
  /\ UNCHANGED <<files, filter, cancelled, closed>>

ParseCheck ==
  /\ Parsing("check")
  /\ IF cancelled THEN ParseEnd("canceled")
     ELSE /\ parse' = [parse EXCEPT !.pc = "next"]
          /\ UNCHANGED <<source, txs>>
  /\ UNCHANGED <<files, filter, cancelled, closed>>

Fresh == [rows |-> <<>>, gtid |-> None, ts |-> None, xid |-> None]

\* The pending transaction, created when there is none.
Pending == IF parse.pending = None THEN Fresh ELSE parse.pending

\* The GTID, the XID or else the time and the contents.
TxID(p, ts) ==
  CASE p.gtid # None -> p.gtid
    [] p.gtid = None /\ p.xid # None -> p.xid
    [] OTHER -> <<"anonymous", ts, p.rows>>

NewTransaction(p) ==
  LET ts == IF p.ts = None THEN Now ELSE p.ts
  IN [id |-> TxID(p, ts), gtid |-> p.gtid, ts |-> ts, rows |-> p.rows, truncated |-> FALSE]

Truncate(tx) ==
  IF filter.maxRows > 0 /\ Len(tx.rows) > filter.maxRows
  THEN [tx EXCEPT !.rows = SubSeq(@, 1, filter.maxRows), !.truncated = TRUE]
  ELSE tx

\* Mutant: a transaction without rows is sent as well.
EmitEmpty(p) ==
  LET tx == NewTransaction(p)
  IN IF p # None /\ MatchesFilter(tx, filter)
     THEN [parse EXCEPT !.pc = "send", !.pending = None, !.tx = Truncate(tx)]
     ELSE [parse EXCEPT !.pc = "check", !.pending = None]

\* A pending transaction with rows that matches goes to the channel next.
Emit(p) ==
  LET tx == NewTransaction(p)
  IN IF p # None /\ p.rows # <<>> /\ MatchesFilter(tx, filter)
     THEN [parse EXCEPT !.pc = "send", !.pending = None, !.tx = Truncate(tx)]
     ELSE [parse EXCEPT !.pc = "check", !.pending = None]

\* Rows without a table map are skipped.  A query that is neither BEGIN nor
\* COMMIT counts as the end of a transaction whose time is not known.
HandleEvent(e) ==
  LET goOn == [parse EXCEPT !.pc = "check"]
  IN CASE e.type = "map" -> [goOn EXCEPT !.maps = @ \union {e.table}]
       [] e.type = "rows" /\ e.table \in parse.maps ->
            [goOn EXCEPT !.pending = [Pending EXCEPT !.rows = Append(@, e.change)]]
       [] e.type = "begin" -> [goOn EXCEPT !.pending = Pending]
       [] e.type = "gtid" -> [goOn EXCEPT !.pending = [Pending EXCEPT !.gtid = e.id]]
       [] e.type = "xid" ->
            Emit(IF parse.pending = None THEN None
                 ELSE [parse.pending EXCEPT !.xid = e.id, !.ts = e.ts])
       [] e.type = "commit" ->
            Emit(IF parse.pending = None THEN None
                 ELSE [parse.pending EXCEPT !.ts = e.ts])
       [] e.type = "query" -> Emit(parse.pending)
       [] OTHER -> goOn

\* The file is read: the next one, or the end.
FileDone ==
  IF parse.file < parse.last
  THEN /\ parse' = [parse EXCEPT !.pc = "open", !.file = @ + 1, !.pending = None]
       /\ source' = NoSource
       /\ UNCHANGED txs
  ELSE ParseEnd(None)

PastTimeEnd(e) == filter.range # None /\ e.ts > filter.range[2]

\* Only in the last file, which is the one that the end position names.
PastEndPos(pos) == filter.end[1] = parse.file /\ pos > filter.end[2]

\* The position of the event at the head of the channel.
HeadPos == source.next - Len(source.evs)

ParseNext ==
  /\ Parsing("next")
  /\ \/ /\ source.evs # <<>>
        /\ LET e == Head(source.evs)
           IN IF PastEndPos(HeadPos) \/ PastTimeEnd(e) THEN ParseEnd(None)
              ELSE /\ parse' = HandleEvent(e)
                   /\ source' = [source EXCEPT !.evs = Tail(@)]
                   /\ UNCHANGED txs
     \/ /\ source.evs = <<>>
        /\ source.pc = "closed"
        /\ IF source.err = None THEN FileDone ELSE ParseEnd(source.err)
     \/ /\ cancelled
        /\ ParseEnd("canceled")
  /\ UNCHANGED <<files, filter, cancelled, closed>>

\* Sent at once when there is room.
ParseSend ==
  /\ \/ Parsing("send")
     \/ Parsing("blocked")
  /\ IF Len(txs) < Cap
     THEN /\ txs' = Append(txs, parse.tx)
          /\ parse' = [parse EXCEPT !.pc = "check", !.tx = None]
     ELSE /\ Parsing("send")
          /\ parse' = [parse EXCEPT !.pc = "blocked"]
          /\ UNCHANGED txs
  /\ UNCHANGED <<files, filter, cancelled, closed, source>>

\* Close releases a send that found the channel full.
ParseDrop ==
  /\ Parsing("blocked")
  /\ closed
  /\ parse' = [parse EXCEPT !.pc = "check", !.tx = None]
  /\ UNCHANGED <<files, filter, cancelled, closed, source, txs>>

SourceRuns == SourceSend \/ SourceEnd
ParseRuns == OpenFileSource \/ ParseCheck \/ ParseNext \/ ParseSend \/ ParseDrop

-----------------------------------------------------------------------------
(***************************************************************************)
(* What a caller sees.                                                     *)
(***************************************************************************)
\* Scan starts the parse loop with the files in range.
ScanStarts(f) ==
  /\ filter' = f
  /\ LET range == EnumerateBinlogFiles(f)
     IN /\ range # None
        /\ parse' = [NotParsing EXCEPT !.pc = "open", !.file = range[1], !.last = range[2]]
  /\ UNCHANGED <<files, cancelled, closed, source, txs>>

\* Next hands over a transaction.
NextIsTx == txs # <<>>

\* The channel is closed and holds no more: an error that was left, or io.EOF.
NextIsEOF == txs = <<>> /\ Parsing("ended") /\ parse.err = None
NextIsError == txs = <<>> /\ Parsing("ended") /\ parse.err # None
=============================================================================

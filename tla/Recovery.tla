------------------------------ MODULE Recovery ------------------------------
(***************************************************************************)
(* From MySQL's binlog to the undone change: MySQL executes transactions   *)
(* and writes them to its binlog, a scan reads the files, the reverse SQL  *)
(* is generated transaction by transaction and finally executed.           *)
(*                                                                         *)
(* Two callers use the scanner: scan.Stream in the agent's daemon, whose   *)
(* results a client selects from, and the flashback command.               *)
(***************************************************************************)
EXTENDS Scanner, Reversal, SequencesExt

CONSTANTS
  InitDb,          \* the database before the first binlog file
  Kinds,           \* Kinds[n]: how the n-th transaction is written, see Commit;
                   \* bounds the transactions of a behaviour
  MaxChanges,      \* bound on the row changes of a behaviour, see Change
  MaxFiles,        \* bound on the binlog files
  Callers,         \* a subset of {"stream", "flashback"}
  Requests,        \* the filters and limits that the server may send
  Flashbacks,      \* the tables and recovery times that flashback is given
  DefaultPreview   \* MaxPreview when the request names none, 500 in the code

\* The times of a request, either of which may be missing.
Bound == Nat \union {None}

\* What GTID and XID events carry.
EventId == {"gtid", "xid"} \X Nat

\* The transactions that the parse loop may have at hand.
Pendings == [rows: Seq(RowChange), gtid: EventId \union {None},
             ts: Nat \union {None}, xid: EventId \union {None}]

ASSUME RecoveryAssumption ==
  /\ Callers \subseteq {"stream", "flashback"}
  /\ DefaultPreview \in Nat \ {0}
  /\ Kinds \in Seq({"gtid", "xid", "commit"})
  /\ \A t \in Tables : InitDb[t] \in [Rows[t] -> Nat] /\ KeysHold(t, InitDb[t])
  /\ InitDb = [t \in Tables |-> InitDb[t]]
  /\ \A w \in Requests :
       /\ w[1] \in [range: Bound \X Bound, gtids: {w[1].gtids}, selected: {w[1].selected},
                    tables: {w[1].tables}, start: Nat \X Nat, end: Nat \X Nat, maxRows: Nat]
       /\ w[2] \in Int
  /\ \A f \in Flashbacks : f[1] \in Tables /\ f[2] \in Nat
  /\ None \notin Nat \X Nat /\ None \notin EventId /\ None \notin Pendings
  /\ None # "done"

VARIABLES
  db,         \* the database
  open,       \* the changes of the open transaction
  points,     \* the numbers of the changes in it that a savepoint follows
  clock,      \* the time
  committed,  \* history: the transactions in the binlog, and what preceded them
  doubled,    \* history: a row occurred twice
  cons        \* the caller of the scanner

mysqlVars == <<db, open, points, clock, committed, doubled>>
vars == <<scanVars, mysqlVars, cons>>

Idle == [pc |-> "idle", kind |-> None, wire |-> None, limit |-> 0, got |-> <<>>,
         at |-> None, schema |-> {}, outcome |-> None, order |-> <<>>]

Init ==
  /\ ScannerInit
  /\ files = << <<>> >>
  /\ db = InitDb
  /\ open = <<>>
  /\ points = {}
  /\ clock = 1
  /\ committed = <<>>
  /\ doubled = ~Distinct(InitDb)
  /\ cons = Idle

-----------------------------------------------------------------------------
(***************************************************************************)
(* MySQL, one transaction after the other in the order of the binlog.      *)
(***************************************************************************)
Working == cons.pc = "idle"

ChangesMade ==
  LET n[i \in 0 .. Len(committed)] ==
        IF i = 0 THEN 0 ELSE n[i - 1] + Len(committed[i].tx.rows)
  IN n[Len(committed)] + Len(open) + Cardinality(points)

\* At most MaxChanges changes, and one more when each of them is a transaction
\* of its own in one file, at one time and not of a quiet table: as many
\* transactions as it takes to fill the channel behind the caller's back.
WithinBound(c) ==
  \/ ChangesMade < MaxChanges
  \/ /\ Len(committed) = MaxChanges /\ open = <<>>
     /\ Len(files) = 1 /\ clock = 1
     /\ c.table \notin Quiet
     /\ \A j \in 1 .. Len(files[1]) :
          /\ files[1][j].type # "query"
          /\ files[1][j].type = "rows" => files[1][j].table \notin Quiet

Change(c) ==
  /\ Working
  /\ WithinBound(c)
  /\ Possible(db, c)
  /\ db' = Changed(db, c)
  /\ open' = Append(open, c)
  /\ doubled' = (doubled \/ ~Distinct(db'))
  /\ UNCHANGED <<scanVars, points, clock, committed, cons>>

SetSavepoint ==
  /\ Working
  /\ "savepoint" \in Faults
  /\ Len(open) = 1 /\ open[1].table \notin Quiet
  /\ points = {}
  /\ points' = {Len(open)}
  /\ UNCHANGED <<scanVars, db, open, clock, committed, doubled, cons>>

\* The events of a change at time s, and of the savepoint behind it.
ChangeEvents(c, s, saved) ==
  << [type |-> "map", ts |-> s, table |-> c.table],
     [type |-> "rows", ts |-> s, table |-> c.table, change |-> c] >>
  \o IF saved THEN << [type |-> "query", ts |-> s] >> ELSE <<>>

\* The database before the open transaction.
Before == IF committed = <<>> THEN InitDb ELSE committed[Len(committed)].after

\* The transaction is written to the binlog as a whole: a GTID if there are
\* any, BEGIN, the changes with the time of their statements, and the commit
\* with its own.
Commit(s) ==
  /\ Working
  /\ open # <<>>
  /\ Len(committed) < Len(Kinds)
  /\ s <= clock
  /\ LET n == Len(committed) + 1
         kind == Kinds[n]
         file == files[Len(files)]
         head == IF kind = "gtid" THEN << [type |-> "gtid", ts |-> clock, id |-> <<"gtid", n>>] >>
                 ELSE <<>>
         end == IF kind = "commit" THEN [type |-> "commit", ts |-> clock]
                ELSE [type |-> "xid", ts |-> clock, id |-> <<"xid", n>>]
         body == FlattenSeq([i \in 1 .. Len(open) |-> ChangeEvents(open[i], s, i \in points)])
         events == head \o << [type |-> "begin", ts |-> s] >> \o body \o << end >>
         id == CASE kind = "gtid" -> <<"gtid", n>>
                 [] kind = "xid" -> <<"xid", n>>
                 [] kind = "commit" -> <<"anonymous", clock, open>>
     IN /\ files' = [files EXCEPT ![Len(files)] = @ \o events]
        /\ committed' = Append(committed,
             [tx |-> [id |-> id, ts |-> clock, rows |-> open,
                      gtid |-> IF kind = "gtid" THEN id ELSE None],
              file |-> Len(files), first |-> Len(file) + 1,
              last |-> Len(file) + Len(events), before |-> Before, after |-> db,
              torn |-> points # {}])
  /\ open' = <<>>
  /\ points' = {}
  /\ UNCHANGED <<filter, cancelled, closed, source, parse, txs, db, clock, doubled, cons>>

\* A DDL statement between two transactions, with a GTID of its own.
Ddl ==
  /\ Working
  /\ open = <<>>
  /\ Len(committed) = 1 /\ Len(files) = 1 /\ clock = 1
  /\ files' = [files EXCEPT ![Len(files)] =
       @ \o << [type |-> "gtid", ts |-> clock, id |-> <<"gtid", 0>>],
               [type |-> "query", ts |-> clock] >>]
  /\ Len(files[1]) = committed[1].last
  /\ UNCHANGED <<filter, cancelled, closed, source, parse, txs, mysqlVars, cons>>

Rotate ==
  /\ Working
  /\ open = <<>>
  /\ Len(committed) = Len(files) /\ clock = 1
  /\ Len(files[Len(files)]) = committed[Len(files)].last
  /\ Len(files) < MaxFiles
  /\ files' = Append(files, <<>>)
  /\ UNCHANGED <<filter, cancelled, closed, source, parse, txs, mysqlVars, cons>>

Tick ==
  /\ Working
  /\ open = <<>> /\ Len(committed) \in 1 .. MaxChanges - 1
  /\ Len(files) = 1 => Len(files[1]) = committed[Len(committed)].last
  /\ clock < MaxTime
  /\ clock' = clock + 1
  /\ UNCHANGED <<scanVars, db, open, points, committed, doubled, cons>>

-----------------------------------------------------------------------------
(***************************************************************************)
(* The callers.                                                            *)
(***************************************************************************)
\* The daemon's scan: a filter whose files are missing is an error at once.
StartStream(wire, limit) ==
  /\ Working /\ open = <<>> /\ committed # <<>>
  /\ "stream" \in Callers
  /\ LET f == WsFilterToBinlog(wire)
         max == IF limit <= 0 THEN DefaultPreview ELSE limit
         new == [Idle EXCEPT !.pc = "next", !.kind = "stream", !.wire = wire, !.limit = max]
     IN \/ /\ ScanStarts(f)
           /\ cons' = new
        \/ /\ EnumerateBinlogFiles(f) = None
           /\ cons' = [new EXCEPT !.pc = "ended", !.outcome = "failed"]
           /\ UNCHANGED scanVars
  /\ UNCHANGED mysqlVars

\* The flashback command: one table, everything up to the recovery time.
RunFlashback(t, recoveryTime) ==
  /\ Working /\ open = <<>> /\ committed # <<>>
  /\ "flashback" \in Callers
  /\ LET f == [range |-> <<0, recoveryTime>>, gtids |-> None, selected |-> {},
               tables |-> {t}, start |-> <<0, 0>>, end |-> <<0, 0>>, maxRows |-> 0]
     IN /\ ScanStarts(f)
        /\ cons' = [Idle EXCEPT !.pc = "next", !.kind = "flashback", !.wire = f,
                                !.limit = Len(committed) + 2]
  /\ UNCHANGED mysqlVars

Cancel ==
  /\ Disturbed("cancel")
  /\ cons.pc \notin {"idle", "ended", "executed"}
  /\ ~cancelled
  /\ cancelled' = TRUE
  /\ UNCHANGED <<files, filter, closed, source, parse, txs, mysqlVars, cons>>

\* The tables whose columns are known once those of a transaction were asked for.
FetchSchemas(rows, known) ==
  LET needed == {rows[i].table : i \in 1 .. Len(rows)} \ known
  IN IF Disturbed("schema") THEN {known \union ok : ok \in SUBSET needed}
     ELSE {known \union needed}

\* A truncated transaction gets a warning instead of its statements.
GenerateSQL(tx, schema) ==
  IF tx.truncated THEN << Warning(tx.rows[1].table) >> ELSE Generate(tx.rows, schema)

\* Every way out of Stream cancels the context and then closes the scanner.
StreamReturns(c, outcome) ==
  /\ cons' = [c EXCEPT !.pc = "ended", !.at = None, !.outcome = outcome]
  /\ cancelled' = TRUE
  /\ closed' = TRUE

StreamNext ==
  /\ cons.kind = "stream" /\ cons.pc = "next"
  /\ \/ /\ NextIsTx
        /\ txs' = Tail(txs)
        /\ \E known \in FetchSchemas(IF Head(txs).truncated THEN <<>> ELSE Head(txs).rows, cons.schema) :
             cons' = [cons EXCEPT !.pc = "deliver", !.schema = known,
                        !.at = [tx |-> Head(txs), stmts |-> GenerateSQL(Head(txs), known)]]
        /\ UNCHANGED <<cancelled, closed>>
     \/ NextIsEOF /\ StreamReturns(cons, "done") /\ UNCHANGED txs
     \/ NextIsError /\ StreamReturns(cons, "failed") /\ UNCHANGED txs
  /\ UNCHANGED <<files, filter, source, parse, mysqlVars>>

\* The result goes to the daemon, which passes it on; the select may as well
\* notice that the context is cancelled.
StreamDeliver ==
  /\ cons.kind = "stream" /\ cons.pc = "deliver"
  /\ \/ LET sent == [cons EXCEPT !.got = Append(@, cons.at), !.at = None]
        IN IF Len(sent.got) >= cons.limit
           THEN StreamReturns(sent, "done")
           ELSE /\ cons' = [sent EXCEPT !.pc = "next"]
                /\ UNCHANGED <<cancelled, closed>>
     \/ cancelled /\ StreamReturns(cons, "failed")
  /\ UNCHANGED <<files, filter, source, parse, txs, mysqlVars>>

\* flashback collects all transactions and the schemas, and generates only
\* after the last one; it does not look at the truncation.
FlashbackNext ==
  /\ cons.kind = "flashback" /\ cons.pc = "next"
  /\ \/ /\ NextIsTx
        /\ txs' = Tail(txs)
        /\ \E known \in FetchSchemas(Head(txs).rows, cons.schema) :
             cons' = [cons EXCEPT !.schema = known,
                                  !.got = Append(@, [tx |-> Head(txs), stmts |-> <<>>])]
        /\ UNCHANGED closed
     \/ /\ NextIsEOF
        /\ closed' = TRUE
        /\ cons' = [cons EXCEPT !.pc = "ended",
             !.outcome = IF cons.got = <<>> THEN "failed" ELSE "done",
             !.got = [i \in 1 .. Len(@) |->
                        [tx |-> @[i].tx, stmts |-> Generate(@[i].tx.rows, cons.schema)]]]
        /\ UNCHANGED txs
     \/ /\ NextIsError
        /\ cons' = [cons EXCEPT !.pc = "ended", !.outcome = "failed"]
        /\ UNCHANGED <<txs, closed>>
  /\ UNCHANGED <<files, filter, cancelled, source, parse, mysqlVars>>

\* The statements that the server has of a transaction: of those that a scan
\* generated under one id, the first at each place counts.
Staged(id) ==
  LET parts == {i \in 1 .. Len(cons.got) : cons.got[i].tx.id = id}
      first(k) == Min({i \in parts : k <= Len(cons.got[i].stmts)})
  IN [k \in 1 .. Max({Len(cons.got[i].stmts) : i \in parts}) |-> cons.got[first(k)].stmts[k]]

\* flashback does not group what it generates.
Statements(i) ==
  IF cons.kind = "flashback" THEN cons.got[i].stmts ELSE Staged(cons.got[i].tx.id)

\* The results in the order they are executed.  The client of a scan chooses
\* some of them, in any order; flashback takes them as they come.
Orders ==
  LET n == Len(cons.got)
  IN IF cons.kind = "flashback" THEN {[i \in 1 .. n |-> i]}
     ELSE {order \in BoundedSeq(1 .. n, n) : order # <<>>}

Plan(order) == FlattenSeq([i \in 1 .. Len(order) |-> Statements(order[i])])

Execute ==
  /\ cons.pc = "ended" /\ cons.outcome = "done"
  /\ \E order \in Orders :
       /\ db' = ExecuteAll(db, Plan(order))
       /\ cons' = [cons EXCEPT !.pc = "executed", !.order = order]
  /\ UNCHANGED <<scanVars, open, points, clock, committed, doubled>>

Recovers == StreamNext \/ StreamDeliver \/ FlashbackNext

Next ==
  \/ \E c \in Changes(db) : Change(c)
  \/ SetSavepoint \/ Ddl \/ Rotate \/ Tick
  \/ \E s \in 1 .. MaxTime : Commit(s)
  \/ \E w \in Requests : StartStream(w[1], w[2])
  \/ \E f \in Flashbacks : RunFlashback(f[1], f[2])
  \/ SourceRuns /\ UNCHANGED <<mysqlVars, cons>>
  \/ ParseRuns /\ UNCHANGED <<mysqlVars, cons>>
  \/ Cancel \/ Recovers \/ Execute

Spec == Init /\ [][Next]_vars

\* The goroutines run; nobody has to cancel, and nobody has to execute.
FairSpec ==
  /\ Spec
  /\ WF_vars(SourceRuns /\ UNCHANGED <<mysqlVars, cons>>)
  /\ WF_vars(ParseRuns /\ UNCHANGED <<mysqlVars, cons>>)
  /\ WF_vars(Recovers)

-----------------------------------------------------------------------------
(***************************************************************************)
(* Properties.                                                             *)
(***************************************************************************)
TypeOK ==
  /\ \A t \in Tables : \A r \in Rows[t] : db[t][r] \in Nat
  /\ Len(source.evs) <= Cap /\ Len(txs) <= Cap
  /\ source.pc \in {"none", "run", "closed"}
  /\ parse.pc \in {"idle", "open", "check", "next", "send", "blocked", "ended"}
  /\ cons.pc \in {"idle", "next", "deliver", "ended", "executed"}
  /\ cons.outcome \in {None, "done", "failed"}
  /\ \A i \in 1 .. Len(txs) : txs[i].rows # <<>>

\* The scan starts where a transaction does, not within one.
StartsAtBoundary ==
  \A i \in 1 .. Len(committed) :
    LET c == committed[i]
    IN filter.start[1] = c.file => ~(c.first <= filter.start[2] /\ filter.start[2] < c.last)

\* A committed transaction lies between the positions, in the time range and
\* among the tables, GTIDs and transactions that were asked for.
Wanted(c, w) ==
  /\ w.start[1] # 0 => \/ c.file > w.start[1]
                       \/ c.file = w.start[1] /\ c.first > w.start[2]
  /\ w.end[1] # 0 => \/ c.file < w.end[1]
                     \/ c.file = w.end[1] /\ c.last <= w.end[2]
  /\ w.range[1] # None => c.tx.ts >= w.range[1]
  /\ w.range[2] # None => c.tx.ts <= w.range[2]
  /\ w.gtids # None /\ c.tx.gtid # None => c.tx.gtid \in w.gtids
  /\ w.selected # {} => c.tx.id \in w.selected
  /\ w.tables # {} => \E i \in 1 .. Len(c.tx.rows) : c.tx.rows[i].table \in w.tables

\* Of the first n transactions of a log, those that w asks for.
WantedOf(log, w) ==
  LET found[n \in 0 .. Len(log)] ==
        IF n = 0 THEN <<>>
        ELSE IF Wanted(log[n], w) THEN Append(found[n - 1], log[n]) ELSE found[n - 1]
  IN found

WantedTxs == WantedOf(committed, cons.wire)[Len(committed)]

\* A result stands for a committed transaction, cut off at the limit of rows.
StandsFor(tx, c, w) ==
  LET cut == w.maxRows > 0 /\ Len(c.tx.rows) > w.maxRows
  IN /\ tx.id = c.tx.id
     /\ tx.truncated = cut
     /\ tx.rows = IF cut THEN SubSeq(c.tx.rows, 1, w.maxRows) ELSE c.tx.rows

\* The results of a scan are the committed transactions that were asked for,
\* each once and whole, in commit order, and none is missing when the scan
\* ends without an error and below its limit: neither the early stop at the end
\* of the time range (engine.go:202) nor an error, a cancellation or a full
\* channel on the way passes for the end of the log (engine.go:98-101).  Not so
\* for transactions with a savepoint, which the scanner takes apart.
ScanIsFaithful ==
  /\ cons.pc # "idle" /\ filter # None /\ StartsAtBoundary
  /\ \A i \in 1 .. Len(committed) : ~committed[i].torn
  =>
    /\ Len(cons.got) <= Len(WantedTxs)
    /\ \A i \in 1 .. Len(cons.got) : StandsFor(cons.got[i].tx, WantedTxs[i], cons.wire)
    /\ cons.outcome = "done" /\ Len(cons.got) < cons.limit
         => Len(cons.got) = Len(WantedTxs)

\* What was executed, read from its end, are the changes committed from the
\* i-th transaction on, and no statement is a mere warning.
UndoesSince(i) ==
  LET n == Len(cons.order)
      chosen == [j \in 1 .. n |-> cons.got[cons.order[n + 1 - j]]]
  IN /\ FlattenSeq([j \in 1 .. n |-> chosen[j].tx.rows])
          = FlattenSeq([j \in 1 .. Len(committed) + 1 - i |-> committed[i + j - 1].tx.rows])
     /\ \A j \in 1 .. n : \A k \in 1 .. Len(chosen[j].stmts) : chosen[j].stmts[k].sql # ""

\* No two results have one id.
OneResultEach ==
  \A i, j \in 1 .. Len(cons.got) : cons.got[i].tx.id = cons.got[j].tx.id => i = j

\* Undoing the last transactions newest first, which takes a client that asks
\* for them in that order or a single transaction, leaves the database exactly
\* as it was before them (generator.go:21-92, handler.go:1330-1353), unless a
\* statement came with a warning, a row was doubled in a table without a primary
\* key, or the server took two results for one (handler.go:693-705).  Oldest
\* first, as the web page asks for them unless the operator picks an order
\* (+page.svelte:395-406, 486-494) and flashback always runs them
\* (flashback.go:142), two changes of one row are not undone.
Restored ==
  cons.pc = "executed" /\ ~doubled /\ (cons.kind = "flashback" \/ OneResultEach)
    => \A i \in 1 .. Len(committed) : UndoesSince(i) => db = committed[i].before

\* Once a scan was started it ends, and the goroutines of the scanner end with
\* it even if its caller leaves at the limit of its preview (engine.go:127-129).
ScanEnds ==
  cons.pc = "next" ~> /\ cons.pc \in {"ended", "executed"}
                      /\ parse.pc = "ended"
                      /\ source.pc \in {"none", "closed"}
=============================================================================

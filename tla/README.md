# Verification of mysql-pitr

mysql-pitr recovers MySQL data to a point in time: an agent on the MySQL host
archives binlogs, scans them, generates inverse SQL and executes it; a server
orchestrates recovery operations over WebSocket and shows them in a web page.
This directory holds TLA+ models of the parts where ordering, concurrency and
failure decide about correctness, the TLC runs that check them on small
instances, and TLAPS proofs of what matters most for every instance.

`PROJECT.json` maps every definition to the lines it models and lists the runs,
mutants, findings, hazards and theorems that this text refers to.

## 1. The system

| Part | State | Operations | Hard because |
|---|---|---|---|
| Batch executor (`internal/executor`) | position, errors, row tally; checkpoint file | Run, Resume | crash between COMMIT and checkpoint, cancellation, two invocations of one operation, MySQL undoing a transaction |
| Operation handlers (`internal/server/pitr/handler.go`) | operation record, stored statements, in-memory preview, audit log | start, select, execute, pause, resume, cancel; agent events; disconnect hook; startup reconciliation | each runs in its own goroutine, reads the record, waits for the agent, and then moves the record |
| Operation store (`store.go`) | SQLite tables | Create, Update, UpdateIfStatus, SaveStatements... | one write does not compare what it replaces |
| Agent daemon (`internal/daemon`, `cmd/agent/serve.go`) | registry of running tasks | scan, execute, resume, cancel | one registry slot per operation; tasks outlive commands |
| Binlog scanner (`internal/binlog`), scan stream (`internal/scan`), flashback (`cmd/agent`) | pending transaction, two bounded channels, a preview limit | read, group, filter, emit, Close | two goroutines and a caller that may leave early; an error must not pass for the end of the log; where the scan stops |
| Reverse generator (`internal/reverse`) | none | inverse statements | their order, NULLs, tables without a primary key |
| Hub (`internal/ws/hub`) | connection table, response channels | HandleConnection, read pump, SendToAgent, Close, hooks | callers race with the end of the connection they write to; duplicates; events in goroutines of their own |
| Agent client (`internal/ws/agent`) | connection, two mutexes, backoff | connect, read pump, Send, SendCommand, Close | reconnection races with the server's view; lock order; overflow |
| Certificates (`renewal.go`, `internal/ws/ca`) | root, serials, revocation list in a file; cache | issue, revoke, check, renew | check-then-cache, crashes while writing, lost answers |
| Organisations and agents (`internal/server/org`, `internal/server/agent`, hooks of `server.go`) | members, invitations, agent records | create, invite, accept, delete with reassignment; register, approve, reject; connection hooks | whole records are read, and written back later |
| Collector, archive (`internal/collector`, `internal/archive`, `internal/checkpoint`) | archive files, `.partial` files, state file | reconcile, sync, seal, append, retention | crash at any point, rotation, gaps and duplicates |
| Connector, configuration, event bus, users, CLI, web page | connections, files | queries, CRUD | little concurrency of their own |

How they interact: an HTTP request reads the operation's record and sends a
command through the hub, under the operation's ID. The agent's read pump hands
it to the daemon, which registers a task, starts a goroutine and answers at once.
The goroutine pushes events; the hub's read pump starts a goroutine for each,
which moves the record on. So one operation is worked on by several requests,
many event goroutines, a disconnect hook and one or more agent tasks, with the
SQLite record and its compare-and-swap as the only common ground.

What makes the parts correct:

* executor: the checkpoint and the reports never claim what was not done; nothing
  is done twice unless something crashed; every run ends;
* operation: the status follows its table; one end, audited once; `done` only when
  everything was executed; what is executed is what somebody selected; no state in
  which everybody waits;
* collector: the archive is a gap-free and duplicate-free copy, at every crash point;
* scanner and generator: every committed transaction in range comes out once, in
  order and whole, its inverse undoes it, and all goroutines end;
* client and hub: no waiting without end, one owner per connection, and an agent
  that lost its connection gets back into the table;
* certificates: a revoked one is refused, and a running agent is not locked out;
* organisations and agents: no rows of deleted organisations, no approval that
  nobody gave, rejections that last, a status that tells the truth.

## 2. Modules

| Module | Models | Extends |
|---|---|---|
| `Executor` | the executor and its checkpoint file | |
| `BatchPlan` | what the executor promises, abstractly | |
| `OperationStates` | the table of `state.go` | |
| `AgentDaemon` | command handlers and task goroutines of the agent | |
| `OperationFlow` | server, hub and agent on one operation | `AgentDaemon`, `OperationStates` |
| `Collector` | the archive collector and the archive writer | |
| `Scanner` | the two goroutines of a scan | |
| `Reversal` | reverse SQL, and MySQL's tables to run it on | |
| `Recovery` | MySQL's binlog, a scan by either caller, the recovery | `Scanner`, `Reversal` |
| `Wire` | WebSocket connections | |
| `Hub` | the server's end of them | `Wire` |
| `AgentClient` | the agent's end | `Wire` |
| `AgentLink` | both ends and the network | `Hub`, `AgentClient` |
| `Certificates` | the CA, the check of a connection, the renewal | |
| `Accounts` | organisations, agent records, connection hooks | |
| `ExecutorProofs` | theorems on the executor | `Executor` |
| `OperationProofs` | theorems on one operation | `OperationFlow` |
| `ReversalProofs`, `RecoveryProofs` | theorems on the reverse SQL, and on scan and recovery | `Reversal`; `Recovery`, `ReversalProofs` |
| `CollectorProofs`, `LinkProofs`, `CertificatesProofs`, `AccountsProofs` | theorems | the module in question |
| `MC...` | instances for TLC | |

### Executor

One element of `Runs` is one call of `Run` or `Resume`, that is one goroutine of
the daemon. `pc` follows `runFromIndex`: open the connection, loop head, begin,
one step per statement, commit, write the temporary file, rename it. `applied`
counts how often a statement's effect became durable, `tx` holds the effects of
the open transaction. A tally of affected rows is the set of statements it
counts, an error list the set of failed statements. `Faults` switches on what the
environment may do; the theorems hold for every choice:

* `crash`: the agent dies, MySQL rolls back, the files stay;
* `overlap`: invocations of one operation overlap. The server allows it: it calls
  the operation paused when the agent accepts the cancel, not when the executor
  has stopped, and two execute requests may pass their status check together;
* `save`: a checkpoint write fails;
* `lost`: COMMIT takes effect and its answer is lost;
* `victim`: a deadlock. MySQL rolls back the whole transaction and the session
  goes on in autocommit mode, which the statement loop does not notice. `undone`
  records what was taken back.

A failing COMMIT, BEGIN, statement or connection needs no switch: it is always
possible. The plan is the same for all invocations.

### AgentDaemon and OperationFlow

One operation with one record. A request (an element of `Requests`, `Kind` says
of which endpoint) is a small process with a program counter, cut where it
touches shared state:

    read status -> [snapshot preview -> save | update, clear] -> send -> wait
                -> reply (compare-and-swap) -> [recheck -> rollback] -> [audit]

`Applies(from, to)` is the success of `transitionTo`: the move is in the table and
the stored status is still the one that was read. An event is a record in the set
`events` and carries the local state of the goroutine that handles it: read the
record, fallback move, move, audit, store. A set loses the order on purpose: the
hub starts a goroutine for each event.

`pending` is the hub's response slot. It is keyed by the command ID, which is the
operation's ID, so requests of one operation overwrite each other's; `epoch` says
which connection a request used, because the slots belong to the connection.
`ops` is the agent's registry slot, with the same key. A task is named by the
request that started it.

Abstractions:

* `Mode` is a constant, as an operation never changes it. `Txs` are the
  transactions that pass the filter; `MaxPreview` and `DefaultPreview` are the
  limits of the scans (`scan.go`) and of the preview (`handler.go`), which agree
  in the code.
* An execution takes `Batches` steps; what happens inside a batch is `Executor`.
* The audit log is the number of entries of each terminal state.
* A request that was answered keeps only what its command carried (`Over`), since
  nothing else of it can be read again.
* Moving a record in the disconnect hook and its audit entry are one step; the
  hook looks for scanning and for executing operations in two steps.
* Store errors (SQLite failing) are not modelled: every handler stops on one
  without touching the record.
* A failing write in the hub (`hub.go:348`) is not modelled; a lost connection is
  noticed by the read pump.

### Collector

Binlog files are numbered, an event of file f is `<<f, i>>` (the first is the
format description), and the `ROTATE_EVENT` that closes a file is `<<f, 0>>`: it is
in MySQL's file, and the writer never archives it from the stream. A position is the
number of events before it. `final`, `partial` and `saved` are the disk and outlive a
crash; the rest is the loop's memory. `pc` follows `Run`: the two queries of
`reconcile`, one copy per missing file, the state file, one stream per file read
event by event, seal, retention, state file; and `recoverSealedFile` with its two
queries, the removal and the copy as separate steps. A copy is one step, since it
is renamed into place and a `.partial` left by a crash is removed by `reconcile`. An
append is not: `CutShort` leaves any part of the tail behind, after a crash or a
failed write. Saving the state is one step (temporary file and rename).

Without the fault `busy`, MySQL is idle between two queries that the code takes for
one; without `early`, an agent that has copied files but not saved a state is not
restarted. With either, `NoGapBehindState` is violated within seconds: the first
run reads the master position twice (`loop.go:121`, `298`) and keeps the place
where it began only in memory (`loop.go:302`).

The fault `copy` is a file operation that fails in `backfillFile` or `LoadState`. In
`reconcile` and after a save it ends the loop. In `recoverSealedFile` the archived file
has been removed by then (`loop.go:506-508`), and the segment is tried again without it.

Four history variables say what a property may not blame on the loop or where it
is known to fail: `lost` (purged by MySQL before it was archived), `pruned`
(retention), `suspect` (files copied while the saved state still had to read
them, appends that were cut short, and segments ended by a reconnection), and `headless`
(the file of a first segment after such a failed copy, until it is copied in full: what
is in front of the segment is not read again).

### BatchPlan

The executor's promise when nothing crashes and nothing is lost: the plan is
executed in batches, each of which takes effect as a whole and once, together
with the statements that failed in it and the next position. `Executor` refers to
it with `INSTANCE BatchPlan WITH position <- Position, failed <- Failed`: a batch happens, in the abstract, at COMMIT, so from there until the rename the
abstract position is that of the invocation that is saving, and otherwise that of
the checkpoint file. `BatchesAreAtomic` is the abstract specification as a property;
with any of the faults it is false.

### Scanner, Reversal, Recovery

`Recovery` closes the circle: MySQL executes row changes on `db` and writes them to
`files`, one of the two callers scans them, the inverses are generated and run on
`db`. `open` holds the changes of the open transaction, `points` the numbers of those that a
savepoint follows; `committed` remembers every transaction in the binlog with its place
there, what the database was before and after it, and whether a savepoint tore it.
A transaction ends with an XID, with COMMIT (non-transactional tables) or begins
with a GTID (`Kinds`); DDL and rotations lie between them.

`source` is the goroutine of `FileSource`, `parse` is `runParseLoop` with the pending
transaction, `txs` is its channel, `cons` the caller: `scan.Stream` with its preview
limit and schema cache, or flashback. Each channel operation is a step, so a send may
block, a Close or a cancellation may come between any two of them.

`Reversal` has no variables. A table is a bag of rows, a statement a record with its
WHERE clause; `Outcome` is what MySQL makes of it, NULL included.

What is taken for granted: full row images (the connector's preflight insists on
them); commit times that do not go backwards; transactions that do not span two
files; a parser that returns the callback's errors. Schema changes between the log
and the scan are left out. Two bounds keep the instance small: faults of the
environment happen in logs without changes of the `Quiet` table (`Disturbed`), and the
number of changes is limited (`MaxChanges`).

Known deviations, as exceptions in the properties: a savepoint is a query of its own
in the binlog, at which the scanner emits what it has so far (`engine.go:258`): the
transaction is torn in two, and its first part gets the time of the scan for its
commit time. Rows that occur twice in a table without a primary key cannot be told
apart. The server takes results with one ID for one transaction (`Staged`): the second
part of a torn transaction is dropped as a repetition.

The order is nobody's business but the client's. The inverses of one transaction run
newest first, but the transactions run in the order in which the client names them
(`Orders`: any choice, as many as were found, repetitions included, because nothing
refuses them), and in flashback in the order of the log. `Restored` says that a database is put
back whenever the transactions were undone newest first, which includes a single one. It
says nothing of other orders, and the order that the web page sends by default and
flashback always takes, oldest first, is one of these: two changes of one row are then
not undone (`cons.order`, see the known disagreements).

### Wire, Hub, AgentClient, AgentLink

One agent. `srv[c]` is the handler of a connection: check, hook, read pump, close,
drain. `call[k]` is a call of `SendToAgent`: load the entry, register the channel,
write, wait. The manager of the client (`mgr`) loops over backoff, dial, publish the
connection, read, answer. The mutexes are derived from program counters (`ConnMuHeld`,
`WriteMuHeld`). A connection can be dead without either end knowing (`wire = "down"`); a
write into it is lost without an error. The heartbeat is `Silent`: the server's read
deadline ends a connection that the agent has given up. Integers of the backoff
have `Width` bits, 5 in the instance, so that the overflow of the shift
(`client.go:353`) happens within the bound on attempts.

Defects that the properties name as exceptions:

* a failed write deletes the agent's entry by its ID, even when that is a newer
  connection's (`hub.go:350`); that connection is then read but never found;
* Close takes connMu and then writeMu, writers the other way round (`client.go:215`);
* the backoff overflows, and `rand.Int63n` panics on what is left (`client.go:353-359`).

Seen while modelling and not in any property: commands to read the version or the
preflight share IDs (`server.go:138`, `agent/handler.go:446`); each connection leaves a
heartbeat goroutine behind until the client is closed (`client.go:469`); `SendCommand` returns
a nil message without an error when its channel was closed (`client.go:164`); of all
callers of `SendToAgent` only the preflight has a deadline.

### Certificates

`file` and `tmp` are the CA's file and its temporary file, `ca` and `cache` the server's
memory, `rev` and `check` the steps of `Revoke` and of the check of a new connection,
`ren` those of the daily renewal, `disk` and `cert` the agent's certificate in its file
and in memory. Time advances by days. A serial number is unique in one process only:
it starts again with a restart.

The exceptions in `RevokedRefused` and `NeverLockedOut` are the defects that the model
shows: a check overtaken by a revocation caches its "no" for good (`ca.go:253-260`); a
file that cannot be read once is taken for an empty one, which replaces the root or
the revocations (`ca.go:72`, `storage.go:84`); the renewed certificate is never saved, so
a restart goes back to the old one; a renewal whose answer is lost waits for ever
(`client.go:163`). `Revoke` has no caller in the program yet.

### Accounts

A store call is a transaction of SQLite and one step. A handler or a hook is a
goroutine (`proc[p]`) that makes several, with the copies it read in between: `rec` is
the record it will write back, `todo` the records that a reassignment goes through.
`Begins` and `Goes` are its first and its later steps, `Fails` a store call that returns an
error, `Restart` the end of everything in memory. Looking up a record and the admins
of its organisation is one step in `MayApprove` and `MayReject`.

Of a connection only what the records depend on: `up` is the agent's entry in the
hub's table, `pumps[a]` counts the read pumps that run, `ended[a]` those that have ended
and whose OnDisconnect has not begun. The entry goes with any of the agent's pumps
(`PumpEnds`, `hub.go:178`) and with any write that fails (`WriteFails`, `hub.go:350`), be it a
newer connection's, so that connections of one agent overlap. A pump starts when
OnConnect is through, also when its store call failed (`PumpStarts`). `Hub` has the rest.

`overlapped` records whether two goroutines were ever at work at the same time. Two
properties need it, as the code promises nothing then: a hook that read the record
before a rejection writes the approval back; an agent registered while its
organisation is deleted is orphaned. An invitation can be used twice, when two
acceptances overlap or the deletion fails.

`blurred` are the agents whose online status was left behind: a stale copy put it back
(`WritesBack`), OnDisconnect failed to write, or the start failed to mark the agents offline,
which is only logged (`server.go:249-251`). The next connection, OnDisconnect, rejection or
restart that succeeds takes the agent out. `OnlineIsConnected` is about all others, with no
assumption on overlaps; it does not say the converse, which fails: a rejected agent that
is approved again while connected shows offline until it reconnects, and the hook of an
older connection sets a connected agent offline.

## 3. Runs

Passing runs:

| Run | Instance | Shows |
|---|---|---|
| `exec_faulty` | 3 statements (one empty), batches of 2, 2 invocations, all faults | type, `CheckpointAccounts`, `ReportAccounts` |
| `exec_benign` | 4 statements, batches of 3, 3 invocations in turn, no faults, fair | `AppliedExactlyOnce`, `BatchesAreAtomic` (refinement), `PausedAtCheckpoint`, `RunEnds` |
| `op_sql` | start, select, execute, cancel; 1 transaction, 1 batch; one lost connection | type, `TransitionsValid`, `TerminalAuditAgrees` |
| `op_pause` | start, select, execute, pause, resume; 2 transactions; refusals and failures | `DoneMeansExecuted`, `PlanIsASelection` |
| `op_selected` | start and select with rescan; 2 transactions; a restart, clients that give up | `OnlySelectedStored`, `PreviewBounded` |
| `op_live` | start, select, execute; one lost connection, clients that give up; fair | `ScanSettles`, `ExecuteSettles` |
| `archive` | 3 files, 3 events each; all faults but `busy` and `early` | type, `NoGapBehindState`, `CopyIsPrefix`, `EventsUnderOwnFile` |
| `recovery` | 2 tables, 2 changes in up to 3 transactions and 2 files, channels of 1, 6 filters, 2 recovery times, all faults; fair | type, `ScanIsFaithful`, `Restored`, `ScanEnds` |
| `link` | 2 connections, 1 call, 2 failed dials in a row, 2 faults; fair | type, `EntryHasPump`, `PumpHasEntry`, `WaitersAreWoken`, `CallsReturn`, `ReconnectsUnless`, `CloseReturns` |
| `certificates` | certificates of 3 days renewed below 2, 3 serials, 2 roots, all faults | type, `RevokedRefused`, `NeverLockedOut` |
| `accounts` | 2 goroutines, 2 users, 1 agent that connects again while up to 1 connection is not over, 2 organisations, 1 invitation, within `Trade` | type, `NoGhostRows`, `ApprovalWasGranted`, `RejectSticks`, `NoOrphans`, `OnlineIsConnected` |

Why the bounds are enough: a plan of two batches with an unequal last one and an
empty statement has every boundary of the loop; two invocations can overlap, three
can follow each other. One request of each kind already races with all events,
and requests of one kind do not share more than those of different kinds. Two
transactions are enough for a preview at its limit, for a selection that is a
proper part, and for two selections to be mixed. `MaxDrops = 1` and one restart:
a second one finds the record in a state the first one could have found it in.
Three binlog files give two rotations, a file that is behind, one that is current
and one that is ahead of the state; three events are a format description and a
tail that can be cut in two. `Bounded` keeps a file from growing again and again,
`Room` gives the last file, which is never closed, one event only.

A channel of one blocks both goroutines of a scan with the second message; a table
with a key and one without, a NULL, and an update that leaves the key alone are the
cases of the generator; the filters stop a scan by time, by position, by limit and
not at all, with and without a selection. Two connections are the old and the new
one; a caller of the old one is enough to delete the entry of the new one. Three
serials are one that is revoked, its successor, and one that a restart gives out again.
Two goroutines are enough for every overlap of two, and what holds of more is proved.
`MaxConns` bounds the connections that are not over when the agent connects again; those
whose OnConnect is at work come on top of it. All of it at once does not fit, so
`Trade` gives up combinations that do not depend on each other: behind the first
invitation no connection goes beyond its OnConnect, and behind the second organisation
at most one connection is not over. The theorems have no such bound.

Symmetry is used for invocations, transactions and goroutines in runs without
liveness.

`CHECK_DEADLOCK FALSE`: an operation that has ended, and whose requests are answered,
stops; a collector that has read everything waits for MySQL; a recovery ends; an
agent that panicked is gone; roots, serials and organisations are used up.

The run in which the code does not do what a text of the repository says:

`archive_twice`: `loop.go:458` says that reading again after a restart is covered by an
idempotent append, and `loop_test.go:241` expects it; a restart copies the file that
the saved state names, and the stream appends the same events to it.

### Known disagreements

Other places where the code and its texts disagree. They are in the models, and the
runs leave out the request or the fault that leads to them, or the properties except
what comes of it; without that TLC shows the trace.

| Text | What happens | Left out of |
|---|---|---|
| `README.md:223` | a crash between COMMIT and the checkpoint repeats a committed batch | `exec_benign` (`crash`) |
| `handler.go:526-528` | the connection is lost between the agent's acceptance and the move to executing: the hook has already run and the operation stays executing | `ExecuteSettles` (`drops`) |
| `handler.go:385`, `1418` | selecting with rescan writes `ready` over a concurrent cancel | `op_sql` (`Mode`) |
| `handler.go:1464-1470` | scan_done has moved the record but not stored its statements when select rechecks: scanning for ever | `op_live` (`Mode`) |
| `handler.go:858`, `888`, `967` | `op_error`, a paused report and the `op_done` of a resumed execution overtake the request's move and have no fallback | `op_live` (`fail`, pause, resume, cancel) |
| `README.md:7`, `24` | the page sends the transactions oldest first (`+page.svelte:395-406`, `486-494`) and Select stores them so (`handler.go:1328-1353`, `1516`): of two updates of one row neither is undone | `Restored` (`UndoesSince`) |
| `flashback.go:260-262` | the same of flashback, which leaves no choice (`flashback.go:142`) | `Restored` (`UndoesSince`) |
| `loop.go:467-468`, "guaranteeing zero gaps" | the copy that replaces a file that cannot be sealed fails too, after the file was removed (`loop.go:506-508`): the retry of a first segment seals a file without what is in front of the segment, and the state moves on | `NoGapBehindState`, `CopyIsPrefix` (`headless`) |
| `server.go:123` | an approval (`agent/handler.go:271`) or a fetched version (`server.go:156`), written with the record as it was read before the agent went, puts online back after OnDisconnect | `OnlineIsConnected` (`blurred`) |
| `server.go:123`, `246-248` | a failing `MarkAllOffline` is logged, and agents that are gone are shown online (`server.go:249-251`) | `OnlineIsConnected` (`blurred`) |
| `loop.go:121`, `298`, `302` | the first run of the collector reads the master position twice and keeps its start in memory | `archive` (`busy`, `early`) |

### Fairness

`FairSpec` of `Executor` is weak fairness of every invocation's steps: a goroutine
that can run does, and MySQL always answers, if only by a lock wait timeout.
Nothing forces a cancel, a crash or a new invocation.

`FairSpec` of `OperationFlow` is weak fairness of each request's steps, of each
agent task, of the agent's reading of commands, of event handling as a whole, and
of the hook. `events` is finite and every step brings an event closer to its end,
so fairness of the whole handles all. Not fair: requests, a client giving up, a
lost connection, a reconnection, a restart.

`FairSpec` of `Recovery` is weak fairness of the two goroutines of the scanner and of
its caller; nothing forces a cancellation, and none is needed for `ScanEnds`.

`FairSpec` of `AgentLink` is weak fairness of the hub's handlers, of every call, of the
client's manager and of Close. There is none for the deadline of a call, because most
callers have none, nor for Connect and the end of the agent's process, which are up
to an operator.

### Mutants

For every property of a passing run there is a plausible error in the code's place
(an operator marked `Mutant:` beside the definition it would replace) under which
TLC finds the property violated: a batch end that is not clamped, a missing
fallback, an audit entry although the move was lost, a drain before the close, and
so on.

## 4. Proofs

`ExecutorProofs` assumes only what `ConstantsAssumption` says: a plan of any length,
a batch size above zero, any set of invocations and any faults.

* `TypeCorrect`: `TypeOK` is inductive.
* `CheckpointSound`, `ReportSound`: the two properties are not inductive, since they
  say nothing of an invocation in the middle of a batch. `IInv` adds, for every
  invocation, that what it has behind it is accounted for, that the open batch
  accounts for the statements from `completed` up to `idx` with each success in
  the open transaction, durable or undone, and that the temporary file is
  accounted for like the checkpoint, because another invocation may rename it.
  `BatchJoins` is the lemma that adds a committed batch to what was there before;
  `Untouched` says that `Accounted` is monotone in `applied` and `undone`.

The other theorems on the executor add `Faults = {}`, and again any plan, batch size and
invocations.

* `ImplementsBatchPlan`: every step of the executor is a batch of `BatchPlan` (COMMIT)
  or changes nothing of it. It needs `Calm` besides `IInv`: at most one invocation is
  live, it starts from what the checkpoint file says and stands there except while
  it saves, nothing of an open batch is durable, and MySQL holds exactly what was
  tallied.
* `ExactlyOnce`, `PauseSound`, `AdvanceSound` follow from `Calm`.

`OperationProofs` assumes `DaemonAssumption` and `FlowAssumption`: any set of
requests of any kinds, any transactions, limits, batches and faults.

* `TypeCorrect`, split into requests, answers, agent, events and connection.
* `StatusSound`: without the rescan the status follows the table. Every write is a
  compare-and-swap except the creation, which needs `status = None`, and
  `selectRescan`'s `Update`; `RequestsInv` ties a request's program counter to its
  kind and the status it read, and rules the latter out. With the rescan it is
  false, see above.
* `SelectionSound`, in all modes: `SelectionInv` extends the property to the plan
  that a select is about to save and to the selection that an event goroutine
  holds.
* `PlanSound`, without the rescan: `PlanInv` says that the stored statements are
  empty or one selection, as a whole, and the same of what was sent.

* `PreviewSound`: `Staged` adds that the staged transactions are finitely many, so that
  adding one below the cap raises the cardinality by at most one.
* `DoneSound`, in all modes: the chain runs from the record back to the task. `DoneInv`
  says that an `op_done` comes only from an execution that ran through all its
  batches. That an execution stays one takes `SentOnce`: the command of a request is
  sent once and only before its task exists, so no second copy of it replaces a
  finished task. `ReadyInv` says what status a request had read when it sent.
* `AuditSound`, without the rescan: `AuditInv` says that there is a terminal entry, or one
  goroutine (a request or an event) that is about to write it, never both and never
  two, and that either agrees with the status; a terminal status is never left, since
  `transitionTo` compares before it moves.

`CollectorProofs` assumes `CollectorAssumption`: any number of files and events.

* `TypeCorrect`, `EventsSound`, for every set of faults. `Core` says that MySQL has
  reached every position the collector works with and that none lies behind the saved
  one, that the `.partial` is a stretch of a single file, and that an archived file
  begins with its format description and holds events of its own file.
* `GapSound`, if `Calm`: MySQL writes nothing between two queries of its position that the
  code takes for one (`busy`), and the agent is not restarted before its first state
  file is written (`early`). Everything else may happen. Why both are excluded is in
  sections 2 and 3. `NoGapBehindState` is far from inductive, as it says nothing of what
  is at work: `GapInv` adds that the file being read is archived up to where the
  segment begins and that the `.partial` continues it (`HeadHeld`, `TailRead`,
  `TailEnds`), that the list and the position of `recoverSealedFile` agree
  (`Refilling`; this is where `busy` breaks it), and for the time before the first
  state file what the backfill has copied, that nothing purged is skipped and what
  the first segment holds (`FirstCopies`, `FirstPurged`, `FirstSegment`; this is where
  `early` breaks it).
  Where a recovery failed half way (`headless`), the parts of it that speak of the
  segment's file are void, as is the property.
* `CopySound`, if `Calm`: `Copies` adds that from the saved file on a file that is not suspect
  is missing or archived as a whole, which is what lets `alreadyAppended` recognise a
  segment that is read again after a crash between seal and save.

`LinkProofs` assumes the assumptions of the three parts of the link: any numbers of
connections, calls, failed dials and faults, any backoff bounds.

* `TypeCorrect` needs `Manager`: where the client's manager reads or answers it has a
  connection and a command.
* `EntrySound`, `PumpSound`: together they tie the table to the handlers.
* `WaitersSound` needs `Closes` (the handler closes its connection before it drains, so that
  a later write on it fails) and `Registered` (a caller that waits is in the list the
  drain goes through, or its channel has been served).

`CertificatesProofs` assumes `CertificatesAssumption`: any validity, any threshold below it,
any numbers of serials and roots, any faults. The code has 90 days and 7; the proof of
`AccessSound` needs the threshold to lie below the validity, since otherwise a fresh
certificate would be due at once.

* `TypeCorrect` needs `Places`: nothing of the server outlives it, and whoever holds the
  file's lock has written the temporary file.
* `RevocationSound`: `Replaces` says that the temporary file keeps what the old one says,
  `Remembered` that a revocation that was acknowledged is in the file, and that no entry of
  the cache, nor a check on its way to it, says the contrary.
* `AccessSound`: `OneRoot` says that the agent's certificates, the file and the server agree
  on the root, `InTime` that every day since the certificate
  became due was a missed renewal.

`AccountsProofs` assumes `AccountsAssumption` and `RecordAssumption`: any users, agents and
goroutines, any bounds on organisations, invitations and connections.

* `TypeCorrect` needs `Fits`: a goroutine holds what its next step uses, records are
  never removed, and organisations are numbered in order.
* `GhostFree`: `NoGhostRows` is inductive, since every insertion looks for the
  organisation in its own transaction.
* `ApprovalSound`: `Backed` extends the property to the copies that goroutines hold; a
  copy with an approval is of an agent that was granted one, and grants are not
  taken back.
* `RejectSound`, `OrphanFree`: as long as nothing overlaps, `Alone` says that at most one
  goroutine is at work, that its copies are still what is stored, that the
  organisations it relies on exist, and that a deletion has all agents of its
  organisation still on its list. The last part is why the reassignment must list
  before it moves, and move before it deletes.
* `OnlineSound`: `OnlineIsConnected` is inductive with the types. A connection stays in the
  count from the end of OnConnect to the beginning of OnDisconnect, whatever happens to its
  entry (`LinkedConn`), and then a goroutine is about to take the agent offline
  (`OffliningMoves`); every write that puts a record online is that of a hook whose pump
  starts (`LinkedPump`), of a copy that was online all along, or blurs it (`LinkedWrite`).

`ReversalProofs` assumes `ReversalAssumption`: any tables, keys and columns, and finitely many
rows. Histories of row changes and lists of statements have any length, so the proofs are by
induction. The library's induction theorems are schemas over a predicate, which the provers
here cannot instantiate; `LeastNumber` takes the least number principle from `WFMin`, which is
about a set, and `Induction` and `Recursion` restate it for sets of numbers. `FlattenAppend`,
`FlattenFromEnd` and `ExecuteAllIs` unfold the recursive functions of the model with it.

* `UndoOne`: after a row change that MySQL made, the WHERE clause that the generator builds
  hits exactly the row the change left (`HitsOne`), so that the reverse statement puts the
  bag of the table back. It needs that no two rows are alike and that primary keys hold,
  before and after the change.
* `UndoAll`: along a history (`Leads`), newest change first.

`RecoveryProofs` assumes the assumptions of `Scanner`, `Reversal` and `Recovery`: any tables,
rows, requests, files, transactions, channel capacities and faults.

* `TypeCorrect` needs `Types`, with the type of every field, and `Started`: the parse loop is
  in a file that is there.
* `UndoSound`, for recoveries that undo the last transactions newest first: `History` says that each transaction in the log leads from the database before it
  to the one after it, that the next one begins there, and that the recovery has been run on
  the state after the last; `Generated`, that the statements of a result are the reverse SQL
  of its rows, or contain a warning. `SuffixLeads` joins the transactions from some point on to
  one history, and `FlattenGenerate` says that the statements of several transactions, newest
  first, are those of all their changes. `StagedWhole` says that a transaction the scan found
  once is staged as it was generated, and `StagedType` that the parts of one found twice still
  make a list of statements.
* `ScanSound` (`ScanIsFaithful`), for scans at the boundary of a transaction in a log without
  savepoints, whichever of the two goroutines and the caller runs when, whatever fails and
  whenever the scan is cancelled. `ScanInv` is the inductive invariant; TLC checked it on the
  instance of the `recovery` run before it was proved. It has three parts:
  * `LogShape` says what MySQL writes: every transaction as a whole and at its place
    (`Written`), one behind the other (`Ordered`), nothing but DDL between them
    (`GapsAreDdl`), and no event later than a transaction that does not end before it
    (`TimesGrow`). The last part is why the scan may stop at the first event behind the time
    range. `LogStepShape` keeps it over every step of MySQL.
  * `Scanning` holds while the caller is there. `SourceReads`: the channel of events holds
    what comes next in the file, and the source only closes it without an error at the
    file's end. `Progress`: the wanted ones of the first n transactions, in the order of the
    log, are what the pipe holds from the caller's results back to the parse loop (`Pipe`),
    and `Place` says where the loop stands behind these n: before the next transaction, at
    a DDL statement whose GTID is pending, or inside the next transaction with its first k
    row changes pending and its table mapped. When the loop ends without an error, n is
    the whole log.
  * `Faithful` is the property, once the caller has left.

  `EventRead` takes the loop from each place over the event there; `ReadInPlace` and
  `MatchesWanted` say that what is emitted matches the filter exactly if it was asked for;
  `EndUnwanted`, that nothing behind the place where a scan stops was; `StartUnwanted`, that
  nothing before its start was.

Only model-checked: all liveness properties, since liveness under fairness and ENABLED are
out of this prover's reach. Every invariant that a passing run checks is a theorem.

## 5. Not modelled

* The MySQL connector: single queries without state of their own; what others take
  from them is external to their models. The foreign key order (`fk.go`) has no caller
  outside its tests.
* `internal/checkpoint/manager.go`: no caller outside its tests.
* The event bus and the SSE stream: it may drop anything, and the page polls.
* Configuration and encryption, routing, migrations: nothing changes after startup.
* Users and tokens: one insertion, and tokens without state.
* The web page and the rest of the CLI: clients of what is modelled.
* Read-only endpoints and agent commands (status, lists, export, preflight, discover),
  and the in-memory stores of the tests.
* The text of literals and the limit of a statement's size in the generator.
* MySQL itself beyond transactions, row changes and the binlog.

## 6. What could follow

1. `Collector`: an abstract archive that grows by whole files of the log, which the
   collector implements while nothing is purged; that a closed file is archived in
   the end when faults cease.
2. `Executor` as an implementation of `AgentDaemon`'s atomic batches.
3. Several agents, and operations of several agents, in one model.


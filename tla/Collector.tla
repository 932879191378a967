----------------------------- MODULE Collector -----------------------------
(***************************************************************************)
(* The archive collector of the agent (internal/collector) and the writer  *)
(* it uses (internal/archive): they keep a copy of MySQL's binlog files.   *)
(* At start, reconcile copies the files that are missing from MySQL's      *)
(* directory; then the loop reads the replication stream file by file, and *)
(* at every rotation seals what it read and saves where to go on.          *)
(*                                                                         *)
(* Binlog files are numbered in the order of their names.  An event of     *)
(* file f is <<f, i>>: its first one, <<f, 1>>, is the format description, *)
(* and <<f, 0>> stands for the ROTATE_EVENT that closes the file.  A byte  *)
(* position is the number of events before it, so positions up to 4 (the   *)
(* magic) are position 0.  A file that does not exist is the empty         *)
(* sequence.                                                               *)
(***************************************************************************)
EXTENDS Integers, FiniteSets, Sequences, SequencesExt

CONSTANTS
  MaxFiles,   \* bound: how many binlog files MySQL writes
  MaxEvents,  \* bound: how many events it writes to a file
  Faults      \* what the environment may do, a subset of AllFaults

(***************************************************************************)
(* crash      the agent dies, or is stopped, and is started again          *)
(* early      the agent is restarted before its first state file           *)
(* busy       MySQL writes and rotates between two queries whose answers   *)
(*            the code takes for one: the positions read by reconcile and  *)
(*            syncLoop in a first run, the list and the position read by   *)
(*            recoverSealedFile                                            *)
(* query      a query to MySQL fails                                       *)
(* stream     the replication stream breaks off with an error              *)
(* reconnect  the replication client reconnects by itself; MySQL then      *)
(*            announces the current file once more                         *)
(* seal       a file operation of Seal or SealAppendVerified fails         *)
(* copy       a file operation of backfillFile or LoadState fails          *)
(* save       all three attempts to write the state file fail              *)
(* purge      MySQL removes its oldest files                               *)
(* prune      RetentionDays > 0, and archive files get old                 *)
(***************************************************************************)
AllFaults == {"crash", "early", "busy", "query", "stream", "reconnect",
              "seal", "copy", "save", "purge", "prune"}

ASSUME CollectorAssumption ==
  /\ MaxFiles \in Nat \ {0}
  /\ MaxEvents \in Nat \ {0}
  /\ Faults \subseteq AllFaults

Files == 1 .. MaxFiles

VARIABLES
  written,    \* MySQL: the number of events in each binlog file
  open,       \* MySQL: the file it writes to
  oldest,     \* MySQL: the first file it still has
  final,      \* disk: the archived files
  partial,    \* disk: the .partial of the segment being read
  saved,      \* disk: archive_state.json
  pc,         \* where the loop is
  listed,     \* the answer to SHOW BINARY LOGS
  masterPos,  \* the answer to SHOW MASTER STATUS
  pos,        \* the position the current segment starts at
  src,        \* the replication stream: the last event it delivered
  appending,  \* the segment's file is already in the archive
  started,    \* the segment has written something
  next,       \* the file named by the rotation that ended the segment
  suspect,    \* history: files that may hold an event twice, see Copy
  headless,   \* history: files whose beginning is gone, see RecoverFails
  lost,       \* history: files MySQL purged before they were archived
  pruned      \* history: files the retention removed

mysql == <<written, open, oldest>>
history == <<suspect, headless, lost, pruned>>
answers == <<listed, masterPos>>
segment == <<src, appending, started, next>>
vars == <<mysql, final, partial, saved, pc, answers, pos, segment, history>>

Missing == <<>>
NoState == [file |-> 0, at |-> 0]
Torn == <<0, 0>>

Events(f) == [i \in 1 .. written[f] |-> <<f, i>>]

Rotated(f) == f < open

\* A file as it is in MySQL's directory.
FileOf(f) == Events(f) \o IF Rotated(f) THEN << <<f, 0>> >> ELSE <<>>

IsArchived(f) == Range(Events(f)) \subseteq Range(final[f])

Position == [file: 0 .. MaxFiles, at: 0 .. MaxEvents]

ArchiveEvent == (0 .. MaxFiles) \X (0 .. MaxEvents)

MysqlOK ==
  /\ written \in [Files -> 0 .. MaxEvents]
  /\ open \in Files
  /\ oldest \in 1 .. open

DiskOK ==
  /\ final \in [Files -> Seq(ArchiveEvent)]
  /\ partial \in Seq(ArchiveEvent)
  /\ saved \in Position

LoopOK ==
  /\ pc \in {"down", "list", "master", "backfill", "load", "sync", "stream",
             "seal", "prune", "save", "relist", "remaster", "refill", "stopped"}
  /\ listed \in SUBSET Files
  /\ {masterPos, pos, src} \subseteq Position
  /\ appending \in BOOLEAN
  /\ started \in BOOLEAN
  /\ next \in 0 .. MaxFiles

HistoryOK ==
  /\ suspect \in SUBSET Files
  /\ headless \in SUBSET Files
  /\ lost \in SUBSET Files
  /\ pruned \in SUBSET Files

TypeOK == MysqlOK /\ DiskOK /\ LoopOK /\ HistoryOK

\* Bound: what makes a file grow beyond its size does not happen again and again.
Bounded(f) == Len(final[f]) <= MaxEvents

\* reconcile, recoverSealedFile and syncOnce return: their locals are gone.
Forget == listed' = {} /\ masterPos' = NoState
EndSegment == src' = NoState /\ appending' = FALSE /\ started' = FALSE /\ next' = 0

Init ==
  /\ written = [f \in Files |-> 0]
  /\ open = 1
  /\ oldest = 1
  /\ final = [f \in Files |-> Missing]
  /\ partial = Missing
  /\ saved = NoState
  /\ pc = "down"
  /\ listed = {}
  /\ masterPos = NoState
  /\ pos = NoState
  /\ src = NoState
  /\ appending = FALSE
  /\ started = FALSE
  /\ next = 0
  /\ suspect = {}
  /\ headless = {}
  /\ lost = {}
  /\ pruned = {}

-----------------------------------------------------------------------------
(* MySQL.                                                                  *)

\* Without "busy", MySQL is idle where the code asks it twice.
MayMove ==
  \/ "busy" \in Faults
  \/ pc # "remaster" /\ (saved = NoState => pc \notin {"master", "backfill", "load"})

\* Bound: the last file, which is never closed, gets its first event only.
Room(f) == IF f = MaxFiles THEN 1 ELSE MaxEvents

Write ==
  /\ MayMove
  /\ written[open] < Room(open)
  /\ written' = [written EXCEPT ![open] = @ + 1]
  /\ UNCHANGED <<open, oldest, final, partial, saved, pc, answers, pos,
                 segment, history>>

Rotate ==
  /\ MayMove
  /\ written[open] > 0
  /\ open < MaxFiles
  /\ open' = open + 1
  /\ UNCHANGED <<written, oldest, final, partial, saved, pc, answers, pos,
                 segment, history>>

Purge ==
  /\ "purge" \in Faults
  /\ oldest < open
  /\ oldest' = oldest + 1
  /\ lost' = IF IsArchived(oldest) THEN lost ELSE lost \cup {oldest}
  /\ UNCHANGED <<written, open, final, partial, saved, pc, answers, pos,
                 segment, suspect, headless, pruned>>

-----------------------------------------------------------------------------
(* Start and reconcile.                                                    *)

(***************************************************************************)
(* Without "early", an agent that has archived something but not yet saved *)
(* a state is not started again.                                           *)
(***************************************************************************)
Start ==
  /\ pc = "down"
  /\ \/ "early" \in Faults
     \/ saved # NoState
     \/ \A f \in Files : final[f] = Missing
  /\ pc' = "list"
  /\ UNCHANGED <<mysql, final, partial, saved, answers, pos, segment,
                 history>>

ListBinlogs ==
  /\ pc = "list"
  /\ listed' = oldest .. open
  /\ pc' = "master"
  /\ UNCHANGED <<mysql, final, partial, saved, masterPos, pos, segment,
                 history>>

MasterPosition ==
  /\ pc = "master"
  /\ masterPos' = [file |-> open, at |-> written[open]]
  /\ pc' = "backfill"
  /\ UNCHANGED <<mysql, final, partial, saved, listed, pos, segment,
                 history>>

\* backfillFile skips the open file when it is empty.
ToBackfill ==
  {f \in listed : final[f] = Missing /\ masterPos # [file |-> f, at |-> 0]}

(***************************************************************************)
(* backfillFile: the whole file, but the open one only up to masterPos.    *)
(* A copy of a file that the saved state still has to read will be read    *)
(* once more from the stream, and is suspect from now on.                  *)
(***************************************************************************)
Copy(f) ==
  /\ f \in oldest .. open
  /\ final' = [final EXCEPT ![f] =
                 IF f = masterPos.file
                 THEN SubSeq(Events(f), 1, masterPos.at)
                 ELSE FileOf(f)]
  /\ suspect' = IF saved # NoState /\ f >= saved.file
                THEN suspect \cup {f}
                ELSE suspect \ {f}
  /\ headless' = headless \ {f}
  /\ pruned' = pruned \ {f}

BackfillFile ==
  /\ pc = "backfill"
  /\ ToBackfill # {}
  /\ Copy(CHOOSE f \in ToBackfill : \A g \in ToBackfill : f <= g)
  /\ UNCHANGED <<mysql, partial, saved, pc, answers, pos, segment, lost>>

\* All is copied: cleanupPartials, and reconcile returns.
Reconciled ==
  /\ pc = "backfill"
  /\ ToBackfill = {}
  /\ partial' = Missing
  /\ pc' = "load"
  /\ Forget
  /\ UNCHANGED <<mysql, final, saved, pos, segment, history>>

(***************************************************************************)
(* Run returns an error: a query of reconcile or syncLoop fails, a listed  *)
(* file is gone when it is to be copied or cannot be copied, or the state  *)
(* cannot be read.  Nobody starts it again.                                *)
(***************************************************************************)
RunFails ==
  /\ \/ /\ "query" \in Faults
        /\ \/ pc \in {"list", "master"}
           \/ pc = "load" /\ saved = NoState
     \/ /\ pc = "backfill"
        /\ \E f \in ToBackfill :
             f < oldest /\ \A g \in ToBackfill : f <= g
     \/ /\ "copy" \in Faults
        /\ pc = "load" \/ (pc = "backfill" /\ ToBackfill # {})
  /\ pc' = "stopped"
  /\ Forget
  /\ UNCHANGED <<mysql, final, partial, saved, pos, segment, history>>

-----------------------------------------------------------------------------
(* syncLoop and the reading half of syncOnce.                              *)

\* Where syncLoop begins: at the saved state, else at the master's position.
LoadState ==
  /\ pc = "load"
  /\ pos' = IF saved = NoState
            THEN [file |-> open, at |-> written[open]]
            ELSE saved
  /\ pc' = "sync"
  /\ UNCHANGED <<mysql, final, partial, saved, answers, segment, history>>

\* A purged file cannot be read: the loop stays here and tries again.
OpenStream ==
  /\ pc = "sync"
  /\ pos.file >= oldest
  /\ src' = pos
  /\ appending' = (final[pos.file] # Missing)
  /\ started' = FALSE
  /\ pc' = "stream"
  /\ UNCHANGED <<mysql, final, partial, saved, answers, pos, next, history>>

(***************************************************************************)
(* The format description that opens every stream: skipStreamPreamble      *)
(* drops it when the file is continued, else it begins the .partial.       *)
(***************************************************************************)
ReadFormat ==
  /\ pc = "stream"
  /\ ~started
  /\ ~appending \/ src.at = 0
  /\ written[src.file] > 0
  /\ src' = [src EXCEPT !.at = IF @ = 0 THEN 1 ELSE @]
  /\ started' = ~appending
  /\ partial' = IF appending THEN partial ELSE << <<src.file, 1>> >>
  /\ UNCHANGED <<mysql, final, saved, pc, answers, pos, appending, next,
                 history>>

\* Mutant: the stream's end is taken one event too late.
ReadEventPastEnd ==
  /\ pc = "stream"
  /\ started \/ appending
  /\ src.at > 0
  /\ src.file >= oldest
  /\ src.at <= written[src.file]
  /\ src' = [src EXCEPT !.at = @ + 1]
  /\ started' = TRUE
  /\ partial' = Append(partial, <<src.file, src.at + 1>>)
  /\ UNCHANGED <<mysql, final, saved, pc, answers, pos, appending, next,
                 history>>

\* The writer of a continued file opens the .partial with O_APPEND.
ReadEvent ==
  /\ pc = "stream"
  /\ started \/ appending
  /\ src.at > 0
  /\ src.file >= oldest
  /\ src.at < written[src.file]
  /\ src' = [src EXCEPT !.at = @ + 1]
  /\ started' = TRUE
  /\ partial' = Append(partial, <<src.file, src.at + 1>>)
  /\ UNCHANGED <<mysql, final, saved, pc, answers, pos, appending, next,
                 history>>

\* The stream is behind the last event of a closed file.
AtRotation ==
  /\ pc = "stream"
  /\ Rotated(src.file)
  /\ src.at = written[src.file]

ReadRotate ==
  /\ AtRotation
  /\ started
  /\ next' = src.file + 1
  /\ pc' = "seal"
  /\ UNCHANGED <<mysql, final, partial, saved, answers, pos, src, appending,
                 started, history>>

\* Mutant: skipStreamPreamble drops every rotation, also the one to the next file.
EmptyTailSwallowed ==
  /\ AtRotation
  /\ ~started
  /\ appending
  /\ src' = [file |-> src.file + 1, at |-> 0]
  /\ UNCHANGED <<mysql, final, partial, saved, pc, answers, pos, appending,
                 started, next, history>>

(***************************************************************************)
(* skipStreamPreamble meets the rotation to the next file before any       *)
(* event: there is nothing to seal, and nothing is pruned.                 *)
(***************************************************************************)
EmptyTail ==
  /\ AtRotation
  /\ ~started
  /\ appending
  /\ next' = src.file + 1
  /\ partial' = Missing
  /\ pc' = "save"
  /\ UNCHANGED <<mysql, final, saved, answers, pos, src, appending, started,
                 history>>

(***************************************************************************)
(* The client reconnects, and the writer takes the announcement of the     *)
(* current file for the end of the segment.                                *)
(***************************************************************************)
Reannounced ==
  /\ "reconnect" \in Faults
  /\ pc = "stream"
  /\ started
  /\ Bounded(pos.file)
  /\ next' = src.file
  /\ pc' = "seal"
  /\ suspect' = suspect \cup {pos.file}
  /\ UNCHANGED <<mysql, final, partial, saved, answers, pos, src, appending,
                 started, headless, lost, pruned>>

\* The segment is given up and tried again from where it began.
StreamFails ==
  /\ "stream" \in Faults
  /\ pc = "stream"
  /\ partial' = Missing
  /\ pc' = "sync"
  /\ EndSegment
  /\ UNCHANGED <<mysql, final, saved, answers, pos, history>>

-----------------------------------------------------------------------------
(* Seal, SealAppendVerified and the state file.                            *)

\* Mutant: the tail is appended without looking whether it is there.
NeverAppended(f) == FALSE

\* What SealAppendVerified looks at: the tail is there already; all parses.
AlreadyAppended(f) == IsSuffix(partial, final[f])
Parses(f) == Torn \notin Range(final[f])

\* Seal renames the .partial; SealAppendVerified appends it to the file.
Sealed(f) ==
  IF ~appending THEN partial
  ELSE IF AlreadyAppended(f) THEN final[f]
  ELSE final[f] \o partial

Seal ==
  /\ pc = "seal"
  /\ appending => AlreadyAppended(pos.file) \/ Parses(pos.file)
  /\ final' = [final EXCEPT ![pos.file] = Sealed(pos.file)]
  /\ partial' = Missing
  /\ pruned' = pruned \ {pos.file}
  /\ pc' = "prune"
  /\ UNCHANGED <<mysql, saved, answers, pos, segment, suspect, headless, lost>>

(***************************************************************************)
(* An append that does not get to its end leaves the first k events of the *)
(* tail behind, and maybe a piece of the next one.                         *)
(***************************************************************************)
Interrupted(f) ==
  LET cut(k) == final[f] \o SubSeq(partial, 1, k)
  IN  UNION {{cut(k), Append(cut(k), Torn)} : k \in 0 .. Len(partial) - 1}

CutShort ==
  /\ pc = "seal"
  /\ appending
  /\ ~AlreadyAppended(pos.file)
  /\ Parses(pos.file)
  /\ Bounded(pos.file)
  /\ \E c \in Interrupted(pos.file) : final' = [final EXCEPT ![pos.file] = c]
  /\ suspect' = suspect \cup {pos.file}

\* Mutant: the error of sealing is only logged.
SealErrorIgnored ==
  /\ pc = "seal"
  /\ "seal" \in Faults
  /\ UNCHANGED <<final, suspect>>
  /\ partial' = Missing
  /\ pc' = "save"
  /\ UNCHANGED <<mysql, saved, answers, pos, segment, headless, lost, pruned>>

\* Sealing fails; syncOnce removes the .partial and turns to recoverSealedFile.
SealFails ==
  /\ pc = "seal"
  /\ \/ appending /\ ~AlreadyAppended(pos.file) /\ ~Parses(pos.file)
        /\ UNCHANGED <<final, suspect>>
     \/ "seal" \in Faults /\ UNCHANGED <<final, suspect>>
     \/ "seal" \in Faults /\ CutShort
  /\ partial' = Missing
  /\ pc' = "relist"
  /\ UNCHANGED <<mysql, saved, answers, pos, segment, headless, lost, pruned>>

(***************************************************************************)
(* Archive files that are old enough.  The one just sealed may be, since   *)
(* sealing keeps the time of its last write (a rename, or a tail that was  *)
(* there already); that an append makes it new is left out.                *)
(***************************************************************************)
PruneRetention ==
  /\ pc = "prune"
  /\ \E old \in SUBSET {f \in Files : final[f] # Missing /\ "prune" \in Faults} :
       /\ final' = [f \in Files |-> IF f \in old THEN Missing ELSE final[f]]
       /\ pruned' = pruned \cup old
  /\ pc' = "save"
  /\ UNCHANGED <<mysql, partial, saved, answers, pos, segment, suspect,
                 headless, lost>>

(***************************************************************************)
(* SaveState, and what syncLoop does next.  When the state file cannot be  *)
(* written the loop goes on from the state in memory, which is the same.   *)
(* Otherwise it is read again, which may fail; that, and a state that      *)
(* names the same file again, end the loop.                                *)
(***************************************************************************)
SaveState ==
  /\ pc = "save"
  /\ \/ /\ saved' = [file |-> next, at |-> 0]
        /\ \/ next # pos.file /\ pc' = "sync"
           \/ (next = pos.file \/ "copy" \in Faults) /\ pc' = "stopped"
     \/ /\ "save" \in Faults
        /\ UNCHANGED saved
        /\ pc' = IF next # pos.file THEN "sync" ELSE "stopped"
  /\ pos' = [file |-> next, at |-> 0]
  /\ EndSegment
  /\ Forget
  /\ UNCHANGED <<mysql, final, partial, history>>

-----------------------------------------------------------------------------
(* recoverSealedFile: sealing failed, so the file is copied instead.       *)

RecoverList ==
  /\ pc = "relist"
  /\ listed' = oldest .. open
  /\ pc' = "remaster"
  /\ UNCHANGED <<mysql, final, partial, saved, masterPos, pos, segment,
                 history>>

MustRefill == open > pos.file \/ pos.file \notin listed

\* MySQL is done with the file: the archived one is removed.
RecoverRemoves ==
  /\ pc = "remaster"
  /\ MustRefill
  /\ masterPos' = [file |-> open, at |-> written[open]]
  /\ final' = [final EXCEPT ![pos.file] = Missing]
  /\ pc' = "refill"
  /\ UNCHANGED <<mysql, partial, saved, listed, pos, segment, history>>

Refill ==
  /\ pc = "refill"
  /\ Copy(pos.file)
  /\ LET later == {f \in listed : f > pos.file}
     IN  next' = IF later = {} THEN masterPos.file
                 ELSE CHOOSE f \in later : \A g \in later : f <= g
  /\ pc' = "save"
  /\ UNCHANGED <<mysql, partial, saved, answers, pos, src, appending,
                 started, lost>>

(***************************************************************************)
(* MySQL still writes the file, a query fails, or the file cannot be       *)
(* copied, purged or not: syncLoop tries the segment again.  In the last   *)
(* case the archived file is gone already, and a segment that began in the *)
(* middle of it does not bring its beginning back.                         *)
(***************************************************************************)
RecoverFails ==
  /\ \/ pc = "remaster" /\ ~MustRefill /\ UNCHANGED headless
     \/ pc \in {"relist", "remaster"} /\ "query" \in Faults /\ UNCHANGED headless
     \/ /\ pc = "refill"
        /\ pos.file < oldest \/ "copy" \in Faults
        /\ headless' = headless \cup {f \in {pos.file} : pos.at > 0}
  /\ pc' = "sync"
  /\ EndSegment
  /\ Forget
  /\ UNCHANGED <<mysql, final, partial, saved, pos, suspect, lost, pruned>>

-----------------------------------------------------------------------------
\* The agent dies, in the middle of an append or anywhere else.
Crash ==
  /\ "crash" \in Faults
  /\ pc # "down"
  /\ CutShort \/ UNCHANGED <<final, suspect>>
  /\ pc' = "down"
  /\ pos' = NoState
  /\ EndSegment
  /\ Forget
  /\ UNCHANGED <<mysql, partial, saved, headless, lost, pruned>>

Reconcile == ListBinlogs \/ MasterPosition \/ BackfillFile \/ Reconciled

Sync ==
  \/ LoadState \/ OpenStream \/ ReadFormat \/ ReadEvent \/ ReadRotate
  \/ EmptyTail \/ Seal \/ PruneRetention \/ SaveState

Recover == RecoverList \/ RecoverRemoves \/ Refill

Next ==
  \/ Write \/ Rotate \/ Purge
  \/ Start \/ Reconcile \/ RunFails
  \/ Sync \/ Reannounced \/ StreamFails
  \/ SealFails \/ Recover \/ RecoverFails
  \/ Crash

Spec == Init /\ [][Next]_vars

-----------------------------------------------------------------------------
(***************************************************************************)
(* Every file behind the saved state is archived with all its events,      *)
(* unless the retention removed it, MySQL purged it before the agent got   *)
(* to it, or recoverSealedFile removed it in the first segment and could   *)
(* not copy it again, which leaves a gap (loop.go:506-510).  The state     *)
(* file is the only memory the collector has, and nothing behind it is     *)
(* looked at again: a rotation, crash, failed seal, copy or save that      *)
(* moved it past an unread event would leave a gap.                        *)
(***************************************************************************)
NoGapBehindState ==
  \A f \in 1 .. saved.file - 1 : f \in lost \cup pruned \cup headless \/ IsArchived(f)

(***************************************************************************)
(* A file that was only streamed, or copied when nothing of it was to be   *)
(* streamed, is a prefix of MySQL's file: its events in order, none twice, *)
(* none of another file, none left out; but for the files of which         *)
(* recoverSealedFile lost the beginning.  So retries after stream errors,  *)
(* failed saves and copies, and a crash between the seal and the save      *)
(* (what alreadyAppended is for) do not repeat an event.                   *)
(***************************************************************************)
CopyIsPrefix ==
  \A f \in Files \ (suspect \cup headless) : IsPrefix(final[f], FileOf(f))

(***************************************************************************)
(* Whatever happens, also in suspect files, an event is archived under its *)
(* own file's name, and what the agent reads as a file starts with the     *)
(* format description without which no event of it can be decoded.         *)
(***************************************************************************)
EventsUnderOwnFile ==
  \A f \in Files :
    final[f] # Missing =>
      /\ Head(final[f]) = <<f, 1>>
      /\ \A e \in Range(final[f]) : e = Torn \/ e[1] = f

(***************************************************************************)
(* No archived file ever holds an event twice: "the tail is appended once, *)
(* also when it is read again after a restart" (the comments on saveState  *)
(* in syncOnce and on SealAppendVerified).  Does not hold.                 *)
(***************************************************************************)
NoEventTwice ==
  \A f \in Files : \A i, j \in DOMAIN final[f] :
    final[f][i] = final[f][j] => i = j
=============================================================================

-------------------------- MODULE CollectorProofs --------------------------
(***************************************************************************)
(* Theorems about Collector, for any number of files and events and every  *)
(* combination of faults unless a theorem says otherwise.                  *)
(***************************************************************************)
EXTENDS Collector, SequenceTheorems, TLAPS

USE CollectorAssumption

-----------------------------------------------------------------------------
(* What the sequences of the model hold, event by event.                   *)

LEMMA NoStateIs ==
  /\ NoState \in Position
  /\ \A p \in Position : p = NoState <=> p.file = 0 /\ p.at = 0
BY DEF NoState, Position

LEMMA EventsAre ==
  ASSUME MysqlOK, NEW f \in Files
  PROVE  /\ written[f] \in Nat
         /\ Events(f) \in Seq(ArchiveEvent)
         /\ Len(Events(f)) = written[f]
         /\ \A i \in 1 .. written[f] : Events(f)[i] = <<f, i>>
<1>1. written[f] \in 0 .. MaxEvents /\ f \in 0 .. MaxFiles
  BY DEF MysqlOK, Files
<1>2. \A i \in 1 .. written[f] : <<f, i>> \in ArchiveEvent
  BY <1>1 DEF ArchiveEvent
<1>3. Events(f) \in [1 .. written[f] -> ArchiveEvent]
  BY <1>2 DEF Events
<1>4. Events(f) \in Seq(ArchiveEvent) /\ Len(Events(f)) = written[f]
  BY <1>1, <1>3, SeqDef, LenProperties
<1>5. QED BY <1>1, <1>4 DEF Events

LEMMA FileIs ==
  ASSUME MysqlOK, NEW f \in Files
  PROVE  /\ FileOf(f) \in Seq(ArchiveEvent)
         /\ Len(FileOf(f)) = written[f] + (IF Rotated(f) THEN 1 ELSE 0)
         /\ \A i \in 1 .. written[f] : FileOf(f)[i] = <<f, i>>
         /\ Rotated(f) => FileOf(f)[written[f] + 1] = <<f, 0>>
<1> DEFINE s == Events(f)
<1>1. /\ written[f] \in Nat /\ s \in Seq(ArchiveEvent) /\ Len(s) = written[f]
      /\ \A i \in 1 .. written[f] : s[i] = <<f, i>>
  BY EventsAre
<1> HIDE DEF s
<1>2. CASE Rotated(f)
  <2>1. <<f, 0>> \in ArchiveEvent
    BY DEF ArchiveEvent, Files
  <2>2. FileOf(f) = Append(s, <<f, 0>>)
    BY <1>1, <1>2, <2>1, AppendIsConcat DEF FileOf, s
  <2>3. QED BY <1>1, <1>2, <2>1, <2>2, AppendProperties
<1>3. CASE ~Rotated(f)
  <2>1. FileOf(f) = s
    BY <1>1, <1>3, ConcatEmptySeq DEF FileOf, s
  <2>2. QED BY <1>1, <1>3, <2>1
<1>4. QED BY <1>2, <1>3

LEMMA CutIs ==
  ASSUME MysqlOK, NEW f \in Files, NEW n \in 0 .. written[f]
  PROVE  /\ SubSeq(Events(f), 1, n) \in Seq(ArchiveEvent)
         /\ Len(SubSeq(Events(f), 1, n)) = n
         /\ \A i \in 1 .. n : SubSeq(Events(f), 1, n)[i] = <<f, i>>
<1>1. \A i \in 1 .. n : Events(f)[i] \in ArchiveEvent /\ Events(f)[i] = <<f, i>>
  BY EventsAre
<1>2. n \in Int /\ n \in Nat
  BY EventsAre
<1>3. /\ SubSeq(Events(f), 1, n) \in Seq(ArchiveEvent)
      /\ Len(SubSeq(Events(f), 1, n)) = IF 1 <= n THEN n - 1 + 1 ELSE 0
      /\ \A i \in 1 .. n - 1 + 1 : SubSeq(Events(f), 1, n)[i] = Events(f)[1 + i - 1]
  BY <1>1, <1>2, SubSeqProperties
<1>4. QED BY <1>1, <1>2, <1>3

\* One sequence is the beginning of the other.
LEMMA PrefixIs ==
  ASSUME NEW s \in Seq(ArchiveEvent), NEW t \in Seq(ArchiveEvent)
  PROVE  IsPrefix(s, t) <=> Len(s) <= Len(t) /\ \A i \in 1 .. Len(s) : s[i] = t[i]
<1> DEFINE m == Len(s)
<1>1. m \in Nat /\ Len(t) \in Nat
  BY LenProperties
<1>2. IsPrefix(s, t) <=> m <= Len(t) /\ SubSeq(s, 1, m) = SubSeq(t, 1, m)
  BY DEF IsPrefix
<1>3. ASSUME m <= Len(t)
      PROVE  SubSeq(s, 1, m) = SubSeq(t, 1, m) <=> \A i \in 1 .. m : s[i] = t[i]
  <2> HIDE DEF m
  <2>1. /\ SubSeq(s, 1, m) \in Seq(ArchiveEvent) /\ Len(SubSeq(s, 1, m)) = m
        /\ \A i \in 1 .. m : SubSeq(s, 1, m)[i] = s[i]
    BY <1>1, ElementOfSeq, SubSeqProperties DEF m
  <2>2. /\ SubSeq(t, 1, m) \in Seq(ArchiveEvent) /\ Len(SubSeq(t, 1, m)) = m
        /\ \A i \in 1 .. m : SubSeq(t, 1, m)[i] = t[i]
    BY <1>1, <1>3, ElementOfSeq, SubSeqProperties
  <2>3. (\A i \in 1 .. m : s[i] = t[i]) => SubSeq(s, 1, m) = SubSeq(t, 1, m)
    BY <2>1, <2>2, SeqEqual
  <2>4. SubSeq(s, 1, m) = SubSeq(t, 1, m) => \A i \in 1 .. m : s[i] = t[i]
    BY <2>1, <2>2
  <2>5. QED BY <2>3, <2>4
<1>4. QED BY <1>2, <1>3

\* The tail is the end of the file.
LEMMA AppendedIs ==
  ASSUME DiskOK, NEW f \in Files
  PROVE  AlreadyAppended(f) <=>
           /\ Len(partial) <= Len(final[f])
           /\ \A i \in 1 .. Len(partial) :
                partial[i] = final[f][Len(final[f]) - Len(partial) + i]
<1> DEFINE s == partial
           t == final[f]
           m == Len(s)
           n == Len(t)
<1>1. s \in Seq(ArchiveEvent) /\ t \in Seq(ArchiveEvent) /\ m \in Nat /\ n \in Nat
  BY LenProperties DEF DiskOK
<1>2. /\ Reverse(s) \in Seq(ArchiveEvent) /\ Len(Reverse(s)) = m
      /\ \A i \in 1 .. m : Reverse(s)[i] = s[m - i + 1]
  <2>1. Reverse(s) \in [1 .. m -> ArchiveEvent]
    BY <1>1, LenProperties DEF Reverse
  <2>2. QED BY <1>1, <2>1, SeqDef, LenProperties DEF Reverse
<1>3. /\ Reverse(t) \in Seq(ArchiveEvent) /\ Len(Reverse(t)) = n
      /\ \A i \in 1 .. n : Reverse(t)[i] = t[n - i + 1]
  <2>1. Reverse(t) \in [1 .. n -> ArchiveEvent]
    BY <1>1, LenProperties DEF Reverse
  <2>2. QED BY <1>1, <2>1, SeqDef, LenProperties DEF Reverse
<1> DEFINE a == Reverse(s)
           b == Reverse(t)
<1>4. AlreadyAppended(f) <=> IsPrefix(a, b)
  BY DEF AlreadyAppended, IsSuffix
<1> HIDE DEF s, t, m, n, a, b
<1>5. AlreadyAppended(f) <=> m <= n /\ \A i \in 1 .. m : s[m - i + 1] = t[n - i + 1]
  <2>1. AlreadyAppended(f) <=> m <= n /\ \A i \in 1 .. m : a[i] = b[i]
    BY <1>2, <1>3, <1>4, PrefixIs DEF a, b
  <2>2. \A i \in 1 .. m : a[i] = s[m - i + 1]
    BY <1>2 DEF a
  <2>3. m <= n => \A i \in 1 .. m : b[i] = t[n - i + 1]
    BY <1>1, <1>3 DEF b
  <2>4. QED BY <2>1, <2>2, <2>3
<1>6. ASSUME m <= n
      PROVE  (\A i \in 1 .. m : s[m - i + 1] = t[n - i + 1]) <=> \A i \in 1 .. m : s[i] = t[n - m + i]
  <2>1. ASSUME \A i \in 1 .. m : s[m - i + 1] = t[n - i + 1], NEW i \in 1 .. m
        PROVE  s[i] = t[n - m + i]
    <3>1. m - i + 1 \in 1 .. m /\ m - (m - i + 1) + 1 = i /\ n - (m - i + 1) + 1 = n - m + i
      BY <1>1
    <3>2. QED BY <2>1, <3>1
  <2>2. ASSUME \A i \in 1 .. m : s[i] = t[n - m + i], NEW i \in 1 .. m
        PROVE  s[m - i + 1] = t[n - i + 1]
    <3>1. m - i + 1 \in 1 .. m /\ n - m + (m - i + 1) = n - i + 1
      BY <1>1
    <3>2. QED BY <2>2, <3>1
  <2>3. QED BY <2>1, <2>2
<1>7. AlreadyAppended(f) <=> m <= n /\ \A i \in 1 .. m : s[i] = t[n - m + i]
  BY <1>5, <1>6
<1>8. QED BY <1>7 DEF s, t, m, n

\* A torn append adds events of the tail but never its last one.
LEMMA InterruptedIs ==
  ASSUME DiskOK, NEW f \in Files, NEW c \in Interrupted(f)
  PROVE  /\ c \in Seq(ArchiveEvent)
         /\ Len(final[f]) <= Len(c)
         /\ \A i \in 1 .. Len(final[f]) : c[i] = final[f][i]
         /\ \A i \in Len(final[f]) + 1 .. Len(c) :
              c[i] = Torn \/ \E j \in 1 .. Len(partial) - 1 : c[i] = partial[j]
<1> DEFINE t == final[f]
           cut(k) == t \o SubSeq(partial, 1, k)
           Good(s) == /\ s \in Seq(ArchiveEvent)
                      /\ Len(t) <= Len(s)
                      /\ \A i \in 1 .. Len(t) : s[i] = t[i]
                      /\ \A i \in Len(t) + 1 .. Len(s) :
                           s[i] = Torn \/ \E j \in 1 .. Len(partial) - 1 : s[i] = partial[j]
<1>1. /\ t \in Seq(ArchiveEvent) /\ partial \in Seq(ArchiveEvent)
      /\ Len(t) \in Nat /\ Len(partial) \in Nat
  BY LenProperties DEF DiskOK
<1>2. PICK k \in 0 .. Len(partial) - 1 : c = cut(k) \/ c = Append(cut(k), Torn)
  BY DEF Interrupted
<1> DEFINE u == SubSeq(partial, 1, k)
<1>3. /\ u \in Seq(ArchiveEvent) /\ Len(u) = k
      /\ \A i \in 1 .. k : u[i] = partial[i]
  <2>1. \A i \in 1 .. k : partial[i] \in ArchiveEvent
    BY <1>1, ElementOfSeq
  <2>2. k \in Int
    BY <1>1
  <2>3. /\ u \in Seq(ArchiveEvent)
        /\ Len(u) = IF 1 <= k THEN k - 1 + 1 ELSE 0
        /\ \A i \in 1 .. k - 1 + 1 : u[i] = partial[1 + i - 1]
    BY <2>1, <2>2, SubSeqProperties
  <2>4. QED BY <1>1, <2>2, <2>3
<1> DEFINE v == t \o u
<1>4. c = v \/ c = Append(v, Torn)
  BY <1>2
<1> HIDE DEF t, u
<1>5. /\ v \in Seq(ArchiveEvent) /\ Len(v) = Len(t) + k
      /\ \A i \in 1 .. Len(t) + k : v[i] = IF i <= Len(t) THEN t[i] ELSE u[i - Len(t)]
  BY <1>1, <1>3, ConcatProperties
<1> HIDE DEF v
<1>6. Good(v)
  <2>1. \A i \in Len(t) + 1 .. Len(v) : v[i] = partial[i - Len(t)] /\ i - Len(t) \in 1 .. Len(partial) - 1
    BY <1>1, <1>3, <1>5
  <2>2. QED BY <1>1, <1>5, <2>1
<1>7. Good(Append(v, Torn))
  <2>1. Torn \in ArchiveEvent
    BY DEF Torn, ArchiveEvent
  <2>2. /\ Append(v, Torn) \in Seq(ArchiveEvent)
        /\ Len(Append(v, Torn)) = Len(v) + 1
        /\ \A i \in 1 .. Len(v) : Append(v, Torn)[i] = v[i]
        /\ Append(v, Torn)[Len(v) + 1] = Torn
    BY <1>5, <2>1, AppendProperties
  <2>3. Len(v) \in Nat
    BY <1>1, <1>5
  <2>4. QED BY <1>1, <1>6, <2>2, <2>3
<1> HIDE DEF Good
<1>8. Good(c)
  BY <1>4, <1>6, <1>7
<1>9. QED BY <1>8 DEF Good, t

\* Sealing renames the tail, leaves the file alone or puts the tail behind it.
LEMMA SealedIs ==
  ASSUME DiskOK, NEW f \in Files
  PROVE  /\ Sealed(f) \in Seq(ArchiveEvent)
         /\ ~appending => Sealed(f) = partial
         /\ appending /\ AlreadyAppended(f) => Sealed(f) = final[f]
         /\ appending /\ ~AlreadyAppended(f) =>
              /\ Len(Sealed(f)) = Len(final[f]) + Len(partial)
              /\ \A i \in 1 .. Len(final[f]) : Sealed(f)[i] = final[f][i]
              /\ \A i \in 1 .. Len(partial) : Sealed(f)[Len(final[f]) + i] = partial[i]
<1> DEFINE t == final[f]
<1>1. /\ t \in Seq(ArchiveEvent) /\ partial \in Seq(ArchiveEvent)
      /\ Len(t) \in Nat /\ Len(partial) \in Nat
  BY LenProperties DEF DiskOK
<1>2. /\ t \o partial \in Seq(ArchiveEvent)
      /\ Len(t \o partial) = Len(t) + Len(partial)
      /\ \A i \in 1 .. Len(t) : (t \o partial)[i] = t[i]
      /\ \A i \in 1 .. Len(partial) : (t \o partial)[Len(t) + i] = partial[i]
  <2> HIDE DEF t
  <2>1. /\ t \o partial \in Seq(ArchiveEvent)
        /\ Len(t \o partial) = Len(t) + Len(partial)
        /\ \A i \in 1 .. Len(t) + Len(partial) :
             (t \o partial)[i] = IF i <= Len(t) THEN t[i] ELSE partial[i - Len(t)]
    BY <1>1, ConcatProperties
  <2>2. ASSUME NEW i \in 1 .. Len(partial)
        PROVE  (t \o partial)[Len(t) + i] = partial[i]
    <3>1. Len(t) + i \in 1 .. Len(t) + Len(partial) /\ ~(Len(t) + i <= Len(t))
          /\ Len(t) + i - Len(t) = i
      BY <1>1
    <3>2. QED BY <2>1, <3>1
  <2>3. QED BY <1>1, <2>1, <2>2
<1>3. QED BY <1>1, <1>2 DEF Sealed

-----------------------------------------------------------------------------
(* The inductive invariant that needs no assumption on the faults.         *)

Idle == {"down", "list", "master", "backfill", "load"}
Reading == {"stream", "seal"}
Between == {"load", "sync", "prune", "save", "relist", "remaster", "refill"}

\* A file that was closed has events, one that is still to come has none.
Closed ==
  \A f \in Files : (f < open => written[f] > 0) /\ (f > open => written[f] = 0)

\* Every position is one MySQL has reached, and the loop is never behind the
\* saved one.
Where ==
  /\ masterPos.file > 0 =>
       masterPos.file \in saved.file .. open /\ masterPos.at <= written[masterPos.file]
  /\ pos.file > 0 => pos.file \in saved.file .. open /\ pos.at <= written[pos.file]
  /\ pos.file = 0 => pos.at = 0
  /\ saved.file <= open /\ saved.at = 0
  /\ pc \in Idle => pos.file = 0
  /\ pc \notin Idle \cup {"stopped"} => pos.file > 0
  /\ pc \in {"seal", "prune", "save"} => next \in pos.file .. open
  /\ pc \in {"remaster", "refill"} => \E a \in Files, b \in 1 .. open : listed = a .. b
  /\ pc = "backfill" => masterPos.file > 0
  /\ pc = "refill" => masterPos.file >= pos.file

\* The .partial is the tail being read, of one file and from its beginning if
\* nothing of the file is archived.
Segment ==
  /\ pc \in Between => partial = Missing
  /\ pc \in Reading =>
       /\ src.file = pos.file /\ src.at <= written[pos.file]
       /\ appending <=> final[pos.file] # Missing
       /\ started <=> partial # Missing
       /\ \A i \in 1 .. Len(partial) : partial[i][1] = pos.file
       /\ ~appending /\ started => partial[1] = <<pos.file, 1>>
  /\ pc = "seal" => started

\* An archived file begins with its format description and holds nothing of
\* another file.
Own(s, f) ==
  /\ s # Missing => s[1] = <<f, 1>>
  /\ \A i \in 1 .. Len(s) : s[i] = Torn \/ s[i][1] = f

OwnFiles == \A f \in Files : Own(final[f], f)

Core == TypeOK /\ Closed /\ Where /\ Segment /\ OwnFiles

-----------------------------------------------------------------------------
(* What a step does to MySQL and to the archive.                           *)

LEMMA MysqlStep ==
  ASSUME Next
  PROVE  Write \/ Rotate \/ Purge \/ UNCHANGED mysql
BY DEF Next, Start, Reconcile, ListBinlogs, MasterPosition, BackfillFile, Reconciled, RunFails,
  Sync, LoadState, OpenStream, ReadFormat, ReadEvent, ReadRotate, EmptyTail, Seal, PruneRetention,
  SaveState, Reannounced, StreamFails, SealFails, Recover, RecoverList, RecoverRemoves, Refill,
  RecoverFails, Crash

\* Files and events only come, and old files only go.
LEMMA MysqlGrows ==
  ASSUME MysqlOK, Closed, Next
  PROVE  /\ MysqlOK' /\ Closed'
         /\ open <= open' /\ oldest <= oldest'
         /\ \A f \in Files : /\ written[f] <= written'[f] /\ written'[f] \in Nat
                             /\ f < open => written'[f] = written[f]
<1>1. CASE Write
  <2>1. written[open] < MaxEvents
    BY <1>1 DEF Write, Room, MysqlOK
  <2>2. QED BY <1>1, <2>1 DEF Write, MysqlOK, Closed, Files
<1>2. CASE Rotate
  BY <1>2 DEF Rotate, MysqlOK, Closed, Files
<1>3. CASE Purge
  BY <1>3 DEF Purge, MysqlOK, Closed, Files
<1>4. CASE UNCHANGED mysql
  BY <1>4 DEF mysql, MysqlOK, Closed, Files
<1>5. QED BY <1>1, <1>2, <1>3, <1>4, MysqlStep

CopyOf(f, c) ==
  /\ pc = "backfill" \/ (pc = "refill" /\ f = pos.file)
  /\ f \in oldest .. open
  /\ c = IF f = masterPos.file THEN SubSeq(Events(f), 1, masterPos.at) ELSE FileOf(f)

SealOf(f, c) ==
  /\ pc = "seal" /\ f = pos.file
  /\ c = Sealed(f) \/ (appending /\ c \in Interrupted(f))

LEMMA ArchiveStep ==
  ASSUME DiskOK, Next
  PROVE  /\ final' = [f \in Files |-> final'[f]]
         /\ \A f \in Files : \/ final'[f] \in {final[f], Missing}
                             \/ CopyOf(f, final'[f])
                             \/ SealOf(f, final'[f])
<1>0. final \in [Files -> Seq(ArchiveEvent)]
  BY DEF DiskOK
<1>a. CASE UNCHANGED final
  BY <1>0, <1>a
<1>1. CASE BackfillFile
  <2>1. PICK f : Copy(f)
    BY <1>1, Zenon DEF BackfillFile
  <2>2. QED BY <1>0, <1>1, <2>1 DEF BackfillFile, Copy, CopyOf
<1>2. CASE Refill
  BY <1>0, <1>2 DEF Refill, Copy, CopyOf
<1>3. CASE Seal
  BY <1>0, <1>3 DEF Seal, SealOf
<1>4. CASE PruneRetention
  BY <1>0, <1>4 DEF PruneRetention
<1>5. CASE RecoverRemoves
  BY <1>0, <1>5 DEF RecoverRemoves
<1>6. CASE SealFails \/ Crash
  <2>1. CASE CutShort
    BY <1>0, <2>1 DEF CutShort, SealOf
  <2>2. QED BY <1>a, <1>6, <2>1 DEF SealFails, Crash
<1>7. CASE \/ Write \/ Rotate \/ Purge \/ Start \/ ListBinlogs \/ MasterPosition \/ Reconciled
           \/ RunFails \/ LoadState \/ OpenStream \/ ReadFormat \/ ReadEvent \/ ReadRotate
           \/ EmptyTail \/ SaveState \/ Reannounced \/ StreamFails \/ RecoverList \/ RecoverFails
  BY <1>a, <1>7 DEF Write, Rotate, Purge, Start, ListBinlogs, MasterPosition, Reconciled,
       RunFails, LoadState, OpenStream, ReadFormat, ReadEvent, ReadRotate, EmptyTail, SaveState,
       Reannounced, StreamFails, RecoverList, RecoverFails
<1>8. QED BY <1>1, <1>2, <1>3, <1>4, <1>5, <1>6, <1>7 DEF Next, Reconcile, Sync, Recover

\* What is copied is the beginning of MySQL's file.
LEMMA CopyIs ==
  ASSUME MysqlOK, Closed, Where, masterPos \in Position, NEW f \in Files, NEW c, CopyOf(f, c)
  PROVE  /\ c \in Seq(ArchiveEvent) /\ Own(c, f)
         /\ f # masterPos.file => c = FileOf(f)
         /\ f = masterPos.file => /\ Len(c) = masterPos.at /\ masterPos.at <= written[f]
                                  /\ \A i \in 1 .. Len(c) : c[i] = <<f, i>>
<1>0. written[f] \in Nat /\ f \in Nat \ {0}
  BY EventsAre DEF Files
<1>1. CASE f = masterPos.file
  <2>1. masterPos.at \in 0 .. written[f]
    BY <1>0, <1>1 DEF Where, Position
  <2>2. c = SubSeq(Events(f), 1, masterPos.at)
    BY <1>1 DEF CopyOf
  <2>3. c \in Seq(ArchiveEvent) /\ Len(c) = masterPos.at /\ \A i \in 1 .. Len(c) : c[i] = <<f, i>>
    BY <2>1, <2>2, CutIs
  <2>4. c # Missing => Len(c) > 0
    BY <2>3, EmptySeq DEF Missing
  <2>5. Own(c, f)
    BY <1>0, <2>1, <2>3, <2>4 DEF Own
  <2>6. QED BY <1>1, <2>1, <2>3, <2>5
<1>2. CASE f # masterPos.file
  <2>1. c = FileOf(f)
    BY <1>2 DEF CopyOf
  <2>2. /\ c \in Seq(ArchiveEvent)
        /\ Len(c) = written[f] + (IF Rotated(f) THEN 1 ELSE 0)
        /\ \A i \in 1 .. written[f] : c[i] = <<f, i>>
        /\ Rotated(f) => c[written[f] + 1] = <<f, 0>>
    BY <2>1, FileIs
  <2>3. Rotated(f) => written[f] > 0
    BY DEF Rotated, Closed
  <2>4. c # Missing => Len(c) > 0
    BY <2>2, EmptySeq DEF Missing
  <2>5. Own(c, f)
    <3>1. CASE Rotated(f)
      <4>1. Len(c) = written[f] + 1 /\ c[written[f] + 1] = <<f, 0>> /\ c[1] = <<f, 1>>
        BY <1>0, <2>2, <2>3, <3>1
      <4>2. ASSUME NEW i \in 1 .. Len(c)
            PROVE  c[i][1] = f
        <5>1. i \in 1 .. written[f] \/ i = written[f] + 1
          BY <1>0, <4>1
        <5>2. QED BY <2>2, <4>1, <5>1
      <4>3. QED BY <4>1, <4>2 DEF Own
    <3>2. CASE ~Rotated(f)
      BY <1>0, <2>2, <2>4, <3>2 DEF Own
    <3>3. QED BY <3>1, <3>2
  <2>6. QED BY <1>2, <2>1, <2>2, <2>5
<1>3. QED BY <1>1, <1>2

\* What sealing leaves behind, also when it is interrupted, is of one file.
LEMMA SealIs ==
  ASSUME DiskOK, Segment, OwnFiles, NEW f \in Files, NEW c, SealOf(f, c)
  PROVE  c \in Seq(ArchiveEvent) /\ c # Missing /\ Own(c, f)
<1> DEFINE t == final[f]
<1>1. /\ f = pos.file /\ pc = "seal" /\ started /\ partial # Missing
      /\ appending <=> t # Missing
      /\ \A i \in 1 .. Len(partial) : partial[i][1] = f
      /\ ~appending => partial[1] = <<f, 1>>
  BY DEF SealOf, Segment, Reading
<1>2. /\ t \in Seq(ArchiveEvent) /\ Len(t) \in Nat /\ partial \in Seq(ArchiveEvent) /\ Len(partial) \in Nat
      /\ Own(t, f)
  BY LenProperties DEF DiskOK, OwnFiles
<1>3. Len(partial) > 0 /\ (t # Missing => Len(t) > 0)
  BY <1>1, <1>2, EmptySeq DEF Missing
<1>4. CASE ~appending
  <2>1. c = partial
    BY <1>4, SealedIs DEF SealOf
  <2>2. QED BY <1>1, <1>2, <1>4, <2>1 DEF Own
<1>5. CASE appending /\ c = Sealed(f)
  <2>1. CASE AlreadyAppended(f)
    BY <1>1, <1>2, <1>5, <2>1, SealedIs
  <2>2. CASE ~AlreadyAppended(f)
    <3>1. /\ c \in Seq(ArchiveEvent)
          /\ Len(c) = Len(t) + Len(partial)
          /\ \A i \in 1 .. Len(t) : c[i] = t[i]
          /\ \A i \in 1 .. Len(partial) : c[Len(t) + i] = partial[i]
      BY <1>5, <2>2, SealedIs
    <3>2. c # Missing /\ c[1] = <<f, 1>>
      BY <1>1, <1>2, <1>3, <1>5, <3>1, EmptySeq DEF Own, Missing
    <3>3. ASSUME NEW i \in 1 .. Len(c)
          PROVE  c[i] = Torn \/ c[i][1] = f
      <4>1. CASE i \in 1 .. Len(t)
        BY <1>2, <3>1, <4>1 DEF Own
      <4>2. CASE i \notin 1 .. Len(t)
        <5>1. PICK j \in 1 .. Len(partial) : i = Len(t) + j
          <6>1. i - Len(t) \in 1 .. Len(partial) /\ i = Len(t) + (i - Len(t))
            BY <1>2, <3>1, <4>2
          <6>2. QED BY <6>1
        <5>2. c[i] = partial[j]
          BY <3>1, <5>1
        <5>3. QED BY <1>1, <5>2
      <4>3. QED BY <4>1, <4>2
    <3>4. QED BY <3>1, <3>2, <3>3 DEF Own
  <2>3. QED BY <2>1, <2>2
<1>6. CASE appending /\ c \in Interrupted(f)
  <2>1. /\ c \in Seq(ArchiveEvent)
        /\ Len(t) <= Len(c)
        /\ \A i \in 1 .. Len(t) : c[i] = t[i]
        /\ \A i \in Len(t) + 1 .. Len(c) :
             c[i] = Torn \/ \E j \in 1 .. Len(partial) - 1 : c[i] = partial[j]
    BY <1>6, InterruptedIs
  <2>2. Len(c) \in Nat
    BY <2>1, LenProperties
  <2>3. c # Missing /\ c[1] = <<f, 1>>
    BY <1>1, <1>2, <1>3, <1>6, <2>1, <2>2, EmptySeq DEF Own, Missing
  <2>4. ASSUME NEW i \in 1 .. Len(c)
        PROVE  c[i] = Torn \/ c[i][1] = f
    <3>1. CASE i \in 1 .. Len(t)
      BY <1>2, <2>1, <3>1 DEF Own
    <3>2. CASE i \in Len(t) + 1 .. Len(c)
      <4>1. \A j \in 1 .. Len(partial) - 1 : j \in 1 .. Len(partial)
        BY <1>2
      <4>2. c[i] = Torn \/ \E j \in 1 .. Len(partial) - 1 : c[i] = partial[j]
        BY <2>1, <3>2
      <4>3. QED BY <1>1, <4>1, <4>2
    <3>3. QED BY <1>2, <2>2, <3>1, <3>2
  <2>5. QED BY <2>1, <2>3, <2>4 DEF Own
<1>7. QED BY <1>4, <1>5, <1>6 DEF SealOf

\* The archive after a step holds files again, each with its own events.
LEMMA ArchiveIs ==
  ASSUME Core, Next
  PROVE  final' \in [Files -> Seq(ArchiveEvent)] /\ OwnFiles'
<1>1. DiskOK /\ MysqlOK /\ Closed /\ Where /\ Segment /\ OwnFiles /\ masterPos \in Position
  BY DEF Core, TypeOK, LoopOK
<1>2. ASSUME NEW f \in Files
      PROVE  final'[f] \in Seq(ArchiveEvent) /\ Own(final'[f], f)
  <2>1. CASE final'[f] = final[f]
    BY <1>1, <2>1 DEF DiskOK, OwnFiles
  <2>2. CASE final'[f] = Missing
    BY <2>2, EmptySeq DEF Missing, Own
  <2>3. CASE CopyOf(f, final'[f])
    BY <1>1, <2>3, CopyIs
  <2>4. CASE SealOf(f, final'[f])
    BY <1>1, <2>4, SealIs
  <2>5. QED BY <1>1, <2>1, <2>2, <2>3, <2>4, ArchiveStep
<1>3. final' = [f \in Files |-> final'[f]]
  BY <1>1, ArchiveStep
<1>4. QED BY <1>2, <1>3 DEF OwnFiles

-----------------------------------------------------------------------------
(* Every step keeps the inductive invariant.                               *)

\* The facts about numbers that the steps use.
LEMMA CoreFacts ==
  ASSUME Core
  PROVE  /\ DiskOK /\ MysqlOK /\ LoopOK /\ HistoryOK /\ Closed /\ Where /\ Segment /\ OwnFiles
         /\ open \in 1 .. MaxFiles /\ oldest \in 1 .. open
         /\ \A f \in Files : written[f] \in 0 .. MaxEvents /\ f \in 1 .. MaxFiles
         /\ written[open] \in 0 .. MaxEvents
         /\ masterPos \in Position /\ pos \in Position /\ src \in Position /\ saved \in Position
         /\ masterPos.file \in 0 .. MaxFiles /\ masterPos.at \in 0 .. MaxEvents
         /\ pos.file \in 0 .. MaxFiles /\ pos.at \in 0 .. MaxEvents
         /\ src.file \in 0 .. MaxFiles /\ src.at \in 0 .. MaxEvents
         /\ saved.file \in 0 .. MaxFiles
         /\ next \in 0 .. MaxFiles
<1>1. /\ DiskOK /\ MysqlOK /\ LoopOK /\ HistoryOK /\ Closed /\ Where /\ Segment /\ OwnFiles
  BY DEF Core, TypeOK
<1>2. masterPos \in Position /\ pos \in Position /\ src \in Position /\ saved \in Position
  BY <1>1 DEF LoopOK, DiskOK
<1>3. \A p \in Position : p.file \in 0 .. MaxFiles /\ p.at \in 0 .. MaxEvents
  BY DEF Position
<1>4. open \in 1 .. MaxFiles /\ next \in 0 .. MaxFiles
  BY <1>1 DEF MysqlOK, LoopOK, Files
<1>5. QED BY <1>1, <1>2, <1>3, <1>4 DEF MysqlOK, Files

\* A segment is read from a file that exists.
LEMMA ReadsFile ==
  ASSUME Core, pc \in Reading
  PROVE  /\ pos.file \in Files /\ pos.file \in 1 .. open /\ src.file = pos.file
         /\ written[pos.file] \in 0 .. MaxEvents /\ src.at \in 0 .. written[pos.file]
<1>1. pos.file > 0 /\ src.file = pos.file /\ src.at <= written[pos.file]
  BY CoreFacts DEF Where, Segment, Idle, Reading
<1>2. pos.file \in 1 .. MaxFiles /\ src.at \in Nat /\ pos.file <= open
  BY <1>1, CoreFacts DEF Where
<1>3. QED BY <1>1, <1>2, CoreFacts DEF Files

\* Where Refill goes on: at the first listed file behind the one it copied.
LEMMA NextIs ==
  ASSUME Core, Refill
  PROVE  /\ next' \in pos.file .. open
         /\ \A a \in Files, b \in 1 .. open :
              listed = a .. b =>
                next' = IF b <= pos.file THEN masterPos.file
                        ELSE IF a > b THEN masterPos.file
                        ELSE IF a > pos.file THEN a ELSE pos.file + 1
<1> DEFINE later == {f \in listed : f > pos.file}
<1>1. /\ pc = "refill"
      /\ next' = IF later = {} THEN masterPos.file
                 ELSE CHOOSE f \in later : \A g \in later : f <= g
  BY DEF Refill
<1>2. /\ pos.file \in 1 .. open /\ masterPos.file \in pos.file .. open
      /\ \E a \in Files, b \in 1 .. open : listed = a .. b
  <2>1. Where /\ pos.file \in Nat /\ masterPos.file \in Nat /\ saved.file \in Nat /\ open \in Nat
    BY CoreFacts
  <2>2. pos.file > 0 /\ masterPos.file >= pos.file
    BY <1>1, <2>1 DEF Where, Idle
  <2>3. pos.file \in saved.file .. open /\ masterPos.file \in saved.file .. open
    BY <2>1, <2>2 DEF Where
  <2>4. \E a \in Files, b \in 1 .. open : listed = a .. b
    BY <1>1, <2>1 DEF Where
  <2>5. QED BY <2>1, <2>2, <2>3, <2>4
<1>3. open \in Nat /\ pos.file \in Nat
  BY CoreFacts
<1>4. ASSUME NEW a \in Files, NEW b \in 1 .. open, listed = a .. b
      PROVE  /\ next' \in pos.file .. open
             /\ next' = IF b <= pos.file THEN masterPos.file
                        ELSE IF a > b THEN masterPos.file
                        ELSE IF a > pos.file THEN a ELSE pos.file + 1
  <2>0. a \in Nat /\ b \in Nat
    BY <1>3 DEF Files
  <2>1. CASE b <= pos.file \/ a > b
    <3>1. later = {}
      BY <1>3, <1>4, <2>0, <2>1
    <3>2. QED BY <1>1, <1>2, <1>3, <2>0, <2>1, <3>1
  <2>2. CASE ~(b <= pos.file \/ a > b)
    <3> DEFINE m == IF a > pos.file THEN a ELSE pos.file + 1
    <3>1. m \in later /\ \A g \in later : m <= g
      BY <1>3, <1>4, <2>0, <2>2
    <3>2. \A g \in later : g \in Nat
      BY <1>4, <2>0
    <3>3. \A f \in later : (\A g \in later : f <= g) => f = m
      BY <3>1, <3>2
    <3>4. next' = m
      <4> HIDE DEF m, later
      <4>1. later # {} /\ (CHOOSE f \in later : \A g \in later : f <= g) = m
        BY <3>1, <3>3
      <4>2. QED BY <1>1, <4>1
    <3>5. m \in pos.file .. open
      BY <1>3, <1>4, <2>0, <2>2
    <3>6. QED BY <2>2, <3>4, <3>5
  <2>3. QED BY <2>1, <2>2
<1>5. QED BY <1>2, <1>4

\* The answers to the queries and what is saved are positions.
LEMMA TypesKept ==
  ASSUME Core, Next
  PROVE  TypeOK'
<1>0. MysqlOK' /\ final' \in [Files -> Seq(ArchiveEvent)]
  BY CoreFacts, MysqlGrows, ArchiveIs
<1>1. [file |-> open, at |-> written[open]] \in Position /\ NoState \in Position
      /\ [file |-> next, at |-> 0] \in Position
  BY CoreFacts, NoStateIs DEF Position
<1>2. DiskOK /\ LoopOK /\ HistoryOK /\ Missing \in Seq(ArchiveEvent)
  BY CoreFacts, EmptySeq DEF Missing
<1>3. partial' \in Seq(ArchiveEvent) /\ saved' \in Position
  <2>1. CASE ReadFormat
    <3>1. <<src.file, 1>> \in ArchiveEvent
      BY CoreFacts DEF ArchiveEvent
    <3>2. << <<src.file, 1>> >> \in Seq(ArchiveEvent)
      BY <3>1
    <3>3. QED BY <1>2, <2>1, <3>2 DEF ReadFormat, DiskOK
  <2>2. CASE ReadEvent
    <3>1. src.file \in Files /\ src.at + 1 \in 0 .. MaxEvents
      BY <2>2, ReadsFile DEF ReadEvent, Reading
    <3>2. <<src.file, src.at + 1>> \in ArchiveEvent
      BY <3>1 DEF ArchiveEvent, Files
    <3>3. QED BY <1>2, <2>2, <3>2, AppendProperties DEF ReadEvent, DiskOK
  <2>3. CASE SaveState
    BY <1>1, <1>2, <2>3 DEF SaveState, DiskOK
  <2>4. CASE ~ReadFormat /\ ~ReadEvent /\ ~SaveState
    BY <1>2, <2>4 DEF DiskOK, Next, Write, Rotate, Purge, Start, Reconcile, ListBinlogs,
      MasterPosition, BackfillFile, Reconciled, RunFails, Sync, LoadState, OpenStream, ReadRotate,
      EmptyTail, Seal, PruneRetention, Reannounced, StreamFails, SealFails, Recover, RecoverList,
      RecoverRemoves, Refill, RecoverFails, Crash
  <2>5. QED BY <2>1, <2>2, <2>3, <2>4
<1>4. LoopOK'
  <2>e. EndSegment => src' \in Position /\ appending' \in BOOLEAN /\ started' \in BOOLEAN /\ next' \in 0 .. MaxFiles
    <3>1. EndSegment => src' \in Position /\ next' \in 0 .. MaxFiles
      BY <1>1 DEF EndSegment
    <3>2. EndSegment => appending' \in BOOLEAN /\ started' \in BOOLEAN
      BY Zenon DEF EndSegment
    <3>3. QED BY <3>1, <3>2
  <2>f. Forget => listed' \in SUBSET Files /\ masterPos' \in Position
    BY <1>1 DEF Forget
  <2>1. CASE Write \/ Rotate \/ Purge
    BY <1>2, <2>1 DEF Write, Rotate, Purge, LoopOK, answers, segment
  <2>2. CASE Start \/ Reconcile \/ RunFails
    <3>1. oldest .. open \subseteq Files
      BY CoreFacts DEF Files
    <3>2. QED BY <1>1, <1>2, <2>2, <3>1 DEF Start, Reconcile, ListBinlogs, MasterPosition, BackfillFile,
            Reconciled, RunFails, Forget, LoopOK, answers, segment
  <2>3. CASE LoadState \/ OpenStream \/ ReadRotate \/ EmptyTail
    <3>1. ReadRotate \/ EmptyTail => src.file + 1 \in 0 .. MaxFiles
      BY CoreFacts DEF ReadRotate, EmptyTail, AtRotation, Rotated
    <3>2. QED BY <1>1, <1>2, <2>3, <3>1 DEF LoadState, OpenStream, ReadRotate, EmptyTail, AtRotation,
            LoopOK, DiskOK, answers, segment
  <2>4. CASE ReadFormat \/ ReadEvent
    <3>1. src' \in Position
      <4>1. \A n \in 0 .. MaxEvents : [src EXCEPT !.at = n] \in Position
        BY CoreFacts DEF Position
      <4>2. CASE ReadFormat
        <5>1. (IF src.at = 0 THEN 1 ELSE src.at) \in 0 .. MaxEvents
          BY CoreFacts
        <5>2. QED BY <4>1, <4>2, <5>1 DEF ReadFormat
      <4>3. CASE ReadEvent
        <5>1. src.at + 1 \in 0 .. MaxEvents
          BY <4>3, ReadsFile DEF ReadEvent, Reading
        <5>2. QED BY <4>1, <4>3, <5>1 DEF ReadEvent
      <4>4. QED BY <2>4, <4>2, <4>3
    <3>2. QED BY <1>2, <2>4, <3>1 DEF ReadFormat, ReadEvent, LoopOK, answers
  <2>5. CASE Seal \/ PruneRetention \/ SaveState \/ Reannounced \/ StreamFails \/ SealFails
    <3>1. src.file \in 0 .. MaxFiles
      BY CoreFacts
    <3>2. CASE SaveState
      BY <1>1, <1>2, <2>e, <2>f, <3>2 DEF SaveState, LoopOK
    <3>3. CASE StreamFails
      BY <1>1, <1>2, <2>e, <3>3 DEF StreamFails, LoopOK, answers
    <3>4. CASE Seal \/ PruneRetention \/ Reannounced \/ SealFails
      BY <1>2, <3>1, <3>4 DEF Seal, PruneRetention, Reannounced, SealFails, LoopOK, answers, segment
    <3>5. QED BY <2>5, <3>2, <3>3, <3>4
  <2>6. CASE RecoverList \/ RecoverRemoves \/ RecoverFails \/ Crash
    <3>1. oldest .. open \subseteq Files
      BY CoreFacts DEF Files
    <3>2. CASE RecoverFails \/ Crash
      BY <1>1, <1>2, <2>e, <2>f, <3>2 DEF RecoverFails, Crash, LoopOK
    <3>3. CASE RecoverList \/ RecoverRemoves
      BY <1>1, <1>2, <3>1, <3>3 DEF RecoverList, RecoverRemoves, LoopOK, segment
    <3>4. QED BY <2>6, <3>2, <3>3
  <2>7. CASE Refill
    <3>1. next' \in 0 .. MaxFiles
      BY <2>7, NextIs, CoreFacts
    <3>2. QED BY <1>2, <2>7, <3>1 DEF Refill, LoopOK, answers
  <2>8. QED BY <2>1, <2>2, <2>3, <2>4, <2>5, <2>6, <2>7 DEF Next, Sync, Recover
<1>5. HistoryOK'
  <2>1. oldest .. open \subseteq Files /\ (pc \notin Idle \cup {"stopped"} => pos.file \in Files)
    BY CoreFacts DEF Files, Where
  <2>2. CASE Purge \/ BackfillFile \/ Refill
    <3>1. ASSUME NEW f, Copy(f)
          PROVE  /\ suspect' \in SUBSET Files /\ headless' \in SUBSET Files
                 /\ pruned' \in SUBSET Files
      BY <1>2, <2>1, <3>1 DEF Copy, HistoryOK
    <3>2. CASE BackfillFile
      <4>1. PICK f : Copy(f)
        BY <3>2, Zenon DEF BackfillFile
      <4>2. QED BY <1>2, <3>1, <3>2, <4>1 DEF BackfillFile, HistoryOK
    <3>3. oldest \in Files
      BY CoreFacts DEF Files
    <3>4. QED BY <1>2, <2>2, <3>1, <3>2, <3>3 DEF Purge, Refill, HistoryOK
  <2>3. CASE Reannounced \/ SealFails \/ Crash \/ Seal \/ PruneRetention \/ RecoverFails
    BY <1>2, <2>1, <2>3 DEF Reannounced, SealFails, Crash, Seal, PruneRetention, RecoverFails, CutShort,
      HistoryOK, Idle
  <2>4. CASE ~(Purge \/ BackfillFile \/ Refill \/ Reannounced \/ SealFails \/ Crash \/ Seal \/ PruneRetention
               \/ RecoverFails)
    BY <1>2, <2>4 DEF HistoryOK, history, Next, Write, Rotate, Start, Reconcile, ListBinlogs,
      MasterPosition, Reconciled, RunFails, Sync, LoadState, OpenStream, ReadFormat, ReadEvent,
      ReadRotate, EmptyTail, SaveState, StreamFails, Recover, RecoverList, RecoverRemoves
  <2>5. QED BY <2>2, <2>3, <2>4
<1>6. QED BY <1>0, <1>3, <1>4, <1>5 DEF TypeOK, DiskOK

LEMMA WhereKept ==
  ASSUME Core, Next
  PROVE  Where'
<1>0. /\ open <= open' /\ open' \in Nat /\ oldest \in Files /\ open \in Files
      /\ \A f \in Files : written'[f] \in Nat /\ written[f] <= written'[f]
  <2>1. MysqlOK /\ Closed /\ open' \in Files
    BY CoreFacts, MysqlGrows DEF MysqlOK
  <2>2. open \in Files /\ oldest \in Files
    BY CoreFacts DEF Files
  <2>3. QED BY <2>1, <2>2, MysqlGrows DEF Files
<1>1. Where /\ NoState.file = 0 /\ NoState.at = 0
  BY CoreFacts DEF NoState
<1>2. CASE Write \/ Rotate \/ Purge
  <2>1. UNCHANGED <<saved, pc, listed, masterPos, pos, next>>
    BY <1>2 DEF Write, Rotate, Purge, answers, segment
  <2>r. /\ pos.file \in 0 .. MaxFiles /\ pos.at \in Nat
        /\ masterPos.file \in 0 .. MaxFiles /\ masterPos.at \in Nat
        /\ \A f \in Files : written[f] \in Nat
    BY CoreFacts
  <2>s. open \in Nat /\ open' \in Nat /\ open <= open' /\ saved.file \in Nat /\ next \in Nat
    BY <1>0, CoreFacts
  <2>2. pos.file > 0 => pos.at <= written'[pos.file]
    <3>1. pos.file > 0 => pos.at <= written[pos.file]
      BY <1>1 DEF Where
    <3>2. pos.file > 0 => pos.file \in Files
      BY <2>r DEF Files
    <3>3. QED BY <1>0, <2>r, <3>1, <3>2
  <2>3. masterPos.file > 0 => masterPos.at <= written'[masterPos.file]
    <3>1. masterPos.file > 0 => masterPos.at <= written[masterPos.file]
      BY <1>1 DEF Where
    <3>2. masterPos.file > 0 => masterPos.file \in Files
      BY <2>r DEF Files
    <3>3. QED BY <1>0, <2>r, <3>1, <3>2
  <2>4. \A n : n \in 1 .. open => n \in 1 .. open'
    BY <1>0, CoreFacts
  <2>5. \A m, n \in Nat : n \in m .. open => n \in m .. open'
    BY <2>s
  <2>6. /\ pos.file > 0 => pos.file \in saved.file .. open'
        /\ masterPos.file > 0 => masterPos.file \in saved.file .. open'
        /\ pc \in {"seal", "prune", "save"} => next \in pos.file .. open'
        /\ saved.file <= open'
    BY <1>1, <2>r, <2>s, <2>5 DEF Where
  <2>7. QED BY <1>1, <2>1, <2>2, <2>3, <2>4, <2>6 DEF Where
<1>3. CASE Start \/ BackfillFile \/ OpenStream \/ ReadFormat \/ ReadEvent \/ Seal \/ PruneRetention
           \/ StreamFails \/ SealFails
  BY <1>1, <1>3 DEF Start, BackfillFile, OpenStream, ReadFormat, ReadEvent, Seal, PruneRetention,
    StreamFails, SealFails, mysql, answers, segment, Where, Idle
<1>4. CASE ListBinlogs \/ MasterPosition \/ Reconciled \/ RunFails
  <2>1. CASE ListBinlogs
    BY <1>1, <2>1 DEF ListBinlogs, mysql, segment, Where, Idle
  <2>2. CASE MasterPosition
    <3>1. open \in 1 .. MaxFiles /\ saved.file \in Nat /\ written[open] \in Nat
      BY CoreFacts
    <3>2. QED BY <1>1, <2>2, <3>1 DEF MasterPosition, mysql, segment, Where, Idle
  <2>3. CASE Reconciled \/ RunFails
    BY <1>1, <2>3 DEF Reconciled, RunFails, Forget, mysql, segment, Where, Idle
  <2>4. QED BY <1>4, <2>1, <2>2, <2>3
<1>5. CASE LoadState
  <2>1. saved # NoState => saved.file > 0
    BY <1>1, CoreFacts, NoStateIs DEF Where
  <2>2. saved.file > 0 => written[saved.file] >= 0
    BY CoreFacts DEF Files
  <2>3. QED BY <1>1, <1>5, <2>1, <2>2, CoreFacts DEF LoadState, mysql, answers, segment, Where, Idle
<1>6. CASE ReadRotate \/ EmptyTail \/ Reannounced
  <2>1. pos.file \in 1 .. open /\ src.file = pos.file
    BY <1>6, ReadsFile DEF ReadRotate, EmptyTail, Reannounced, AtRotation, Reading
  <2>2. next' \in pos.file .. open
    BY <1>6, <2>1, CoreFacts DEF ReadRotate, EmptyTail, Reannounced, AtRotation, Rotated
  <2>3. QED BY <1>1, <1>6, <2>2 DEF ReadRotate, EmptyTail, Reannounced, AtRotation, mysql, answers, Where, Idle
<1>7. CASE SaveState
  <2>1. next \in pos.file .. open /\ pos.file > 0 /\ saved.file <= pos.file
    BY <1>1, <1>7, CoreFacts DEF SaveState, Where, Idle
  <2>2. written[next] >= 0
    BY <2>1, CoreFacts DEF Files
  <2>3. saved'.file <= next /\ saved'.at = 0 /\ saved'.file \in Nat
    BY <1>1, <1>7, <2>1, CoreFacts DEF SaveState, Where
  <2>4. QED BY <1>1, <1>7, <2>1, <2>2, <2>3, CoreFacts DEF SaveState, Forget, mysql, Where, Idle
<1>8. CASE RecoverList
  <2>1. \E a \in Files, b \in 1 .. open' : listed' = a .. b
    BY <1>0, <1>8 DEF RecoverList, Files
  <2>2. QED BY <1>1, <1>8, <2>1 DEF RecoverList, mysql, segment, Where, Idle
<1>9. CASE RecoverRemoves
  <2>1. pos.file <= open /\ saved.file <= open
    BY <1>1, <1>9, CoreFacts DEF RecoverRemoves, Where, Idle
  <2>2. /\ pos.file \in Nat /\ saved.file \in Nat /\ open \in 1 .. MaxFiles
        /\ written[open] \in Nat
    BY CoreFacts
  <2>3. QED BY <1>1, <1>9, <2>1, <2>2 DEF RecoverRemoves, mysql, segment, Where, Idle
<1>10. CASE Refill
  BY <1>1, <1>10, NextIs DEF Refill, mysql, answers, Where, Idle
<1>11. CASE RecoverFails
  <2>1. pos.file > 0
    BY <1>1, <1>11 DEF RecoverFails, Where, Idle
  <2>2. QED BY <1>1, <1>11, <2>1 DEF RecoverFails, Forget, mysql, Where, Idle
<1>12. CASE Crash
  <2>1. masterPos' = NoState /\ pos' = NoState /\ pc' = "down" /\ UNCHANGED <<saved, open>>
    BY <1>12 DEF Crash, Forget, mysql
  <2>2. QED BY <1>1, <2>1 DEF Where, Idle
<1>13. QED BY <1>2, <1>3, <1>4, <1>5, <1>6, <1>7, <1>8, <1>9, <1>10, <1>11, <1>12
         DEF Next, Reconcile, Sync, Recover

LEMMA SegmentKept ==
  ASSUME Core, Next
  PROVE  Segment'
<1>0. Segment /\ partial \in Seq(ArchiveEvent) /\ Len(partial) \in Nat /\ Len(Missing) = 0
  BY CoreFacts, LenProperties DEF DiskOK, Missing
<1>1. CASE Write \/ Rotate \/ Purge
  <2>1. UNCHANGED <<final, partial, pc, pos, src, appending, started>>
    BY <1>1 DEF Write, Rotate, Purge, segment
  <2>2. pc \in Reading => src.at <= written'[pos.file]
    <3>1. MysqlOK /\ Closed
      BY CoreFacts
    <3>2. QED BY <3>1, MysqlGrows, ReadsFile
  <2>3. QED BY <1>0, <2>1, <2>2 DEF Segment, Between, Reading
<1>2. CASE Start \/ Reconcile \/ RunFails \/ LoadState \/ SaveState \/ Seal \/ PruneRetention
           \/ EmptyTail \/ StreamFails \/ SealFails \/ Recover \/ RecoverFails \/ Crash
  BY <1>0, <1>2 DEF Start, Reconcile, ListBinlogs, MasterPosition, BackfillFile, Reconciled, RunFails,
    LoadState, SaveState, Seal, PruneRetention, EmptyTail, AtRotation, StreamFails, SealFails, Recover,
    RecoverList, RecoverRemoves, Refill, RecoverFails, Crash, Segment, Between, Reading
<1>3. CASE OpenStream
  <2>1. pos.at <= written[pos.file] /\ partial = Missing
    BY <1>0, <1>3, CoreFacts DEF OpenStream, Where, Idle, Segment, Between
  <2>2. (appending' <=> final[pos.file] # Missing) /\ ~started'
    BY <1>3, Zenon DEF OpenStream
  <2>3. /\ pc' = "stream" /\ src' = pos
        /\ UNCHANGED <<written, final, partial, pos>>
    BY <1>3 DEF OpenStream, mysql
  <2>4. QED BY <1>0, <2>1, <2>2, <2>3 DEF Segment, Between, Reading
<1>4. CASE ReadRotate \/ Reannounced
  BY <1>0, <1>4 DEF ReadRotate, Reannounced, AtRotation, mysql, Segment, Between, Reading
<1>5. CASE ReadFormat
  <2>1. /\ src.file = pos.file /\ src.at \in 0 .. written[pos.file]
        /\ written[pos.file] \in Nat \ {0}
        /\ src \in Position /\ pc = "stream" /\ ~started
        /\ appending <=> final[pos.file] # Missing
        /\ partial = Missing
    BY <1>0, <1>5, ReadsFile, CoreFacts DEF ReadFormat, Segment, Reading
  <2>2. src'.file = src.file /\ src'.at <= written[pos.file]
    <3>1. src' = [src EXCEPT !.at = IF src.at = 0 THEN 1 ELSE src.at]
      BY <1>5 DEF ReadFormat
    <3>2. src'.file = src.file /\ src'.at = IF src.at = 0 THEN 1 ELSE src.at
      BY <2>1, <3>1 DEF Position
    <3>3. QED BY <2>1, <3>2
  <2>3. CASE appending
    BY <1>0, <1>5, <2>1, <2>2, <2>3 DEF ReadFormat, mysql, Segment, Reading, Between
  <2>4. CASE ~appending
    <3>1. /\ partial' = << <<pos.file, 1>> >> /\ started'
          /\ Len(partial') = 1 /\ partial'[1] = <<pos.file, 1>> /\ partial' # Missing
      BY <1>5, <2>1, <2>4 DEF ReadFormat, Missing
    <3>2. QED BY <1>5, <2>1, <2>2, <2>4, <3>1 DEF ReadFormat, mysql, Segment, Reading, Between
  <2>5. QED BY <2>3, <2>4
<1>6. CASE ReadEvent
  <2>1. /\ src.file = pos.file /\ src.at \in Nat /\ src.at < written[pos.file]
        /\ src \in Position /\ pc = "stream" /\ (started \/ appending)
        /\ appending <=> final[pos.file] # Missing
        /\ started <=> partial # Missing
        /\ \A i \in 1 .. Len(partial) : partial[i][1] = pos.file
        /\ ~appending => partial[1] = <<pos.file, 1>>
        /\ written[pos.file] \in Nat
    <3>1. Segment /\ src \in Position /\ pc = "stream" /\ pc \in Reading
      BY <1>0, <1>6, CoreFacts DEF ReadEvent, Reading
    <3>2. src.file = pos.file /\ src.at \in Nat /\ written[pos.file] \in Nat
      BY <1>0, <3>1, ReadsFile
    <3>3. QED BY <1>6, <3>1, <3>2 DEF ReadEvent, Segment, Reading
  <2>2. src'.file = src.file /\ src'.at <= written[pos.file]
    BY <1>6, <2>1 DEF ReadEvent, Position
  <2>3. /\ Len(partial') = Len(partial) + 1
        /\ \A i \in 1 .. Len(partial) : partial'[i] = partial[i]
        /\ partial'[Len(partial) + 1] = <<pos.file, src.at + 1>>
    BY <1>0, <1>6, <2>1 DEF ReadEvent
  <2>4. partial' # Missing
    BY <1>0, <2>3
  <2>5. ASSUME NEW i \in 1 .. Len(partial')
        PROVE  partial'[i][1] = pos.file
    <3>1. i \in 1 .. Len(partial) \/ i = Len(partial) + 1
      BY <1>0, <2>3
    <3>2. QED BY <2>1, <2>3, <3>1
  <2>6. ~appending => partial'[1] = <<pos.file, 1>>
    <3>1. ~appending => Len(partial) > 0
      BY <1>0, <2>1, EmptySeq DEF Missing
    <3>2. QED BY <1>0, <2>1, <2>3, <3>1
  <2>7. UNCHANGED <<written, final, pc, pos, appending>> /\ started'
    BY <1>6 DEF ReadEvent, mysql
  <2>8. QED BY <2>1, <2>2, <2>4, <2>5, <2>6, <2>7 DEF Segment, Reading, Between
<1>7. QED BY <1>1, <1>2, <1>3, <1>4, <1>5, <1>6 DEF Next, Sync

LEMMA CoreInit ==
  ASSUME Init
  PROVE  Core
<1>1. /\ NoState \in Position /\ NoState.file = 0 /\ NoState.at = 0
      /\ Missing \in Seq(ArchiveEvent) /\ Len(Missing) = 0
  BY NoStateIs, EmptySeq DEF NoState, Missing
<1>2. MysqlOK /\ DiskOK /\ HistoryOK
  BY <1>1 DEF Init, MysqlOK, DiskOK, HistoryOK, Files
<1>3. LoopOK
  <2>1. appending \in BOOLEAN /\ started \in BOOLEAN
    BY Zenon DEF Init
  <2>2. QED BY <1>1, <2>1 DEF Init, LoopOK
<1>4. Closed /\ Where /\ Segment
  BY <1>1 DEF Init, Closed, Where, Segment, Idle, Reading, Between, Files
<1>5. OwnFiles
  BY <1>1 DEF Init, OwnFiles, Own
<1>6. QED BY <1>2, <1>3, <1>4, <1>5 DEF Core, TypeOK

LEMMA CoreStep ==
  ASSUME Core, [Next]_vars
  PROVE  Core'
<1>1. CASE Next
  <2>1. Closed'
    BY <1>1, CoreFacts, MysqlGrows
  <2>2. QED BY <1>1, <2>1, TypesKept, WhereKept, SegmentKept, ArchiveIs DEF Core
<1>2. CASE UNCHANGED vars
  BY <1>2 DEF vars, mysql, answers, segment, history, Core, TypeOK, MysqlOK, DiskOK, LoopOK, HistoryOK, Closed,
    Where, Segment, OwnFiles, Own, Idle, Reading, Between
<1>3. QED BY <1>1, <1>2

(***************************************************************************)
(* The types, the positions, the segment and the contents of the files     *)
(* together hold in every reachable state, whatever faults happen.         *)
(***************************************************************************)
THEOREM CoreHolds == Spec => []Core
<1>1. QED BY CoreInit, CoreStep, PTL DEF Spec

(***************************************************************************)
(* Every position the loop works with, every list, every archived file and *)
(* the state file stay of their types, whatever faults happen.             *)
(***************************************************************************)
THEOREM TypeCorrect == Spec => []TypeOK
<1>1. Core => TypeOK
  BY DEF Core
<1>2. QED BY <1>1, CoreHolds, PTL

(***************************************************************************)
(* Whatever interrupts the agent, an archived file begins with its format  *)
(* description and holds events of its own file only.                      *)
(***************************************************************************)
THEOREM EventsSound == Spec => []EventsUnderOwnFile
<1>1. Core => EventsUnderOwnFile
  <2> SUFFICES ASSUME Core, NEW f \in Files, final[f] # Missing
               PROVE  /\ Head(final[f]) = <<f, 1>>
                      /\ \A e \in Range(final[f]) : e = Torn \/ e[1] = f
    BY DEF EventsUnderOwnFile
  <2>1. final[f] \in Seq(ArchiveEvent) /\ Own(final[f], f)
    BY CoreFacts DEF DiskOK, OwnFiles
  <2>2. Head(final[f]) = final[f][1] /\ Range(final[f]) = {final[f][i] : i \in 1 .. Len(final[f])}
    BY <2>1, LenProperties, HeadTailProperties DEF Missing, Range
  <2>3. QED BY <2>1, <2>2 DEF Own
<1>2. QED BY <1>1, CoreHolds, PTL

-----------------------------------------------------------------------------
(* No gap and no repetition: the invariant that holds when MySQL is idle   *)
(* where the code asks it twice, and the agent is not restarted before its *)
(* first state file.                                                       *)

Calm == "busy" \notin Faults /\ "early" \notin Faults

Holds(f, i) == \E j \in 1 .. Len(final[f]) : final[f][j] = <<f, i>>

Archived(f) == \A i \in 1 .. written[f] : Holds(f, i)

Fine(f) == f \in lost \cup pruned \cup headless \/ Archived(f)

\* The loop is at work on the file at pos.
Sealing == {"sync", "stream", "seal", "relist", "remaster"}
Working == Sealing \cup {"prune", "save", "refill"}

\* Everything behind the saved state and behind the loop is archived.
Behind ==
  \A f \in Files :
    f < saved.file \/ f < pos.file \/ (pc \in {"prune", "save"} /\ f < next) => Fine(f)

\* What the .partial continues: the file up to the first event of the tail.
Base == IF ~appending THEN 0 ELSE IF pos.at = 0 THEN 1 ELSE pos.at

TailRead ==
  pc \in Reading /\ pos.file \notin headless =>
    /\ started => /\ src.at = Base + Len(partial)
                  /\ \A i \in 1 .. Len(partial) : partial[i] = <<pos.file, Base + i>>
    /\ ~started => src.at = pos.at \/ (pos.at = 0 /\ appending /\ src.at = 1)
    /\ ~appending => pos.at = 0

\* The file is archived up to where the segment begins, unless the copy that was
\* to bring it back failed.
HeadHeld ==
  pc \in Sealing /\ (pc = "sync" => pos.file >= oldest) /\ pos.file \notin headless =>
    \A i \in 1 .. pos.at : Holds(pos.file, i)

\* A segment ends at the end of its file, or at a second announcement of it.
TailEnds ==
  /\ pc = "seal" => \/ next = pos.file /\ pos.file \in suspect
                    \/ next = pos.file + 1 /\ src.at = written[pos.file]
  /\ pc \in {"prune", "save"} => next > pos.file \/ pos.file \in suspect
  /\ pc \in {"relist", "remaster"} => pos.at < written[pos.file] \/ pos.file \in headless

\* recoverSealedFile works on one list, and only with files MySQL is done with.
Refilling ==
  /\ pc = "remaster" => \E a \in 1 .. oldest : listed = a .. open
  /\ pc = "refill" => /\ \E a \in 1 .. oldest : listed = a .. masterPos.file
                      /\ pos.file < masterPos.file \/ pos.file < oldest
                      /\ final[pos.file] = Missing

\* Before the first state file: reconcile.
FirstCopies ==
  saved = NoState =>
    /\ pc \in {"list", "master"} => \A f \in Files : final[f] = Missing
    /\ pc \in {"master", "backfill"} => \E a \in 1 .. oldest : listed = a .. open
    /\ pc = "backfill" => masterPos = [file |-> open, at |-> written[open]]
    /\ pc \in {"backfill", "load"} => 
         \A f \in Files : \/ final[f] = Missing
                          \/ f < open /\ final[f] = FileOf(f)
                          \/ f = open /\ final[f] = Events(f)
    /\ pc = "load" => /\ \A f \in Files : f < open => Fine(f)
                      /\ written[open] > 0 => final[open] = Events(open)

\* Before the first state file: nothing that is purged is missed.
FirstPurged ==
  saved = NoState =>
    /\ \A g \in Files : g < oldest => Fine(g)
    /\ pc \in Sealing /\ (pc = "stream" => started \/ ~appending) /\ pc # "sync" /\ pos.file < oldest =>
         pos.file \in lost \cup headless

\* Before the first state file: the segment's file holds what is behind pos.
FirstSegment ==
  saved = NoState =>
    /\ pc \in Working => \A f \in Files : f > pos.file => final[f] = Missing
    /\ pc \in Sealing /\ pos.file \notin headless =>
         \A i \in 0 .. MaxEvents : Holds(pos.file, i) => i < written[pos.file] \/ i <= pos.at
    /\ pc \in Sealing /\ pos.at = 0 => final[pos.file] = Missing

\* A file that is not suspect is the beginning of MySQL's; from the saved one on
\* it is missing or whole, and before the first state file it ends where the
\* segment begins.
Copies ==
  /\ \A f \in Files \ (suspect \cup headless) : IsPrefix(final[f], FileOf(f))
  /\ saved # NoState =>
       /\ \A f \in Files \ (suspect \cup headless) :
            f >= saved.file => final[f] = Missing \/ (f < open /\ final[f] = Events(f))
       /\ pc # "stopped" => pos.at = 0
  /\ saved = NoState /\ pc \in Sealing /\ (pc = "sync" => pos.file >= oldest) /\ pos.at > 0
     /\ pos.file \notin suspect \cup headless =>
       Len(final[pos.file]) = pos.at

GapInv == /\ Core /\ Behind /\ TailRead /\ HeadHeld /\ TailEnds /\ Refilling
          /\ FirstCopies /\ FirstPurged /\ FirstSegment

LEMMA ArchivedIs ==
  ASSUME MysqlOK, DiskOK, NEW f \in Files
  PROVE  /\ IsArchived(f) <=> Archived(f)
         /\ final[f] \in {Events(f), FileOf(f)} => Archived(f)
         /\ final[f] = Missing => \A i : ~Holds(f, i)
<1>1. /\ final[f] \in Seq(ArchiveEvent) /\ Len(final[f]) \in Nat
      /\ DOMAIN final[f] = 1 .. Len(final[f]) /\ written[f] \in Nat
      /\ DOMAIN Events(f) = 1 .. written[f]
  BY LenProperties, EventsAre DEF DiskOK
<1>2. Range(final[f]) = {final[f][j] : j \in 1 .. Len(final[f])}
  BY <1>1 DEF Range
<1>3. Range(Events(f)) = {<<f, i>> : i \in 1 .. written[f]}
  BY <1>1, EventsAre DEF Range
<1>4. IsArchived(f) <=> Archived(f)
  BY <1>2, <1>3 DEF IsArchived, Archived, Holds
<1>5. ASSUME final[f] \in {Events(f), FileOf(f)}
      PROVE  Archived(f)
  <2>1. \A i \in 1 .. written[f] : final[f][i] = <<f, i>>
    BY <1>5, EventsAre, FileIs
  <2>2. written[f] <= Len(final[f])
    BY <1>1, <1>5, EventsAre, FileIs
  <2>3. ASSUME NEW i \in 1 .. written[f]
        PROVE  Holds(f, i)
    <3>1. i \in 1 .. Len(final[f])
      BY <1>1, <2>2
    <3>2. QED BY <2>1, <3>1 DEF Holds
  <2>4. QED BY <2>3 DEF Archived
<1>6. ASSUME final[f] = Missing
      PROVE  \A i : ~Holds(f, i)
  <2>1. 1 .. Len(final[f]) = {}
    BY <1>6 DEF Missing
  <2>2. QED BY <2>1 DEF Holds
<1>7. QED BY <1>4, <1>5, <1>6

\* What is lost stays lost; a file is no longer pruned, or without its beginning,
\* only when it is new.
LEMMA HistoryStep ==
  ASSUME Next
  PROVE  /\ lost \subseteq lost'
         /\ \A f \in pruned : \/ f \in pruned'
                              \/ Seal /\ f = pos.file
                              \/ BackfillFile /\ Copy(f)
                              \/ Refill /\ f = pos.file
         /\ \A f \in headless : \/ f \in headless'
                                \/ BackfillFile /\ Copy(f)
                                \/ Refill /\ f = pos.file
         /\ \A f \in headless' : f \in headless \/ (RecoverFails /\ f = pos.file)
<1>1. CASE Purge
  BY <1>1 DEF Purge
<1>2. CASE BackfillFile
  <2>1. PICK g : Copy(g)
    BY <1>2, Zenon DEF BackfillFile
  <2>2. QED BY <1>2, <2>1 DEF BackfillFile, Copy
<1>3. CASE Refill \/ Seal \/ PruneRetention
  BY <1>3 DEF Refill, Copy, Seal, PruneRetention
<1>4. CASE ~(Purge \/ BackfillFile \/ Refill \/ Seal \/ PruneRetention)
  BY <1>4 DEF history, Next, Write, Rotate, Start, Reconcile, ListBinlogs, MasterPosition, Reconciled, RunFails,
    Sync, LoadState, OpenStream, ReadFormat, ReadEvent, ReadRotate, EmptyTail, SaveState, Reannounced,
    StreamFails, SealFails, Recover, RecoverList, RecoverRemoves, RecoverFails, Crash
<1>5. QED BY <1>1, <1>2, <1>3, <1>4

\* An archived file changes only when it is copied, sealed, pruned or removed.
LEMMA FileStep ==
  ASSUME Core, Next, NEW f \in Files
  PROVE  \/ final'[f] = final[f]
         \/ BackfillFile /\ Copy(f)
         \/ Refill /\ f = pos.file
         \/ Seal /\ f = pos.file
         \/ (SealFails \/ Crash) /\ CutShort /\ f = pos.file
         \/ RecoverRemoves /\ f = pos.file /\ final'[f] = Missing
         \/ PruneRetention /\ f \in pruned' /\ final'[f] = Missing
<1>0. final \in [Files -> Seq(ArchiveEvent)]
  BY CoreFacts DEF DiskOK
<1>1. CASE BackfillFile
  <2>1. PICK g : Copy(g)
    BY <1>1, Zenon DEF BackfillFile
  <2>2. QED BY <1>0, <1>1, <2>1 DEF Copy
<1>2. CASE Refill
  BY <1>0, <1>2 DEF Refill, Copy
<1>3. CASE Seal
  BY <1>0, <1>3 DEF Seal
<1>4. CASE SealFails \/ Crash
  <2>1. CutShort \/ UNCHANGED final
    BY <1>4 DEF SealFails, Crash
  <2>2. QED BY <1>0, <1>4, <2>1 DEF CutShort
<1>5. CASE RecoverRemoves
  BY <1>0, <1>5 DEF RecoverRemoves
<1>6. CASE PruneRetention
  BY <1>0, <1>6 DEF PruneRetention
<1>7. CASE ~(BackfillFile \/ Refill \/ Seal \/ SealFails \/ Crash \/ RecoverRemoves \/ PruneRetention)
  BY <1>7 DEF Next, Write, Rotate, Purge, Start, Reconcile, ListBinlogs, MasterPosition, Reconciled,
    RunFails, Sync, LoadState, OpenStream, ReadFormat, ReadEvent, ReadRotate, EmptyTail, SaveState,
    Reannounced, StreamFails, Recover, RecoverList, RecoverFails
<1>8. QED BY <1>1, <1>2, <1>3, <1>4, <1>5, <1>6, <1>7

\* What is copied from a file that is not masterPos's is all of the file.
LEMMA CopyArchives ==
  ASSUME Core, Next, NEW f \in Files, Copy(f), f # masterPos.file, UNCHANGED mysql
  PROVE  Archived(f)' /\ final'[f] = FileOf(f)
<1>1. final'[f] = FileOf(f)
  BY CoreFacts DEF Copy, DiskOK
<1>2. /\ written[f] \in Nat /\ Len(FileOf(f)) \in Nat /\ written[f] <= Len(FileOf(f))
      /\ \A i \in 1 .. written[f] : FileOf(f)[i] = <<f, i>>
  <2>1. MysqlOK
    BY CoreFacts
  <2>2. written[f] \in Nat
    BY <2>1, EventsAre
  <2>3. /\ Len(FileOf(f)) = written[f] + (IF Rotated(f) THEN 1 ELSE 0)
        /\ \A i \in 1 .. written[f] : FileOf(f)[i] = <<f, i>>
    BY <2>1, FileIs
  <2>4. QED BY <2>2, <2>3
<1>3. written'[f] = written[f]
  BY DEF mysql
<1>4. \A i \in 1 .. written[f] : i \in 1 .. Len(final'[f]) /\ final'[f][i] = <<f, i>>
  BY <1>1, <1>2
<1>5. QED BY <1>1, <1>3, <1>4 DEF Archived, Holds

\* A closed file that is archived or excused stays so, unless the loop is at it.
LEMMA FineKept ==
  ASSUME Core, Next, NEW f \in Files, Fine(f), f < open,
         f # pos.file \/ pc \in {"prune", "save"},
         pc = "backfill" => f # masterPos.file
  PROVE  Fine(f)'
<1>1. written'[f] = written[f]
  <2>1. MysqlOK /\ Closed
    BY CoreFacts
  <2>2. QED BY <2>1, MysqlGrows
<1>2. CASE BackfillFile /\ Copy(f)
  <2>1. UNCHANGED mysql /\ f # masterPos.file
    BY <1>2 DEF BackfillFile
  <2>2. QED BY <1>2, <2>1, CopyArchives DEF Fine
<1>3. CASE PruneRetention /\ f \in pruned'
  BY <1>3 DEF Fine
<1>4. CASE ~(BackfillFile /\ Copy(f)) /\ ~(PruneRetention /\ f \in pruned')
  <2>1. ~(f = pos.file /\ (Seal \/ SealFails \/ RecoverRemoves \/ Refill \/ CutShort))
    BY DEF Seal, SealFails, RecoverRemoves, Refill, CutShort
  <2>2. final'[f] = final[f] /\ (f \in pruned => f \in pruned') /\ (f \in lost => f \in lost')
        /\ (f \in headless => f \in headless')
    BY <1>4, <2>1, FileStep, HistoryStep
  <2>3. QED BY <1>1, <2>2 DEF Fine, Archived, Holds
<1>5. QED BY <1>2, <1>3, <1>4

LEMMA GapFacts ==
  ASSUME GapInv
  PROVE  /\ Core /\ Behind /\ TailRead /\ HeadHeld /\ TailEnds /\ Refilling
         /\ FirstCopies /\ FirstPurged /\ FirstSegment
         /\ MysqlOK /\ DiskOK /\ Closed /\ Where /\ Segment /\ OwnFiles
BY DEF GapInv, Core, TypeOK

\* Where a segment's tail begins and how long it is.
LEMMA TailIs ==
  ASSUME GapInv, pc \in Reading, started, pos.file \notin headless
  PROVE  /\ Base \in Nat /\ Len(partial) \in Nat \ {0} /\ pos.at \in Nat
         /\ pos.at <= Base /\ src.at = Base + Len(partial) /\ src.at <= written[pos.file]
         /\ \A i \in 1 .. Len(partial) : partial[i] = <<pos.file, Base + i>>
         /\ appending => Base > 0
         /\ ~appending => Base = 0
         /\ pos.at < written[pos.file]
<1>1. pos.at \in Nat /\ partial \in Seq(ArchiveEvent)
  BY GapFacts, CoreFacts DEF DiskOK
<1>2. /\ src.at = Base + Len(partial)
      /\ \A i \in 1 .. Len(partial) : partial[i] = <<pos.file, Base + i>>
      /\ ~appending => pos.at = 0
      /\ partial # Missing
  BY GapFacts DEF TailRead, Segment
<1>3. Len(partial) \in Nat \ {0}
  BY <1>1, <1>2, LenProperties, EmptySeq DEF Missing
<1>4. src.at <= written[pos.file] /\ written[pos.file] \in Nat
  BY GapFacts, ReadsFile
<1>5. Base \in Nat /\ pos.at <= Base /\ (appending => Base > 0) /\ (~appending => Base = 0)
  BY <1>1, <1>2 DEF Base
<1>6. QED BY <1>1, <1>2, <1>3, <1>4, <1>5

\* Sealing up to the end of the file archives all of it.
LEMMA SealArchives ==
  ASSUME GapInv, Next, Seal, src.at = written[pos.file], pos.file \notin headless
  PROVE  Archived(pos.file)'
<1> DEFINE f == pos.file
           c == Sealed(f)
           t == final[f]
<1>1. pc = "seal" /\ pc \in Reading /\ started /\ f \in Files
  BY GapFacts, ReadsFile DEF Seal, Segment, Reading
<1>2. /\ Base \in Nat /\ Len(partial) \in Nat \ {0} /\ pos.at \in Nat /\ pos.at <= Base
      /\ written[f] = Base + Len(partial)
      /\ \A i \in 1 .. Len(partial) : partial[i] = <<f, Base + i>>
      /\ ~appending => Base = 0
      /\ appending => Base = IF pos.at = 0 THEN 1 ELSE pos.at
  BY <1>1, TailIs DEF Base
<1>3. final'[f] = c /\ written' = written
  BY <1>1, GapFacts DEF Seal, DiskOK, mysql
<1>4. /\ t \in Seq(ArchiveEvent) /\ Len(t) \in Nat /\ Own(t, f)
      /\ appending => t # Missing /\ Len(t) > 0
  BY <1>1, GapFacts, EmptySeq, LenProperties DEF DiskOK, OwnFiles, Segment, Missing
<1>5. \A i \in 1 .. pos.at : Holds(f, i)
  BY <1>1, GapFacts DEF HeadHeld, Sealing
<1>6. ASSUME NEW i \in 1 .. written[f]
      PROVE  \E j \in 1 .. Len(c) : c[j] = <<f, i>>
  <2>1. CASE ~appending
    <3>1. c = partial
      BY <1>1, <2>1, GapFacts, SealedIs
    <3>2. QED BY <1>2, <2>1, <3>1
  <2>2. CASE appending /\ i <= Base
    <3>1. Holds(f, i)
      <4>1. CASE pos.at = 0
        <5>1. i = 1 /\ t[1] = <<f, 1>>
          BY <1>2, <1>4, <2>2, <4>1 DEF Own
        <5>2. QED BY <1>4, <2>2, <5>1 DEF Holds
      <4>2. CASE pos.at # 0
        BY <1>2, <1>5, <2>2, <4>2
      <4>3. QED BY <4>1, <4>2
    <3>2. PICK j \in 1 .. Len(t) : t[j] = <<f, i>>
      BY <3>1 DEF Holds
    <3>3. j \in 1 .. Len(c) /\ c[j] = t[j]
      <4>1. CASE AlreadyAppended(f)
        BY <1>1, <2>2, <4>1, GapFacts, SealedIs
      <4>2. CASE ~AlreadyAppended(f)
        <5>1. Len(c) = Len(t) + Len(partial) /\ c[j] = t[j]
          BY <1>1, <2>2, <4>2, GapFacts, SealedIs
        <5>2. QED BY <1>2, <1>4, <5>1
      <4>3. QED BY <4>1, <4>2
    <3>4. QED BY <3>2, <3>3
  <2>3. CASE appending /\ i > Base
    <3>1. PICK k \in 1 .. Len(partial) : i = Base + k
      <4>1. i - Base \in 1 .. Len(partial) /\ i = Base + (i - Base)
        BY <1>2, <2>3
      <4>2. QED BY <4>1
    <3>2. partial[k] = <<f, i>>
      BY <1>2, <3>1
    <3>3. CASE AlreadyAppended(f)
      <4>1. /\ c = t /\ Len(partial) <= Len(t)
            /\ partial[k] = t[Len(t) - Len(partial) + k]
        BY <1>1, <2>3, <3>1, <3>3, GapFacts, SealedIs, AppendedIs
      <4>2. Len(t) \in Nat /\ Len(partial) \in Nat
        BY <1>2, <1>4
      <4>3. Len(t) - Len(partial) + k \in 1 .. Len(c)
        BY <3>1, <4>1, <4>2
      <4>4. QED BY <3>2, <4>1, <4>3
    <3>4. CASE ~AlreadyAppended(f)
      <4>1. Len(c) = Len(t) + Len(partial) /\ c[Len(t) + k] = partial[k]
        BY <1>1, <2>3, <3>1, <3>4, GapFacts, SealedIs
      <4>2. Len(t) \in Nat /\ Len(partial) \in Nat
        BY <1>2, <1>4
      <4>3. Len(t) + k \in 1 .. Len(c)
        BY <3>1, <4>1, <4>2
      <4>4. QED BY <3>2, <4>1, <4>3
    <3>5. QED BY <3>3, <3>4
  <2>4. QED BY <1>2, <2>1, <2>2, <2>3
<1>7. f \in Files /\ pos'.file = pos.file
  BY <1>1 DEF Seal
<1>8. QED BY <1>3, <1>6, <1>7 DEF Archived, Holds

\* An empty tail: the file was archived to its end before.
LEMMA EmptyTailArchived ==
  ASSUME GapInv, EmptyTail, pos.file \notin headless
  PROVE  Archived(pos.file)
<1>1. /\ pc = "stream" /\ pc \in Reading /\ ~started /\ appending
      /\ src.file = pos.file /\ src.at = written[pos.file] /\ pos.file \in Files
  BY GapFacts, ReadsFile DEF EmptyTail, AtRotation, Reading
<1>2. src.at = pos.at \/ (pos.at = 0 /\ src.at = 1)
  BY <1>1, GapFacts DEF TailRead
<1>3. \A i \in 1 .. pos.at : Holds(pos.file, i)
  BY <1>1, GapFacts DEF HeadHeld, Sealing
<1>4. Holds(pos.file, 1)
  <2>1. /\ final[pos.file] # Missing /\ final[pos.file] \in Seq(ArchiveEvent)
        /\ Own(final[pos.file], pos.file)
    BY <1>1, GapFacts DEF Segment, DiskOK, OwnFiles
  <2>2. 1 \in 1 .. Len(final[pos.file]) /\ final[pos.file][1] = <<pos.file, 1>>
    BY <2>1, EmptySeq, LenProperties DEF Own, Missing
  <2>3. QED BY <2>2 DEF Holds
<1>5. QED BY <1>1, <1>2, <1>3, <1>4 DEF Archived

\* recoverSealedFile copies the whole file and goes on behind it.
LEMMA RefillCopies ==
  ASSUME GapInv, Next, Refill
  PROVE  /\ Archived(pos.file)' /\ final'[pos.file] = FileOf(pos.file)
         /\ next' = pos.file + 1 /\ pos.file # masterPos.file
<1>1. /\ pc = "refill" /\ Copy(pos.file) /\ pos.file \in oldest .. open /\ UNCHANGED mysql
  BY DEF Refill, Copy
<1>2. PICK a \in 1 .. oldest : listed = a .. masterPos.file
  BY <1>1, GapFacts DEF Refilling
<1>3. pos.file < masterPos.file /\ masterPos.file \in 1 .. open /\ pos.file \in Nat
  <2>1. /\ pos.file < masterPos.file \/ pos.file < oldest
        /\ masterPos.file > 0 => masterPos.file <= open
    <3>1. Refilling /\ Where
      BY GapFacts
    <3>2. pos.file < masterPos.file \/ pos.file < oldest
      BY <1>1, <3>1 DEF Refilling
    <3>3. masterPos.file > 0 => masterPos.file \in saved.file .. open
      BY <3>1 DEF Where
    <3>4. QED BY <3>2, <3>3
  <2>2. masterPos.file \in Nat /\ open \in Nat /\ oldest \in Nat
    BY GapFacts, CoreFacts
  <2>3. QED BY <1>1, <2>1, <2>2
<1>4. a \in Files /\ pos.file \in Files /\ a <= pos.file /\ a \in Nat
  <2>1. open \in 1 .. MaxFiles /\ oldest \in 1 .. open
    BY GapFacts, CoreFacts
  <2>2. QED BY <1>1, <1>2, <2>1 DEF Files
<1>5. next' = pos.file + 1
  <2>1. next' = IF masterPos.file <= pos.file THEN masterPos.file
                ELSE IF a > masterPos.file THEN masterPos.file
                ELSE IF a > pos.file THEN a ELSE pos.file + 1
    BY <1>2, <1>3, <1>4, GapFacts, NextIs
  <2>2. masterPos.file \in Nat
    BY GapFacts, CoreFacts
  <2>3. ~(masterPos.file <= pos.file) /\ ~(a > masterPos.file) /\ ~(a > pos.file)
    BY <1>3, <1>4, <2>2
  <2>4. QED BY <2>1, <2>3
<1>6. PICK f \in Files : f = pos.file
  BY <1>4
<1>7. Archived(f)' /\ final'[f] = FileOf(f)
  BY <1>1, <1>3, <1>6, GapFacts, CopyArchives
<1>8. pos' = pos
  BY DEF Refill
<1>9. Archived(pos.file)'
  BY <1>6, <1>7, <1>8 DEF Archived, Holds
<1>10. QED BY <1>3, <1>5, <1>6, <1>7, <1>9

LEMMA BehindKept ==
  ASSUME GapInv, Next, Calm
  PROVE  Behind'
<1>0. Core /\ Behind /\ Where /\ open \in Nat
  BY GapFacts, CoreFacts
<1>1. ASSUME NEW f \in Files, f < saved.file \/ f < pos.file \/ (pc \in {"prune", "save"} /\ f < next)
      PROVE  Fine(f)'
  <2>1. Fine(f)
    BY <1>0, <1>1 DEF Behind
  <2>2. f < open /\ (pc = "backfill" => f # masterPos.file) /\ (f # pos.file \/ pc \in {"prune", "save"})
    <3>1. /\ saved.file \in Nat /\ pos.file \in Nat /\ next \in Nat /\ open \in Nat
          /\ masterPos.file \in Nat /\ f \in Nat \ {0}
      BY <1>0, CoreFacts DEF Files
    <3>2. /\ saved.file <= open
          /\ pos.file > 0 => pos.file \in saved.file .. open
          /\ pc \in {"prune", "save"} => next \in pos.file .. open
      BY <1>0 DEF Where
    <3>3. f < open
      BY <1>1, <3>1, <3>2
    <3>4. pc = "backfill" => pos.file = 0 /\ masterPos.file \in saved.file .. open
      BY <1>0 DEF Where, Idle
    <3>5. pc \notin {"prune", "save"} => f < saved.file \/ f < pos.file
      BY <1>1
    <3>6. pc = "backfill" => f # masterPos.file
      BY <3>1, <3>4, <3>5
    <3>7. f # pos.file \/ pc \in {"prune", "save"}
      BY <3>1, <3>2, <3>5, <1>1
    <3>8. QED BY <3>3, <3>6, <3>7
  <2>3. QED BY <1>0, <2>1, <2>2, FineKept
<1>2. CASE Seal
  <2>1. pc = "seal" /\ pc' = "prune" /\ UNCHANGED <<saved, pos, next>>
    BY <1>2 DEF Seal, segment
  <2>2. CASE next = pos.file
    BY <1>1, <2>1, <2>2 DEF Behind
  <2>3. CASE next = pos.file + 1 /\ src.at = written[pos.file]
    <3>1. Archived(pos.file)' \/ pos.file \in headless
      BY <1>2, <2>3, SealArchives
    <3>2. \A f \in Files : f < next => f < pos.file \/ f = pos.file
      BY <2>3, <1>0, CoreFacts DEF Files
    <3>3. pos' = pos /\ headless' = headless
      BY <1>2, <2>1 DEF Seal
    <3>4. Fine(pos.file)'
      BY <3>1, <3>3 DEF Fine
    <3>5. QED BY <1>1, <2>1, <3>2, <3>4 DEF Behind
  <2>4. QED BY <2>1, <2>2, <2>3, GapFacts DEF TailEnds
<1>3. CASE EmptyTail
  <2>1. src.file = pos.file /\ pos.file \in Files
    BY <1>0, <1>3, ReadsFile DEF EmptyTail, AtRotation, Reading
  <2>2. /\ pc' = "save" /\ next' = pos.file + 1 /\ UNCHANGED <<saved, pos, written, final, headless>>
    BY <1>3, <2>1 DEF EmptyTail, mysql, history
  <2>3. Fine(pos.file)'
    BY <1>3, <2>2, EmptyTailArchived DEF Fine, Archived, Holds
  <2>4. \A f \in Files : f < next' => f < pos.file \/ f = pos.file
    BY <2>1, <2>2 DEF Files
  <2>5. QED BY <1>1, <2>2, <2>3, <2>4 DEF Behind
<1>4. CASE Refill
  <2>1. pc = "refill" /\ pc' = "save" /\ next' = pos.file + 1 /\ UNCHANGED <<saved, pos>>
    BY <1>4, RefillCopies DEF Refill
  <2>2. Fine(pos.file)'
    BY <1>4, RefillCopies DEF Fine
  <2>3. \A f \in Files : f < next' => f < pos.file \/ f = pos.file
    BY <1>0, <2>1, CoreFacts DEF Files
  <2>4. QED BY <1>1, <2>1, <2>2, <2>3 DEF Behind
<1>5. CASE LoadState
  <2>1. pc' = "sync" /\ saved' = saved
    BY <1>5 DEF LoadState
  <2>2. CASE saved # NoState
    <3>1. pos' = saved
      BY <1>5, <2>2 DEF LoadState
    <3>2. QED BY <1>1, <2>1, <3>1 DEF Behind
  <2>3. CASE saved = NoState
    <3>1. pos'.file = open /\ pc = "load" /\ UNCHANGED <<final, written, headless, lost, pruned>>
      BY <1>5, <2>3 DEF LoadState, mysql, history
    <3>2. \A f \in Files : f < open => Fine(f)
      BY <2>3, <3>1, GapFacts DEF FirstCopies
    <3>3. \A f \in Files : f < open => Fine(f)'
      BY <3>1, <3>2 DEF Fine, Archived, Holds
    <3>4. QED BY <1>1, <2>1, <3>1, <3>3 DEF Behind
  <2>4. QED BY <2>2, <2>3
<1>6. CASE SaveState
  <2>1. /\ pc = "save" /\ pc' \in {"sync", "stopped"}
        /\ saved' = saved \/ saved'.file = next
        /\ pos'.file = next \/ pos' = pos
    BY <1>6 DEF SaveState
  <2>2. QED BY <1>1, <2>1 DEF Behind
<1>7. CASE ~(Seal \/ EmptyTail \/ Refill \/ LoadState \/ SaveState)
  <2>1. /\ saved' = saved /\ (pos' = pos \/ pos' = NoState)
        /\ pc' \in {"prune", "save"} => pc \in {"prune", "save"} /\ next' = next
    BY <1>7 DEF Next, Write, Rotate, Purge, Start, Reconcile, ListBinlogs, MasterPosition, BackfillFile,
      Reconciled, RunFails, Sync, OpenStream, ReadFormat, ReadEvent, ReadRotate, PruneRetention,
      Reannounced, StreamFails, SealFails, Recover, RecoverList, RecoverRemoves, RecoverFails, Crash, segment
  <2>2. \A f \in Files : ~(f < NoState.file)
    BY DEF NoState, Files
  <2>3. QED BY <1>1, <2>1, <2>2 DEF Behind
<1>8. QED BY <1>2, <1>3, <1>4, <1>5, <1>6, <1>7

LEMMA TailReadKept ==
  ASSUME GapInv, Next
  PROVE  TailRead'
<1>0. /\ Core /\ TailRead /\ partial \in Seq(ArchiveEvent) /\ Len(partial) \in Nat /\ Len(Missing) = 0
      /\ pos.at \in Nat /\ src \in Position
  BY GapFacts, CoreFacts, LenProperties DEF DiskOK, Missing
<1>h. pc' \in Reading => pos' = pos /\ headless' = headless
  BY DEF Reading, Next, Write, Rotate, Purge, Start, Reconcile, ListBinlogs, MasterPosition, BackfillFile,
    Reconciled, RunFails, Sync, LoadState, OpenStream, ReadFormat, ReadEvent, ReadRotate, EmptyTail, Seal,
    PruneRetention, SaveState, Reannounced, StreamFails, SealFails, Recover, RecoverList, RecoverRemoves,
    Refill, RecoverFails, Crash, history
<1>n. CASE pos.file \in headless
  BY <1>h, <1>n DEF TailRead
<1>1. CASE OpenStream /\ pos.file \notin headless
  <2>1. pc' = "stream" /\ src' = pos /\ pos' = pos /\ ~started'
    BY <1>1 DEF OpenStream
  <2>2. appending' <=> final[pos.file] # Missing
    BY <1>1, Zenon DEF OpenStream
  <2>3. final[pos.file] = Missing => pos.at = 0
    <3>1. pos.file \in Files
      BY <1>0, <1>1, CoreFacts DEF OpenStream, Where, Idle, Files
    <3>2. \A i \in 1 .. pos.at : Holds(pos.file, i)
      BY <1>1, GapFacts DEF OpenStream, HeadHeld, Sealing
    <3>3. final[pos.file] = Missing => ~Holds(pos.file, 1)
      BY <3>1, GapFacts, ArchivedIs
    <3>4. QED BY <1>0, <3>2, <3>3
  <2>4. QED BY <2>1, <2>2, <2>3 DEF TailRead
<1>2. CASE ReadFormat /\ pos.file \notin headless
  <2>1. /\ pc = "stream" /\ ~started /\ (~appending \/ src.at = 0)
        /\ src.file = pos.file /\ pos' = pos /\ appending' = appending /\ src.at \in Nat
        /\ src.at = pos.at \/ (pos.at = 0 /\ appending /\ src.at = 1)
        /\ ~appending => pos.at = 0
    BY <1>0, <1>2, ReadsFile, CoreFacts DEF ReadFormat, TailRead, Reading
  <2>2. src'.at = IF src.at = 0 THEN 1 ELSE src.at
    BY <1>0, <1>2 DEF ReadFormat, Position
  <2>3. CASE appending
    <3>1. ~started' /\ src'.at = 1 /\ pos.at = 0
      BY <1>2, <2>1, <2>2, <2>3 DEF ReadFormat
    <3>2. QED BY <2>1, <2>3, <3>1 DEF TailRead
  <2>4. CASE ~appending
    <3>1. partial' = << <<pos.file, 1>> >> /\ src'.at = 1 /\ pos.at = 0
      BY <1>2, <2>1, <2>2, <2>4 DEF ReadFormat
    <3>2. Base' = 0 /\ started'
      <4>1. started' /\ ~appending'
        BY <1>2, <2>4, Zenon DEF ReadFormat
      <4>2. QED BY <4>1 DEF Base
    <3>3. QED BY <2>1, <3>1, <3>2 DEF TailRead
  <2>5. QED BY <2>3, <2>4
<1>3. CASE ReadEvent /\ pos.file \notin headless
  <2>1. /\ pc = "stream" /\ (started \/ appending) /\ src.at \in Nat \ {0}
        /\ src.file = pos.file /\ pos' = pos /\ appending' = appending /\ started'
    BY <1>0, <1>3, ReadsFile, CoreFacts DEF ReadEvent, Reading
  <2>2. src'.at = src.at + 1
    BY <1>0, <1>3 DEF ReadEvent, Position
  <2>3. /\ Len(partial') = Len(partial) + 1
        /\ \A i \in 1 .. Len(partial) : partial'[i] = partial[i]
        /\ partial'[Len(partial) + 1] = <<pos.file, src.at + 1>>
    BY <1>0, <1>3, <2>1 DEF ReadEvent
  <2>4. Base' = Base /\ (~appending => pos.at = 0)
    BY <1>0, <1>3, <2>1 DEF Base, TailRead, Reading
  <2>5. /\ src.at = Base + Len(partial) /\ Base \in Nat
        /\ \A i \in 1 .. Len(partial) : partial[i] = <<pos.file, Base + i>>
    <3>1. CASE started
      BY <1>3, <2>1, <3>1, TailIs DEF Reading
    <3>2. CASE ~started
      <4>1. partial = Missing /\ appending /\ (src.at = pos.at \/ (pos.at = 0 /\ src.at = 1))
        BY <1>3, <2>1, <3>2, GapFacts DEF Segment, TailRead, Reading
      <4>2. Len(partial) = 0 /\ src.at = Base
        BY <1>0, <2>1, <4>1 DEF Base
      <4>3. QED BY <2>1, <4>2
    <3>3. QED BY <3>1, <3>2
  <2>6. ASSUME NEW i \in 1 .. Len(partial')
        PROVE  partial'[i] = <<pos.file, Base + i>>
    <3>1. i \in 1 .. Len(partial) \/ (i = Len(partial) + 1 /\ Base + i = src.at + 1)
      BY <1>0, <2>3, <2>5
    <3>2. QED BY <2>3, <2>5, <3>1
  <2>7. src'.at = Base + Len(partial')
    BY <1>0, <2>2, <2>3, <2>5
  <2>8. QED BY <2>1, <2>4, <2>6, <2>7 DEF TailRead
<1>4. CASE pc' \notin Reading
  BY <1>4 DEF TailRead
<1>5. CASE pc' \in Reading /\ ~(OpenStream \/ ReadFormat \/ ReadEvent) /\ pos.file \notin headless
  <2>1. pc \in Reading /\ UNCHANGED <<src, pos, appending, started, partial>>
    BY <1>5 DEF Reading, Next, Write, Rotate, Purge, Start, Reconcile, ListBinlogs, MasterPosition, BackfillFile,
      Reconciled, RunFails, Sync, LoadState, ReadRotate, EmptyTail, Seal, PruneRetention, SaveState, Reannounced,
      StreamFails, SealFails, Recover, RecoverList, RecoverRemoves, Refill, RecoverFails, Crash, AtRotation, segment
  <2>2. QED BY <1>0, <1>5, <2>1 DEF TailRead, Base
<1>6. QED BY <1>n, <1>1, <1>2, <1>3, <1>4, <1>5

\* What an interrupted append leaves holds what was there, and of the tail not
\* the last event.
LEMMA CutHolds ==
  ASSUME GapInv, CutShort, pos.file \notin headless, NEW i \in 0 .. MaxEvents
  PROVE  /\ Holds(pos.file, i) => \E j \in 1 .. Len(final'[pos.file]) : final'[pos.file][j] = <<pos.file, i>>
         /\ (\E j \in 1 .. Len(final'[pos.file]) : final'[pos.file][j] = <<pos.file, i>>) =>
              Holds(pos.file, i) \/ i < src.at
<1> DEFINE f == pos.file
           t == final[f]
<1>1. pc = "seal" /\ pc \in Reading /\ started /\ f \in Files /\ appending
  BY GapFacts, ReadsFile DEF CutShort, Segment, Reading
<1>2. PICK c \in Interrupted(f) : final'[f] = c
  BY <1>1, GapFacts DEF CutShort, DiskOK
<1>3. /\ Len(t) <= Len(c) /\ Len(t) \in Nat /\ Len(c) \in Nat
      /\ \A k \in 1 .. Len(t) : c[k] = t[k]
      /\ \A k \in Len(t) + 1 .. Len(c) :
           c[k] = Torn \/ \E j \in 1 .. Len(partial) - 1 : c[k] = partial[j]
  <2>1. DiskOK /\ t \in Seq(ArchiveEvent)
    BY <1>1, GapFacts DEF DiskOK
  <2>2. QED BY <1>1, <2>1, InterruptedIs, LenProperties
<1>4. Holds(f, i) => \E j \in 1 .. Len(c) : c[j] = <<f, i>>
  <2>1. \A j \in 1 .. Len(t) : j \in 1 .. Len(c) /\ c[j] = t[j]
    BY <1>3
  <2>2. QED BY <2>1, Zenon DEF Holds
<1>5. ASSUME NEW k \in 1 .. Len(c), c[k] = <<f, i>>
      PROVE  Holds(f, i) \/ i < src.at
  <2>1. CASE k \in 1 .. Len(t)
    BY <1>3, <1>5, <2>1 DEF Holds
  <2>2. CASE k \in Len(t) + 1 .. Len(c)
    <3>1. c[k] # Torn
      BY <1>1, <1>5 DEF Torn, Files
    <3>2. PICK j \in 1 .. Len(partial) - 1 : c[k] = partial[j]
      BY <1>3, <2>2, <3>1
    <3>3. /\ Base \in Nat /\ Len(partial) \in Nat /\ src.at = Base + Len(partial)
          /\ \A n \in 1 .. Len(partial) : partial[n] = <<f, Base + n>>
      BY <1>1, TailIs
    <3>4. j \in 1 .. Len(partial) /\ j < Len(partial) /\ j \in Nat
      BY <3>2, <3>3
    <3>5. i = Base + j
      BY <1>5, <3>2, <3>3, <3>4
    <3>6. QED BY <3>3, <3>4, <3>5
  <2>3. QED BY <1>3, <2>1, <2>2
<1>6. QED BY <1>2, <1>4, <1>5

LEMMA HeadHeldKept ==
  ASSUME GapInv, Next
  PROVE  HeadHeld'
<1>0. Core /\ HeadHeld /\ oldest \in Nat /\ pos.file \in Nat /\ pos.at \in 0 .. MaxEvents
  BY GapFacts, CoreFacts
<1>1. CASE LoadState
  <2>1. CASE saved # NoState
    <3>1. pos'.at = 0
      BY <1>1, <2>1, GapFacts DEF LoadState, Where
    <3>2. QED BY <3>1 DEF HeadHeld
  <2>2. CASE saved = NoState
    <3>1. /\ pos' = [file |-> open, at |-> written[open]] /\ pc = "load" /\ final' = final /\ open \in Files
          /\ written[open] \in Nat
      BY <1>0, <1>1, <2>2, CoreFacts DEF LoadState, Files
    <3>2. written[open] > 0 => final[open] = Events(open)
      BY <2>2, <3>1, GapFacts DEF FirstCopies
    <3>3. \A i \in 1 .. written[open] : Holds(open, i)
      <4>1. Len(Events(open)) = written[open] /\ \A i \in 1 .. written[open] : Events(open)[i] = <<open, i>>
        BY <3>1, GapFacts, EventsAre
      <4>2. QED BY <3>1, <3>2, <4>1 DEF Holds
    <3>4. QED BY <3>1, <3>3 DEF HeadHeld, Holds
  <2>3. QED BY <2>1, <2>2
<1>2. CASE SaveState
  <2>1. pc' = "sync" => pos'.at = 0
    BY <1>2 DEF SaveState
  <2>2. pc' \in {"sync", "stopped"}
    BY <1>2 DEF SaveState
  <2>3. QED BY <2>1, <2>2 DEF HeadHeld, Sealing
<1>3. CASE SealFails /\ CutShort /\ pos.file \notin headless
  <2>1. pos' = pos /\ pc = "seal"
    BY <1>3 DEF SealFails
  <2>2. \A i \in 1 .. pos.at : Holds(pos.file, i)
    BY <1>0, <1>3, <2>1 DEF HeadHeld, Sealing
  <2>3. \A i \in 1 .. pos.at : i \in 0 .. MaxEvents
    BY <1>0
  <2>4. \A i \in 1 .. pos.at : \E j \in 1 .. Len(final'[pos.file]) : final'[pos.file][j] = <<pos.file, i>>
    BY <1>3, <2>2, <2>3, CutHolds
  <2>5. QED BY <2>1, <2>4 DEF HeadHeld, Holds
<1>4. CASE pc' \notin Sealing
  BY <1>4 DEF HeadHeld
<1>7. CASE RecoverFails /\ pc = "refill"
  <2>1. pos' = pos /\ headless' = headless \cup {f \in {pos.file} : pos.at > 0}
    BY <1>7 DEF RecoverFails
  <2>2. QED BY <1>0, <2>1 DEF HeadHeld
<1>8. CASE SealFails /\ pos.file \in headless
  BY <1>8 DEF SealFails, HeadHeld
<1>5. CASE pc' \in Sealing /\ ~LoadState /\ ~SaveState /\ ~SealFails /\ ~(RecoverFails /\ pc = "refill")
  <2>1. /\ pos' = pos /\ final' = final /\ headless' = headless
        /\ oldest' = oldest \/ oldest' = oldest + 1
        /\ pc \in Sealing
        /\ pc = "sync" => pc' = pc \/ pos.file >= oldest
    BY <1>5 DEF Sealing, Next, Write, Rotate, Purge, Start, Reconcile, ListBinlogs, MasterPosition, BackfillFile,
      Reconciled, RunFails, Sync, OpenStream, ReadFormat, ReadEvent, ReadRotate, EmptyTail, Seal, PruneRetention, Reannounced,
      StreamFails, Recover, RecoverList, RecoverRemoves, Refill, RecoverFails, Crash, AtRotation, mysql, history
  <2>2. (pc' = "sync" => pos.file >= oldest') => (pc = "sync" => pos.file >= oldest)
    BY <1>0, <2>1
  <2>3. QED BY <1>0, <2>1, <2>2 DEF HeadHeld, Holds
<1>9. CASE SealFails /\ ~CutShort /\ pos.file \notin headless
  <2>1. pos' = pos /\ final' = final /\ headless' = headless /\ pc = "seal"
    BY <1>9 DEF SealFails
  <2>2. QED BY <1>0, <1>9, <2>1 DEF HeadHeld, Holds, Sealing
<1>6. QED BY <1>1, <1>2, <1>3, <1>4, <1>5, <1>7, <1>8, <1>9

LEMMA TailEndsKept ==
  ASSUME GapInv, Next
  PROVE  TailEnds'
<1>0. Core /\ TailEnds /\ Where /\ MysqlOK /\ Closed
  BY GapFacts
<1>1. CASE Write \/ Rotate \/ Purge
  <2>1. UNCHANGED <<pc, next, pos, suspect, headless, src>>
    BY <1>1 DEF Write, Rotate, Purge, segment, history
  <2>2. pc = "seal" /\ next = pos.file + 1 => written'[pos.file] = written[pos.file]
    <3>1. ASSUME pc = "seal", next = pos.file + 1
          PROVE  written'[pos.file] = written[pos.file]
      <4>1. pos.file \in Files /\ pos.file < open
        BY <1>0, <3>1, CoreFacts, ReadsFile DEF Where, Reading
      <4>2. QED BY <1>0, <4>1, MysqlGrows
    <3>2. QED BY <3>1
  <2>3. pc \in {"relist", "remaster"} => written'[pos.file] >= written[pos.file] /\ written'[pos.file] \in Nat
                                         /\ written[pos.file] \in Nat
    <3>1. pc \in {"relist", "remaster"} => pos.file \in Files
      BY <1>0, CoreFacts DEF Where, Idle, Files
    <3>2. QED BY <1>0, <3>1, MysqlGrows, EventsAre
  <2>4. pos.at \in Nat
    BY <1>0, CoreFacts
  <2>5. QED BY <1>0, <2>1, <2>2, <2>3, <2>4 DEF TailEnds
<1>2. CASE ReadRotate \/ Reannounced
  <2>1. src.file = pos.file
    BY <1>0, <1>2, ReadsFile DEF ReadRotate, Reannounced, AtRotation, Reading
  <2>2. QED BY <1>2, <2>1 DEF ReadRotate, Reannounced, AtRotation, TailEnds, mysql
<1>3. CASE SealFails
  <2>1. pc = "seal" /\ pc' = "relist" /\ pos' = pos /\ written' = written /\ headless' = headless
    BY <1>3 DEF SealFails, mysql
  <2>2. pos.at < written[pos.file] \/ pos.file \in headless
    BY <2>1, TailIs, GapFacts DEF Segment, Reading
  <2>3. QED BY <2>1, <2>2 DEF TailEnds
<1>4. CASE Seal \/ PruneRetention
  <2>1. /\ pc \in {"seal", "prune"} /\ pc' \in {"prune", "save"} /\ UNCHANGED <<pos, next, suspect>>
    BY <1>4 DEF Seal, PruneRetention, segment
  <2>2. pos.file \in Nat
    BY <1>0, CoreFacts
  <2>3. QED BY <1>0, <2>1, <2>2 DEF TailEnds
<1>5. CASE EmptyTail
  <2>1. src.file = pos.file /\ pos.file \in Nat
    BY <1>0, <1>5, ReadsFile, CoreFacts DEF EmptyTail, AtRotation, Reading
  <2>2. QED BY <1>5, <2>1 DEF EmptyTail, TailEnds
<1>6. CASE Refill
  <2>1. pos.file \in Nat /\ next' = pos.file + 1
    BY <1>0, <1>6, RefillCopies, CoreFacts
  <2>2. pc' = "save" /\ pos' = pos
    BY <1>6 DEF Refill
  <2>3. QED BY <2>1, <2>2 DEF TailEnds
<1>7. CASE RecoverList
  BY <1>0, <1>7 DEF RecoverList, TailEnds, mysql, history
<1>8. CASE \/ Start \/ Reconcile \/ RunFails \/ LoadState \/ OpenStream \/ ReadFormat \/ ReadEvent \/ SaveState
           \/ StreamFails \/ RecoverRemoves \/ RecoverFails \/ Crash
  <2>1. pc' \notin {"seal", "prune", "save", "relist", "remaster"}
    BY <1>8 DEF Start, Reconcile, ListBinlogs, MasterPosition, BackfillFile, Reconciled, RunFails, LoadState,
      OpenStream, ReadFormat, ReadEvent, SaveState, StreamFails, RecoverRemoves, RecoverFails, Crash
  <2>2. QED BY <2>1 DEF TailEnds
<1>9. QED BY <1>1, <1>2, <1>3, <1>4, <1>5, <1>6, <1>7, <1>8 DEF Next, Sync, Recover

LEMMA RefillingKept ==
  ASSUME GapInv, Next, Calm
  PROVE  Refilling'
<1>0. Core /\ Refilling /\ oldest \in Nat /\ open \in Nat
  BY GapFacts, CoreFacts
<1>1. CASE Write \/ Rotate \/ Purge
  <2>1. /\ UNCHANGED <<pc, listed, masterPos, pos, final>> /\ (oldest' = oldest \/ oldest' = oldest + 1)
        /\ pc = "remaster" => open' = open
    BY <1>1 DEF Write, Rotate, Purge, MayMove, Calm, answers
  <2>2. 1 .. oldest \subseteq 1 .. oldest'
    BY <1>0, <2>1
  <2>3. pos.file < oldest => pos.file < oldest'
    BY <1>0, <2>1, CoreFacts
  <2>4. QED BY <1>0, <2>1, <2>2, <2>3 DEF Refilling
<1>2. CASE RecoverList
  <2>1. pc' = "remaster" /\ listed' = oldest .. open /\ UNCHANGED <<oldest, open>> /\ oldest \in 1 .. oldest
    BY <1>0, <1>2, CoreFacts DEF RecoverList, mysql
  <2>2. QED BY <2>1 DEF Refilling
<1>3. CASE RecoverRemoves
  <2>1. PICK a \in 1 .. oldest : listed = a .. open
    BY <1>0, <1>3 DEF RecoverRemoves, Refilling
  <2>2. /\ pc' = "refill" /\ listed' = listed /\ masterPos'.file = open /\ UNCHANGED <<oldest, open, pos>>
    BY <1>3 DEF RecoverRemoves, mysql
  <2>3. pos.file \in Files /\ pos.file \in 1 .. open
    BY <1>0, <1>3, CoreFacts DEF RecoverRemoves, Where, Idle, Files
  <2>4. final'[pos.file] = Missing
    BY <1>3, <2>3, GapFacts DEF RecoverRemoves, DiskOK
  <2>5. pos.file < open \/ pos.file < oldest
    <3>1. open > pos.file \/ pos.file \notin listed
      BY <1>3 DEF RecoverRemoves, MustRefill
    <3>2. QED BY <1>0, <2>1, <2>3, <3>1
  <2>6. QED BY <2>1, <2>2, <2>4, <2>5 DEF Refilling
<1>4. CASE ~(Write \/ Rotate \/ Purge \/ RecoverList \/ RecoverRemoves)
  <2>1. pc' \notin {"remaster", "refill"}
    BY <1>4 DEF Next, Start, Reconcile, ListBinlogs, MasterPosition, BackfillFile,
      Reconciled, RunFails, Sync, LoadState, OpenStream, ReadFormat, ReadEvent, ReadRotate, EmptyTail, Seal, PruneRetention,
      SaveState, Reannounced, StreamFails, SealFails, Recover, Refill, RecoverFails, Crash, AtRotation
  <2>2. QED BY <2>1 DEF Refilling
<1>5. QED BY <1>1, <1>2, <1>3, <1>4

\* The state file is never removed.
LEMMA StateStays ==
  ASSUME Core, Next, saved' = NoState
  PROVE  saved = NoState
<1>1. CASE SaveState
  <2>1. next > 0
    BY <1>1, CoreFacts DEF SaveState, Where, Idle
  <2>2. [file |-> next, at |-> 0] # NoState
    BY <2>1, CoreFacts DEF NoState
  <2>3. QED BY <1>1, <2>2 DEF SaveState
<1>2. CASE ~SaveState
  BY <1>2 DEF Next, Write, Rotate, Purge, Start, Reconcile, ListBinlogs, MasterPosition, BackfillFile,
    Reconciled, RunFails, Sync, LoadState, OpenStream, ReadFormat, ReadEvent, ReadRotate, EmptyTail, Seal,
    PruneRetention, Reannounced, StreamFails, SealFails, Recover, RecoverList, RecoverRemoves, Refill,
    RecoverFails, Crash
<1>3. QED BY <1>1, <1>2

\* How the loop comes to be at a segment.
LEMMA SealingStep ==
  ASSUME Next, pc' \in Sealing
  PROVE  \/ LoadState
         \/ SaveState /\ next # pos.file
         \/ SealFails /\ CutShort
         \/ UNCHANGED <<pos, final>> /\ pc = "refill" /\ pc' = "sync"
         \/ UNCHANGED <<pos, final>> /\ pc \in Sealing
BY DEF Sealing, Next, Write, Rotate, Purge, Start, Reconcile, ListBinlogs, MasterPosition, BackfillFile,
  Reconciled, RunFails, Sync, OpenStream, ReadFormat, ReadEvent, ReadRotate, EmptyTail, Seal, PruneRetention,
  SaveState, Reannounced, StreamFails, SealFails, Recover, RecoverList, RecoverRemoves, Refill, RecoverFails, Crash,
  AtRotation

LEMMA FirstCopiesKept ==
  ASSUME GapInv, Next, Calm
  PROVE  FirstCopies'
<1> SUFFICES ASSUME saved' = NoState
             PROVE  FirstCopies'
  BY DEF FirstCopies
<1>0. /\ Core /\ saved = NoState /\ FirstCopies /\ Where /\ MysqlOK /\ DiskOK
      /\ oldest \in 1 .. open /\ open \in Files /\ open \in Nat /\ oldest \in Nat
  BY GapFacts, CoreFacts, StateStays DEF Files
<1>1. CASE Start
  BY <1>0, <1>1 DEF Start, Calm, FirstCopies
<1>2. CASE ListBinlogs
  BY <1>0, <1>2 DEF ListBinlogs, mysql, FirstCopies
<1>3. CASE MasterPosition
  BY <1>0, <1>3 DEF MasterPosition, mysql, FirstCopies
<1>4. CASE BackfillFile
  <2>1. PICK g : Copy(g)
    BY <1>4, Zenon DEF BackfillFile
  <2>2. /\ pc = "backfill" /\ UNCHANGED <<pc, written, open, oldest, listed, masterPos, saved>>
    BY <1>4 DEF BackfillFile, mysql, answers
  <2>3. g \in oldest .. open /\ g \in Files
    BY <1>0, <2>1, CoreFacts DEF Copy, Files
  <2>4. final'[g] = IF g = open THEN SubSeq(Events(g), 1, written[g]) ELSE FileOf(g)
    BY <1>0, <2>1, <2>2, <2>3 DEF Copy, DiskOK, FirstCopies
  <2>5. SubSeq(Events(g), 1, written[g]) = Events(g)
    <3>1. /\ written[g] \in Nat
          /\ Events(g) \in Seq(ArchiveEvent) /\ Len(Events(g)) = written[g]
          /\ \A i \in 1 .. written[g] : Events(g)[i] = <<g, i>>
      BY <1>0, <2>3, EventsAre
    <3>2. /\ SubSeq(Events(g), 1, written[g]) \in Seq(ArchiveEvent)
          /\ Len(SubSeq(Events(g), 1, written[g])) = written[g]
          /\ \A i \in 1 .. written[g] : SubSeq(Events(g), 1, written[g])[i] = <<g, i>>
      BY <1>0, <2>3, <3>1, CutIs
    <3>3. QED BY <3>1, <3>2, SeqEqual
  <2>6. \A f \in Files : f # g => final'[f] = final[f]
    BY <1>0, <2>1 DEF Copy, DiskOK
  <2>7. \A f : FileOf(f)' = FileOf(f) /\ Events(f)' = Events(f)
    BY <2>2 DEF FileOf, Events, Rotated
  <2>8. \A f \in Files : \/ final'[f] = Missing
                         \/ f < open /\ final'[f] = FileOf(f)
                         \/ f = open /\ final'[f] = Events(f)
    <3>1. g < open \/ g = open
      BY <1>0, <2>3
    <3>2. QED BY <1>0, <2>2, <2>4, <2>5, <2>6, <3>1 DEF FirstCopies
  <2>9. \A f \in Files : \/ final'[f] = Missing
                         \/ f < open' /\ final'[f] = FileOf(f)'
                         \/ f = open' /\ final'[f] = Events(f)'
    BY <2>2, <2>7, <2>8
  <2>10. QED BY <1>0, <2>2, <2>9 DEF FirstCopies
<1>5. CASE Reconciled
  <2>1. /\ pc = "backfill" /\ pc' = "load" /\ UNCHANGED <<written, open, oldest, final, headless, lost, pruned>>
        /\ ToBackfill = {}
    BY <1>5 DEF Reconciled, mysql, history
  <2>2. PICK a \in 1 .. oldest : listed = a .. open
    BY <1>0, <2>1 DEF FirstCopies
  <2>3. masterPos.file = open /\ masterPos.at = written[open]
    BY <1>0, <2>1 DEF FirstCopies
  <2>4. /\ \A f \in Files : f < open /\ f >= a => final[f] # Missing
        /\ written[open] > 0 => final[open] # Missing
    BY <1>0, <2>1, <2>2, <2>3 DEF ToBackfill, Files
  <2>5. ASSUME NEW f \in Files, f < open
        PROVE  Fine(f)
    <3>1. CASE f < a
      <4>1. f < oldest
        BY <1>0, <2>2, <3>1 DEF Files
      <4>2. QED BY <1>0, <4>1, GapFacts DEF FirstPurged
    <3>2. CASE f >= a
      <4>1. final[f] = FileOf(f)
        BY <1>0, <2>1, <2>4, <2>5, <3>2 DEF FirstCopies
      <4>2. QED BY <1>0, <4>1, ArchivedIs DEF Fine
    <3>3. QED BY <2>2, <3>1, <3>2, <1>0 DEF Files
  <2>6. written[open] > 0 => final[open] = Events(open)
    BY <1>0, <2>1, <2>4 DEF FirstCopies
  <2>7. \A f : FileOf(f)' = FileOf(f) /\ Events(f)' = Events(f)
    BY <2>1 DEF FileOf, Events, Rotated
  <2>8. \A f \in Files : Fine(f) => Fine(f)'
    BY <2>1 DEF Fine, Archived, Holds
  <2>9. \A f \in Files : \/ final'[f] = Missing
                         \/ f < open' /\ final'[f] = FileOf(f)'
                         \/ f = open' /\ final'[f] = Events(f)'
    BY <1>0, <2>1, <2>7 DEF FirstCopies
  <2>10. written'[open'] > 0 => final'[open'] = Events(open)'
    BY <2>1, <2>6 DEF Events
  <2>11. QED BY <2>1, <2>5, <2>8, <2>9, <2>10 DEF FirstCopies
<1>6. CASE Write \/ Rotate
  <2>1. pc \notin {"master", "backfill", "load"} /\ UNCHANGED <<pc, final>>
    BY <1>0, <1>6 DEF Write, Rotate, MayMove, Calm
  <2>2. QED BY <1>0, <2>1 DEF FirstCopies
<1>7. CASE Purge
  <2>1. UNCHANGED <<pc, final, open, written, listed, masterPos>> /\ oldest' = oldest + 1
    BY <1>7 DEF Purge, answers
  <2>2. 1 .. oldest \subseteq 1 .. oldest'
    BY <1>0, <2>1
  <2>3. pc = "load" => \A f \in Files : f < open => Fine(f)'
    <3>1. ASSUME pc = "load", NEW f \in Files, f < open
          PROVE  Fine(f)'
      <4>1. Fine(f) /\ f # pos.file
        BY <1>0, <3>1 DEF FirstCopies, Where, Idle, Files
      <4>2. QED BY <1>0, <3>1, <4>1, FineKept
    <3>2. QED BY <3>1
  <2>4. \A f : FileOf(f)' = FileOf(f) /\ Events(f)' = Events(f)
    BY <2>1 DEF FileOf, Events, Rotated
  <2>5. pc \in {"backfill", "load"} =>
          \A f \in Files : \/ final'[f] = Missing
                           \/ f < open' /\ final'[f] = FileOf(f)'
                           \/ f = open' /\ final'[f] = Events(f)'
    BY <1>0, <2>1, <2>4 DEF FirstCopies
  <2>6. pc = "load" => (written'[open'] > 0 => final'[open'] = Events(open)')
    BY <1>0, <2>1 DEF Events, FirstCopies
  <2>7. QED BY <1>0, <2>1, <2>2, <2>3, <2>5, <2>6 DEF FirstCopies
<1>8. CASE ~(Start \/ ListBinlogs \/ MasterPosition \/ BackfillFile \/ Reconciled \/ Write \/ Rotate \/ Purge)
  <2>1. pc' \notin {"list", "master", "backfill", "load"}
    BY <1>8 DEF Next, Reconcile, RunFails, Sync, LoadState, OpenStream, ReadFormat, ReadEvent, ReadRotate, EmptyTail,
      Seal, PruneRetention, SaveState, Reannounced, StreamFails, SealFails, Recover, RecoverList, RecoverRemoves,
      Refill, RecoverFails, Crash, AtRotation
  <2>2. QED BY <2>1 DEF FirstCopies
<1>9. QED BY <1>1, <1>2, <1>3, <1>4, <1>5, <1>6, <1>7, <1>8

LEMMA FirstPurgedKept ==
  ASSUME GapInv, Next, Calm
  PROVE  FirstPurged'
<1> SUFFICES ASSUME saved' = NoState
             PROVE  FirstPurged'
  BY DEF FirstPurged
<1> DEFINE Late == pc \in Sealing /\ (pc = "stream" => started \/ ~appending) /\ pc # "sync"
<1>0. /\ Core /\ saved = NoState /\ FirstPurged /\ FirstSegment /\ MysqlOK /\ DiskOK
      /\ oldest \in 1 .. open /\ open \in Files /\ open \in Nat /\ oldest \in Nat
      /\ pos.file \in Nat
  BY GapFacts, CoreFacts, StateStays DEF Files
<1>1. Late /\ pos.file < oldest => pos.file \in lost \cup headless
  BY <1>0 DEF FirstPurged
<1>2. lost \subseteq lost'
  BY HistoryStep
<1>3. ASSUME NEW g \in Files, g < oldest
      PROVE  Fine(g)'
  <2>1. Fine(g) /\ g < open /\ (pc = "backfill" => g # masterPos.file)
    <3>1. pc = "backfill" => masterPos.file = open
      BY <1>0, GapFacts DEF FirstCopies
    <3>2. QED BY <1>0, <1>3, <3>1 DEF FirstPurged, Files
  <2>2. CASE g # pos.file \/ pc \in {"prune", "save"}
    BY <1>0, <2>1, <2>2, FineKept
  <2>3. CASE g = pos.file /\ pc \in {"seal", "remaster"}
    <3>1. g \in lost \cup headless
      BY <1>0, <1>3, <2>3 DEF FirstPurged, Sealing
    <3>2. g \in headless => g \in headless'
      BY <2>3, HistoryStep DEF BackfillFile, Refill
    <3>3. QED BY <1>2, <3>1, <3>2 DEF Fine
  <2>4. CASE g = pos.file /\ pc \notin {"prune", "save", "seal", "remaster"}
    <3>1. ~Copy(g)
      BY <1>0, <1>3 DEF Copy, Files
    <3>2. ~Refill
      BY <2>4, <3>1 DEF Refill
    <3>3. ~Seal /\ ~CutShort /\ ~RecoverRemoves /\ ~PruneRetention
      BY <2>4 DEF Seal, CutShort, RecoverRemoves, PruneRetention
    <3>4. final'[g] = final[g] /\ (g \in pruned => g \in pruned') /\ (g \in headless => g \in headless')
      BY <1>0, <3>1, <3>2, <3>3, FileStep, HistoryStep
    <3>5. written'[g] = written[g]
      BY <1>0, <2>1, GapFacts, MysqlGrows
    <3>6. QED BY <1>2, <2>1, <3>4, <3>5 DEF Fine, Archived, Holds
  <2>5. QED BY <2>2, <2>3, <2>4
<1>4. CASE Purge
  <2>1. /\ UNCHANGED <<pc, pos, started, appending, final, written, headless, pruned>>
        /\ oldest' = oldest + 1 /\ oldest < open
        /\ lost' = IF IsArchived(oldest) THEN lost ELSE lost \cup {oldest}
    BY <1>4 DEF Purge, segment
  <2>2. oldest \in Files
    BY <1>0 DEF Files
  <2>3. PICK g \in Files : g = oldest
    BY <2>2
  <2>4. Fine(g)'
    <3>1. CASE IsArchived(oldest)
      <4>1. Archived(g)
        BY <1>0, <2>3, <3>1, ArchivedIs
      <4>2. QED BY <2>1, <4>1 DEF Fine, Archived, Holds
    <3>2. CASE ~IsArchived(oldest)
      BY <2>1, <2>3, <3>2 DEF Fine
    <3>3. QED BY <3>1, <3>2
  <2>5. \A f \in Files : f < oldest' => Fine(f)'
    <3>1. \A f \in Files : f < oldest' => f < oldest \/ f = g
      BY <1>0, <2>1, <2>3 DEF Files
    <3>2. QED BY <1>3, <2>4, <3>1
  <2>6. ASSUME Late, pos.file = oldest, pos.file \notin headless
        PROVE  ~IsArchived(oldest)
    <3>1. g = pos.file /\ written[g] \in 1 .. MaxEvents
      BY <1>0, <2>1, <2>3, <2>6, CoreFacts DEF Closed
    <3>2. pos.at < written[g]
      <4>1. CASE pc \in {"relist", "remaster"}
        BY <2>6, <3>1, <4>1, GapFacts DEF TailEnds
      <4>2. CASE pc \in Reading /\ started
        BY <2>6, <3>1, <4>2, TailIs
      <4>3. CASE pc = "stream" /\ ~started
        <5>1. pos.at = 0
          BY <2>6, <4>3, GapFacts DEF TailRead, Reading
        <5>2. QED BY <3>1, <5>1
      <4>4. pc = "seal" => started
        BY GapFacts DEF Segment
      <4>5. QED BY <2>6, <4>1, <4>2, <4>3, <4>4 DEF Sealing, Reading
    <3>3. ~Holds(g, written[g])
      <4>1. Holds(g, written[g]) => written[g] < written[g] \/ written[g] <= pos.at
        BY <1>0, <2>6, <3>1 DEF FirstSegment
      <4>2. pos.at \in Nat
        BY <1>0, CoreFacts
      <4>3. QED BY <3>1, <3>2, <4>1, <4>2
    <3>4. ~Archived(g)
      BY <3>1, <3>3 DEF Archived
    <3>5. QED BY <1>0, <2>3, <3>4, ArchivedIs
  <2>7. Late /\ pos.file < oldest' => pos.file \in lost' \cup headless'
    <3>1. pos.file < oldest' => pos.file < oldest \/ pos.file = oldest
      BY <1>0, <2>1
    <3>2. QED BY <1>1, <1>2, <2>1, <2>6, <3>1
  <2>8. QED BY <2>1, <2>5, <2>7 DEF FirstPurged
<1>5. CASE ~Purge
  <2>1. oldest' = oldest
    BY <1>5, MysqlStep DEF Write, Rotate, mysql
  <2>2. ASSUME Late', pos'.file < oldest'
        PROVE  pos'.file \in lost' \cup headless'
    <3>0. headless \subseteq headless'
      <4>1. pc' \notin {"backfill", "save"}
        BY <2>2 DEF Sealing
      <4>2. QED BY <4>1, HistoryStep DEF BackfillFile, Refill
    <3>1. Late /\ pos' = pos
      <4>1. CASE OpenStream \/ ReadEvent
        <5>1. pos'.file = pos.file /\ pos.file >= oldest
          BY <1>0, <4>1, ReadsFile DEF OpenStream, ReadEvent, Reading
        <5>2. QED BY <1>0, <2>1, <2>2, <5>1
      <4>2. CASE ReadFormat
        <5>1. pc = "stream" /\ pos' = pos /\ appending' = appending
          BY <4>2 DEF ReadFormat
        <5>2. started' <=> ~appending
          BY <4>2, Zenon DEF ReadFormat
        <5>3. pc' = pc
          BY <4>2 DEF ReadFormat
        <5>4. QED BY <2>2, <5>1, <5>2, <5>3 DEF Sealing
      <4>3. CASE ReadRotate \/ Reannounced \/ SealFails \/ RecoverList
        BY <4>3 DEF ReadRotate, Reannounced, SealFails, RecoverList, AtRotation, Sealing
      <4>4. CASE Write \/ Rotate
        BY <2>2, <4>4 DEF Write, Rotate, segment
      <4>5. CASE ~(OpenStream \/ ReadEvent \/ ReadFormat \/ ReadRotate \/ Reannounced \/ SealFails \/ RecoverList
                     \/ Write \/ Rotate)
        <5>1. pc' \notin {"stream", "seal", "relist", "remaster"}
          BY <1>5, <4>5 DEF Next, Start, Reconcile, ListBinlogs, MasterPosition, BackfillFile, Reconciled, RunFails, Sync,
            LoadState, EmptyTail, Seal, PruneRetention, SaveState, StreamFails, Recover, RecoverRemoves, Refill,
            RecoverFails, Crash, AtRotation
        <5>2. QED BY <2>2, <5>1 DEF Sealing
      <4>6. QED BY <4>1, <4>2, <4>3, <4>4, <4>5
    <3>2. QED BY <1>1, <1>2, <2>1, <2>2, <3>0, <3>1
  <2>3. QED BY <1>3, <2>1, <2>2 DEF FirstPurged
<1>6. QED BY <1>4, <1>5

LEMMA FirstSegmentKept ==
  ASSUME GapInv, Next, Calm
  PROVE  FirstSegment'
<1> SUFFICES ASSUME saved' = NoState
             PROVE  FirstSegment'
  BY DEF FirstSegment
<1>0. /\ Core /\ saved = NoState /\ FirstCopies /\ FirstSegment /\ MysqlOK /\ DiskOK /\ Closed
      /\ open \in Files /\ open \in Nat /\ pos.file \in Nat /\ next \in 0 .. MaxFiles
  BY GapFacts, CoreFacts, StateStays DEF Files
<1>1. CASE LoadState
  <2>1. /\ pc = "load" /\ pos' = [file |-> open, at |-> written[open]] /\ UNCHANGED <<final, written>> /\ pc' = "sync"
        /\ written[open] \in Nat
    BY <1>0, <1>1, CoreFacts DEF LoadState, mysql
  <2>2. \A f \in Files : f > open => final[f] = Missing
    BY <1>0, <2>1 DEF FirstCopies, Files
  <2>3. final[open] = Missing \/ final[open] = Events(open)
    BY <1>0, <2>1 DEF FirstCopies
  <2>4. Len(Events(open)) = written[open] /\ \A j \in 1 .. written[open] : Events(open)[j] = <<open, j>>
        /\ Events(open) \in Seq(ArchiveEvent)
    BY <1>0, EventsAre
  <2>5. \A i \in 0 .. MaxEvents : Holds(open, i) => i <= written[open]
    <3>1. CASE final[open] = Missing
      BY <1>0, <3>1, ArchivedIs
    <3>2. CASE final[open] = Events(open)
      BY <2>4, <3>2 DEF Holds
    <3>3. QED BY <2>3, <3>1, <3>2
  <2>6. written[open] = 0 => final[open] = Missing
    BY <2>3, <2>4, EmptySeq DEF Missing
  <2>7. QED BY <2>1, <2>2, <2>5, <2>6 DEF FirstSegment, Holds
<1>2. CASE SaveState
  <2>1. /\ pc = "save" /\ UNCHANGED <<final, written>>
        /\ next \in pos.file .. open /\ next \in Files
    BY <1>0, <1>2, GapFacts DEF SaveState, Where, Idle, mysql, Files
  <2>2. CASE next = pos.file
    BY <1>2, <2>2 DEF SaveState, FirstSegment, Working, Sealing
  <2>3. CASE next # pos.file
    <3>1. pc' \in {"sync", "stopped"} /\ pos' = [file |-> next, at |-> 0]
      BY <1>2, <2>3 DEF SaveState
    <3>2. \A f \in Files : f > pos.file => final[f] = Missing
      BY <1>0, <2>1 DEF FirstSegment, Working
    <3>3. final[next] = Missing
      BY <1>0, <2>1, <2>3, <3>2
    <3>4. \A i : ~Holds(next, i)
      BY <1>0, <2>1, <3>3, ArchivedIs
    <3>5. \A f \in Files : f > next => f > pos.file
      BY <1>0, <2>1 DEF Files
    <3>6. QED BY <2>1, <3>1, <3>2, <3>3, <3>4, <3>5 DEF FirstSegment, Holds
  <2>4. QED BY <2>2, <2>3
<1>3. CASE ~LoadState /\ ~SaveState
  <2>1. ASSUME pc' \in Working
        PROVE  \A f \in Files : f > pos'.file => final'[f] = Missing
    <3>1. pc \in Working /\ pos' = pos
      BY <1>3, <2>1 DEF Working, Sealing, Next, Write, Rotate, Purge, Start, Reconcile, ListBinlogs, MasterPosition,
        BackfillFile, Reconciled, RunFails, Sync, OpenStream, ReadFormat, ReadEvent, ReadRotate, EmptyTail, Seal,
        PruneRetention, Reannounced, StreamFails, SealFails, Recover, RecoverList, RecoverRemoves, Refill, RecoverFails,
        Crash, AtRotation
    <3>2. ASSUME NEW f \in Files, f > pos.file
          PROVE  final'[f] = Missing
      <4>1. final[f] = Missing /\ f # pos.file /\ pc # "backfill"
        BY <1>0, <3>1, <3>2 DEF FirstSegment, Working, Sealing, Files
      <4>2. QED BY <1>0, <4>1, FileStep DEF BackfillFile
    <3>3. QED BY <3>1, <3>2
  <2>2. ASSUME pc' \in Sealing
        PROVE  /\ pos'.file \notin headless' =>
                    \A i \in 0 .. MaxEvents : Holds(pos.file, i)' => i < written'[pos'.file] \/ i <= pos'.at
               /\ pos'.at = 0 => final'[pos'.file] = Missing
    <3>0. headless \subseteq headless'
      <4>1. pc' \notin {"backfill", "save"}
        BY <2>2 DEF Sealing
      <4>2. QED BY <4>1, HistoryStep DEF BackfillFile, Refill
    <3>1. CASE SealFails /\ CutShort
      <4>1. /\ pc = "seal" /\ pc \in Reading /\ pos' = pos /\ written' = written /\ started /\ appending
            /\ pos.file \in Files /\ final[pos.file] # Missing
        BY <1>0, <3>1, GapFacts, ReadsFile DEF SealFails, CutShort, Segment, Reading, mysql
      <4>2. pos.at # 0
        BY <1>0, <4>1 DEF FirstSegment, Sealing
      <4>3. src.at <= written[pos.file] /\ src.at \in Nat /\ written[pos.file] \in Nat
        BY <1>0, <4>1, ReadsFile
      <4>4. pos.file \notin headless =>
              \A i \in 0 .. MaxEvents : Holds(pos.file, i) => i < written[pos.file] \/ i <= pos.at
        BY <1>0, <4>1 DEF FirstSegment, Sealing
      <4>5. pos.file \notin headless => \A i \in 0 .. MaxEvents :
              (\E j \in 1 .. Len(final'[pos.file]) : final'[pos.file][j] = <<pos.file, i>>) =>
                i < written[pos.file] \/ i <= pos.at
        BY <3>1, <4>3, <4>4, CutHolds
      <4>6. QED BY <3>0, <4>1, <4>2, <4>5 DEF Holds
    <3>2. CASE UNCHANGED <<pos, final>> /\ pc = "refill"
      <4>1. final[pos.file] = Missing /\ pos.file \in Files
        BY <3>2, GapFacts, CoreFacts DEF Refilling, Where, Idle, Files
      <4>2. \A i : ~Holds(pos.file, i)
        BY <1>0, <4>1, ArchivedIs
      <4>3. QED BY <3>2, <4>1, <4>2 DEF Holds
    <3>3. CASE UNCHANGED <<pos, final>> /\ pc \in Sealing
      <4>1. pos.file \in Files
        BY <1>0, <3>3, CoreFacts DEF Where, Idle, Sealing, Files
      <4>2. written[pos.file] <= written'[pos.file] /\ written[pos.file] \in Nat /\ written'[pos.file] \in Nat
        BY <1>0, <4>1, MysqlGrows, EventsAre
      <4>3. /\ pos.file \notin headless =>
                 \A i \in 0 .. MaxEvents : Holds(pos.file, i) => i < written[pos.file] \/ i <= pos.at
            /\ pos.at = 0 => final[pos.file] = Missing
        BY <1>0, <3>3 DEF FirstSegment
      <4>4. pos' = pos /\ final' = final
        BY <3>3
      <4>5. \A i \in 0 .. MaxEvents : Holds(pos.file, i)' => Holds(pos.file, i)
        BY <4>4 DEF Holds
      <4>6. \A i \in 0 .. MaxEvents : i < written[pos.file] => i < written'[pos.file]
        BY <4>2
      <4>7. QED BY <3>0, <4>3, <4>4, <4>5, <4>6
    <3>4. \/ SealFails /\ CutShort
          \/ UNCHANGED <<pos, final>> /\ pc = "refill"
          \/ UNCHANGED <<pos, final>> /\ pc \in Sealing
      BY <1>3, <2>2, SealingStep, Zenon
    <3>5. QED BY <3>1, <3>2, <3>3, <3>4
  <2>3. QED BY <2>1, <2>2 DEF FirstSegment
<1>4. QED BY <1>1, <1>2, <1>3

LEMMA GapStep ==
  ASSUME Calm, GapInv, [Next]_vars
  PROVE  GapInv'
<1>1. CASE Next
  <2>1. Core'
    BY GapFacts, CoreStep
  <2>2. QED BY <1>1, <2>1, BehindKept, TailReadKept, HeadHeldKept, TailEndsKept, RefillingKept,
          FirstCopiesKept, FirstPurgedKept, FirstSegmentKept DEF GapInv
<1>2. CASE UNCHANGED vars
  <2>1. /\ UNCHANGED <<written, open, oldest, final, partial, saved, pc, listed, masterPos, pos>>
        /\ UNCHANGED <<src, appending, started, next, suspect, headless, lost, pruned>>
    BY <1>2 DEF vars, mysql, answers, segment, history
  <2>2. Core'
    BY GapFacts, CoreStep
  <2>3. Behind' /\ TailRead' /\ HeadHeld' /\ TailEnds' /\ Refilling'
    <3>0. Behind /\ TailRead /\ HeadHeld /\ TailEnds /\ Refilling
      BY GapFacts
    <3>1. Behind'
      BY <2>1, <3>0 DEF Behind, Fine, Archived, Holds
    <3>2. TailRead' /\ HeadHeld'
      BY <2>1, <3>0 DEF TailRead, HeadHeld, Base, Archived, Holds, Reading
    <3>3. TailEnds' /\ Refilling'
      BY <2>1, <3>0 DEF TailEnds, Refilling, Base, Archived, Holds, Reading
    <3>4. QED BY <3>1, <3>2, <3>3
  <2>4. FirstCopies' /\ FirstPurged' /\ FirstSegment'
    BY <2>1, GapFacts DEF FirstCopies, FirstPurged, FirstSegment, Fine, Archived, Holds, Events, FileOf, Rotated
  <2>5. QED BY <2>2, <2>3, <2>4 DEF GapInv
<1>3. QED BY <1>1, <1>2

LEMMA GapInit ==
  ASSUME Init
  PROVE  GapInv
<1>1. Core
  BY CoreInit
<1>2. pc = "down" /\ oldest = 1 /\ saved.file = 0 /\ pos.file = 0
  BY DEF Init, NoState
<1>3. QED BY <1>1, <1>2 DEF GapInv, Behind, TailRead, HeadHeld, TailEnds, Refilling, FirstCopies, FirstPurged,
        FirstSegment, Working, Sealing, Reading, Files

(***************************************************************************)
(* Nothing behind the state file is missing: each file in front of the     *)
(* saved one is archived with all its events unless the retention removed  *)
(* it, MySQL purged it first, or it is the file of the first segment and   *)
(* recoverSealedFile failed to copy it after it had removed the archived   *)
(* one.  MySQL is idle where the code asks it twice, and no agent is       *)
(* restarted before its first state file; crashes, failed queries, copies, *)
(* seals and saves, broken and reconnected streams, purges and retention   *)
(* may all happen.                                                         *)
(***************************************************************************)
THEOREM GapSound ==
  ASSUME Calm
  PROVE  Spec => []NoGapBehindState
<1>1. GapInv => NoGapBehindState
  <2> SUFFICES ASSUME GapInv, NEW f \in 1 .. saved.file - 1
               PROVE  f \in lost \cup pruned \cup headless \/ IsArchived(f)
    BY DEF NoGapBehindState
  <2>1. f \in Files /\ f < saved.file
    BY GapFacts, CoreFacts DEF Files
  <2>2. QED BY <2>1, GapFacts, ArchivedIs DEF Behind, Fine
<1>2. QED BY <1>1, GapInit, GapStep, PTL DEF Spec

-----------------------------------------------------------------------------
(* No event twice in a file that is only streamed or only copied.          *)

\* The files of MySQL, event by event.
FileFact ==
  \A f \in Files :
    /\ written[f] \in Nat /\ Events(f) \in Seq(ArchiveEvent) /\ FileOf(f) \in Seq(ArchiveEvent)
    /\ Len(Events(f)) = written[f]
    /\ Len(FileOf(f)) = IF f < open THEN written[f] + 1 ELSE written[f]
    /\ \A i \in 1 .. written[f] : Events(f)[i] = <<f, i>> /\ FileOf(f)[i] = <<f, i>>

LEMMA FileFacts == MysqlOK => FileFact
<1> SUFFICES ASSUME MysqlOK, NEW f \in Files
             PROVE  /\ written[f] \in Nat /\ Events(f) \in Seq(ArchiveEvent) /\ FileOf(f) \in Seq(ArchiveEvent)
                    /\ Len(Events(f)) = written[f]
                    /\ Len(FileOf(f)) = IF f < open THEN written[f] + 1 ELSE written[f]
                    /\ \A i \in 1 .. written[f] : Events(f)[i] = <<f, i>> /\ FileOf(f)[i] = <<f, i>>
  BY DEF FileFact
<1>1. QED BY EventsAre, FileIs DEF Rotated

\* A file of MySQL only gets longer, and stays as it is once it is closed.
LEMMA FileGrows ==
  ASSUME MysqlOK, Closed, Next, NEW f \in Files
  PROVE  /\ FileFact /\ FileFact'
         /\ IsPrefix(FileOf(f), FileOf(f)')
         /\ f < open => f < open' /\ Events(f)' = Events(f) /\ FileOf(f)' = FileOf(f)
<1>1. MysqlOK' /\ open <= open' /\ written[f] <= written'[f] /\ (f < open => written'[f] = written[f])
  BY MysqlGrows
<1>2. (MysqlOK => FileFact)'
  BY FileFacts, PTL
<1>3. FileFact /\ FileFact'
  BY <1>1, <1>2, FileFacts
<1>4. open \in Nat /\ open' \in Nat /\ f \in Nat
  BY <1>1 DEF MysqlOK, Files
<1>5. ASSUME f < open
      PROVE  f < open' /\ Events(f)' = Events(f) /\ FileOf(f)' = FileOf(f)
  <2>1. f < open' /\ written'[f] = written[f]
    BY <1>1, <1>4, <1>5
  <2>2. QED BY <1>5, <2>1 DEF Events, FileOf, Rotated
<1> DEFINE s == FileOf(f)
           t == FileOf(f)'
<1>6. /\ s \in Seq(ArchiveEvent) /\ t \in Seq(ArchiveEvent)
      /\ written[f] \in Nat /\ written'[f] \in Nat
  BY <1>3 DEF FileFact
<1>7. Len(s) <= Len(t) /\ \A i \in 1 .. Len(s) : s[i] = t[i]
  <2>1. CASE f < open
    BY <1>5, <1>6, <2>1, LenProperties
  <2>2. CASE ~(f < open)
    <3>1. Len(s) = written[f] /\ (Len(t) = written'[f] \/ Len(t) = written'[f] + 1)
      BY <1>3, <2>2 DEF FileFact
    <3>2. /\ \A i \in 1 .. written[f] : s[i] = <<f, i>>
          /\ \A i \in 1 .. written'[f] : t[i] = <<f, i>>
      BY <1>3 DEF FileFact
    <3>3. \A i \in 1 .. written[f] : i \in 1 .. written'[f]
      BY <1>1, <1>6
    <3> HIDE DEF s, t
    <3>4. Len(s) <= Len(t)
      BY <1>1, <1>6, <3>1
    <3>5. QED BY <3>1, <3>2, <3>3, <3>4
  <2>3. QED BY <2>1, <2>2
<1>8. IsPrefix(s, t)
  BY <1>6, <1>7, PrefixIs
<1>9. QED BY <1>3, <1>5, <1>8

\* Sealing a file that is not suspect makes it all of MySQL's events.
LEMMA SealWhole ==
  ASSUME GapInv, Copies, Seal, pos.file \notin suspect \cup headless
  PROVE  pos.file < open /\ final'[pos.file] = Events(pos.file)
<1> DEFINE f == pos.file
           t == final[f]
           w == written[f]
           m == Len(partial)
<1>1. pc = "seal" /\ pc \in Reading /\ started /\ f \in Files
  BY GapFacts, ReadsFile DEF Seal, Segment, Reading
<1>2. next = f + 1 /\ src.at = w /\ f < open
  <2>1. next = f + 1 /\ src.at = w
    BY <1>1, GapFacts DEF TailEnds
  <2>2. next \in f .. open /\ f \in Nat /\ open \in Nat
    BY <1>1, GapFacts, CoreFacts DEF Where
  <2>3. QED BY <2>1, <2>2
<1>3. /\ Base \in Nat /\ m \in Nat \ {0} /\ pos.at \in Nat /\ pos.at <= Base
      /\ w = Base + m /\ pos.at < w
      /\ \A i \in 1 .. m : partial[i] = <<f, Base + i>>
      /\ ~appending => Base = 0
      /\ appending => Base = IF pos.at = 0 THEN 1 ELSE pos.at
  BY <1>1, <1>2, TailIs DEF Base
<1>4. /\ final'[f] = Sealed(f) /\ DiskOK /\ MysqlOK
      /\ t \in Seq(ArchiveEvent) /\ partial \in Seq(ArchiveEvent) /\ Len(t) \in Nat
  BY <1>1, GapFacts, LenProperties DEF Seal, DiskOK
<1>5. /\ Events(f) \in Seq(ArchiveEvent) /\ Len(Events(f)) = w /\ w \in Nat
      /\ \A i \in 1 .. w : Events(f)[i] = <<f, i>>
  BY <1>1, <1>4, EventsAre
<1>6. CASE ~appending
  <2>1. Len(partial) = w /\ \A i \in 1 .. w : partial[i] = <<f, i>>
    BY <1>3, <1>6
  <2>2. partial = Events(f)
    BY <1>4, <1>5, <2>1, SeqEqual
  <2>3. QED BY <1>1, <1>2, <1>4, <1>6, <2>2, SealedIs
<1>7. CASE appending /\ saved # NoState
  <2>1. t # Missing /\ f >= saved.file /\ pos.at = 0
    BY <1>1, <1>7, GapFacts, CoreFacts DEF Segment, Where, Copies, Idle
  <2>2. t = Events(f)
    BY <1>1, <1>7, <2>1 DEF Copies
  <2>3. Len(t) = w /\ m <= w /\ Base = 1 /\ m = w - 1
    BY <1>3, <1>5, <1>7, <2>1, <2>2
  <2>4. ASSUME NEW i \in 1 .. m
        PROVE  partial[i] = t[Len(t) - m + i]
    <3>1. Len(t) - m + i = 1 + i /\ 1 + i \in 1 .. w
      BY <1>3, <1>5, <2>3
    <3>2. QED BY <1>3, <1>5, <2>2, <2>3, <3>1
  <2>5. AlreadyAppended(f)
    BY <1>1, <1>4, <2>3, <2>4, AppendedIs
  <2>6. QED BY <1>1, <1>2, <1>4, <1>7, <2>2, <2>5, SealedIs
<1>8. CASE appending /\ saved = NoState
  <2>1. t # Missing
    BY <1>1, <1>8, GapFacts DEF Segment
  <2>2. pos.at > 0 /\ Len(t) = pos.at /\ Base = pos.at
    <3>1. pos.at # 0
      BY <1>1, <1>8, <2>1, GapFacts DEF FirstSegment, Sealing
    <3>2. QED BY <1>1, <1>3, <1>8, <3>1 DEF Copies, Sealing
  <2>3. \A i \in 1 .. pos.at : t[i] = <<f, i>>
    <3>1. IsPrefix(t, FileOf(f)) /\ FileOf(f) \in Seq(ArchiveEvent)
      BY <1>1, <1>4, FileIs DEF Copies
    <3>2. \A i \in 1 .. pos.at : t[i] = FileOf(f)[i]
      <4>1. \A i \in 1 .. Len(t) : t[i] = FileOf(f)[i]
        BY <1>4, <3>1, PrefixIs, ZenonT(60)
      <4>2. QED BY <2>2, <4>1
    <3>3. \A i \in 1 .. w : FileOf(f)[i] = <<f, i>>
      BY <1>1, <1>4, FileIs
    <3>4. \A i \in 1 .. pos.at : i \in 1 .. w
      BY <1>3, <1>5
    <3>5. QED BY <3>2, <3>3, <3>4
  <2>4. ~AlreadyAppended(f)
    <3>1. SUFFICES ASSUME AlreadyAppended(f) PROVE FALSE
      OBVIOUS
    <3>2. \A i \in 1 .. m : partial[i] = t[Len(t) - m + i]
      BY <1>1, <1>4, <3>1, AppendedIs
    <3>3. Len(t) - m + m = pos.at /\ m \in 1 .. m /\ pos.at \in 1 .. pos.at
      BY <1>3, <1>4, <2>2
    <3>4. partial[m] = t[pos.at]
      BY <3>2, <3>3
    <3>5. partial[m] = <<f, w>> /\ t[pos.at] = <<f, pos.at>>
      BY <1>3, <2>3, <3>3
    <3>6. <<f, w>> = <<f, pos.at>>
      BY <3>4, <3>5
    <3>7. w = pos.at
      BY <3>6, Zenon
    <3>8. QED BY <1>3, <3>7
  <2> DEFINE c == Sealed(f)
  <2>5. /\ c \in Seq(ArchiveEvent) /\ Len(c) = Len(t) + m
        /\ \A i \in 1 .. Len(t) : c[i] = t[i]
        /\ \A i \in 1 .. m : c[Len(t) + i] = partial[i]
    BY <1>1, <1>4, <1>8, <2>4, SealedIs
  <2>6. ASSUME NEW i \in 1 .. w
        PROVE  c[i] = <<f, i>>
    <3>1. CASE i <= pos.at
      <4>1. i \in 1 .. pos.at /\ i \in 1 .. Len(t)
        BY <1>3, <1>5, <2>2, <3>1
      <4>2. QED BY <2>3, <2>5, <4>1
    <3>2. CASE i > pos.at
      <4>1. PICK k \in 1 .. m : i = pos.at + k
        <5>1. i - pos.at \in 1 .. m /\ i = pos.at + (i - pos.at)
          BY <1>3, <1>5, <2>2, <3>2
        <5>2. QED BY <5>1
      <4>2. QED BY <1>3, <2>2, <2>5, <4>1
    <3>3. QED BY <1>3, <3>1, <3>2
  <2>7. Len(c) = w
    BY <1>3, <2>2, <2>5
  <2>8. c = Events(f)
    <3> HIDE DEF c, w
    <3>1. QED BY <1>5, <2>5, <2>6, <2>7, SeqEqual
  <2>9. QED BY <1>2, <1>4, <2>8
<1>9. QED BY <1>6, <1>7, <1>8

\* A suspect file stays so until it is copied anew.
LEMMA SuspectStep ==
  ASSUME Next
  PROVE  \A f \in suspect :
           f \in suspect' \/ (Copy(f) /\ (BackfillFile \/ (Refill /\ f = pos.file)))
<1>1. CASE BackfillFile
  <2>1. PICK g : Copy(g)
    BY <1>1, Zenon DEF BackfillFile
  <2>2. QED BY <1>1, <2>1 DEF Copy
<1>2. CASE Refill
  BY <1>2 DEF Refill, Copy
<1>3. CASE ~BackfillFile /\ ~Refill
  BY <1>3 DEF history, Next, Write, Rotate, Purge, Start, Reconcile, ListBinlogs, MasterPosition, Reconciled, RunFails,
    Sync, LoadState, OpenStream, ReadFormat, ReadEvent, ReadRotate, EmptyTail, Seal, PruneRetention, SaveState,
    Reannounced, StreamFails, SealFails, CutShort, Recover, RecoverList, RecoverRemoves, RecoverFails, Crash
<1>4. QED BY <1>1, <1>2, <1>3

LEMMA CopiesKept ==
  ASSUME GapInv, Copies, Next, Calm
  PROVE  Copies'
<1>0. /\ Core /\ MysqlOK /\ DiskOK /\ Closed /\ Where /\ masterPos \in Position
      /\ saved.file \in Nat /\ pos.file \in Nat /\ next \in Nat /\ masterPos.at \in Nat
  BY GapFacts, CoreFacts
<1>1. DiskOK'
  BY <1>0, TypesKept DEF TypeOK
<1>2. ASSUME NEW f \in Files, f \notin suspect' \cup headless'
      PROVE  /\ IsPrefix(final'[f], FileOf(f)')
             /\ saved # NoState /\ f >= saved.file =>
                  final'[f] = Missing \/ (f < open' /\ final'[f] = Events(f)')
  <2> DEFINE t == FileOf(f)'
             s == FileOf(f)
  <2>1. /\ FileFact /\ FileFact' /\ IsPrefix(s, t) /\ s \in Seq(ArchiveEvent) /\ t \in Seq(ArchiveEvent)
        /\ final'[f] \in Seq(ArchiveEvent) /\ final[f] \in Seq(ArchiveEvent)
        /\ f < open => f < open' /\ Events(f)' = Events(f) /\ t = s
    BY <1>0, <1>1, FileGrows DEF FileFact, DiskOK
  <2>2. ASSUME NEW c \in Seq(ArchiveEvent), IsPrefix(c, s)
        PROVE  IsPrefix(c, t)
    <3> HIDE DEF s, t
    <3>1. /\ Len(c) <= Len(s) /\ \A i \in 1 .. Len(c) : c[i] = s[i]
          /\ Len(s) <= Len(t) /\ \A i \in 1 .. Len(s) : s[i] = t[i]
      BY <2>1, <2>2, PrefixIs
    <3>2. Len(c) \in Nat /\ Len(s) \in Nat /\ Len(t) \in Nat
      BY <2>1, LenProperties
    <3>3. Len(c) <= Len(t) /\ \A i \in 1 .. Len(c) : c[i] = t[i]
      BY <3>1, <3>2
    <3>4. QED BY <2>1, <3>3, PrefixIs
  <2>3. CASE Copy(f) /\ (BackfillFile \/ (Refill /\ f = pos.file))
    <3>1. ~(saved # NoState /\ f >= saved.file)
      BY <1>2, <2>3 DEF Copy
    <3>2. CopyOf(f, final'[f])
      <4>1. pc = "backfill" \/ (pc = "refill" /\ f = pos.file)
        BY <2>3 DEF BackfillFile, Refill
      <4>2. QED BY <1>0, <2>3, <4>1 DEF Copy, CopyOf, DiskOK
    <3>3. IsPrefix(final'[f], s)
      <4>1. CASE f # masterPos.file
        <5>1. final'[f] = s
          BY <1>0, <3>2, <4>1, CopyIs
        <5>2. QED BY <2>1, <5>1, PrefixIs, LenProperties
      <4>2. CASE f = masterPos.file
        <5>1. /\ Len(final'[f]) = masterPos.at /\ masterPos.at <= written[f] /\ masterPos.at \in Nat
              /\ \A i \in 1 .. Len(final'[f]) : final'[f][i] = <<f, i>>
          BY <1>0, <3>2, <4>2, CopyIs
        <5>2. written[f] <= Len(s) /\ written[f] \in Nat /\ \A i \in 1 .. written[f] : s[i] = <<f, i>>
          BY <2>1 DEF FileFact
        <5>3. QED
          <6> HIDE DEF s
          <6>1. Len(s) \in Nat
            BY <2>1, LenProperties
          <6>2. Len(final'[f]) <= Len(s) /\ \A i \in 1 .. Len(final'[f]) : i \in 1 .. written[f]
            BY <5>1, <5>2, <6>1
          <6>3. \A i \in 1 .. Len(final'[f]) : final'[f][i] = s[i]
            BY <5>1, <5>2, <6>2
          <6>4. QED BY <2>1, <6>2, <6>3, PrefixIs
      <4>3. QED BY <4>1, <4>2
    <3>4. QED BY <2>1, <2>2, <3>1, <3>3
  <2>4. CASE ~(Copy(f) /\ (BackfillFile \/ (Refill /\ f = pos.file)))
    <3>1. f \notin suspect \cup headless
      <4>1. f \notin suspect
        BY <1>2, <2>4, SuspectStep
      <4>2. f \notin headless
        BY <1>2, <2>4, HistoryStep DEF Refill
      <4>3. QED BY <4>1, <4>2
    <3>2. CASE final'[f] = final[f]
      <4>1. IsPrefix(final[f], s)
        BY <3>1 DEF Copies
      <4>2. saved # NoState /\ f >= saved.file => final[f] = Missing \/ (f < open /\ final[f] = Events(f))
        BY <3>1 DEF Copies
      <4>3. QED BY <2>1, <2>2, <3>2, <4>1, <4>2
    <3>3. CASE final'[f] = Missing
      <4>1. Len(Missing) = 0 /\ Missing \in Seq(ArchiveEvent) /\ Len(t) \in Nat
        BY <2>1, EmptySeq, LenProperties DEF Missing
      <4> HIDE DEF t
      <4>2. Len(final'[f]) <= Len(t) /\ 1 .. Len(final'[f]) = {}
        BY <3>3, <4>1
      <4>3. IsPrefix(final'[f], t)
        BY <2>1, <4>2, PrefixIs
      <4>4. QED BY <3>3, <4>3 DEF t
    <3>4. CASE Seal /\ f = pos.file
      <4>1. f < open /\ final'[f] = Events(f)
        BY <3>1, <3>4, SealWhole
      <4>2. IsPrefix(Events(f), s)
        <5>1. /\ Events(f) \in Seq(ArchiveEvent) /\ Len(Events(f)) = written[f] /\ written[f] \in Nat
              /\ Len(s) = written[f] + 1
              /\ \A i \in 1 .. written[f] : Events(f)[i] = <<f, i>> /\ s[i] = <<f, i>>
          BY <2>1, <4>1 DEF FileFact
        <5> DEFINE e == Events(f)
        <5> HIDE DEF s, e
        <5>2. e \in Seq(ArchiveEvent) /\ Len(e) <= Len(s) /\ \A i \in 1 .. Len(e) : e[i] = s[i]
          <6>1. Len(e) = written[f] /\ Len(e) <= Len(s) /\ e \in Seq(ArchiveEvent)
            BY <5>1 DEF e
          <6>2. \A i \in 1 .. written[f] : e[i] = <<f, i>> /\ s[i] = <<f, i>>
            BY <5>1 DEF e
          <6>3. QED BY <6>1, <6>2
        <5>3. IsPrefix(e, s)
          BY <2>1, <5>2, PrefixIs
        <5>4. QED BY <5>3 DEF e
      <4>3. QED BY <2>1, <2>2, <4>1, <4>2
    <3>5. ~CutShort \/ f # pos.file
      BY <1>2 DEF CutShort
    <3>6. ~(Refill /\ f = pos.file)
      BY <2>4 DEF Refill
    <3>7. QED BY <1>0, <2>4, <3>2, <3>3, <3>4, <3>5, <3>6, FileStep
  <2>5. QED BY <2>3, <2>4
<1>3. ASSUME saved' # NoState, NEW f \in Files \ (suspect' \cup headless'), f >= saved'.file
      PROVE  final'[f] = Missing \/ (f < open' /\ final'[f] = Events(f)')
  <2>1. CASE saved' = saved
    BY <1>2, <1>3, <2>1
  <2>2. CASE saved' # saved
    <3>1. /\ SaveState /\ saved'.file = next /\ UNCHANGED <<final, suspect, headless>>
      BY <2>2 DEF Next, Write, Rotate, Purge, Start, Reconcile, ListBinlogs, MasterPosition, BackfillFile,
        Reconciled, RunFails, Sync, LoadState, OpenStream, ReadFormat, ReadEvent, ReadRotate, EmptyTail, Seal,
        PruneRetention, SaveState, Reannounced, StreamFails, SealFails, Recover, RecoverList, RecoverRemoves, Refill,
        RecoverFails, Crash, history
    <3>2. pc = "save" /\ next >= pos.file /\ pos.file >= saved.file /\ (next > pos.file \/ pos.file \in suspect)
      BY <1>0, <3>1, GapFacts DEF SaveState, Where, Idle, TailEnds
    <3>3. CASE saved # NoState
      <4>1. f >= saved.file
        BY <1>0, <1>3, <3>1, <3>2 DEF Files
      <4>2. QED BY <1>2, <1>3, <3>3, <4>1
    <3>4. CASE saved = NoState
      <4>1. f > pos.file
        BY <1>0, <1>3, <3>1, <3>2 DEF Files
      <4>2. final[f] = Missing
        BY <3>2, <3>4, <4>1, GapFacts DEF FirstSegment, Working
      <4>3. QED BY <3>1, <4>2
    <3>5. QED BY <3>3, <3>4
  <2>3. QED BY <2>1, <2>2
<1>4. ASSUME saved' # NoState, pc' # "stopped"
      PROVE  pos'.at = 0
  <2>1. CASE SaveState
    BY <1>4, <2>1 DEF SaveState
  <2>2. CASE LoadState
    BY <1>0, <1>4, <2>2 DEF LoadState, Where
  <2>3. CASE Crash
    BY <2>3 DEF Crash, NoState
  <2>4. CASE ~SaveState /\ ~LoadState /\ ~Crash
    <3>1. saved' = saved /\ pos' = pos /\ (pc = "stopped" => pc' = "stopped")
      BY <2>4 DEF Next, Write, Rotate, Purge, Start, Reconcile, ListBinlogs, MasterPosition, BackfillFile,
        Reconciled, RunFails, Sync, OpenStream, ReadFormat, ReadEvent, ReadRotate, EmptyTail, Seal,
        PruneRetention, Reannounced, StreamFails, SealFails, Recover, RecoverList, RecoverRemoves, Refill,
        RecoverFails, AtRotation
    <3>2. QED BY <1>4, <3>1 DEF Copies
  <2>5. QED BY <2>1, <2>2, <2>3, <2>4
<1>5. ASSUME saved' = NoState, pc' \in Sealing, pc' = "sync" => pos'.file >= oldest', pos'.at > 0,
             pos'.file \notin suspect' \cup headless'
      PROVE  Len(final'[pos'.file]) = pos'.at
  <2>0. saved = NoState
    BY <1>0, <1>5, StateStays
  <2>1. CASE LoadState
    <3>1. /\ pc = "load" /\ pos' = [file |-> open, at |-> written[open]] /\ final' = final /\ open \in Files
      BY <1>0, <2>0, <2>1, CoreFacts DEF LoadState, Files
    <3>2. final[open] = Events(open)
      BY <1>5, <2>0, <3>1, GapFacts DEF FirstCopies
    <3>3. QED BY <1>0, <3>1, <3>2, EventsAre
  <2>2. CASE SaveState /\ next # pos.file
    BY <1>5, <2>2 DEF SaveState
  <2>3. CASE SealFails /\ CutShort
    BY <1>5, <2>3 DEF SealFails, CutShort
  <2>4. CASE UNCHANGED <<pos, final>> /\ pc = "refill" /\ pc' = "sync"
    <3>1. RecoverFails \/ StreamFails \/ LoadState \/ SaveState
      BY <2>4 DEF Next, Write, Rotate, Purge, Start, Reconcile, ListBinlogs, MasterPosition, BackfillFile,
        Reconciled, RunFails, Sync, OpenStream, ReadFormat, ReadEvent, ReadRotate, EmptyTail, Seal,
        PruneRetention, Reannounced, SealFails, Recover, RecoverList, RecoverRemoves, Refill, Crash, AtRotation
    <3>2. RecoverFails
      BY <2>4, <3>1 DEF StreamFails, LoadState, SaveState
    <3>3. pos' = pos /\ headless' = headless \cup {f \in {pos.file} : pos.at > 0}
      BY <2>4, <3>2 DEF RecoverFails
    <3>4. QED BY <1>5, <3>3
  <2>5. CASE UNCHANGED <<pos, final>> /\ pc \in Sealing
    <3>1. pos.file \notin suspect \cup headless
      <4>1. ~BackfillFile /\ ~Refill
        BY <1>5 DEF BackfillFile, Refill, Sealing
      <4>2. QED BY <1>5, <2>5, <4>1, SuspectStep, HistoryStep
    <3>2. pc = "sync" => pos.file >= oldest
      <4>1. oldest <= oldest' /\ oldest' \in Nat /\ oldest \in Nat
        <5>1. MysqlOK' /\ oldest <= oldest'
          BY <1>0, MysqlGrows
        <5>2. QED BY <1>0, <5>1 DEF MysqlOK, Files
      <4>2. CASE pc' = "sync"
        BY <1>0, <1>5, <2>5, <4>1, <4>2
      <4>3. CASE pc = "sync" /\ pc' # "sync"
        BY <1>5, <4>3 DEF Next, Write, Rotate, Purge, Start, Reconcile, ListBinlogs, MasterPosition, BackfillFile,
          Reconciled, RunFails, Sync, LoadState, OpenStream, ReadFormat, ReadEvent, ReadRotate, EmptyTail, Seal,
          PruneRetention, SaveState, Reannounced, StreamFails, SealFails, Recover, RecoverList, RecoverRemoves, Refill,
          RecoverFails, Crash, AtRotation, Sealing
      <4>4. QED BY <4>2, <4>3
    <3>3. QED BY <1>5, <2>0, <2>5, <3>1, <3>2 DEF Copies
  <2>6. QED BY <1>5, <2>1, <2>2, <2>3, <2>4, <2>5, SealingStep
<1>6. QED BY <1>2, <1>3, <1>4, <1>5 DEF Copies

(***************************************************************************)
(* An archived file that is not suspect, and whose beginning a failed copy *)
(* did not lose (headless), is the beginning of MySQL's file: no event     *)
(* twice, none left out in between, whatever is retried and whenever the   *)
(* agent crashes between the seal and the save.  MySQL and the restarts    *)
(* are as in GapSound.                                                     *)
(***************************************************************************)
THEOREM CopySound ==
  ASSUME Calm
  PROVE  Spec => []CopyIsPrefix
<1>1. Init => GapInv /\ Copies
  <2> SUFFICES ASSUME Init PROVE Copies
    BY GapInit
  <2>1. /\ \A f \in Files : final[f] = Missing /\ FileOf(f) \in Seq(ArchiveEvent)
        /\ saved = NoState /\ pc = "down"
    BY GapInit, GapFacts, FileIs DEF Init
  <2>2. Missing \in Seq(ArchiveEvent) /\ Len(Missing) = 0
    BY EmptySeq DEF Missing
  <2>3. ASSUME NEW f \in Files
        PROVE  IsPrefix(final[f], FileOf(f))
    <3>1. final[f] \in Seq(ArchiveEvent) /\ FileOf(f) \in Seq(ArchiveEvent) /\ Len(final[f]) = 0
      BY <2>1, <2>2
    <3>2. Len(FileOf(f)) \in Nat /\ 1 .. 0 = {}
      BY <3>1, LenProperties
    <3>3. QED BY <3>1, <3>2, PrefixIs
  <2>4. QED BY <2>1, <2>3 DEF Copies, Sealing
<1>2. GapInv /\ Copies /\ [Next]_vars => GapInv' /\ Copies'
  <2> SUFFICES ASSUME GapInv, Copies, [Next]_vars PROVE Copies'
    BY GapStep
  <2>1. CASE UNCHANGED vars
    BY <2>1 DEF vars, mysql, answers, segment, history, Copies, FileOf, Events, Rotated
  <2>2. QED BY <2>1, CopiesKept
<1>3. Copies => CopyIsPrefix
  BY DEF Copies, CopyIsPrefix
<1>4. QED BY <1>1, <1>2, <1>3, PTL DEF Spec
=============================================================================

------------------------ MODULE DeliveryJournalProofs ------------------------
(***************************************************************************)
(* Proofs about DeliveryJournal, for every set of events and consumers,    *)
(* every lease length and every compaction threshold.  That no journal     *)
(* ever becomes corrupt is proved also for a machine that loses power; the *)
(* guarantees given to consumers are proved for one that does not (with    *)
(* power losses the code does not give them).                              *)
(***************************************************************************)
EXTENDS DeliveryJournal, TLAPS

\* A journal that load_state accepts, now and after any power loss.
Sound(f) ==
    /\ f \in Journal
    /\ f.synced <= Len(f.records)
    /\ ~f.exists => f = NoFile
    /\ f.linked => f.old = <<>>
    /\ Replayable(f.records)
    /\ Replayable(f.old)

BackupsReplay == \A e \in Event : Replayable(file[e].old)

\* Holds in every instance.
IInv == TypeOK /\ JournalsReplay /\ BackupsReplay

\* A serving actor that is not degraded knows the floor that is on disk.
FloorInSync == up /\ ~degraded => retainedFloor = floorFile

\* Holds where the machine does not lose power.
SInv ==
    /\ IInv
    /\ FloorInSync
    /\ FencesAgree
    /\ ToldIsOnRecord
    /\ AcceptedOnce

-----------------------------------------------------------------------------
(* Record sequences *)

\* The state after an append is the one the appended record stands for.
LEMMA AppendLast ==
    ASSUME NEW s \in Seq(Record), NEW r \in Record
    PROVE  /\ Append(s, r) \in Seq(Record)
           /\ Len(Append(s, r)) = Len(s) + 1
           /\ Last(Append(s, r)) = r
  BY DEF Last, RecordAt

\* A legal successor keeps a journal legal.
LEMMA AppendReplays ==
    ASSUME NEW s \in Seq(Record), NEW r \in Record,
           Replayable(s), Follows(Last(s), r)
    PROVE  Replayable(Append(s, r))
<1> DEFINE t == Append(s, r)
<1>1. /\ Len(s) \in Nat /\ DOMAIN t = 1 .. (Len(s) + 1) /\ DOMAIN s = 1 .. Len(s)
      /\ \A i \in 1 .. Len(s) : t[i] = s[i]
      /\ t[Len(s) + 1] = r
  OBVIOUS
<1>2. ASSUME NEW i \in DOMAIN t
      PROVE  Follows(RecordAt(t, i - 1), t[i])
  <2>1. CASE i = Len(s) + 1
    <3>1. i - 1 = Len(s) /\ (Len(s) # 0 => Len(s) \in 1 .. Len(s))
      BY <1>1, <2>1
    <3> HIDE DEF t
    <3>2. RecordAt(t, i - 1) = Last(s)
      BY <1>1, <3>1 DEF RecordAt, Last
    <3> QED
      BY <1>1, <2>1, <3>2
  <2>2. CASE i # Len(s) + 1
    <3>1. i \in 1 .. Len(s)
      BY <1>1, <2>2
    <3>2. RecordAt(t, i - 1) = RecordAt(s, i - 1)
      BY <1>1, <3>1 DEF RecordAt
    <3>3. Follows(RecordAt(s, i - 1), s[i])
      BY <1>1, <3>1 DEF Replayable
    <3> QED
      BY <1>1, <3>1, <3>2, <3>3
  <2> QED
    BY <2>1, <2>2
<1> QED
  BY <1>2 DEF Replayable

\* What is left of a legal journal when its end is cut off is legal.
LEMMA PrefixReplays ==
    ASSUME NEW s \in Seq(Record), NEW n \in 0 .. Len(s), Replayable(s)
    PROVE  SubSeq(s, 1, n) \in Seq(Record) /\ Replayable(SubSeq(s, 1, n))
           /\ Len(SubSeq(s, 1, n)) = n
<1> DEFINE t == SubSeq(s, 1, n)
<1>1. /\ DOMAIN t = 1 .. n /\ DOMAIN s = 1 .. Len(s) /\ Len(t) = n
      /\ \A i \in 1 .. n : t[i] = s[i]
      /\ t \in Seq(Record)
  OBVIOUS
<1>2. ASSUME NEW i \in DOMAIN t
      PROVE  Follows(RecordAt(t, i - 1), t[i])
  <2>1. RecordAt(t, i - 1) = RecordAt(s, i - 1) /\ i \in DOMAIN s
    BY <1>1 DEF RecordAt
  <2> QED
    BY <1>1, <2>1 DEF Replayable
<1> QED
  BY <1>1, <1>2 DEF Replayable

\* A journal of one checkpoint is legal.
LEMMA CheckpointReplays ==
    ASSUME NEW r \in Record, r.type = "Checkpoint", r.generation # 0
    PROVE  <<r>> \in Seq(Record) /\ Replayable(<<r>>) /\ Last(<<r>>) = r
           /\ Len(<<r>>) = 1
<1>1. Follows(NoRecord, r)
  BY DEF Follows
<1> QED
  BY <1>1 DEF Replayable, RecordAt, Last

\* A missing journal reads as a legal one.
LEMMA EmptyJournal == Sound(NoFile) /\ Replayable(<<>>)
  BY DEF Sound, NoFile, Journal, Replayable

\* The last record of a typed journal.
LEMMA LastType ==
    ASSUME NEW s \in Seq(Record)
    PROVE  /\ Last(s) \in Record \cup {NoRecord}
           /\ Last(s).generation \in Nat /\ Last(s).token \in Nat
           /\ Last(s).type # "None" => Last(s) \in Record
<1>1. Last(s) \in Record \cup {NoRecord}
  BY DEF Last, RecordAt
<1> QED
  BY <1>1 DEF Record, NoRecord, Transition

-----------------------------------------------------------------------------
(* File operations *)

\* Opening a journal cuts off what is not a record and nothing else.
LEMMA OpenedSound ==
    ASSUME NEW f, Sound(f)
    PROVE  /\ Sound(Opened(f))
           /\ Opened(f).records = f.records
           /\ Opened(f).exists
           /\ ~Opened(f).torn
           /\ Sound([Opened(f) EXCEPT !.torn = TRUE])
           /\ [Opened(f) EXCEPT !.torn = TRUE].records = f.records
           /\ [Opened(f) EXCEPT !.torn = TRUE].exists
<1> DEFINE g == Opened(f)
           h == [g EXCEPT !.torn = TRUE]
<1>1. f \in Journal /\ f.records \in Seq(Record) /\ Len(f.records) \in Nat
  BY DEF Sound, Journal
<1>2. /\ g \in Journal /\ g.exists = TRUE /\ g.torn = FALSE /\ g.records = f.records
      /\ g.old = f.old /\ (g.linked => f.linked)
      /\ g.synced = IF f.torn THEN Len(f.records) ELSE f.synced
  BY <1>1 DEF Opened, Journal
<1> HIDE DEF g
<1>3. g.synced <= Len(g.records) /\ (g.linked => g.old = <<>>)
  <2>1. f.synced <= Len(f.records) /\ (f.linked => f.old = <<>>)
    BY DEF Sound
  <2> QED
    BY <1>1, <1>2, <2>1
<1>4. Replayable(g.records) /\ Replayable(g.old)
  BY <1>2 DEF Sound
<1>5. /\ h \in Journal /\ h.exists = TRUE /\ h.records = g.records
      /\ h.old = g.old /\ h.linked = g.linked /\ h.synced = g.synced
  BY <1>2 DEF Journal
<1> HIDE DEF h
<1>6. Sound(g) /\ Sound(h)
  BY <1>2, <1>3, <1>4, <1>5 DEF Sound
<1> QED
  BY <1>2, <1>5, <1>6 DEF g, h

\* What the file system shows without a power loss is what was written.
LEMMA SeenSound ==
    ASSUME NEW f, Sound(f), f.exists
    PROVE  Sound(Seen(f)) /\ Seen(f).records = f.records
<1>1. f \in Journal /\ f.records \in Seq(Record) /\ Len(f.records) \in Nat
  BY DEF Sound, Journal
<1>2. CASE ~HostCrashes
  <2> DEFINE g == Seen(f)
  <2>1. g = [[f EXCEPT !.synced = Len(f.records)] EXCEPT !.linked = TRUE, !.old = <<>>]
    BY <1>2 DEF Seen, Synced
  <2>2. /\ g \in Journal /\ g.exists = f.exists /\ g.records = f.records
        /\ g.old = <<>> /\ g.synced = Len(f.records)
    <3> DEFINE h == [f EXCEPT !.synced = Len(f.records)]
    <3>1. /\ h \in Journal /\ h.exists = f.exists /\ h.records = f.records
          /\ h.synced = Len(f.records)
      BY <1>1 DEF Journal
    <3>2. g = [h EXCEPT !.linked = TRUE, !.old = <<>>] /\ <<>> \in Seq(Record)
      BY <2>1
    <3> HIDE DEF g, h
    <3> QED
      BY <3>1, <3>2 DEF Journal
  <2>3. Replayable(g.records) /\ Replayable(g.old)
    BY <2>2, EmptyJournal DEF Sound
  <2> HIDE DEF g
  <2>4. Sound(g) /\ g.records = f.records
    BY <1>1, <2>2, <2>3 DEF Sound
  <2> QED
    BY <2>4 DEF g
<1> QED
  BY <1>2 DEF Seen

\* A record written to an opened journal follows its records.
LEMMA WrittenSound ==
    ASSUME NEW f, Sound(f), f.exists, ~f.torn,
           NEW r \in Record, Follows(Last(f.records), r)
    PROVE  /\ Sound(Written(f, r)) /\ Sound(Synced(Written(f, r)))
           /\ Written(f, r).records = Append(f.records, r)
           /\ Synced(Written(f, r)).records = Append(f.records, r)
           /\ Written(f, r).exists /\ Synced(Written(f, r)).exists
<1>1. /\ f.records \in Seq(Record)
      /\ Append(f.records, r) \in Seq(Record)
      /\ Len(f.records) \in Nat
      /\ Len(Append(f.records, r)) = Len(f.records) + 1
      /\ Replayable(Append(f.records, r))
  BY AppendLast, AppendReplays DEF Sound, Journal
<1> DEFINE g == Written(f, r)
           h == Synced(g)
<1>2. /\ g \in Journal /\ g.exists = TRUE /\ g.records = Append(f.records, r)
      /\ g.old = f.old /\ g.linked = f.linked /\ g.synced = f.synced
  BY <1>1 DEF Written, Sound, Journal
<1> HIDE DEF g
<1>3. /\ h \in Journal /\ h.exists = TRUE /\ h.records = Append(f.records, r)
      /\ h.old = f.old /\ h.linked = f.linked /\ h.synced = Len(g.records)
  <2>1. g \in Journal /\ Len(g.records) \in Nat
    BY <1>1, <1>2
  <2>2. /\ h \in Journal /\ h.exists = g.exists /\ h.records = g.records
        /\ h.old = g.old /\ h.linked = g.linked /\ h.synced = Len(g.records)
    BY <2>1 DEF Synced, Journal
  <2> QED  BY <1>2, <2>2
<1> HIDE DEF h
<1>4. /\ f.linked => f.old = <<>>
      /\ Replayable(f.old) /\ f.synced \in Nat /\ f.synced <= Len(f.records)
  BY DEF Sound, Journal
<1>5. Sound(g) /\ Sound(h)
  BY <1>1, <1>2, <1>3, <1>4 DEF Sound
<1>6. g = Written(f, r) /\ h = Synced(Written(f, r))
  BY DEF g, h
<1> QED
  BY <1>2, <1>3, <1>5, <1>6

\* A failed append leaves the records as they were or one record longer.
LEMMA AppendFailedSound ==
    ASSUME NEW f, Sound(f), NEW r \in Record, Follows(Last(f.records), r),
           NEW g \in AppendFailed(f, r)
    PROVE  Sound(g) /\ g.records \in {f.records, Append(f.records, r)}
<1> DEFINE w == Written(Opened(f), r)
<1>1. /\ Sound(Opened(f)) /\ Opened(f).records = f.records
      /\ Opened(f).exists /\ ~Opened(f).torn
      /\ Sound([Opened(f) EXCEPT !.torn = TRUE])
      /\ [Opened(f) EXCEPT !.torn = TRUE].records = f.records
      /\ [Opened(f) EXCEPT !.torn = TRUE].exists
  BY OpenedSound
<1>2. /\ Sound(w) /\ Sound(Synced(w)) /\ w.exists /\ Synced(w).exists
      /\ w.records = Append(f.records, r) /\ Synced(w).records = Append(f.records, r)
  BY <1>1, WrittenSound
<1>3. g \in {f, Seen(Opened(f)), Seen([Opened(f) EXCEPT !.torn = TRUE]), Seen(w), Seen(Synced(w))}
  BY DEF AppendFailed
<1>4. CASE g = f
  BY <1>4
<1>5. CASE g = Seen(Opened(f))
  BY <1>1, <1>5, SeenSound
<1>6. CASE g = Seen([Opened(f) EXCEPT !.torn = TRUE])
  BY <1>1, <1>6, SeenSound
<1>7. CASE g = Seen(w)
  BY <1>2, <1>7, SeenSound
<1>8. CASE g = Seen(Synced(w))
  BY <1>2, <1>8, SeenSound
<1> QED
  BY <1>3, <1>4, <1>5, <1>6, <1>7, <1>8

\* Syncing the directory changes no record.
LEMMA SyncDirectorySound ==
    ASSUME NEW fs, fs = [e \in Event |-> fs[e]], \A e \in Event : Sound(fs[e])
    PROVE  LET gs == SyncDirectory(fs)
           IN /\ gs = [e \in Event |-> gs[e]]
              /\ \A e \in Event : Sound(gs[e]) /\ gs[e].records = fs[e].records
<1> DEFINE gs == SyncDirectory(fs)
<1>1. DOMAIN fs = Event
  OBVIOUS
<1>2. gs = [e \in Event |-> [fs[e] EXCEPT !.linked = TRUE, !.old = <<>>]]
  BY <1>1 DEF SyncDirectory
<1>3. ASSUME NEW e \in Event
      PROVE  Sound(gs[e]) /\ gs[e].records = fs[e].records
  <2>1. gs[e] = [fs[e] EXCEPT !.linked = TRUE, !.old = <<>>]
    BY <1>2
  <2> DEFINE f == fs[e]
             g == [f EXCEPT !.linked = TRUE, !.old = <<>>]
  <2>2. Sound(f) /\ f \in Journal /\ <<>> \in Seq(Record)
    BY DEF Sound
  <2> HIDE DEF f
  <2>3. /\ g \in Journal /\ g.exists = f.exists /\ g.records = f.records
        /\ g.old = <<>> /\ g.synced = f.synced
        /\ g.torn = f.torn /\ g.linked = TRUE
    BY <2>2 DEF Journal
  <2>4. ASSUME ~f.exists
        PROVE  g = NoFile
    <3>1. f = NoFile
      BY <2>2, <2>4 DEF Sound
    <3>2. /\ NoFile \in Journal /\ NoFile.linked = TRUE /\ NoFile.old = <<>>
          /\ f.torn = NoFile.torn /\ f.records = NoFile.records
          /\ f.synced = NoFile.synced /\ f.exists = NoFile.exists
      BY <3>1, EmptyJournal DEF NoFile, Sound
    <3> HIDE DEF g
    <3> QED
      BY <2>3, <3>2 DEF Journal
  <2> HIDE DEF g
  <2>5. Sound(g)
    BY <2>2, <2>3, <2>4, EmptyJournal DEF Sound
  <2> QED
    BY <2>1, <2>3, <2>5 DEF f, g
<1> HIDE DEF gs
<1> QED
  BY <1>2, <1>3 DEF gs

\* An append that succeeded made one journal one record longer.
LEMMA AppendedSound ==
    ASSUME NEW fs, fs = [x \in Event |-> fs[x]], \A x \in Event : Sound(fs[x]),
           NEW e \in Event, NEW r \in Record, Follows(Last(fs[e].records), r)
    PROVE  LET gs == Appended(fs, e, r)
           IN /\ gs = [x \in Event |-> gs[x]]
              /\ \A x \in Event : /\ Sound(gs[x])
                                  /\ x # e => gs[x].records = fs[x].records
              /\ gs[e].records = Append(fs[e].records, r)
<1> DEFINE g == Synced(Written(Opened(fs[e]), r))
           new == [fs EXCEPT ![e] = g]
           gs == Appended(fs, e, r)
<1>1. Sound(g) /\ g.records = Append(fs[e].records, r)
  <2> DEFINE f == fs[e]
  <2>1. Sound(f) /\ Follows(Last(f.records), r)
    OBVIOUS
  <2> HIDE DEF f
  <2>2. /\ Sound(Opened(f)) /\ Opened(f).records = f.records
        /\ Opened(f).exists /\ ~Opened(f).torn
    BY <2>1, OpenedSound
  <2>3. /\ Sound(Synced(Written(Opened(f), r)))
        /\ Synced(Written(Opened(f), r)).records = Append(f.records, r)
    BY <2>1, <2>2, WrittenSound
  <2> QED
    BY <2>3 DEF f
<1> HIDE DEF g
<1>2. /\ new = [x \in Event |-> new[x]]
      /\ \A x \in Event : Sound(new[x]) /\ (x # e => new[x] = fs[x])
      /\ new[e] = g
  BY <1>1
<1>3. gs = SyncDirectory(new)
  BY DEF Appended, g
<1> HIDE DEF new
<1> QED
  BY <1>1, <1>2, <1>3, SyncDirectorySound

\* The records a power loss may leave are legal.
LEMMA DurableReplays ==
    ASSUME NEW f, Sound(f), NEW s \in Durable(f)
    PROVE  s \in Seq(Record) /\ Replayable(s)
<1>1. \/ s = f.old
      \/ \E n \in f.synced .. Len(f.records) : s = SubSeq(f.records, 1, n)
  BY DEF Durable
<1>2. CASE s = f.old
  BY <1>2 DEF Sound, Journal
<1>3. ASSUME NEW n \in f.synced .. Len(f.records), s = SubSeq(f.records, 1, n)
      PROVE  s \in Seq(Record) /\ Replayable(s)
  <2>1. n \in 0 .. Len(f.records) /\ f.records \in Seq(Record)
    BY DEF Sound, Journal
  <2> QED
    BY <1>3, <2>1, PrefixReplays DEF Sound
<1> QED
  BY <1>1, <1>2, <1>3

\* The checkpoint keeps the generation and is no lease any more.
LEMMA ReplacedSound ==
    ASSUME NEW f, Sound(f), Last(f.records).generation # 0,
           NEW before \in Seq(Record), Replayable(before)
    PROVE  /\ Checkpoint(f) \in Record
           /\ Sound(Replaced(f, before))
           /\ Replaced(f, before).exists
           /\ Replaced(f, before).records = <<Checkpoint(f)>>
           /\ Last(<<Checkpoint(f)>>) = Checkpoint(f)
<1>1. Checkpoint(f) \in Record
  BY LastType DEF Sound, Journal, Checkpoint, Record, Transition
<1>2. /\ <<Checkpoint(f)>> \in Seq(Record) /\ Replayable(<<Checkpoint(f)>>)
      /\ Last(<<Checkpoint(f)>>) = Checkpoint(f) /\ Len(<<Checkpoint(f)>>) = 1
  BY <1>1, CheckpointReplays DEF Checkpoint
<1> QED
  BY <1>1, <1>2 DEF Sound, Replaced, Journal, NoFile

\* A failed compaction leaves the old journal or the checkpoint.
LEMMA CompactionFailedSound ==
    ASSUME NEW f, Sound(f), NeedsCompaction(f), NEW g \in CompactionFailed(f)
    PROVE  Sound(g) /\ g.records \in {f.records, <<Checkpoint(f)>>}
<1>1. CASE g = f
  BY <1>1
<1>2. ASSUME NEW before \in Durable(f), g = Seen(Replaced(f, before))
      PROVE  Sound(g) /\ g.records = <<Checkpoint(f)>>
  BY <1>2, DurableReplays, ReplacedSound, SeenSound DEF NeedsCompaction
<1> QED
  BY <1>1, <1>2 DEF CompactionFailed

\* A compaction leaves the checkpoint in place of one journal.
LEMMA CompactedSound ==
    ASSUME NEW fs, fs = [x \in Event |-> fs[x]], \A x \in Event : Sound(fs[x]),
           NEW e \in Event, NeedsCompaction(fs[e])
    PROVE  LET gs == Compacted(fs, e)
           IN /\ gs = [x \in Event |-> gs[x]]
              /\ \A x \in Event : /\ Sound(gs[x])
                                  /\ x # e => gs[x].records = fs[x].records
              /\ gs[e].records = <<Checkpoint(fs[e])>>
<1> DEFINE g == Replaced(fs[e], <<>>)
           new == [fs EXCEPT ![e] = g]
<1>1. Sound(g) /\ g.records = <<Checkpoint(fs[e])>>
  <2> DEFINE f == fs[e]
  <2>1. Sound(f) /\ NeedsCompaction(f)
    OBVIOUS
  <2> HIDE DEF f
  <2>2. Sound(Replaced(f, <<>>)) /\ Replaced(f, <<>>).records = <<Checkpoint(f)>>
    <3>1. <<>> \in Seq(Record) /\ Last(f.records).generation # 0
      BY <2>1 DEF NeedsCompaction
    <3> QED
      BY <2>1, <3>1, ReplacedSound, EmptyJournal
  <2> QED
    BY <2>2 DEF f
<1> HIDE DEF g
<1>2. /\ new = [x \in Event |-> new[x]]
      /\ \A x \in Event : Sound(new[x]) /\ (x # e => new[x] = fs[x])
      /\ new[e] = g
  BY <1>1
<1>3. Compacted(fs, e) = SyncDirectory(new)
  BY DEF Compacted, g
<1> HIDE DEF new
<1> QED
  BY <1>1, <1>2, <1>3, SyncDirectorySound

-----------------------------------------------------------------------------
(* Steps *)

\* The invariant, journal by journal.
LEMMA JournalsAreSound ==
    ASSUME IInv
    PROVE  /\ file = [x \in Event |-> file[x]]
           /\ \A x \in Event : Sound(file[x])
           /\ \A x \in Event : Tip(x) \in Record \cup {NoRecord} /\ Tip(x).generation \in Nat
           /\ minted \in Nat /\ clock \in Int
<1>1. /\ file = [x \in Event |-> file[x]]
      /\ \A x \in Event : Sound(file[x])
      /\ minted \in Nat /\ clock \in Int
  BY DEF IInv, TypeOK, JournalsReplay, BackupsReplay, Sound
<1>2. ASSUME NEW x \in Event
      PROVE  Tip(x) \in Record \cup {NoRecord} /\ Tip(x).generation \in Nat
  <2>1. file[x].records \in Seq(Record)
    BY <1>1 DEF Sound, Journal
  <2> QED
    BY <2>1, LastType DEF Tip
<1> QED
  BY <1>1, <1>2

\* The files of a step that leaves every journal sound.
SoundAfter ==
    /\ file' = [x \in Event |-> file'[x]]
    /\ \A x \in Event : Sound(file'[x])

\* And back.
LEMMA SoundJournals ==
    ASSUME SoundAfter
    PROVE  /\ file' \in [Event -> Journal]
           /\ \A e \in Event :
                /\ file'[e].synced <= Len(file'[e].records)
                /\ ~file'[e].exists => file'[e] = NoFile
                /\ file'[e].linked => file'[e].old = <<>>
           /\ JournalsReplay'
           /\ BackupsReplay'
  BY DEF SoundAfter, Sound, JournalsReplay, BackupsReplay

\* What begin does to the journals: nothing, a compaction, or a new lease
\* that only one consumer can learn of.
LEMMA BeginStep ==
    ASSUME IInv, NEW c \in Consumer, NEW e \in Event, Begin(c, e)
    PROVE  /\ SoundAfter
           /\ \A x \in Event : x # e => Tip(x)' = Tip(x)
           /\ \/ Tip(e)' = Tip(e) /\ UNCHANGED held
              \/ Tip(e)' = Checkpoint(file[e]) /\ UNCHANGED held
              \/ \E now \in Int :
                    /\ NewLease(e, now) \in Record
                    /\ Tip(e)' = NewLease(e, now)
                    /\ HandOver(c, e, NewLease(e, now))
           /\ minted' \in Nat /\ clock' \in Int
           /\ UNCHANGED <<floorFile, memory, told>>
<1>1. /\ file = [x \in Event |-> file[x]]
      /\ \A x \in Event : Sound(file[x])
      /\ Tip(e) \in Record \cup {NoRecord} /\ Tip(e).generation \in Nat
      /\ minted \in Nat /\ clock \in Int
  BY JournalsAreSound
<1>2. PICK now \in LaterClock :
         /\ clock' = now
         /\ LET ready == IF NeedsCompaction(file[e]) THEN Compacted(file, e) ELSE file
                r == NewLease(e, now)
            IN \/ /\ NeedsCompaction(file[e])
                  /\ \E f \in CompactionFailed(file[e]) : file' = [file EXCEPT ![e] = f]
                  /\ UNCHANGED <<minted, held>>
               \/ /\ \E f \in AppendFailed(ready[e], r) : file' = [ready EXCEPT ![e] = f]
                  /\ minted' = minted + 1
                  /\ UNCHANGED held
               \/ /\ file' = Appended(ready, e, r)
                  /\ minted' = minted + 1
                  /\ HandOver(c, e, r)
  BY DEF Begin
<1> DEFINE ready == IF NeedsCompaction(file[e]) THEN Compacted(file, e) ELSE file
           r == NewLease(e, now)
<1>3. now \in Int
  BY <1>1, JournalConstants DEF LaterClock
<1>4. r \in Record
  BY <1>1, <1>3, JournalConstants DEF NewLease, NextGeneration, Record, Transition
<1>5. /\ ready = [x \in Event |-> ready[x]]
      /\ \A x \in Event : Sound(ready[x]) /\ (x # e => ready[x].records = file[x].records)
      /\ ready[e].records = IF NeedsCompaction(file[e]) THEN <<Checkpoint(file[e])>>
                                                        ELSE file[e].records
  <2>1. CASE NeedsCompaction(file[e])
    BY <1>1, <2>1, CompactedSound
  <2>2. CASE ~NeedsCompaction(file[e])
    BY <1>1, <2>2
  <2> QED
    BY <2>1, <2>2
<1>6. Tip(e).type # "Accepted"
  BY DEF Begin, Leasable, Accepted
<1>7. /\ Last(ready[e].records) \in {Tip(e), Checkpoint(file[e])}
      /\ Last(ready[e].records) # Tip(e) => NeedsCompaction(file[e])
  <2>1. CASE NeedsCompaction(file[e])
    <3>1. Sound(file[e]) /\ <<>> \in Seq(Record) /\ Last(file[e].records).generation # 0
      BY <1>1, <2>1 DEF NeedsCompaction
    <3>2. Last(<<Checkpoint(file[e])>>) = Checkpoint(file[e])
      BY <3>1, ReplacedSound, EmptyJournal
    <3> QED
      BY <1>5, <2>1, <3>2
  <2>2. CASE ~NeedsCompaction(file[e])
    BY <1>5, <2>2 DEF Tip
  <2> QED
    BY <2>1, <2>2
<1>8. Follows(Last(ready[e].records), r)
  <2>1. Checkpoint(file[e]).type = "Checkpoint" /\ Checkpoint(file[e]).generation = Tip(e).generation
    BY DEF Checkpoint, Tip
  <2>2. r.type = "LeaseGranted" /\ r.generation = Tip(e).generation + 1
    BY DEF NewLease, NextGeneration
  <2> QED
    BY <1>6, <1>7, <2>1, <2>2 DEF Follows
<1>9. CASE /\ NeedsCompaction(file[e])
           /\ \E f \in CompactionFailed(file[e]) : file' = [file EXCEPT ![e] = f]
           /\ UNCHANGED <<minted, held>>
  <2>1. PICK f \in CompactionFailed(file[e]) : file' = [file EXCEPT ![e] = f]
    BY <1>9
  <2>2. Sound(f) /\ f.records \in {file[e].records, <<Checkpoint(file[e])>>}
    BY <1>1, <1>9, CompactionFailedSound
  <2>3. SoundAfter /\ file'[e] = f /\ \A x \in Event : x # e => file'[x] = file[x]
    BY <1>1, <2>1, <2>2 DEF SoundAfter
  <2>4. Last(<<Checkpoint(file[e])>>) = Checkpoint(file[e])
    BY <1>1, <1>5, <1>7, <1>9 DEF Last, RecordAt
  <2>5. Tip(e)' \in {Tip(e), Checkpoint(file[e])} /\ \A x \in Event : x # e => Tip(x)' = Tip(x)
    BY <2>2, <2>3, <2>4 DEF Tip
  <2> QED
    BY <1>1, <1>2, <1>3, <1>9, <2>3, <2>5 DEF Begin
<1>10. CASE /\ \E f \in AppendFailed(ready[e], r) : file' = [ready EXCEPT ![e] = f]
            /\ minted' = minted + 1
            /\ UNCHANGED held
  <2>1. PICK f \in AppendFailed(ready[e], r) : file' = [ready EXCEPT ![e] = f]
    BY <1>10
  <2> HIDE DEF ready, r
  <2>2. Sound(f) /\ f.records \in {ready[e].records, Append(ready[e].records, r)}
    BY <1>4, <1>5, <1>8, AppendFailedSound
  <2>3. SoundAfter /\ file'[e] = f /\ \A x \in Event : x # e => file'[x] = ready[x]
    BY <1>5, <2>1, <2>2 DEF SoundAfter
  <2>4. Last(Append(ready[e].records, r)) = r
    BY <1>4, <1>5, AppendLast DEF Sound, Journal
  <2>5. Tip(e)' \in {Tip(e), Checkpoint(file[e]), r}
    BY <1>7, <2>2, <2>3, <2>4 DEF Tip
  <2>6. \A x \in Event : x # e => Tip(x)' = Tip(x)
    BY <1>5, <2>3 DEF Tip
  <2>7. HandOver(c, e, r) /\ minted' \in Nat
    BY <1>1, <1>10 DEF HandOver
  <2> QED
    BY <1>2, <1>3, <1>4, <1>10, <2>3, <2>5, <2>6, <2>7 DEF Begin, r
<1>11. CASE /\ file' = Appended(ready, e, r)
            /\ minted' = minted + 1
            /\ HandOver(c, e, r)
  <2> HIDE DEF ready, r
  <2>1. /\ SoundAfter
        /\ \A x \in Event : x # e => file'[x].records = ready[x].records
        /\ file'[e].records = Append(ready[e].records, r)
    BY <1>4, <1>5, <1>8, <1>11, AppendedSound DEF SoundAfter
  <2>2. Last(Append(ready[e].records, r)) = r
    BY <1>4, <1>5, AppendLast DEF Sound, Journal
  <2>3. Tip(e)' = r /\ \A x \in Event : x # e => Tip(x)' = Tip(x)
    BY <1>5, <2>1, <2>2 DEF Tip
  <2> QED
    BY <1>1, <1>2, <1>3, <1>4, <1>11, <2>1, <2>3 DEF Begin, r
<1> QED
  BY <1>2, <1>9, <1>10, <1>11

\* The record that closes the lease of c.
Closing(c, type) ==
    [type |-> type, generation |-> held[c].generation, token |-> held[c].token,
     expires |-> 0]

\* The closing record of the lease a consumer holds, appended or not.
LEMMA CloseStep ==
    ASSUME IInv, NEW c \in Consumer, held[c] # NoLease, HoldsLease(held[c]),
           NEW type \in {"Accepted", "Abandoned"}, Close(c, type),
           NEW e, e = held[c].event
    PROVE  /\ held[c] \in Claim
           /\ Closing(c, type) \in Record
           /\ SoundAfter
           /\ \A x \in Event : x # e => Tip(x)' = Tip(x)
           /\ \/ Tip(e)' = Tip(e) /\ UNCHANGED <<held, told>>
              \/ Tip(e)' = Closing(c, type) /\ Settle(c, type = "Accepted")
<1> DEFINE r == Closing(c, type)
<1>1. /\ file = [x \in Event |-> file[x]]
      /\ \A x \in Event : Sound(file[x])
  BY JournalsAreSound
<1>2. held[c] \in Claim /\ e \in Event
  BY DEF IInv, TypeOK, Claim
<1>3. r \in Record
  BY <1>2 DEF Closing, Claim, Record, Transition
<1>4. Follows(Last(file[e].records), r)
  BY DEF HoldsLease, Tip, Closing, Follows
<1>5. \/ /\ \E f \in AppendFailed(file[e], r) : file' = [file EXCEPT ![e] = f]
         /\ UNCHANGED <<held, told>>
      \/ /\ file' = Appended(file, e, r)
         /\ Settle(c, type = "Accepted")
  BY DEF Close, Closing
<1> HIDE DEF r
<1>6. Last(Append(file[e].records, r)) = r
  BY <1>1, <1>2, <1>3, AppendLast DEF Sound, Journal
<1>7. CASE /\ \E f \in AppendFailed(file[e], r) : file' = [file EXCEPT ![e] = f]
           /\ UNCHANGED <<held, told>>
  <2>1. PICK f \in AppendFailed(file[e], r) : file' = [file EXCEPT ![e] = f]
    BY <1>7
  <2>2. Sound(f) /\ f.records \in {file[e].records, Append(file[e].records, r)}
    BY <1>1, <1>2, <1>3, <1>4, AppendFailedSound
  <2>3. SoundAfter /\ file'[e] = f /\ \A x \in Event : x # e => file'[x] = file[x]
    BY <1>1, <1>2, <2>1, <2>2 DEF SoundAfter
  <2>4. Tip(e)' \in {Tip(e), r} /\ \A x \in Event : x # e => Tip(x)' = Tip(x)
    BY <1>6, <2>2, <2>3 DEF Tip
  <2>5. Settle(c, type = "Accepted")
    BY <1>7 DEF Settle
  <2> QED
    BY <1>2, <1>3, <1>7, <2>3, <2>4, <2>5 DEF r
<1>8. CASE file' = Appended(file, e, r) /\ Settle(c, type = "Accepted")
  <2>1. /\ file' = [x \in Event |-> file'[x]]
        /\ \A x \in Event : Sound(file'[x])
        /\ \A x \in Event : x # e => file'[x].records = file[x].records
        /\ file'[e].records = Append(file[e].records, r)
    <3>1. LET gs == Appended(file, e, r)
          IN /\ gs = [x \in Event |-> gs[x]]
             /\ \A x \in Event : /\ Sound(gs[x])
                                 /\ x # e => gs[x].records = file[x].records
             /\ gs[e].records = Append(file[e].records, r)
      BY ONLY <1>1, <1>2, <1>3, <1>4, AppendedSound
    <3> QED  BY <1>8, <3>1
  <2> SoundAfter
    BY <2>1 DEF SoundAfter
  <2>2. Tip(e)' = r /\ \A x \in Event : x # e => Tip(x)' = Tip(x)
    BY <1>6, <2>1 DEF Tip
  <2> QED
    BY <1>2, <1>3, <1>8, <2>1, <2>2 DEF r
<1> QED
  BY <1>5, <1>7, <1>8

\* A consumer's accept or abandon, seen from the journals: repeated, refused,
\* or the closing record of the lease that is last on record.
LEMMA ReportStep ==
    ASSUME IInv, NEW c \in Consumer, Accept(c) \/ Abandon(c),
           NEW e, e = held[c].event
    PROVE  /\ held[c] # NoLease /\ held[c] \in Claim /\ e \in Event /\ Serves(e)
           /\ SoundAfter
           /\ UNCHANGED <<floorFile, memory, minted, clock>>
           /\ \A x \in Event : x # e => Tip(x)' = Tip(x)
           /\ \/ /\ Tip(e)' = Tip(e)
                 /\ \/ UNCHANGED <<held, told>>
                    \/ AcceptedBy(held[c]) /\ Settle(c, TRUE)
                    \/ Settle(c, FALSE)
              \/ /\ HoldsLease(held[c])
                 /\ Closing(c, "Accepted") \in Record
                 /\ Tip(e)' = Closing(c, "Accepted")
                 /\ Settle(c, TRUE)
              \/ /\ HoldsLease(held[c])
                 /\ Closing(c, "Abandoned") \in Record
                 /\ Tip(e)' = Closing(c, "Abandoned")
                 /\ Settle(c, FALSE)
<1>1. held[c] # NoLease /\ Serves(held[c].event)
      /\ UNCHANGED <<floorFile, memory, minted, clock>>
  BY DEF Accept, Abandon
<1>2. held[c] \in Claim /\ e \in Event
  BY <1>1 DEF IInv, TypeOK, Claim
<1>3. CASE /\ UNCHANGED file
           /\ \/ AcceptedBy(held[c]) /\ Settle(c, TRUE)
              \/ Settle(c, FALSE)
  <2>1. SoundAfter
    BY <1>3, JournalsAreSound DEF SoundAfter
  <2>2. \A x : Tip(x)' = Tip(x)
    BY <1>3 DEF Tip
  <2> QED
    BY <1>1, <1>2, <1>3, <2>1, <2>2
<1>4. CASE HoldsLease(held[c]) /\ Close(c, "Accepted")
  <2>1. /\ Closing(c, "Accepted") \in Record
        /\ SoundAfter
        /\ \A x \in Event : x # e => Tip(x)' = Tip(x)
        /\ \/ Tip(e)' = Tip(e) /\ UNCHANGED <<held, told>>
           \/ Tip(e)' = Closing(c, "Accepted") /\ Settle(c, TRUE)
    <3>1. HoldsLease(held[c]) /\ Close(c, "Accepted") /\ held[c] # NoLease
      BY <1>1, <1>4
    <3>2. \A type \in {"Accepted", "Abandoned"} : Close(c, type) =>
            /\ Closing(c, type) \in Record
            /\ SoundAfter
            /\ \A x \in Event : x # e => Tip(x)' = Tip(x)
            /\ \/ Tip(e)' = Tip(e) /\ UNCHANGED <<held, told>>
               \/ Tip(e)' = Closing(c, type) /\ Settle(c, type = "Accepted")
      BY <3>1, CloseStep
    <3> QED  BY <3>1, <3>2
  <2> QED  BY <1>1, <1>2, <1>4, <2>1
<1>5. CASE HoldsLease(held[c]) /\ Close(c, "Abandoned")
  <2>1. /\ Closing(c, "Abandoned") \in Record
        /\ SoundAfter
        /\ \A x \in Event : x # e => Tip(x)' = Tip(x)
        /\ \/ Tip(e)' = Tip(e) /\ UNCHANGED <<held, told>>
           \/ Tip(e)' = Closing(c, "Abandoned") /\ Settle(c, FALSE)
    <3>1. HoldsLease(held[c]) /\ Close(c, "Abandoned") /\ held[c] # NoLease
      BY <1>1, <1>5
    <3>2. \A type \in {"Accepted", "Abandoned"} : Close(c, type) =>
            /\ Closing(c, type) \in Record
            /\ SoundAfter
            /\ \A x \in Event : x # e => Tip(x)' = Tip(x)
            /\ \/ Tip(e)' = Tip(e) /\ UNCHANGED <<held, told>>
               \/ Tip(e)' = Closing(c, type) /\ Settle(c, type = "Accepted")
      BY <3>1, CloseStep
    <3> QED  BY <3>1, <3>2
  <2> QED  BY <1>1, <1>2, <1>5, <2>1
<1> QED
  BY <1>3, <1>4, <1>5 DEF Accept, Abandon, Acceptable

\* A reply that arrives takes the lease from its holder, at most.
LEMMA SettleType ==
    ASSUME IInv, NEW c \in Consumer, held[c] \in Claim, NEW b \in BOOLEAN, Settle(c, b)
    PROVE  /\ held' \in [Consumer -> Claim \cup {NoLease}]
           /\ told' \subseteq Claim
           /\ \A d \in Consumer : held'[d] \in {held[d], NoLease}
           /\ told' \subseteq told \cup {held[c]}
           /\ ~b => told' = told
<1>1. held \in [Consumer -> Claim \cup {NoLease}] /\ told \subseteq Claim
  BY DEF IInv, TypeOK
<1> QED
  BY <1>1 DEF Settle

\* Removing journals leaves the others as they are.
LEMMA RemoveStep ==
    ASSUME IInv, NEW S, file' = Removed(S)
    PROVE  SoundAfter /\ \A x \in Event : x \notin S => Tip(x)' = Tip(x)
  BY JournalsAreSound, EmptyJournal DEF Removed, SoundAfter, Tip

\* A power loss leaves sound journals too.
LEMMA HostCrashStep ==
    ASSUME IInv, HostCrash
    PROVE  SoundAfter
<1>1. ASSUME NEW f, Sound(f), NEW g \in AfterPowerLoss(f)
      PROVE  Sound(g)
  <2>1. /\ g \in [exists : BOOLEAN, records : Durable(f), torn : BOOLEAN,
                 synced : {Len(s) : s \in Durable(f)}, linked : {TRUE}, old : {<<>>}]
        /\ g.synced = Len(g.records)
        /\ g.records # <<>> \/ g.torn => g.exists
    BY <1>1 DEF AfterPowerLoss
  <2>2. g.records \in Seq(Record) /\ Replayable(g.records) /\ Len(g.records) \in Nat
    BY <1>1, <2>1, DurableReplays
  <2>3. g \in Journal /\ g.linked = TRUE /\ g.old = <<>>
    <3>1. g.synced \in Nat /\ <<>> \in Seq(Record)
      BY <2>1, <2>2
    <3> QED
      BY <2>1, <2>2, <3>1 DEF Journal
  <2>4. ASSUME ~g.exists
        PROVE  g = NoFile
    <3>1. g.records = <<>> /\ g.torn = FALSE /\ g.synced = 0 /\ g.exists = FALSE
      BY <2>1, <2>3, <2>4 DEF Journal
    <3> QED
      BY <2>3, <3>1 DEF Journal, NoFile
  <2> QED
    BY <2>1, <2>2, <2>3, <2>4, EmptyJournal DEF Sound
<1>2. /\ file' = [x \in Event |-> file'[x]]
      /\ \A x \in Event : file'[x] \in AfterPowerLoss(file[x])
  BY DEF HostCrash
<1> QED
  BY <1>1, <1>2, JournalsAreSound DEF SoundAfter

-----------------------------------------------------------------------------
(* Types and legal journals, in every instance *)

\* The steps that leave journals, leases and confirmations alone.
Quiet ==
    \/ OutboxFails \/ DaemonCrash \/ Tick \/ ClockSetBack
    \/ UNCHANGED vars

\* Empty journals satisfy every invariant.
LEMMA InitInvariant == Init => SInv
<1> SUFFICES ASSUME Init
             PROVE  SInv
  OBVIOUS
<1>1. \A e \in Event : Sound(file[e])
  BY EmptyJournal DEF Init
<1>2. IInv
  <2>1. /\ file \in [Event -> Journal]
        /\ held \in [Consumer -> Claim \cup {NoLease}]
    BY <1>1 DEF Init, Sound
  <2>2. \A e \in Event : /\ file[e].synced <= Len(file[e].records)
                         /\ ~file[e].exists => file[e] = NoFile
                         /\ file[e].linked => file[e].old = <<>>
                         /\ Replayable(file[e].records) /\ Replayable(file[e].old)
    BY <1>1 DEF Sound
  <2>3. TypeOK
    <3>1. /\ floorFile = 0 /\ up = TRUE /\ retainedFloor = 0 /\ degraded = FALSE
          /\ minted = 0 /\ told = {} /\ clock = 0
      BY DEF Init
    <3>2. /\ floorFile \in Event \cup {0} /\ retainedFloor \in Event \cup {0}
          /\ minted \in Nat /\ clock \in Int /\ told \subseteq Claim
      BY <3>1
    <3>3. up \in BOOLEAN /\ degraded \in BOOLEAN
      BY <3>1, Zenon
    <3> QED
      BY <2>1, <2>2, <3>2, <3>3, Zenon DEF TypeOK
  <2> QED
    BY <2>2, <2>3 DEF IInv, JournalsReplay, BackupsReplay
<1> QED
  BY <1>2 DEF Init, SInv, FloorInSync, FencesAgree, ToldIsOnRecord, AcceptedOnce

\* Every step keeps the journals sound and the state typed.
LEMMA StepInvariant == IInv /\ [Next]_vars => IInv'
<1> SUFFICES ASSUME IInv, [Next]_vars
             PROVE  IInv'
  OBVIOUS
<1>0. /\ floorFile \in Event \cup {0} /\ up \in BOOLEAN /\ retainedFloor \in Event \cup {0}
      /\ degraded \in BOOLEAN /\ minted \in Nat
      /\ held \in [Consumer -> Claim \cup {NoLease}]
      /\ told \subseteq Claim /\ clock \in Int
  BY DEF IInv, TypeOK
<1>1. ASSUME NEW c \in Consumer, NEW e \in Event, Begin(c, e)
      PROVE  IInv'
  <2>1. /\ SoundAfter /\ minted' \in Nat /\ clock' \in Int
        /\ UNCHANGED <<floorFile, memory, told>>
        /\ \/ UNCHANGED held
           \/ \E now \in Int : /\ NewLease(e, now) \in Record
                               /\ HandOver(c, e, NewLease(e, now))
    BY <1>1, BeginStep
  <2>2. ASSUME NEW now \in Int, NewLease(e, now) \in Record, HandOver(c, e, NewLease(e, now))
        PROVE  held' \in [Consumer -> Claim \cup {NoLease}]
    <3>1. [event |-> e, generation |-> NewLease(e, now).generation,
           token |-> NewLease(e, now).token] \in Claim
      BY <2>2 DEF Claim, Record
    <3> QED
      BY <1>0, <2>2, <3>1 DEF HandOver
  <2>3. held' \in [Consumer -> Claim \cup {NoLease}]
    BY <1>0, <2>1, <2>2
  <2> QED
    BY <1>0, <2>1, <2>3, SoundJournals DEF IInv, TypeOK, memory
<1>2. ASSUME NEW c \in Consumer, Accept(c) \/ Abandon(c)
      PROVE  IInv'
  <2>1. PICK e : e = held[c].event
    OBVIOUS
  <2>2. /\ SoundAfter /\ UNCHANGED <<floorFile, memory, minted, clock>>
        /\ held[c] \in Claim
        /\ \/ UNCHANGED <<held, told>>
           \/ \E b \in BOOLEAN : Settle(c, b)
    BY <1>2, <2>1, ReportStep
  <2>3. held' \in [Consumer -> Claim \cup {NoLease}] /\ told' \subseteq Claim
    BY <1>0, <2>2, SettleType
  <2> QED
    BY <1>0, <2>2, <2>3, SoundJournals DEF IInv, TypeOK, memory
<1>3. ASSUME NEW f \in Event, AdvanceRetainedFloor(f)
      PROVE  IInv'
  <2>1. SoundAfter
    <3>1. CASE UNCHANGED file
      BY <3>1, JournalsAreSound DEF SoundAfter
    <3>2. ASSUME NEW S, file' = Removed(S)
          PROVE  SoundAfter
      BY <3>2, RemoveStep
    <3> QED
      BY <1>3, <3>1, <3>2 DEF AdvanceRetainedFloor
  <2>2. /\ floorFile' \in {floorFile, f} /\ retainedFloor' \in {retainedFloor, f}
        /\ degraded' \in BOOLEAN
        /\ UNCHANGED <<up, minted, held, told, clock>>
    BY <1>0, <1>3 DEF AdvanceRetainedFloor
  <2> QED
    BY <1>0, <2>1, <2>2, SoundJournals DEF IInv, TypeOK
<1>4. CASE HostCrash
  <2>1. UNCHANGED <<floorFile, retainedFloor, degraded, minted, held, told, clock>> /\ up' = FALSE
    BY <1>4 DEF HostCrash
  <2> QED
    BY <1>0, <1>4, <2>1, HostCrashStep, SoundJournals DEF IInv, TypeOK
<1>5. CASE Start
  <2>1. PICK f \in {floorFile} \cup {e \in Event : e > floorFile} :
          /\ floorFile' = f
          /\ \/ /\ retainedFloor' = f
                /\ file' = Removed(BelowFloor(f))
                /\ up' = TRUE
                /\ degraded' = FALSE
             \/ /\ \E S \in SUBSET BelowFloor(f) : file' = Removed(S)
                /\ UNCHANGED memory
    BY <1>5 DEF Start
  <2>2. SoundAfter
    BY <2>1, RemoveStep
  <2>3. /\ floorFile' \in Event \cup {0} /\ retainedFloor' \in Event \cup {0}
        /\ up' \in BOOLEAN /\ degraded' \in BOOLEAN
    BY <1>0, <2>1 DEF memory
  <2>4. UNCHANGED <<minted, held, told, clock>>
    BY <1>5 DEF Start
  <2> QED
    BY <1>0, <2>2, <2>3, <2>4, SoundJournals DEF IInv, TypeOK
<1>6. ASSUME NEW c \in Consumer, ConsumerGone(c)
      PROVE  IInv'
  <2>1. /\ UNCHANGED <<file, floorFile, up, retainedFloor, degraded, minted, told, clock>>
        /\ held' \in [Consumer -> Claim \cup {NoLease}]
    BY <1>0, <1>6 DEF ConsumerGone, disk, memory
  <2> QED
    BY <2>1 DEF IInv, TypeOK, JournalsReplay, BackupsReplay
<1>7. CASE Quiet
  <2>1. /\ UNCHANGED <<file, floorFile, retainedFloor, minted, held, told>>
        /\ up' \in BOOLEAN /\ degraded' \in BOOLEAN /\ clock' \in Int
    <3>1. CASE DaemonCrash
      BY <1>0, <3>1 DEF DaemonCrash
    <3>2. CASE Tick
      BY <1>0, <3>2 DEF Tick, disk, memory
    <3>3. CASE ClockSetBack
      BY <1>0, <3>3 DEF ClockSetBack, disk, memory
    <3>4. CASE UNCHANGED vars
      BY <1>0, <3>4 DEF vars
    <3>5. CASE OutboxFails
      BY <1>0, <3>5 DEF OutboxFails, disk
    <3> QED
      BY <1>7, <3>1, <3>2, <3>3, <3>4, <3>5 DEF Quiet
  <2> QED
    BY <2>1 DEF IInv, TypeOK, JournalsReplay, BackupsReplay
<1> QED
  BY <1>1, <1>2, <1>3, <1>4, <1>5, <1>6, <1>7 DEF Next, Quiet

\* The journals keep their form, and no crash, power losses included, leaves
\* one that load_state rejects.
THEOREM JournalsWellFormed == Spec => []IInv
<1>1. Init => IInv
  BY InitInvariant DEF SInv
<1> QED
  BY <1>1, StepInvariant, PTL DEF Spec

\* Every journal, lease and counter is of its type.
THEOREM JournalTypes == Spec => []TypeOK
  BY JournalsWellFormed, PTL DEF IInv

\* Every journal replays: torn tails, failed appends and compactions, and power
\* losses never block an event for good.
THEOREM AlwaysReplayable == Spec => []JournalsReplay
  BY JournalsWellFormed, PTL DEF IInv

-----------------------------------------------------------------------------
(* What consumers are promised, on a machine that keeps its power *)

\* The lease l is not ahead of the record t.
Agrees(l, t) ==
    \/ l.generation < t.generation
    \/ l.generation = t.generation /\ (t.type = "Checkpoint" \/ t.token = l.token)

\* FencesAgree, with the typing of the leases at hand.
LEMMA FencesUnfolded ==
    ASSUME IInv
    PROVE  FencesAgree <=> \A c \in Consumer :
              \/ held[c] = NoLease
              \/ /\ held[c] \in Claim
                 /\ \/ held[c].event < floorFile
                    \/ Agrees(held[c], Tip(held[c].event))
  BY DEF IInv, TypeOK, FencesAgree, Agrees

\* An event that is served is not below the floor on disk.
LEMMA ServedIsRetained ==
    ASSUME IInv, FloorInSync, NEW e \in Event, Serves(e)
    PROVE  /\ e \in Nat /\ floorFile \in Nat /\ e >= floorFile
           /\ Replayable(file[e].records)
<1>1. e \in Nat /\ floorFile \in Nat
  BY JournalConstants DEF IInv, TypeOK
<1> QED
  BY <1>1 DEF Serves, FloorInSync

\* The lease l agrees with the journals of the next state.
Fenced(l) ==
    l # NoLease => \E x \in Event : /\ l.event = x
                                    /\ x < floorFile' \/ Agrees(l, Tip(x)')

\* FencesAgree in the next state, consumer by consumer.
LEMMA FencesAfter ==
    ASSUME \A d \in Consumer : Fenced(held'[d])
    PROVE  FencesAgree'
<1>1. ASSUME NEW d \in Consumer, NEW x \in Event, held'[d].event = x,
             x < floorFile' \/ Agrees(held'[d], Tip(x)')
      PROVE  \/ held'[d].event < floorFile'
             \/ held'[d].generation < Last(file'[held'[d].event].records).generation
             \/ /\ held'[d].generation = Last(file'[held'[d].event].records).generation
                /\ \/ Last(file'[held'[d].event].records).type = "Checkpoint"
                   \/ Last(file'[held'[d].event].records).token = held'[d].token
  BY <1>1 DEF Agrees, Tip
<1> QED
  BY <1>1 DEF Fenced, FencesAgree, Tip

\* Leasing a generation takes nothing from an accepted event or a holder.
LEMMA BeginSafe ==
    ASSUME SInv, NEW c \in Consumer, NEW e \in Event, Begin(c, e)
    PROVE  SInv'
<1>1. /\ SoundAfter
      /\ \A x \in Event : x # e => Tip(x)' = Tip(x)
      /\ \/ Tip(e)' = Tip(e) /\ UNCHANGED held
         \/ Tip(e)' = Checkpoint(file[e]) /\ UNCHANGED held
         \/ \E now \in Int :
               /\ NewLease(e, now) \in Record
               /\ Tip(e)' = NewLease(e, now)
               /\ HandOver(c, e, NewLease(e, now))
      /\ UNCHANGED <<floorFile, up, retainedFloor, degraded, told>>
  BY BeginStep DEF SInv, memory
<1>2. IInv'
  BY StepInvariant DEF SInv, Next
<1>3. e >= floorFile /\ e \in Nat /\ floorFile \in Nat /\ Tip(e).generation \in Nat
  BY ServedIsRetained, JournalsAreSound DEF SInv, Begin
<1>4. Tip(e).type # "Accepted"
  BY DEF Begin, Leasable, Accepted
<1>5. FloorInSync' /\ AcceptedOnce'
  BY <1>1 DEF SInv, FloorInSync, AcceptedOnce
<1>6. ToldIsOnRecord'
  <2>1. ASSUME NEW p \in told
        PROVE  p.event < floorFile \/ AcceptedBy(p)'
    <3>1. p \in Claim /\ p.event \in Event /\ (p.event < floorFile \/ AcceptedBy(p))
      BY DEF SInv, ToldIsOnRecord, IInv, TypeOK, Claim
    <3>2. p.event = e => p.event < floorFile
      BY <1>4, <3>1 DEF AcceptedBy, Accepted
    <3>3. p.event # e => Tip(p.event)' = Tip(p.event)
      BY <1>1, <3>1
    <3> QED
      BY <3>1, <3>2, <3>3 DEF AcceptedBy, Accepted
  <2> QED
    BY <1>1, <2>1 DEF ToldIsOnRecord
<1>7. /\ Checkpoint(file[e]).type = "Checkpoint"
      /\ Checkpoint(file[e]).generation = Tip(e).generation
  BY DEF Checkpoint, Tip
<1>8. \A now : NewLease(e, now).generation = Tip(e).generation + 1
  BY DEF NewLease, NextGeneration
<1>9. ASSUME NEW d \in Consumer, held[d] # NoLease, NEW x \in Event, x = held[d].event
      PROVE  x < floorFile \/ Agrees(held[d], Tip(x)')
  <2>1. /\ held[d] \in Claim /\ held[d].generation \in Nat
        /\ x < floorFile \/ Agrees(held[d], Tip(x))
    BY <1>9, FencesUnfolded DEF SInv, Claim
  <2>2. CASE x # e
    BY <1>1, <2>1, <2>2
  <2>3. CASE x = e
    <3>1. Agrees(held[d], Tip(e))
      BY <1>3, <2>1, <2>3
    <3>2. \/ Tip(e)' = Tip(e)
          \/ Tip(e)' = Checkpoint(file[e])
          \/ Tip(e)'.generation = Tip(e).generation + 1
      BY <1>1, <1>8
    <3>3. Agrees(held[d], Tip(e)')
      BY <1>3, <1>7, <2>1, <3>1, <3>2 DEF Agrees
    <3> QED
      BY <2>3, <3>3
  <2> QED
    BY <2>2, <2>3
<1>10. ASSUME NEW d \in Consumer
       PROVE  Fenced(held'[d])
  <2>1. CASE held'[d] = held[d]
    <3>1. held[d] # NoLease => held[d].event \in Event
      BY DEF SInv, IInv, TypeOK, Claim
    <3> QED
      BY <1>1, <1>9, <2>1, <3>1 DEF Fenced
  <2>2. CASE held'[d] # held[d]
    <3>1. PICK now \in Int :
             /\ Tip(e)' = NewLease(e, now)
             /\ held' = [held EXCEPT ![c] = [event |-> e,
                                             generation |-> NewLease(e, now).generation,
                                             token |-> NewLease(e, now).token]]
      BY <1>1, <2>2 DEF HandOver
    <3>2. held'[d] = [event |-> e, generation |-> NewLease(e, now).generation,
                      token |-> NewLease(e, now).token]
      BY <2>2, <3>1 DEF SInv, IInv, TypeOK
    <3> QED
      BY <3>1, <3>2 DEF Fenced, Agrees
  <2> QED
    BY <2>1, <2>2
<1>11. FencesAgree'
  BY <1>10, FencesAfter
<1> QED
  BY <1>2, <1>5, <1>6, <1>11 DEF SInv

\* Closing a lease needs the lease, and confirms only what is then on record.
LEMMA ReportSafe ==
    ASSUME SInv, NEW c \in Consumer, Accept(c) \/ Abandon(c)
    PROVE  SInv'
<1>0. PICK e : e = held[c].event
  OBVIOUS
<1>1. /\ held[c] # NoLease /\ held[c] \in Claim /\ e \in Event /\ Serves(e)
      /\ SoundAfter
      /\ UNCHANGED <<floorFile, up, retainedFloor, degraded>>
      /\ \A x \in Event : x # e => Tip(x)' = Tip(x)
      /\ \/ /\ Tip(e)' = Tip(e)
            /\ \/ UNCHANGED <<held, told>>
               \/ AcceptedBy(held[c]) /\ Settle(c, TRUE)
               \/ Settle(c, FALSE)
         \/ /\ HoldsLease(held[c])
            /\ Tip(e)' = Closing(c, "Accepted")
            /\ Settle(c, TRUE)
         \/ /\ HoldsLease(held[c])
            /\ Tip(e)' = Closing(c, "Abandoned")
            /\ Settle(c, FALSE)
  BY <1>0, ReportStep DEF SInv, memory
<1>2. IInv'
  BY StepInvariant DEF SInv, Next
<1>3. e >= floorFile /\ e \in Nat /\ floorFile \in Nat
  BY <1>1, ServedIsRetained DEF SInv
<1>4. /\ told \subseteq Claim
      /\ told' \subseteq told \cup {held[c]}
      /\ \A d \in Consumer : held'[d] \in {held[d], NoLease}
  <2>1. told \subseteq Claim
    BY DEF SInv, IInv, TypeOK
  <2>2. CASE UNCHANGED <<held, told>>
    BY <2>1, <2>2
  <2>3. ASSUME NEW b \in BOOLEAN, Settle(c, b)
        PROVE  /\ told' \subseteq told \cup {held[c]}
               /\ \A d \in Consumer : held'[d] \in {held[d], NoLease}
    BY <1>1, <2>3, SettleType DEF SInv
  <2> QED
    BY <1>1, <2>1, <2>2, <2>3
\* The last record is kept, or it is the lease of c, closed.
<1>5. \/ Tip(e)' = Tip(e)
      \/ /\ Tip(e).type = "LeaseGranted"
         /\ Tip(e)'.generation = Tip(e).generation
         /\ Tip(e)'.token = Tip(e).token
  <2>1. ASSUME HoldsLease(held[c])
        PROVE  /\ Tip(e).type = "LeaseGranted"
               /\ Tip(e).generation = held[c].generation
               /\ Tip(e).token = held[c].token
    BY <1>0, <2>1 DEF HoldsLease, Tip
  <2>2. ASSUME NEW type, Tip(e)' = Closing(c, type)
        PROVE  /\ Tip(e)'.generation = held[c].generation
               /\ Tip(e)'.token = held[c].token
    BY <2>2 DEF Closing
  <2> QED
    BY <1>1, <2>1, <2>2
<1>6. FloorInSync'
  BY <1>1 DEF SInv, FloorInSync
<1>7. FencesAgree'
  <2>1. ASSUME NEW d \in Consumer
        PROVE  Fenced(held'[d])
    <3>1. CASE held'[d] = NoLease
      BY <3>1 DEF Fenced
    <3>2. CASE held'[d] = held[d] /\ held[d] # NoLease
      <4>1. PICK x : x = held[d].event
        OBVIOUS
      <4>2. x \in Event /\ (x < floorFile \/ Agrees(held[d], Tip(x)))
        BY <3>2, <4>1, FencesUnfolded DEF SInv, Claim
      <4>3. x < floorFile \/ Agrees(held[d], Tip(x)')
        BY <1>1, <1>5, <4>2 DEF Agrees
      <4> QED
        BY <1>1, <3>2, <4>1, <4>2, <4>3 DEF Fenced
    <3> QED
      BY <1>4, <3>1, <3>2
  <2> QED
    BY <2>1, FencesAfter
<1>8. ASSUME NEW p \in told'
      PROVE  p.event < floorFile \/ AcceptedBy(p)'
  <2>1. CASE p \in told
    <3>1. p.event \in Event /\ (p.event < floorFile \/ AcceptedBy(p))
      BY <1>4, <2>1 DEF SInv, ToldIsOnRecord, Claim
    <3>2. p.event = e => Tip(e)' = Tip(e) \/ p.event < floorFile
      BY <1>5, <3>1 DEF AcceptedBy, Accepted
    <3>3. p.event < floorFile \/ (Tip(p.event)' = Tip(p.event) /\ AcceptedBy(p))
      BY <1>1, <3>1, <3>2
    <3> QED
      BY <3>3 DEF AcceptedBy, Accepted
  <2>2. CASE p \notin told
    <3>1. p = held[c] /\ p.event = e
      BY <1>0, <1>4, <2>2
    <3>2. \/ Tip(e)' = Tip(e) /\ AcceptedBy(p)
          \/ HoldsLease(p) /\ Tip(e)' = Closing(c, "Accepted")
      BY <1>1, <2>2, <3>1 DEF Settle
    <3>3. CASE Tip(e)' = Tip(e) /\ AcceptedBy(p)
      BY <3>1, <3>3 DEF AcceptedBy, Accepted
    <3>4. CASE HoldsLease(p) /\ Tip(e)' = Closing(c, "Accepted")
      BY <3>1, <3>4 DEF AcceptedBy, Accepted, Closing
    <3> QED
      BY <3>2, <3>3, <3>4
  <2> QED
    BY <2>1, <2>2
<1>9. ToldIsOnRecord'
  BY <1>1, <1>8 DEF ToldIsOnRecord
<1>10. AcceptedOnce'
  <2>1. ASSUME NEW p \in told', NEW q \in told', p.event = q.event
        PROVE  p = q
    <3>1. p \in Claim /\ q \in Claim
      BY <1>1, <1>4
    <3>2. CASE p \in told /\ q \in told
      BY <2>1, <3>2 DEF SInv, AcceptedOnce
    <3>3. CASE p.event = e
      <4>0. ~(p.event < floorFile) /\ ~(q.event < floorFile)
        BY <1>3, <2>1, <3>3
      <4>1. AcceptedBy(p)' /\ AcceptedBy(q)'
        BY <1>8, <4>0
      <4>2. p.generation = q.generation /\ p.token = q.token
        BY <2>1, <4>1 DEF AcceptedBy
      <4> QED
        BY <2>1, <3>1, <4>2 DEF Claim
    <3> QED
      BY <1>0, <1>4, <2>1, <3>2, <3>3
  <2> QED
    BY <2>1 DEF AcceptedOnce
<1> QED
  BY <1>2, <1>6, <1>7, <1>9, <1>10 DEF SInv

\* A higher floor retires events and disturbs no other.
LEMMA RetireStep ==
    ASSUME IInv,
           \/ \E f \in Event : AdvanceRetainedFloor(f)
           \/ Start
    PROVE  /\ floorFile \in Nat /\ floorFile' \in Nat /\ floorFile' >= floorFile
           /\ \A x \in Event : x >= floorFile' => Tip(x)' = Tip(x)
           /\ FloorInSync => FloorInSync'
           /\ UNCHANGED <<minted, held, told, clock>>
<1>0. floorFile \in Nat /\ \A x \in Event : x \in Nat
  BY JournalConstants DEF IInv, TypeOK
<1>1. ASSUME NEW f \in Nat, NEW S \in SUBSET BelowFloor(f), file' = Removed(S)
      PROVE  \A x \in Event : x >= f => Tip(x)' = Tip(x)
  <2>1. \A x \in Event : x >= f => x \notin S
    BY <1>0 DEF BelowFloor
  <2> QED
    BY <1>1, <2>1, RemoveStep
<1>2. UNCHANGED file => \A x \in Event : Tip(x)' = Tip(x)
  BY DEF Tip
<1>3. ASSUME NEW f \in Event, AdvanceRetainedFloor(f)
      PROVE  /\ floorFile' \in Nat /\ floorFile' >= floorFile
             /\ \A x \in Event : x >= floorFile' => Tip(x)' = Tip(x)
             /\ FloorInSync'
             /\ UNCHANGED <<minted, held, told, clock>>
  <2>1. CASE /\ floorFile' \in {floorFile, f}
             /\ degraded' = TRUE
             /\ UNCHANGED <<file, retainedFloor>>
    BY <1>0, <1>2, <1>3, <2>1 DEF AdvanceRetainedFloor, FloorInSync
  <2>2. CASE /\ floorFile' = f
             /\ retainedFloor' = f
             /\ \E S \in SUBSET BelowFloor(f) : file' = Removed(S)
    BY <1>0, <1>1, <1>3, <2>2 DEF AdvanceRetainedFloor, FloorInSync
  <2> QED
    BY <1>3, <2>1, <2>2 DEF AdvanceRetainedFloor
<1>4. ASSUME Start
      PROVE  /\ floorFile' \in Nat /\ floorFile' >= floorFile
             /\ \A x \in Event : x >= floorFile' => Tip(x)' = Tip(x)
             /\ FloorInSync'
             /\ UNCHANGED <<minted, held, told, clock>>
  <2>1. PICK f \in {floorFile} \cup {e \in Event : e > floorFile} :
          /\ floorFile' = f
          /\ \/ /\ retainedFloor' = f
                /\ file' = Removed(BelowFloor(f))
             \/ /\ \E S \in SUBSET BelowFloor(f) : file' = Removed(S)
                /\ UNCHANGED memory
    BY <1>4 DEF Start
  <2>2. f \in Nat /\ f >= floorFile
    BY <1>0
  <2>3. \E S \in SUBSET BelowFloor(f) : file' = Removed(S)
    BY <2>1
  <2>4. FloorInSync'
    BY <1>4, <2>1 DEF Start, memory, FloorInSync
  <2> QED
    BY <1>1, <1>4, <2>1, <2>2, <2>3, <2>4 DEF Start
<1> QED
  BY <1>0, <1>3, <1>4

\* A higher floor takes the guarantees of retired events away, no others.
LEMMA RetireSafe ==
    ASSUME SInv,
           \/ \E f \in Event : AdvanceRetainedFloor(f)
           \/ Start
    PROVE  SInv'
<1>1. /\ floorFile \in Nat /\ floorFile' \in Nat /\ floorFile' >= floorFile
      /\ \A x \in Event : x >= floorFile' => Tip(x)' = Tip(x)
      /\ FloorInSync'
      /\ UNCHANGED <<minted, held, told, clock>>
  BY RetireStep DEF SInv
<1>2. IInv' /\ \A x \in Event : x \in Nat
  BY StepInvariant, JournalConstants DEF SInv, Next
<1>3. AcceptedOnce'
  BY <1>1 DEF SInv, AcceptedOnce
<1>4. ASSUME NEW p \in told'
      PROVE  p.event < floorFile' \/ AcceptedBy(p)'
  <2>1. p.event \in Event /\ (p.event < floorFile \/ AcceptedBy(p))
    BY <1>1 DEF SInv, ToldIsOnRecord, IInv, TypeOK, Claim
  <2>2. p.event < floorFile' \/ (Tip(p.event)' = Tip(p.event) /\ AcceptedBy(p))
    BY <1>1, <1>2, <2>1
  <2> QED
    BY <2>2 DEF AcceptedBy, Accepted
<1>5. ToldIsOnRecord'
  BY <1>4 DEF ToldIsOnRecord
<1>6. ASSUME NEW d \in Consumer
      PROVE  Fenced(held'[d])
  <2>1. CASE held[d] = NoLease
    BY <1>1, <2>1 DEF Fenced
  <2>2. CASE held[d] # NoLease
    <3>1. PICK x : x = held[d].event
      OBVIOUS
    <3>2. x \in Event /\ (x < floorFile \/ Agrees(held[d], Tip(x)))
      BY <2>2, <3>1, FencesUnfolded DEF SInv, Claim
    <3>3. x < floorFile' \/ Agrees(held[d], Tip(x)')
      BY <1>1, <1>2, <3>2 DEF Agrees
    <3> QED
      BY <1>1, <3>1, <3>2, <3>3 DEF Fenced
  <2> QED
    BY <2>1, <2>2
<1>7. FencesAgree'
  BY <1>6, FencesAfter
<1> QED
  BY <1>1, <1>2, <1>3, <1>5, <1>7 DEF SInv

\* Steps that leave the journals alone and hand out nothing.
LEMMA QuietStep ==
    ASSUME Quiet \/ \E c \in Consumer : ConsumerGone(c)
    PROVE  /\ UNCHANGED <<file, floorFile, told>>
           /\ FloorInSync => FloorInSync'
           /\ \A d \in Consumer : held'[d] \in {held[d], NoLease}
<1>1. CASE Quiet
  BY <1>1 DEF Quiet, OutboxFails, DaemonCrash, Tick, ClockSetBack, vars, disk, memory, FloorInSync
<1>2. ASSUME NEW c \in Consumer, ConsumerGone(c)
      PROVE  /\ UNCHANGED <<file, floorFile, told>>
             /\ FloorInSync => FloorInSync'
             /\ \A d \in Consumer : held'[d] \in {held[d], NoLease}
  BY <1>2 DEF ConsumerGone, disk, memory, FloorInSync
<1> QED
  BY <1>1, <1>2

\* Time, crashes of the daemon and consumers that give up break nothing.
LEMMA QuietSafe ==
    ASSUME SInv, Quiet \/ \E c \in Consumer : ConsumerGone(c)
    PROVE  SInv'
<1>1. /\ UNCHANGED <<file, floorFile, told>>
      /\ FloorInSync'
      /\ \A d \in Consumer : held'[d] \in {held[d], NoLease}
  BY QuietStep DEF SInv
<1>2. IInv'
  BY StepInvariant DEF SInv, Next, Quiet
<1>3. AcceptedOnce' /\ ToldIsOnRecord'
  BY <1>1 DEF SInv, AcceptedOnce, ToldIsOnRecord, AcceptedBy, Accepted, Tip
<1>4. ASSUME NEW d \in Consumer
      PROVE  Fenced(held'[d])
  <2>1. CASE held'[d] = NoLease
    BY <2>1 DEF Fenced
  <2>2. CASE held'[d] # NoLease /\ held'[d] = held[d]
    <3>1. PICK x : x = held[d].event
      OBVIOUS
    <3>2. x \in Event /\ (x < floorFile \/ Agrees(held[d], Tip(x)))
      BY <2>2, <3>1, FencesUnfolded DEF SInv, Claim
    <3>3. x < floorFile' \/ Agrees(held[d], Tip(x)')
      BY <1>1, <3>2 DEF Tip
    <3> QED
      BY <2>2, <3>1, <3>2, <3>3 DEF Fenced
  <2> QED
    BY <1>1, <2>1, <2>2
<1>5. FencesAgree'
  BY <1>4, FencesAfter
<1> QED
  BY <1>1, <1>2, <1>3, <1>5 DEF SInv

\* Every step but a power loss keeps the guarantees.
LEMMA StepSafe ==
    ASSUME ~HostCrashes
    PROVE  SInv /\ [Next]_vars => SInv'
  BY BeginSafe, ReportSafe, RetireSafe, QuietSafe DEF Next, Quiet, HostCrash

\* The guarantees to consumers hold together on a machine that keeps its power.
THEOREM Guarantees ==
    ASSUME ~HostCrashes
    PROVE  Spec => []SInv
  BY InitInvariant, StepSafe, PTL DEF Spec

\* At most one consumer is ever told that it delivered an event.
THEOREM DeliveredOnce ==
    ASSUME ~HostCrashes
    PROVE  Spec => []AcceptedOnce
  BY Guarantees, PTL DEF SInv

\* What a consumer was told stays on record while the event is retained.
THEOREM ConfirmedStays ==
    ASSUME ~HostCrashes
    PROVE  Spec => []ToldIsOnRecord
  BY Guarantees, PTL DEF SInv

\* Without power losses a confirmed delivery is the only one of its event, and
\* stays on record while the event is retained.
THEOREM DeliveriesStand ==
    ASSUME ~HostCrashes
    PROVE  Spec => []DeliveriesHold
  BY DeliveredOnce, ConfirmedStays, PTL DEF DeliveriesHold

\* Generations never roll back behind the holder of a lease.
THEOREM GenerationsHold ==
    ASSUME ~HostCrashes
    PROVE  Spec => []FencesAgree
  BY Guarantees, PTL DEF SInv

-----------------------------------------------------------------------------
(* What a step never does *)

\* The step behind LeasesHonoured.
LEMMA StepHonoursLeases ==
    ASSUME ~HostCrashes, SInv, [Next]_vars, NEW e \in Event,
           LeaseLive(e, clock), e >= floorFile'
    PROVE  \/ Tip(e)' = Tip(e)
           \/ /\ Tip(e)'.type \in {"Accepted", "Abandoned"}
              /\ Tip(e)'.token = Tip(e).token
<1>1. ASSUME NEW c \in Consumer, NEW x \in Event, Begin(c, x)
      PROVE  Tip(e)' = Tip(e)
  <2>1. x # e
    BY <1>1 DEF Begin, Leasable
  <2> QED
    BY <1>1, <2>1, BeginStep DEF SInv
<1>2. ASSUME NEW c \in Consumer, Accept(c) \/ Abandon(c)
      PROVE  \/ Tip(e)' = Tip(e)
             \/ /\ Tip(e)'.type \in {"Accepted", "Abandoned"}
                /\ Tip(e)'.token = Tip(e).token
  <2>1. PICK x : x = held[c].event
    OBVIOUS
  <2>2. /\ x # e => Tip(e)' = Tip(e)
        /\ \/ Tip(x)' = Tip(x)
           \/ /\ HoldsLease(held[c])
              /\ Tip(x)' \in {Closing(c, "Accepted"), Closing(c, "Abandoned")}
    BY <1>2, <2>1, ReportStep DEF SInv
  <2>3. HoldsLease(held[c]) => Tip(x).token = held[c].token
    BY <2>1 DEF HoldsLease, Tip
  <2> QED
    BY <2>2, <2>3 DEF Closing
<1>3. CASE (\E f \in Event : AdvanceRetainedFloor(f)) \/ Start
  BY <1>3, RetireStep DEF SInv
<1>4. CASE Quiet \/ \E c \in Consumer : ConsumerGone(c)
  BY <1>4, QuietStep DEF Tip
<1> QED
  BY <1>1, <1>2, <1>3, <1>4 DEF Next, Quiet, HostCrash

\* A lease that has not lapsed ends only by its own accept or abandon, or with
\* its event leaving the retained window.
THEOREM LeasesHonoured ==
    ASSUME ~HostCrashes
    PROVE  Spec => LiveLeaseHonoured
<1>1. SInv /\ [Next]_vars =>
        [\A e \in Event :
            LeaseLive(e, clock) /\ e >= floorFile' =>
                \/ Tip(e)' = Tip(e)
                \/ /\ Tip(e)'.type \in {"Accepted", "Abandoned"}
                   /\ Tip(e)'.token = Tip(e).token]_vars
  BY StepHonoursLeases
<1> QED
  BY <1>1, Guarantees, PTL DEF Spec, LiveLeaseHonoured

\* The step behind FloorFinal: whatever is served lies above the floor.
LEMMA StepKeepsFloor ==
    ASSUME ~HostCrashes, SInv, [Next]_vars, NEW e \in Event, e < floorFile
    PROVE  /\ \A p \in told' \ told : p.event # e
           /\ \A c \in Consumer : held'[c] \notin {held[c], NoLease} => held'[c].event # e
<1>0. held \in [Consumer -> Claim \cup {NoLease}]
  BY DEF SInv, IInv, TypeOK
<1>1. ASSUME NEW c \in Consumer, NEW x \in Event, Begin(c, x)
      PROVE  /\ told' = told
             /\ \A d \in Consumer : held'[d] \notin {held[d], NoLease} => held'[d].event # e
  <2>1. x >= floorFile /\ x \in Nat /\ floorFile \in Nat /\ e \in Nat
    BY <1>1, ServedIsRetained, JournalConstants DEF SInv, Begin
  <2>2. /\ told' = told
        /\ \/ UNCHANGED held
           \/ \E now \in Int : HandOver(c, x, NewLease(x, now))
    BY <1>1, BeginStep DEF SInv
  <2>3. ASSUME NEW d \in Consumer, held'[d] # held[d]
        PROVE  held'[d].event = x
    BY <1>0, <2>2, <2>3 DEF HandOver
  <2> QED
    BY <2>1, <2>2, <2>3
<1>2. ASSUME NEW c \in Consumer, Accept(c) \/ Abandon(c)
      PROVE  /\ \A p \in told' \ told : p.event # e
             /\ \A d \in Consumer : held'[d] \in {held[d], NoLease}
  <2>1. PICK x : x = held[c].event
    OBVIOUS
  <2>2. /\ held[c] \in Claim /\ x \in Event /\ Serves(x)
        /\ \/ UNCHANGED <<held, told>>
           \/ \E b \in BOOLEAN : Settle(c, b)
    BY <1>2, <2>1, ReportStep DEF SInv
  <2>3. x >= floorFile /\ x \in Nat /\ floorFile \in Nat /\ e \in Nat
    BY <2>2, ServedIsRetained, JournalConstants DEF SInv
  <2>4. /\ told' \subseteq told \cup {held[c]}
        /\ \A d \in Consumer : held'[d] \in {held[d], NoLease}
    BY <2>2, SettleType DEF SInv
  <2> QED
    BY <2>1, <2>3, <2>4
<1>3. CASE (\E f \in Event : AdvanceRetainedFloor(f)) \/ Start
  BY <1>3, RetireStep DEF SInv
<1>4. CASE Quiet \/ \E c \in Consumer : ConsumerGone(c)
  BY <1>4, QuietStep
<1> QED
  BY <1>1, <1>2, <1>3, <1>4 DEF Next, Quiet, HostCrash

\* No event below the floor on disk is handed out or confirmed any more.
THEOREM FloorFinal ==
    ASSUME ~HostCrashes
    PROVE  Spec => FloorIsFinal
<1>1. SInv /\ [Next]_vars =>
        [\A e \in Event : e < floorFile =>
            /\ \A p \in told' \ told : p.event # e
            /\ \A c \in Consumer : held'[c] \notin {held[c], NoLease} => held'[c].event # e]_vars
  BY StepKeepsFloor
<1> QED
  BY <1>1, Guarantees, PTL DEF Spec, FloorIsFinal

-----------------------------------------------------------------------------
(* The refinement *)

\* The register as the journals show it.
Generation == [e \in Event |-> IF e < floorFile THEN 0 ELSE Tip(e).generation]
Winner == [e \in Event |-> IF e >= floorFile /\ Accepted(e) THEN Tip(e).generation ELSE 0]

\* A lease on record has a generation to win with.
LEMMA LeaseGenerations ==
    ASSUME IInv, NEW e \in Event, Tip(e).type = "LeaseGranted"
    PROVE  Tip(e).generation > 0
<1> DEFINE s == file[e].records
<1>1. s \in Seq(Record) /\ Replayable(s)
  BY DEF IInv, TypeOK, JournalsReplay, Journal
<1>2. Tip(e) = Last(s)
  BY DEF Tip
<1> HIDE DEF s
<1>3. Len(s) \in Nat /\ Len(s) # 0 /\ Len(s) \in DOMAIN s
  BY <1>1, <1>2 DEF Last, RecordAt, NoRecord
<1>4. Tip(e) = s[Len(s)]
  BY <1>2, <1>3 DEF Last, RecordAt
<1>5. Follows(RecordAt(s, Len(s) - 1), Tip(e))
  BY <1>1, <1>3, <1>4 DEF Replayable
<1>6. RecordAt(s, Len(s) - 1).generation \in Nat
  <2>1. CASE Len(s) - 1 = 0
    BY <2>1 DEF RecordAt, NoRecord
  <2>2. CASE Len(s) - 1 # 0
    <3>1. PICK n \in Nat : n = Len(s) /\ n # 0
      BY <1>3
    <3>2. n - 1 \in 1 .. n
      BY <2>2, <3>1
    <3>3. s[n - 1] \in Record
      BY <1>1, <3>1, <3>2
    <3> QED
      BY <2>2, <3>1, <3>3 DEF RecordAt, Record
  <2> QED
    BY <2>1, <2>2
<1> QED
  BY <1>5, <1>6 DEF Follows

\* Every step is a step of the register or leaves it alone.
LEMMA StepImplements ==
    ASSUME ~HostCrashes, SInv, [Next]_vars
    PROVE  [Register!Next]_(Register!register)
<1>0. /\ \A x \in Event : x \in Nat /\ Tip(x).generation \in Nat
      /\ floorFile \in Nat
  BY JournalsAreSound, JournalConstants DEF SInv, IInv, TypeOK
<1> DEFINE Same == Generation' = Generation /\ Winner' = Winner
                   /\ BelowFloor(floorFile)' = BelowFloor(floorFile)
<1>1. Same \/ Register!Next => [Register!Next]_(Register!register)
  BY DEF Register!register, Generation, Winner
<1>2. ASSUME \A x \in Event : Tip(x)' = Tip(x), floorFile' = floorFile
      PROVE  Same
  BY <1>2 DEF Generation, Winner, Accepted, BelowFloor
<1>3. ASSUME NEW c \in Consumer, NEW e \in Event, Begin(c, e)
      PROVE  Same \/ Register!Next
  <2>1. /\ \A x \in Event : x # e => Tip(x)' = Tip(x)
        /\ \/ Tip(e)' = Tip(e)
           \/ Tip(e)' = Checkpoint(file[e])
           \/ \E now \in Int : Tip(e)' = NewLease(e, now)
        /\ floorFile' = floorFile
    BY <1>3, BeginStep DEF SInv
  <2>2. e >= floorFile /\ ~Accepted(e)
    BY <1>3, ServedIsRetained DEF SInv, Begin, Leasable
  <2>3. /\ Checkpoint(file[e]).generation = Tip(e).generation
        /\ Checkpoint(file[e]).type = "Checkpoint"
    BY DEF Checkpoint, Tip
  <2>4. ~Accepted(e)' => Winner' = Winner
    BY <2>1, <2>2 DEF Winner, Accepted
  <2>5. CASE Tip(e)'.generation = Tip(e).generation /\ ~Accepted(e)'
    <3>1. Generation' = Generation
      BY <2>1, <2>5 DEF Generation
    <3>2. BelowFloor(floorFile)' = BelowFloor(floorFile)
      BY <2>1 DEF BelowFloor
    <3> QED
      BY <2>4, <2>5, <3>1, <3>2
  <2>6. CASE \E now \in Int : Tip(e)' = NewLease(e, now)
    <3>1. Tip(e)'.generation = Tip(e).generation + 1 /\ ~Accepted(e)'
      BY <2>6 DEF NewLease, NextGeneration, Accepted
    <3>2. Generation' = [Generation EXCEPT ![e] = @ + 1]
      <4>1. ASSUME NEW x \in Event
            PROVE  (IF x < floorFile' THEN 0 ELSE Tip(x)'.generation)
                     = (IF x = e THEN Generation[e] + 1 ELSE Generation[x])
        BY <1>0, <2>1, <2>2, <3>1 DEF Generation
      <4> QED
        BY <4>1 DEF Generation
    <3>3. BelowFloor(floorFile)' = BelowFloor(floorFile) /\ e \notin BelowFloor(floorFile)
      BY <1>0, <2>1, <2>2 DEF BelowFloor
    <3>4. Winner[e] = 0
      BY <2>2 DEF Winner
    <3>5. Register!Grant(e)
      BY <2>4, <3>1, <3>2, <3>3, <3>4 DEF Register!Grant, Generation, Winner
    <3> QED
      BY <3>5 DEF Register!Next
  <2> QED
    BY <2>1, <2>2, <2>3, <2>5, <2>6 DEF Accepted
<1>4. ASSUME NEW c \in Consumer, Accept(c) \/ Abandon(c)
      PROVE  Same \/ Register!Next
  <2>1. PICK e : e = held[c].event
    OBVIOUS
  <2>2. /\ e \in Event /\ Serves(e) /\ floorFile' = floorFile
        /\ \A x \in Event : x # e => Tip(x)' = Tip(x)
        /\ \/ Tip(e)' = Tip(e)
           \/ /\ HoldsLease(held[c])
              /\ Tip(e)' \in {Closing(c, "Accepted"), Closing(c, "Abandoned")}
    BY <1>4, <2>1, ReportStep DEF SInv
  <2>3. CASE Tip(e)' = Tip(e)
    BY <1>2, <2>2, <2>3
  <2>4. CASE HoldsLease(held[c]) /\ Tip(e)' \in {Closing(c, "Accepted"), Closing(c, "Abandoned")}
    <3>1. Tip(e).type = "LeaseGranted" /\ Tip(e).generation = held[c].generation
      BY <2>1, <2>4 DEF HoldsLease, Tip
    <3>2. Tip(e)'.generation = Tip(e).generation /\ e >= floorFile /\ Tip(e).generation > 0
      BY <2>2, <2>4, <3>1, ServedIsRetained, LeaseGenerations DEF Closing, SInv
    <3>3. Generation' = Generation /\ BelowFloor(floorFile)' = BelowFloor(floorFile)
      BY <2>2, <3>2 DEF Generation, BelowFloor
    <3>4. Generation[e] = Tip(e).generation /\ Winner[e] = 0 /\ e \notin BelowFloor(floorFile)
      BY <1>0, <2>2, <3>1, <3>2 DEF Generation, Winner, Accepted, BelowFloor
    <3>5. CASE Tip(e)' = Closing(c, "Abandoned")
      <4>1. Winner' = Winner
        BY <2>2, <3>1, <3>5 DEF Winner, Accepted, Closing
      <4> QED
        BY <3>3, <4>1
    <3>6. CASE Tip(e)' = Closing(c, "Accepted")
      <4>1. Accepted(e)'
        BY <3>6 DEF Accepted, Closing
      <4>2. Winner' = [Winner EXCEPT ![e] = Generation[e]]
        BY <2>2, <3>2, <3>4, <4>1 DEF Winner, Accepted
      <4>3. Register!Accept(e)
        BY <3>2, <3>3, <3>4, <4>2 DEF Register!Accept, Generation, Winner
      <4> QED
        BY <2>2, <4>3 DEF Register!Next
    <3> QED
      BY <2>4, <3>5, <3>6
  <2> QED
    BY <2>2, <2>3, <2>4
<1>5. CASE (\E f \in Event : AdvanceRetainedFloor(f)) \/ Start
  <2>1. /\ floorFile' \in Nat /\ floorFile' >= floorFile
        /\ \A x \in Event : x >= floorFile' => Tip(x)' = Tip(x)
    BY <1>5, RetireStep DEF SInv
  <2>0. PICK S : S = {e \in Event : e < floorFile'}
    OBVIOUS
  <2> DEFINE R == BelowFloor(floorFile)
  <2>2. R' = S /\ S = R \cup S /\ S \in SUBSET Event
    BY <1>0, <2>0, <2>1 DEF BelowFloor
  <2>3. Generation' = [e \in Event |-> IF e \in R' THEN 0 ELSE Generation[e]]
    BY <1>0, <2>0, <2>1, <2>2 DEF Generation
  <2>4. Winner' = [e \in Event |-> IF e \in R' THEN 0 ELSE Winner[e]]
    BY <1>0, <2>0, <2>1, <2>2 DEF Winner, Accepted
  <2>5. Register!Retire(S)
    BY <2>2, <2>3, <2>4 DEF Register!Retire, Generation, Winner
  <2>6. S \in SUBSET Event
    BY <2>2
  <2>7. Register!Next
    BY <2>5, <2>6 DEF Register!Next
  <2> QED
    BY <1>1, <2>7
<1>6. CASE Quiet \/ \E c \in Consumer : ConsumerGone(c)
  <2>1. (\A x \in Event : Tip(x)' = Tip(x)) /\ floorFile' = floorFile
    BY <1>6, QuietStep DEF Tip
  <2> QED
    BY <1>1, <1>2, <2>1
<1> QED
  BY <1>1, <1>3, <1>4, <1>5, <1>6 DEF Next, Quiet, HostCrash

\* The journals implement the lease register: torn tails, compactions, failed
\* writes, lost replies and restarts of the daemon add nothing to it.
THEOREM RegisterImplemented ==
    ASSUME ~HostCrashes
    PROVE  Spec => ImplementsRegister
<1>1. Init => Register!Init
  <2> SUFFICES ASSUME Init
               PROVE  Register!Init
    OBVIOUS
  <2>1. floorFile = 0 /\ \A e \in Event : e \in Nat /\ Tip(e) = NoRecord
    BY JournalConstants DEF Init, Tip, Last, RecordAt, NoFile
  <2>2. Generation = [e \in Event |-> 0] /\ Winner = [e \in Event |-> 0]
    BY <2>1 DEF Generation, Winner, Accepted, NoRecord
  <2>3. BelowFloor(floorFile) = {}
    BY <2>1 DEF BelowFloor
  <2> QED
    BY <2>2, <2>3 DEF Register!Init, Generation, Winner
<1>2. SInv /\ [Next]_vars => [Register!Next]_(Register!register)
  BY StepImplements
<1> QED
  BY <1>1, <1>2, Guarantees, PTL DEF Spec, ImplementsRegister, Register!Spec

=============================================================================

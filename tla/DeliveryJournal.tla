-------------------------- MODULE DeliveryJournal ---------------------------
(***************************************************************************)
(* The durable delivery leases of the cron outbox (delivery.rs), as the    *)
(* daemon's serial actor drives them: one append-only journal per event, a *)
(* retained floor below which events are fenced for ever, and the          *)
(* consumers that ask to deliver an event and report that they did.        *)
(*                                                                         *)
(* The actor is alone on these files, so a handler is one action; every    *)
(* point where one of its file operations can fail is an outcome of that   *)
(* action, and a crash inside a handler is such an outcome followed by     *)
(* DaemonCrash.  HostCrash loses what was not synced: it is only possible  *)
(* in instances that set HostCrashes.                                      *)
(***************************************************************************)
EXTENDS Integers, Sequences, FiniteSets

CONSTANTS
    Event,           \* event ids of one ledger epoch
    Consumer,        \* consumers of cron.delivery_begin
    NoLease,         \* a consumer that holds no lease
    Lease,           \* DELIVERY_LEASE_MS
    CompactAt,       \* JOURNAL_COMPACT_TRANSITIONS (or _BYTES, in transitions)
    ClockStepsBack,  \* whether the wall clock may be set back
    HostCrashes,     \* whether the machine may lose power
    MaxGrants,       \* bound: leases granted in all
    MaxClock         \* bound: the clock

ASSUME JournalConstants ==
    /\ Event \subseteq Nat \ {0}
    /\ Lease \in Nat \ {0}
    /\ CompactAt \in Nat \ {0}
    /\ ClockStepsBack \in BOOLEAN
    /\ HostCrashes \in BOOLEAN
    /\ MaxGrants \in Nat
    /\ MaxClock \in Nat

VARIABLES
    file,           \* the journal of each event
    floorFile,      \* retained_floor.json, 0 when there is none
    up,             \* the daemon serves
    retainedFloor,  \* DeliveryJournalStore.retained_floor
    degraded,       \* the actor's delivery_degraded_reason is set
    minted,         \* lease tokens minted so far; the next one is minted + 1
    held,           \* the lease each consumer was handed
    told,           \* the accepted replies consumers received
    clock

disk == <<file, floorFile>>
memory == <<up, retainedFloor, degraded>>
vars == <<file, floorFile, up, retainedFloor, degraded, minted, held, told, clock>>

Transition == {"Checkpoint", "LeaseGranted", "Accepted", "Abandoned"}
Record == [type : Transition, generation : Nat, token : Nat, expires : Int]
NoRecord == [type |-> "None", generation |-> 0, token |-> 0, expires |-> 0]

\* A journal file: its complete records, whether an unfinished line follows
\* them, how many records are synced, whether the directory durably names this
\* file, and if not, the records a power loss brings back in its place.
Journal == [exists : BOOLEAN, records : Seq(Record), torn : BOOLEAN,
            synced : Nat, linked : BOOLEAN, old : Seq(Record)]
NoFile == [exists |-> FALSE, records |-> <<>>, torn |-> FALSE,
           synced |-> 0, linked |-> TRUE, old |-> <<>>]

Init ==
    /\ file = [e \in Event |-> NoFile]
    /\ floorFile = 0
    /\ up = TRUE
    /\ retainedFloor = 0
    /\ degraded = FALSE
    /\ minted = 0
    /\ held = [c \in Consumer |-> NoLease]
    /\ told = {}
    /\ clock = 0

-----------------------------------------------------------------------------
(* Reading a journal: load_state ignores a torn tail and replays the rest.  *)

\* apply_replayed_transition: whether r may come after p, NoRecord for nothing.
Follows(p, r) ==
    \/ r.type = "Checkpoint" /\ p = NoRecord /\ r.generation # 0
    \/ r.type = "LeaseGranted" /\ p.type # "Accepted" /\ r.generation = p.generation + 1
    \/ /\ r.type \in {"Accepted", "Abandoned"}
       /\ p.type = "LeaseGranted"
       /\ r.generation = p.generation /\ r.token = p.token

RecordAt(s, i) == IF i = 0 THEN NoRecord ELSE s[i]

\* Otherwise load_state fails with CorruptState and the handler with it.
Replayable(s) == \A i \in DOMAIN s : Follows(RecordAt(s, i - 1), s[i])

\* Replaying a legal journal ends in the state its last record stands for.
Last(s) == RecordAt(s, Len(s))
Tip(e) == Last(file[e].records)

Accepted(e) == Tip(e).type = "Accepted"

LeaseLive(e, now) == Tip(e).type = "LeaseGranted" /\ Tip(e).expires > now

HoldsLease(l) ==
    /\ Tip(l.event).type = "LeaseGranted"
    /\ Tip(l.event).generation = l.generation
    /\ Tip(l.event).token = l.token

-----------------------------------------------------------------------------
(* Writing a journal                                                        *)

\* Mutant: the torn tail stays where it is and swallows the next record.
OpenedKeepingTail(f) == [f EXCEPT !.exists = TRUE, !.linked = f.exists /\ @]

\* append_transition opens the file, creating it, and cuts off a torn tail.
Opened(f) == [f EXCEPT !.exists = TRUE, !.linked = f.exists /\ @, !.torn = FALSE,
                       !.synced = IF f.torn THEN Len(f.records) ELSE @]

\* A line written behind a torn tail completes it to one corrupt line.
Written(f, r) ==
    [f EXCEPT !.records = Append(@, IF f.torn THEN NoRecord ELSE r), !.torn = FALSE]

Synced(f) == [f EXCEPT !.synced = Len(f.records)]

\* Where the machine cannot lose power, what is synced makes no difference.
Seen(f) == IF HostCrashes THEN f ELSE [Synced(f) EXCEPT !.linked = TRUE, !.old = <<>>]

\* What an append that failed leaves: an error is no proof that the record
\* is not there, it may be complete and even synced.
AppendFailed(f, r) ==
    {f, Seen(Opened(f)), Seen([Opened(f) EXCEPT !.torn = TRUE]),
     Seen(Written(Opened(f), r)), Seen(Synced(Written(Opened(f), r)))}

\* Syncing the directory publishes every file of it.
SyncDirectory(fs) == [e \in DOMAIN fs |-> [fs[e] EXCEPT !.linked = TRUE, !.old = <<>>]]

\* An append syncs the directory before it opens the file (ensure_private_directory),
\* and once more when it has created it.
Appended(fs, e, r) == SyncDirectory([fs EXCEPT ![e] = Synced(Written(Opened(@), r))])

\* The record sequences a power loss may leave of a journal.
Durable(f) ==
    (IF f.linked THEN {} ELSE {f.old}) \cup
        {SubSeq(f.records, 1, n) : n \in f.synced .. Len(f.records)}

\* Mutant: the checkpoint starts the generations anew.
CheckpointOfNothing(f) ==
    [type |-> "Checkpoint", generation |-> 1, token |-> 0, expires |-> 0]

Checkpoint(f) ==
    [type |-> "Checkpoint", generation |-> Last(f.records).generation, token |-> 0,
     expires |-> 0]

\* replace_journal_with_checkpoint: a synced temporary file is renamed over the
\* journal; until the directory is synced a power loss brings the old one back.
Replaced(f, before) ==
    [exists |-> TRUE, records |-> <<Checkpoint(f)>>, torn |-> FALSE, synced |-> 1,
     linked |-> FALSE, old |-> before]

Compacted(fs, e) == SyncDirectory([fs EXCEPT ![e] = Replaced(@, <<>>)])

CompactionFailed(f) == {f} \cup {Seen(Replaced(f, before)) : before \in Durable(f)}

-----------------------------------------------------------------------------
(* The handlers of the actor                                                *)

\* Mutant: the actor forgets that the store is degraded.
ServesDegraded(e) ==
    /\ up
    /\ e >= retainedFloor
    /\ Replayable(file[e].records)

\* Delivery requests are refused while degraded and below the retained floor.
Serves(e) ==
    /\ up
    /\ ~degraded
    /\ e >= retainedFloor
    /\ Replayable(file[e].records)

NeedsCompaction(f) ==
    /\ Last(f.records).generation # 0
    /\ Len(f.records) >= CompactAt

\* The clock is read again after the compaction, which takes time.
LaterClock ==
    {clock} \cup (IF clock < MaxClock THEN {clock + 1} ELSE {}) \cup (IF ClockStepsBack /\ clock > 0 THEN {clock - 1} ELSE {})

\* A compaction below a lease that came back to life is refused.
CompactionRefused(e, now) == NeedsCompaction(file[e]) /\ LeaseLive(e, now)

\* Mutant: the generation is not advanced past an abandoned lease.
NextGenerationAfter(p) == IF p.type = "Abandoned" THEN p.generation ELSE p.generation + 1

NextGeneration(p) == p.generation + 1

NewLease(e, now) ==
    [type |-> "LeaseGranted", generation |-> NextGeneration(Tip(e)), token |-> minted + 1,
     expires |-> now + Lease]

\* The lease is on record before c learns of it, if the reply arrives at all.
HandOver(c, e, r) ==
    \/ held' = [held EXCEPT ![c] = [event |-> e, generation |-> r.generation,
                                    token |-> r.token]]
    \/ UNCHANGED held

\* Mutant: an accepted event may be leased again once its lease has lapsed.
LeasableAccepted(e) == ~LeaseLive(e, clock)

\* Mutant: a live lease may be taken over.
LeasableLive(e) == ~Accepted(e)

Leasable(e) == ~Accepted(e) /\ ~LeaseLive(e, clock)

\* begin, where it does not answer accepted or busy: the journal is compacted
\* if it is long, and the next generation leased.
Begin(c, e) ==
    /\ held[c] = NoLease
    /\ Serves(e)
    /\ Leasable(e)
    /\ minted < MaxGrants
    /\ \E now \in LaterClock :
         /\ clock' = now
         /\ ~CompactionRefused(e, now)
         /\ LET ready == IF NeedsCompaction(file[e]) THEN Compacted(file, e) ELSE file
                r == NewLease(e, now)
            IN \/ /\ NeedsCompaction(file[e])
                  /\ \E f \in CompactionFailed(file[e]) : file' = [file EXCEPT ![e] = f]
                  /\ UNCHANGED <<minted, held>>
               \/ /\ \E f \in AppendFailed(ready[e], r) : file' = [ready EXCEPT ![e] = f]
                  /\ minted' = minted + 1
                  /\ UNCHANGED held
               \/ /\ file' = Appended(ready, e, r)
                  /\ minted' = minted + 1
                  /\ HandOver(c, e, r)
    /\ UNCHANGED <<floorFile, memory, told>>

\* The reply to c's last request on its lease arrives, or it is lost and c
\* may repeat the request.
Settle(c, accepted) ==
    \/ /\ held' = [held EXCEPT ![c] = NoLease]
       /\ told' = IF accepted THEN told \cup {held[c]} ELSE told
    \/ UNCHANGED <<held, told>>

Acceptable(l) == HoldsLease(l) /\ LeaseLive(l.event, clock)

AcceptedBy(l) ==
    /\ Accepted(l.event)
    /\ Tip(l.event).generation = l.generation
    /\ Tip(l.event).token = l.token

\* Append the closing record of the lease of c, which may fail.
Close(c, type) ==
    LET e == held[c].event
        r == [type |-> type, generation |-> held[c].generation, token |-> held[c].token,
              expires |-> 0]
    IN \/ /\ \E f \in AppendFailed(file[e], r) : file' = [file EXCEPT ![e] = f]
          /\ UNCHANGED <<held, told>>
       \/ /\ file' = Appended(file, e, r)
          /\ Settle(c, type = "Accepted")

\* accept: repeating the accept that won is answered like the first time,
\* without writing; any other accept but that of the live lease is fenced.
Accept(c) ==
    /\ held[c] # NoLease
    /\ Serves(held[c].event)
    /\ \/ /\ AcceptedBy(held[c])
          /\ Settle(c, TRUE)
          /\ UNCHANGED file
       \/ /\ Acceptable(held[c])
          /\ Close(c, "Accepted")
       \/ /\ ~AcceptedBy(held[c]) /\ ~Acceptable(held[c])
          /\ Settle(c, FALSE)
          /\ UNCHANGED file
    /\ UNCHANGED <<floorFile, memory, minted, clock>>

\* abandon: does not ask whether the lease has lapsed.
Abandon(c) ==
    /\ held[c] # NoLease
    /\ Serves(held[c].event)
    /\ \/ /\ HoldsLease(held[c])
          /\ Close(c, "Abandoned")
       \/ /\ ~HoldsLease(held[c])
          /\ Settle(c, FALSE)
          /\ UNCHANGED file
    /\ UNCHANGED <<floorFile, memory, minted, clock>>

\* Mutant: the journal is emptied in place.
Emptied(S) == [e \in Event |-> IF e \in S THEN [file[e] EXCEPT !.records = <<>>] ELSE file[e]]

\* cleanup_journals_below_floor, as far as it gets.
Removed(S) == [e \in Event |-> IF e \in S THEN NoFile ELSE file[e]]

BelowFloor(f) == {e \in Event : e < f}

\* advance_retained_floor, called with the oldest id the outbox retains after
\* a rotation: it can fail before or after the floor file is replaced, and
\* between the removals; any failure degrades the actor until it restarts.
AdvanceRetainedFloor(f) ==
    /\ up
    /\ f > retainedFloor
    /\ f >= floorFile
    /\ \/ /\ floorFile' \in {floorFile, f}
          /\ degraded' = TRUE
          /\ UNCHANGED <<file, retainedFloor>>
       \/ /\ floorFile' = f
          /\ retainedFloor' = f
          /\ \E S \in SUBSET BelowFloor(f) :
                /\ file' = Removed(S)
                /\ degraded' \in {degraded \/ S # BelowFloor(f), TRUE}
    /\ UNCHANGED <<up, minted, held, told, clock>>

\* An append to the outbox or a read of it fails: delivery is refused until the
\* daemon restarts, while the floor may still advance with later appends.
OutboxFails ==
    /\ up
    /\ degraded' = TRUE
    /\ UNCHANGED <<disk, up, retainedFloor, minted, held, told, clock>>

-----------------------------------------------------------------------------
(* Crashes, consumers, time                                                 *)

DaemonCrash ==
    /\ up
    /\ up' = FALSE
    /\ UNCHANGED <<file, floorFile, retainedFloor, degraded, minted, held, told, clock>>

\* What a power loss may leave of a journal: durable records, and perhaps an
\* unfinished line or no file at all.
AfterPowerLoss(f) ==
    {g \in [exists : BOOLEAN, records : Durable(f), torn : BOOLEAN,
            synced : {Len(s) : s \in Durable(f)}, linked : {TRUE}, old : {<<>>}] :
        /\ g.synced = Len(g.records)
        /\ g.records # <<>> \/ g.torn => g.exists
        /\ g.exists => f.exists
        /\ f.exists /\ f.linked => g.exists}

\* The machine loses power.  The floor and the removals are taken as durable
\* once they are visible.
HostCrash ==
    /\ HostCrashes
    /\ up' = FALSE
    /\ file' \in {fs \in [Event -> UNION {AfterPowerLoss(file[e]) : e \in Event}] :
                     \A e \in Event : fs[e] \in AfterPowerLoss(file[e])}
    /\ UNCHANGED <<floorFile, retainedFloor, degraded, minted, held, told, clock>>

\* initialize and the first advance_retained_floor: the floor is loaded, the
\* oldest id the outbox retains becomes the floor if it is higher, and what
\* lies below is removed; a failure on the way fails the start.
Start ==
    /\ ~up
    /\ \E f \in {floorFile} \cup {e \in Event : e > floorFile} :
         /\ floorFile' = f
         /\ \/ /\ retainedFloor' = f
               /\ file' = Removed(BelowFloor(f))
               /\ up' = TRUE
               /\ degraded' = FALSE
            \/ /\ \E S \in SUBSET BelowFloor(f) : file' = Removed(S)
               /\ UNCHANGED memory
    /\ UNCHANGED <<minted, held, told, clock>>

\* A consumer dies or gives its lease up without a word.
ConsumerGone(c) ==
    /\ held[c] # NoLease
    /\ held' = [held EXCEPT ![c] = NoLease]
    /\ UNCHANGED <<disk, memory, minted, told, clock>>

Tick ==
    /\ \E e \in Event : LeaseLive(e, clock)
    /\ clock < MaxClock
    /\ clock' = clock + 1
    /\ UNCHANGED <<disk, memory, minted, held, told>>

ClockSetBack ==
    /\ ClockStepsBack
    /\ clock > 0
    /\ clock' = clock - 1
    /\ UNCHANGED <<disk, memory, minted, held, told>>

Next ==
    \/ \E c \in Consumer, e \in Event : Begin(c, e)
    \/ \E c \in Consumer : Accept(c)
    \/ \E c \in Consumer : Abandon(c)
    \/ \E f \in Event : AdvanceRetainedFloor(f)
    \/ OutboxFails
    \/ DaemonCrash
    \/ HostCrash
    \/ Start
    \/ \E c \in Consumer : ConsumerGone(c)
    \/ Tick
    \/ ClockSetBack

Spec == Init /\ [][Next]_vars

-----------------------------------------------------------------------------
(* Properties                                                               *)

Claim == [event : Event, generation : Nat, token : Nat]

TypeOK ==
    /\ file \in [Event -> Journal]
    /\ \A e \in Event :
         /\ file[e].synced <= Len(file[e].records)
         /\ ~file[e].exists => file[e] = NoFile
         /\ file[e].linked => file[e].old = <<>>
    /\ floorFile \in Event \cup {0}
    /\ up \in BOOLEAN
    /\ retainedFloor \in Event \cup {0}
    /\ degraded \in BOOLEAN
    /\ minted \in Nat
    /\ held \in [Consumer -> Claim \cup {NoLease}]
    /\ told \subseteq Claim
    /\ clock \in Int

\* No failed append, compaction or crash leaves a journal the next load_state
\* rejects as corrupt, which would block its event for good.
JournalsReplay == \A e \in Event : Replayable(file[e].records)

\* At most one consumer is ever told that it delivered an event, and under one
\* lease, whatever replies were lost and requests repeated.
AcceptedOnce == \A p, q \in told : p.event = q.event => p = q

\* What a consumer was told stays on record until the event leaves the
\* retained window: the event is not handed out again.
ToldIsOnRecord == \A p \in told : p.event < floorFile \/ AcceptedBy(p)

\* So a delivery, once confirmed, is the only one.
DeliveriesHold == AcceptedOnce /\ ToldIsOnRecord

\* A lease in the hands of a consumer is never ahead of the journal, and no
\* other lease carries its generation: generations do not roll back behind
\* the holder, across restarts and compactions.
FencesAgree ==
    \A c \in Consumer :
        LET l == held[c]
        IN \/ l = NoLease
           \/ l.event < floorFile
           \/ l.generation < Tip(l.event).generation
           \/ /\ l.generation = Tip(l.event).generation
              /\ Tip(l.event).type = "Checkpoint" \/ Tip(l.event).token = l.token

\* A lease that has not lapsed ends only by its own accept or abandon, or with
\* its event leaving the retained window.
LiveLeaseHonoured ==
    [][\A e \in Event :
          LeaseLive(e, clock) /\ e >= floorFile' =>
              \/ Tip(e)' = Tip(e)
              \/ /\ Tip(e)'.type \in {"Accepted", "Abandoned"}
                 /\ Tip(e)'.token = Tip(e).token]_vars

\* Once the floor is on disk, no event below it is handed out or confirmed any
\* more, also while the daemon that failed to finish the advance runs on.
FloorIsFinal ==
    [][\A e \in Event : e < floorFile =>
          /\ \A p \in told' \ told : p.event # e
          /\ \A c \in Consumer : held'[c] \notin {held[c], NoLease} => held'[c].event # e]_vars

Register ==
    INSTANCE DeliveryRegister WITH
        generation <- [e \in Event |-> IF e < floorFile THEN 0 ELSE Tip(e).generation],
        winner <- [e \in Event |-> IF e >= floorFile /\ Accepted(e)
                                   THEN Tip(e).generation ELSE 0],
        retired <- BelowFloor(floorFile)

\* The journals implement the lease register: torn tails, compactions, failed
\* writes, lost replies and restarts add nothing to it.
ImplementsRegister == Register!Spec
=============================================================================

----------------------------- MODULE CronOutbox -----------------------------
(***************************************************************************)
(* The cron outbox (acosmi-scheduler outbox.rs) under the daemon's serial  *)
(* actor (crabcode-cron main.rs): one line per firing in a current file    *)
(* that is rotated into a few older ones, ids that only grow within a      *)
(* ledger epoch, the actor's index of what is retained, and a consumer     *)
(* that reads pages behind a cursor and asks for the right to deliver.     *)
(*                                                                         *)
(* The actor is alone on these files: a handler is one action with an      *)
(* outcome for every point where a file operation may fail, and a crash    *)
(* inside a handler is such an outcome followed by DaemonCrash.            *)
(***************************************************************************)
EXTENDS Integers, FiniteSets

CONSTANTS
    Keep,        \* ROTATE_KEEP
    RotateAt,    \* ROTATE_BYTES, in events
    MaxEventId,  \* MAX_SAFE_EVENT_ID
    MaxFires,    \* bound: firings in all
    MaxEpochs    \* bound: ledger epochs in all

ASSUME OutboxConstants ==
    /\ Keep \in Nat \ {0}
    /\ RotateAt \in Nat \ {0}
    /\ MaxEventId \in Nat \ {0}
    /\ MaxFires \in Nat
    /\ MaxEpochs \in Nat

VARIABLES
    slots,        \* the complete lines of cron_outbox.jsonl (0) and .1, .2, ...
    torn,         \* the current file ends in an unfinished line
    epochFile,    \* cron_outbox.ledger_epoch
    epoch,        \* the epoch in it; the n-th one minted is n
    marker,       \* cron_outbox.ledger_started
    up,           \* the daemon serves
    nextId,       \* the actor's next_event_id, 0 for None
    retained,     \* the actor's retained_events
    degraded,     \* its delivery_degraded_reason
    fires,        \* firings so far; they tell events apart
    cursor,       \* how far the consumer has read, and in which epoch
    seen,         \* the events it was sent, with their epochs
    opened        \* those it went on to deliver

files == <<slots, torn, epochFile, epoch, marker>>
memory == <<up, nextId, retained, degraded>>
consumer == <<cursor, seen, opened>>
vars == <<slots, torn, epochFile, epoch, marker, up, nextId, retained, degraded,
          fires, cursor, seen, opened>>

FileState == {"absent", "cut", "whole"}
Event == [id : 1 .. MaxEventId, fire : Nat]
Slot == 0 .. Keep

Init ==
    /\ slots = [i \in Slot |-> {}]
    /\ torn = FALSE
    /\ epochFile = "absent"
    /\ epoch = 0
    /\ marker = "absent"
    /\ up = FALSE
    /\ nextId = 0
    /\ retained = {}
    /\ degraded = "no"
    /\ fires = 0
    /\ cursor = [epoch |-> 0, id |-> 0]
    /\ seen = {}
    /\ opened = {}

-----------------------------------------------------------------------------
(* Reading the files                                                        *)

WindowOf(s) == UNION {s[i] : i \in Slot}
Window == WindowOf(slots)

\* scan_retained fails when one id names two events.
Unambiguous(S) == \A d, e \in S : d.id = e.id => d = e

NewestId(S) == IF S = {} THEN 0 ELSE CHOOSE n \in {e.id : e \in S} : \A e \in S : e.id <= n

-----------------------------------------------------------------------------
(* Writing the files                                                        *)

\* Mutant: the renames run from the current file to the oldest.
RotatedUpwards(s, k) ==
    [i \in Slot |-> IF i < k THEN {} ELSE IF i = k THEN s[0] ELSE s[i]]

\* The files after the first k renames of rotate: slot Keep - 1 moves onto slot
\* Keep, and so on down to the current file; a slot without a file is passed
\* over, which leaves what lies behind it in place.
Rotated(s, k) ==
    [i \in Slot |->
        IF i < Keep - k \/ k = 0 THEN s[i]
        ELSE IF i = Keep - k THEN {}
        ELSE IF i = Keep /\ s[Keep - 1] = {} THEN s[Keep]
        ELSE s[i - 1]]

NeedsRotation == Cardinality(slots[0]) >= RotateAt
ReadyToWrite == IF NeedsRotation THEN Rotated(slots, Keep) ELSE slots

Added(s, e) == [s EXCEPT ![0] = @ \cup {e}]

\* mark_ledger_started, before anything is written: created, then filled.
MarkStarted ==
    /\ marker # "cut"
    /\ marker' = "whole"

MarkFailed == marker' \in IF marker = "absent" THEN FileState ELSE {marker}

\* append_durable fails at the marker, at the repair of a torn tail, between
\* two renames, or at the write, which may leave the line cut or complete.
AppendFails(e) ==
    \/ /\ MarkFailed
       /\ UNCHANGED <<slots, torn>>
    \/ /\ MarkStarted
       /\ torn' \in {torn, FALSE}
       /\ UNCHANGED slots
    \/ /\ MarkStarted
       /\ NeedsRotation
       /\ torn' = FALSE
       /\ \E k \in 1 .. Keep : slots' = Rotated(slots, k)
    \/ /\ MarkStarted
       /\ \/ torn' = TRUE /\ slots' = ReadyToWrite
          \/ torn' = FALSE /\ slots' = Added(ReadyToWrite, e)

AppendSucceeds(e) ==
    /\ MarkStarted
    /\ torn' = FALSE
    /\ slots' = Added(ReadyToWrite, e)
    /\ NeedsRotation => Unambiguous(WindowOf(slots'))

-----------------------------------------------------------------------------
(* The actor                                                                *)

\* Mutant: the last safe id does not end the space.
AfterIdPastTheEnd(n) == IF n <= MaxEventId THEN n + 1 ELSE 0

\* An id is used up before it is written; the last safe one ends the space.
AfterId(n) == IF n < MaxEventId THEN n + 1 ELSE 0

\* Mutant: the index is extended, and what the rotation evicted stays in it.
IndexedGrowing(e) == retained \cup {e}

\* The index after an append: replaced after a rotation, else extended.
Indexed(e) == IF NeedsRotation THEN WindowOf(slots') ELSE retained \cup {e}

\* CronLedgerCommand::AppendJob, the outbox half.  Only a rotation moves the
\* retained floor, and the delivery store may fail to advance it.
AppendJob ==
    /\ up
    /\ fires < MaxFires
    /\ nextId # 0
    /\ LET e == [id |-> nextId, fire |-> fires + 1]
       IN \/ /\ AppendFails(e)
             /\ degraded' = "outbox"
             /\ UNCHANGED retained
          \/ /\ AppendSucceeds(e)
             /\ retained' = Indexed(e)
             /\ degraded' \in {degraded} \cup (IF NeedsRotation THEN {"store"} ELSE {})
    /\ nextId' = AfterId(nextId)
    /\ fires' = fires + 1
    /\ UNCHANGED <<epochFile, epoch, up, consumer>>

\* CronLedgerCommand::OutboxRead for the consumer's cursor; a consumer that
\* meets another epoch starts over.  A page holds the oldest events only.
After == IF cursor.epoch = epoch THEN cursor.id ELSE 0

Page == {{e \in Window : After < e.id /\ e.id <= n} : n \in {After} \cup {e.id : e \in Window}}

OutboxRead ==
    /\ up
    /\ Unambiguous(Window)
    /\ \E p \in Page :
         /\ cursor' = [epoch |-> epoch, id |-> IF p = {} THEN After ELSE NewestId(p)]
         /\ seen' = seen \cup {[epoch |-> epoch, event |-> e] : e \in p}
    /\ UNCHANGED <<files, memory, fires, opened>>

OutboxReadFails ==
    /\ up
    /\ degraded' = "outbox"
    /\ UNCHANGED <<files, up, nextId, retained, fires, consumer>>

\* Mutant: availability is asked before membership.
MayDeliverUnlessOutbox(e) == degraded = "store" \/ (degraded = "no" /\ e \in retained)

\* The answer to DeliveryBegin allows the consumer to deliver: membership is
\* asked first, then availability.  While the store is degraded the answer is
\* the one error on which consumers go on without a lease.
MayDeliver(e) == e \in retained /\ degraded # "outbox"

\* CronLedgerCommand::DeliveryBegin for an event of any page read so far.
DeliveryBegin ==
    /\ up
    /\ \E s \in seen :
         /\ s \notin opened
         /\ MayDeliver(s.event)
         /\ degraded = "no" => s.epoch = epoch
         /\ opened' = opened \cup {s}
    /\ UNCHANGED <<files, memory, fires, cursor, seen>>

-----------------------------------------------------------------------------
(* Starting, stopping, and a ledger that is deleted                         *)

\* Mutant: only the current file is scanned for the last id.
SeedFromCurrent == NewestId(slots[0]) + 1

\* next_event_id: one more than the newest id retained in any file.
Seed == NewestId(Window) + 1

\* Mutant: a deleted ledger goes on in its epoch.
MustRenewNever == FALSE

\* The epoch began writing and nothing of it is left: ids would start over.
MustRenew == marker = "whole" /\ Seed = 1

\* initialize_ledger_epoch, next_event_id and the first scan of the actor.
Start ==
    /\ ~up
    /\ epochFile # "cut" /\ marker # "cut"
    /\ Unambiguous(Window) /\ NewestId(Window) < MaxEventId
    /\ IF epochFile = "absent" \/ MustRenew
       THEN epoch < MaxEpochs /\ epoch' = epoch + 1
       ELSE UNCHANGED epoch
    /\ epochFile' = "whole"
    /\ marker' = IF MustRenew THEN "absent" ELSE marker
    /\ up' = TRUE
    /\ nextId' = Seed
    /\ retained' = Window
    /\ degraded' = "no"
    /\ UNCHANGED <<slots, torn, fires, consumer>>

\* A start that dies or fails on the way: in the new epoch file, or between
\* the replacement of the epoch and the removal of the marker.
StartFails ==
    /\ ~up
    /\ epoch < MaxEpochs
    /\ \/ /\ epochFile = "absent"
          /\ \/ epochFile' = "cut" /\ UNCHANGED <<epoch, marker>>
             \/ epochFile' = "whole" /\ epoch' = epoch + 1 /\ UNCHANGED marker
       \/ /\ epochFile = "whole" /\ MustRenew
          /\ epoch' = epoch + 1
          /\ marker' \in {marker, "absent"}
          /\ UNCHANGED epochFile
    /\ UNCHANGED <<slots, torn, memory, fires, consumer>>

DaemonCrash ==
    /\ up
    /\ up' = FALSE
    /\ nextId' = 0
    /\ retained' = {}
    /\ degraded' = "no"
    /\ UNCHANGED <<files, fires, consumer>>

\* The outbox files are deleted while the daemon is down, not the epoch's.
LedgerDeleted ==
    /\ ~up
    /\ Window # {}
    /\ slots' = [i \in Slot |-> {}]
    /\ torn' = FALSE
    /\ UNCHANGED <<epochFile, epoch, marker, memory, fires, consumer>>

Next ==
    \/ AppendJob
    \/ OutboxRead
    \/ OutboxReadFails
    \/ DeliveryBegin
    \/ Start
    \/ StartFails
    \/ DaemonCrash
    \/ LedgerDeleted

Spec == Init /\ [][Next]_vars

-----------------------------------------------------------------------------
(* Properties                                                               *)

Sent == [epoch : Nat, event : Event]

TypeOK ==
    /\ slots \in [Slot -> SUBSET Event]
    /\ torn \in BOOLEAN
    /\ epochFile \in FileState /\ marker \in FileState
    /\ epoch \in Nat
    /\ up \in BOOLEAN
    /\ nextId \in 0 .. MaxEventId
    /\ retained \subseteq Event
    /\ degraded \in {"no", "outbox", "store"}
    /\ fires \in Nat
    /\ cursor \in [epoch : Nat, id : 0 .. MaxEventId]
    /\ seen \subseteq Sent /\ opened \subseteq seen

\* Within an epoch an id a consumer has once been sent never comes back as the
\* id of another event, whatever was rotated away, deleted or restarted: the
\* cursors and tombstones it keeps are never about the wrong event.
NeverAliased ==
    \A s \in seen, e \in Window : s.epoch = epoch /\ s.event.id = e.id => s.event = e

\* The cursor never gets ahead of an event that is still retained: everything
\* at or below it was sent.
CursorSkipsNothing ==
    \A e \in Window :
        cursor.epoch = epoch /\ e.id <= cursor.id => [epoch |-> epoch, event |-> e] \in seen

\* The actor's index is what the files hold, unless it refuses every delivery.
IndexIsWindow == up /\ degraded # "outbox" => retained = Window

\* No event that the rotation has evicted is delivered, also not by consumers
\* that go on without a lease because the delivery store failed.
EvictedStayEvicted ==
    [][\A s \in opened' \ opened : s.event \in Window]_vars

Log == INSTANCE OutboxLog WITH File <- RotateAt, log <- Window, serving <- up

\* The rotated files implement a log that only forgets its oldest events, also
\* when a rotation stops between two renames and is started over.
ImplementsLog == Log!Spec
=============================================================================

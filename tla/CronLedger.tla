----------------------------- MODULE CronLedger -----------------------------
(***************************************************************************)
(* The cron occurrence ledger (crate acosmi-cron-ledger) as the daemon's   *)
(* serial writer actor drives it: the tables occurrences, attempts,        *)
(* results and jobs, one action per BEGIN IMMEDIATE transaction, and the   *)
(* consumers that claim work over IPC and report back, perhaps long after  *)
(* their lease lapsed.  A transaction is atomic and durable, so a crash of *)
(* the daemon shows here only as a reply the consumer never receives.      *)
(***************************************************************************)
EXTENDS Integers, Sequences, FiniteSets

CONSTANTS
    Job,                  \* job ids
    Slot,                 \* scheduled_at_ms values
    Target,               \* routing targets (main, isolated, continuation)
    NoTarget,             \* the NULL target of a row imported without envelope
    Consumer,             \* consumers of cron.claim
    Serves,               \* the target each consumer claims for
    LegacyKey,            \* firings the startup import may have put on record
    Lease,                \* CLAIM_LEASE_MS
    DeadLetterThreshold,  \* DEAD_LETTER_THRESHOLD
    ClockStepsBack,       \* whether the wall clock may be set back
    MaxFence              \* bound: how often one occurrence changes hands

Key == Job \X Slot        \* UNIQUE(job_id, scheduled_at_ms)
JobOf(k) == k[1]
ScheduledAt(k) == k[2]

ASSUME LedgerConstants ==
    /\ Slot \subseteq Int
    /\ NoTarget \notin Target
    /\ Serves \in [Consumer -> Target]
    /\ LegacyKey \subseteq Key
    /\ Lease \in Nat \ {0}
    /\ DeadLetterThreshold \in Nat \ {0}
    /\ ClockStepsBack \in BOOLEAN
    /\ MaxFence \in Nat

VARIABLES
    status,    \* occurrences.status, "absent" where there is no row
    fence,     \* occurrences.fence
    target,    \* occurrences.target, set with the envelope by the first fire
    kind,      \* occurrences.occurrence_kind
    attempts,  \* the rows of attempts in rowid order
    results,   \* the rows of results in rowid order
    jobRow,    \* the jobs row: how often a fire advanced it, or Gone
    held,      \* the attempt of the claim each consumer holds, 0 for none
    clock      \* the actor's wall clock

vars == <<status, fence, target, kind, attempts, results, jobRow, held, clock>>

Status == {"absent", "pending", "claimed", "completed", "failed", "skipped",
           "needs_adoption"}
Kind == {"scheduled", "manual", "missed_catchup", "missed_skipped"}
Cause == {"recurring", "final", "manual", "missed_catchup", "missed_skipped"}
Outcome == {"open", "accepted", "abandoned", "expired"}   \* "open" is NULL
Verdict == {"success", "failure"}    \* "failure" stands for failure | error
Gone == -1

Attempt == [key : Key, fence : Nat, expires : Int, outcome : Outcome]
Result == [attempt : Nat, fence : Nat, status : Verdict]

Recorded(k) == status[k] # "absent"

\* The import leaves rows without envelope; every other table starts empty,
\* but for the jobs rows the import found in scheduled_tasks.json.
Init ==
    /\ status \in {s \in [Key -> {"absent", "pending", "skipped", "needs_adoption"}] :
                     \A k \in Key \ LegacyKey : s[k] = "absent"}
    /\ fence = [k \in Key |-> 0]
    /\ target = [k \in Key |-> NoTarget]
    /\ kind = [k \in Key |-> IF status[k] = "skipped" THEN "missed_skipped"
                                                      ELSE "scheduled"]
    /\ attempts = <<>>
    /\ results = <<>>
    /\ jobRow \in [Job -> {0, Gone}]
    /\ held = [c \in Consumer |-> 0]
    /\ clock = 0

-----------------------------------------------------------------------------
(* Firing *)

\* The FireReason of a scheduled fire only tells how the job advances.
KindOf(cause) == IF cause \in {"recurring", "final"} THEN "scheduled" ELSE cause

InitialStatus(kd) == IF kd = "missed_skipped" THEN "skipped" ELSE "pending"

\* How a fire changes the row of its job: a manual one not at all, a recurring
\* one replaces its JSON, a final or missed one deletes it.
Advanced(cause, row) ==
    CASE cause = "manual" -> row
      [] cause = "recurring" -> IF row = Gone THEN Gone ELSE row + 1
      [] OTHER -> Gone

\* Mutant: the duplicate keeps the row but advances the job again.
FireAdvancingTwice(k, cause, tgt) ==
    /\ status' = IF Recorded(k) THEN status ELSE [status EXCEPT ![k] = InitialStatus(KindOf(cause))]
    /\ target' = IF Recorded(k) THEN target ELSE [target EXCEPT ![k] = tgt]
    /\ kind' = IF Recorded(k) THEN kind ELSE [kind EXCEPT ![k] = KindOf(cause)]
    /\ jobRow' = [jobRow EXCEPT ![JobOf(k)] = Advanced(cause, @)]
    /\ UNCHANGED <<fence, attempts, results, held, clock>>

\* Mutant: the insert replaces the row on conflict.
FireReplacing(k, cause, tgt) ==
    /\ status' = [status EXCEPT ![k] = InitialStatus(KindOf(cause))]
    /\ target' = [target EXCEPT ![k] = tgt]
    /\ kind' = [kind EXCEPT ![k] = KindOf(cause)]
    /\ jobRow' = [jobRow EXCEPT ![JobOf(k)] = Advanced(cause, @)]
    /\ UNCHANGED <<fence, attempts, results, held, clock>>

\* The insert is ON CONFLICT DO NOTHING: a second fire of the same key keeps
\* the first row and its envelope, and does not advance the job again.
FireOccurrence(k, cause, tgt) ==
    \/ /\ Recorded(k)
       /\ UNCHANGED vars
    \/ /\ ~Recorded(k)
       /\ status' = [status EXCEPT ![k] = InitialStatus(KindOf(cause))]
       /\ target' = [target EXCEPT ![k] = tgt]
       /\ kind' = [kind EXCEPT ![k] = KindOf(cause)]
       /\ jobRow' = [jobRow EXCEPT ![JobOf(k)] = Advanced(cause, @)]
       /\ UNCHANGED <<fence, attempts, results, held, clock>>

-----------------------------------------------------------------------------
(* Claiming *)

\* A lease over k at its current fence that has not lapsed.
LeaseLive(k) ==
    \E a \in DOMAIN attempts :
        /\ attempts[a].key = k
        /\ attempts[a].fence = fence[k]
        /\ attempts[a].expires > clock

\* Mutant: a claimed occurrence may be claimed under a live lease.
ClaimableUnderLease(k, tgt) ==
    /\ target[k] = tgt
    /\ status[k] \in {"pending", "claimed"}

Claimable(k, tgt) ==
    /\ target[k] = tgt
    /\ \/ status[k] = "pending"
       \/ status[k] = "claimed" /\ ~LeaseLive(k)

Oldest(k, S) == \A o \in S : ScheduledAt(k) <= ScheduledAt(o)

Superseded(a) == attempts[a].fence < fence[attempts[a].key]

\* expire_superseded_attempts: close the leases their occurrence moved past.
ExpireSupersededAttempts ==
    [a \in DOMAIN attempts |->
        IF attempts[a].outcome = "open" /\ Superseded(a)
        THEN [attempts[a] EXCEPT !.outcome = "expired"]
        ELSE attempts[a]]

\* Mutant: a claim does not bump the fence.
NextFenceUnchanged(k) == fence[k]

NextFence(k) == fence[k] + 1

\* The lease over k goes to a new attempt; the reply carrying it to c may be
\* lost with the connection or the daemon after the commit.
GrantLease(c, k, rows) ==
    /\ status' = [status EXCEPT ![k] = "claimed"]
    /\ fence' = [fence EXCEPT ![k] = NextFence(k)]
    /\ attempts' = Append(rows, [key |-> k, fence |-> NextFence(k),
                                 expires |-> clock + Lease, outcome |-> "open"])
    /\ \/ held' = [held EXCEPT ![c] = Len(attempts) + 1]
       \/ UNCHANGED held
    /\ UNCHANGED <<target, kind, results, jobRow, clock>>

\* The claim command: a sweep in its own transaction that may fail without
\* stopping the claim, then the claim, which finds no work, fails (or the
\* daemon dies before it), or leases the oldest claimable occurrence of c's
\* target (at the bound MaxFence an occurrence leaves the queue).
ClaimNextOccurrence(c) ==
    /\ held[c] = 0
    /\ \E rows \in {attempts, ExpireSupersededAttempts} :
         \/ /\ attempts' = rows
            /\ UNCHANGED <<status, fence, target, kind, results, jobRow, held, clock>>
         \/ LET work == {k \in Key : Claimable(k, Serves[c]) /\ fence[k] < MaxFence}
            IN \E k \in work : Oldest(k, work) /\ GrantLease(c, k, rows)

-----------------------------------------------------------------------------
(* Reporting back *)

\* Mutant: the terminal UPDATE does not ask for status = 'claimed'.
WritebackGateFenceOnly(a) == fence[attempts[a].key] = attempts[a].fence

\* Mutant: the terminal UPDATE does not ask for the fence.
WritebackGateStatusOnly(a) == status[attempts[a].key] = "claimed"

\* The WHERE clause of the terminal UPDATE, for the writer holding attempt a.
WritebackGate(a) ==
    /\ status[attempts[a].key] = "claimed"
    /\ fence[attempts[a].key] = attempts[a].fence

\* writeback_terminal: through the gate the occurrence is closed, the lease
\* resolved and the result stored together; a fenced writer changes nothing.
WritebackTerminal(a, terminal, disposition, verdict) ==
    \/ /\ WritebackGate(a)
       /\ status' = [status EXCEPT ![attempts[a].key] = terminal]
       /\ attempts' = [attempts EXCEPT ![a].outcome = disposition]
       /\ results' = Append(results, [attempt |-> a, fence |-> attempts[a].fence,
                                      status |-> verdict])
    \/ /\ ~WritebackGate(a)
       /\ UNCHANGED <<status, attempts, results>>

\* The consumer drops its claim when the reply arrives and may send the
\* writeback again when it does not.
ReplyReaches(c) ==
    \/ held' = [held EXCEPT ![c] = 0]
    \/ UNCHANGED held

AcceptOccurrence(c) ==
    /\ held[c] # 0
    /\ WritebackTerminal(held[c], "completed", "accepted", "success")
    /\ ReplyReaches(c)
    /\ UNCHANGED <<fence, target, kind, jobRow, clock>>

ReportFailureOccurrence(c) ==
    /\ held[c] # 0
    /\ WritebackTerminal(held[c], "failed", "abandoned", "failure")
    /\ ReplyReaches(c)
    /\ UNCHANGED <<fence, target, kind, jobRow, clock>>

\* The consumer process dies: its claim stays leased and nobody reports on it.
ConsumerCrash(c) ==
    /\ held[c] # 0
    /\ held' = [held EXCEPT ![c] = 0]
    /\ UNCHANGED <<status, fence, target, kind, attempts, results, jobRow, clock>>

-----------------------------------------------------------------------------
(* Operator requests *)

Retryable(k) == status[k] = "failed"

RetryOccurrence(k) ==
    /\ Retryable(k)
    /\ fence[k] < MaxFence
    /\ status' = [status EXCEPT ![k] = "pending"]
    /\ fence' = [fence EXCEPT ![k] = @ + 1]
    /\ UNCHANGED <<target, kind, attempts, results, jobRow, held, clock>>

\* Mutant: a cancelled lease gets an outcome of its own.
AbandonAsCancelled(k) ==
    [a \in DOMAIN attempts |->
        IF attempts[a].key = k /\ attempts[a].outcome = "open"
        THEN [attempts[a] EXCEPT !.outcome = "cancelled"]
        ELSE attempts[a]]

\* The leases a cancellation abandons: those of k nobody resolved yet.
AbandonOpen(k) ==
    [a \in DOMAIN attempts |->
        IF attempts[a].key = k /\ attempts[a].outcome = "open"
        THEN [attempts[a] EXCEPT !.outcome = "abandoned"]
        ELSE attempts[a]]

CancelOccurrence(k) ==
    /\ status[k] \in {"pending", "claimed"}
    /\ status' = [status EXCEPT ![k] = "skipped"]
    /\ fence' = [fence EXCEPT ![k] = @ + 1]
    /\ attempts' = AbandonOpen(k)
    /\ UNCHANGED <<target, kind, results, jobRow, held, clock>>

-----------------------------------------------------------------------------
(* Time: only leases read the clock, so it need not run while none is live. *)

Tick ==
    /\ \E a \in DOMAIN attempts : attempts[a].expires > clock
    /\ clock' = clock + 1
    /\ UNCHANGED <<status, fence, target, kind, attempts, results, jobRow, held>>

ClockSetBack ==
    /\ ClockStepsBack
    /\ clock > 0
    /\ clock' = clock - 1
    /\ UNCHANGED <<status, fence, target, kind, attempts, results, jobRow, held>>

Next ==
    \/ \E k \in Key, cause \in Cause, tgt \in Target : FireOccurrence(k, cause, tgt)
    \/ \E c \in Consumer : ClaimNextOccurrence(c)
    \/ \E c \in Consumer : AcceptOccurrence(c)
    \/ \E c \in Consumer : ReportFailureOccurrence(c)
    \/ \E c \in Consumer : ConsumerCrash(c)
    \/ \E k \in Key : RetryOccurrence(k)
    \/ \E k \in Key : CancelOccurrence(k)
    \/ Tick
    \/ ClockSetBack

Spec == Init /\ [][Next]_vars

-----------------------------------------------------------------------------
(* Properties *)

TypeOK ==
    /\ status \in [Key -> Status]
    /\ fence \in [Key -> Nat]
    /\ target \in [Key -> Target \cup {NoTarget}]
    /\ kind \in [Key -> Kind]
    /\ attempts \in Seq(Attempt)
    /\ results \in Seq(Result)
    /\ jobRow \in [Job -> Int]
    /\ held \in [Consumer -> Nat]
    /\ clock \in Int

KeyOfResult(r) == attempts[results[r].attempt].key

\* Leases of one occurrence carry distinct fences, none above the fence the
\* occurrence advertises: a lease number is never handed out twice.
LeasesNumbered ==
    /\ \A a \in DOMAIN attempts : attempts[a].fence \in 1 .. fence[attempts[a].key]
    /\ \A a, b \in DOMAIN attempts :
          attempts[a].key = attempts[b].key /\ attempts[a].fence = attempts[b].fence => a = b

\* An occurrence is claimed exactly while the lease at its current fence is
\* unresolved: no claimed row is left without a lease that can close it, and
\* no resolved row leaves one behind.
ClaimedIffOpenLease ==
    \A k \in Key :
        status[k] = "claimed" <=>
            \E a \in DOMAIN attempts : /\ attempts[a].key = k
                                      /\ attempts[a].fence = fence[k]
                                      /\ attempts[a].outcome = "open"

\* Every lease yields at most one result, however often and however late its
\* holder repeats the writeback.
OneResultPerLease ==
    \A r, s \in DOMAIN results : results[r].attempt = results[s].attempt => r = s

\* The run result and the disposition of its lease always agree.
ResultResolvesLease ==
    \A r \in DOMAIN results :
        /\ results[r].attempt \in DOMAIN attempts
        /\ results[r].fence = attempts[results[r].attempt].fence
        /\ attempts[results[r].attempt].outcome =
              IF results[r].status = "success" THEN "accepted" ELSE "abandoned"

\* An occurrence is completed exactly when a success was recorded at its
\* current fence, and a recorded success is never reopened or cancelled.
CompletedIffSuccess ==
    /\ \A k \in Key : status[k] = "completed" =>
          \E r \in DOMAIN results : /\ KeyOfResult(r) = k
                                   /\ results[r].status = "success"
    /\ \A r \in DOMAIN results : results[r].status = "success" =>
          /\ status[KeyOfResult(r)] = "completed"
          /\ fence[KeyOfResult(r)] = results[r].fence

\* Two consumers can never both be admitted by the gate for the same
\* occurrence: a zombie of an expired, retried or cancelled claim is fenced.
ExclusiveWriter ==
    \A c, d \in Consumer :
        /\ held[c] # 0 /\ held[d] # 0 /\ WritebackGate(held[c]) /\ WritebackGate(held[d])
        /\ attempts[held[c]].key = attempts[held[d]].key
        => c = d

\* The audit sweep only marks leases that can never pass the gate again.
ExpiredIsFenced ==
    \A a \in DOMAIN attempts : attempts[a].outcome = "expired" => ~WritebackGate(a)

\* A row imported without envelope is never leased, and every lease lies
\* over an occurrence some fire gave its envelope.
LegacyNeverLeased ==
    \A a \in DOMAIN attempts : target[attempts[a].key] \in Target

\* The leases add up: numbered apart, one open lease for each claimed row, and
\* none over a row of the import that no consumer may serve.
LeasesAccountedFor == LeasesNumbered /\ ClaimedIffOpenLease /\ LegacyNeverLeased

\* Results, dispositions and final states tell the same story, however late and
\* however often a consumer reports.
ResultsAgree == OneResultPerLease /\ ResultResolvesLease /\ CompletedIffSuccess

\* Whoever lost a lease stays outside the gate: at most one consumer passes for
\* an occurrence, and never on a lease the sweep gave up.
ZombiesAreFenced == ExclusiveWriter /\ ExpiredIsFenced

\* The job row was advanced once for each recurring fire on record: duplicate
\* fires of a key, after a crash or next to a manual fire, never advance it.
AdvancedOncePerFire ==
    \A j \in Job : jobRow[j] # Gone =>
        jobRow[j] = Cardinality({k \in Key : /\ JobOf(k) = j /\ Recorded(k)
                                            /\ kind[k] = "scheduled" /\ target[k] # NoTarget})

\* The row and envelope of the first fire stay; its fence never goes back, and
\* a completed, skipped or unadopted occurrence is final.
HistoryIsKept ==
    [][\A k \in Key :
          /\ fence'[k] >= fence[k]
          /\ Recorded(k) => /\ Recorded(k)'
                            /\ target'[k] = target[k]
                            /\ kind'[k] = kind[k]
          /\ status[k] \in {"completed", "skipped", "needs_adoption"} => status'[k] = status[k]]_vars

\* A lease that has not lapsed ends only by the report of its holder or by a
\* cancellation: no other consumer is handed its occurrence.
LiveLeaseIsKept ==
    [][\A k \in Key :
          status[k] = "claimed" /\ LeaseLive(k) =>
              fence'[k] = fence[k] \/ status'[k] = "skipped"]_vars

Lifecycle ==
    INSTANCE OccurrenceLifecycle WITH
        phase <- status,
        epoch <- fence,
        verdicts <- {<<KeyOfResult(r), results[r].fence, results[r].status>> :
                        r \in DOMAIN results}

\* The ledger implements the lifecycle: leases, sweeps, late reports and lost
\* replies add nothing to what a firing can go through.
ImplementsLifecycle == Lifecycle!Spec

-----------------------------------------------------------------------------
(* Dead letters *)

\* Mutant: the walk starts from the oldest occurrence.
FailureRunOldestFirst(j) ==
    {k \in Key : /\ JobOf(k) = j /\ status[k] = "failed"
                 /\ \A o \in Key : JobOf(o) = j /\ status[o] = "completed"
                                        => ScheduledAt(k) < ScheduledAt(o)}

\* The failed occurrences of j newer than every completed one: the leading
\* run of failures, newest scheduled time first.
FailureRun(j) ==
    {k \in Key : /\ JobOf(k) = j /\ status[k] = "failed"
                 /\ \A o \in Key : JobOf(o) = j /\ status[o] = "completed"
                                        => ScheduledAt(o) < ScheduledAt(k)}

ConsecutiveFailureCount(j) == Cardinality(FailureRun(j))

IsDeadLettered(j) == ConsecutiveFailureCount(j) >= DeadLetterThreshold

\* A job leaves the dead-letter state only when a failed occurrence is retried
\* or one newer than a failure of the run completes: neither a new firing, nor
\* a cancellation, nor the late success of an older occurrence hides it.
DeadLetterHolds ==
    [][\A j \in Job :
          IsDeadLettered(j) /\ ~IsDeadLettered(j)' =>
              \E k \in Key :
                 /\ JobOf(k) = j
                 /\ \/ status[k] = "failed" /\ status'[k] = "pending"
                    \/ /\ status[k] = "claimed" /\ status'[k] = "completed"
                       /\ \E f \in FailureRun(j) : ScheduledAt(f) < ScheduledAt(k)]_vars
=============================================================================

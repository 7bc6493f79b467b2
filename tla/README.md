# CrabCode-TUI: a TLA+ model of its durable scheduling core

CrabCode-TUI is an agent for the terminal: a Rust launcher, native UI and
daemons (`src/crates`), a TypeScript agent runtime (`src/src`), a Go account
bridge (`src/components/oauthapi-llm`) and two libraries (`src/libs`).  Most of
it is rendering, model traffic and platform code.  The part where ordering,
crashes and retries decide whether it is correct is small and well separated:
the *cron* subsystem, which must fire jobs, remember that it did, and hand each
firing to exactly one consumer.  This project starts there.

## 1. Inventory

### 1.1 The system

```
terminal -> Rust launcher + TUI -> TypeScript runtime -> account bridge -> models
                 |                        |
                 +-- memory, search       +-- cron client (Unix socket)
                 +-- cron daemon <--------+
```

The cron daemon (`crates/crabcode-cron`) is one process per state directory:

```
scheduled_tasks.json <-> SchedulerDaemon --events--> event loop --AppendJob--> writer actor
 (acosmi-scheduler: daemon.rs, task_store.rs)           (crabcode-cron: main.rs)  |  |  |
                                                              outbox files  <-----+  |  |
                                       delivery journals + retained floor  <---------+  |
                                             cron_ledger.db (SQLite)  <-----------------+
consumers --IPC (ipc.rs)--> cron.claim / accept / fail / retry / cancel, cron.delivery_*, cron.read
```

All durable state below the actor is written by that one serial task.  The
scheduler runs beside it and talks to it over bounded channels only.

| component | state | operations | hard behaviour | what makes it correct |
|---|---|---|---|---|
| occurrence ledger (`acosmi-cron-ledger`) | SQLite tables jobs, occurrences, attempts, results, migration_state | fire, claim, expire sweep, accept, report failure, retry, cancel | late and repeated reports, expiry, operator requests during a run | one writer per occurrence, one result per lease, final states final, a live lease left alone |
| ledger import (`migration.rs`) | the same tables, the job store and the outbox it reads | import, verify, cutover | crash between the phases, a second start | imported exactly once, no envelope replaced, nothing run twice, the daemon comes up |
| delivery journals (`delivery.rs`) | one append-only file per event, the retained floor file, its copy in memory | begin, accept, abandon, advance floor, compaction, start-up cleanup | torn tails, failed writes that took effect, lost replies, floor half advanced, clock set back, power loss | an event is delivered at most once, leases are exclusive, generations never roll back, retired events stay retired |
| outbox (`outbox.rs`) | current and three rotated files, epoch file, started marker | append, rotate, read page, next id, epoch | crash inside a rotation, id seed after a failed append | ids never reused within an epoch, only the oldest events leave |
| writer actor (`main.rs`) | retained events in memory, degraded reason, next id | one command at a time | memory older than the files | an evicted event never fails open |
| scheduler (`daemon.rs`, `task_store.rs`) and the tasks behind it (`main.rs`) | jobs in memory, `scheduled_tasks.json`, the channels to the writer | check, missed detection, add, update, remove, run, shutdown | event in a channel while its job is deleted on disk, failed store writes, a full channel, the order of a shutdown | a due job fires, once per instant, and its firing is recorded |
| scheduler lock (`lock.rs`) | two lock files with pid and start time | acquire, reclaim, verify, release | two processes reclaim, a half-written file, pid reuse | one owner |
| layout migration (`layout_migration.rs`) | two directories | staged move | crash between renames, loss of the lock | nothing lost, one executor |
| daemon process (`main.rs`), launcher (`acosmi-daemon-launcher`) | pid file, socket, phases of a start and a stop | spawn, readiness, stop, clean-up | the next daemon starts while the last one is still cleaning up | one reachable daemon, again and again |
| generation lease (`acosmi-generation-lease`, `crabcode-cli`) | per version a directory of guard records, a transaction's lock file, a lease per process | acquire, adopt, collect | a bakery of files between Rust and TypeScript, dead owners, half-written files | one transaction at a time; no generation deleted under a live lease; the dead delay nobody |
| supervisor, heartbeat | child processes | spawn, restart, watchdog | restart storms | bounded restarts |
| memory (`libs/acosmi-memory`) | journal, queue, path locks, leader lock | transactions, replay, ack | crash inside a transaction | atomic multi-file writes |
| native TUI, sandbox, permission, shell parser, search engine, TypeScript runtime, account bridge | - | - | large, mostly sequential or platform code | see section 7 |

The hazards of the modelled and planned parts, each at its line, are the list
`hazards` of `PROJECT.json`.

### 1.2 Why the cron daemon first

Its crates state their guarantees in their comments (at-least-once firing,
fenced claims, at-most-once admission), they persist everything, and they are
exercised by two independent processes at least.  A unit test there fixes one
interleaving and one crash point; the guarantees are about all of them.

## 2. Plan

| order | module | what | state |
|---|---|---|---|
| 1 | `CronLedger`, `OccurrenceLifecycle` | the ledger and its abstract lifecycle | done |
| 2 | `CronLedgerImport` | start-up import around the ledger, composing `CronLedger` | done |
| 3 | `CronLedgerProofs` | invariants and refinement of 1 | done |
| 4 | `DeliveryJournal`, `DeliveryRegister` | delivery leases and the abstract lease register | done |
| 5 | `DeliveryJournalProofs` | invariants and refinement of 4 | done |
| 6 | `CronOutbox`, `OutboxLog` | ids, append, torn tail, rotation, epoch, the actor's index of what is retained; abstract: a log that only loses its oldest entries | done |
| 7 | `CronOutboxProofs` | invariants and refinement of 6 | done |
| 8 | `CronScheduler` | jobs, store, channels and event loop in front of the actor: every firing is recorded or on its way | done |
| 9 | `DaemonLifecycle` | several processes, half-written locks, reclaim, the gate of the layout migration, readiness, clean-up, the launcher | done |
| 10 | `GenerationLease` | the guard, the transaction and the lease a launcher holds over the generation it runs | done |
| 11 | `GenerationLeaseProofs` | the invariants of 10, among them the exclusiveness of the guard | done |
| 12 | `CronSchedulerProofs` | type invariant of 8 and its conservation of firings | done |
| 13 | `CronLedgerImportProofs`, `DaemonLifecycleProofs` | proofs about 2 and 9: what the import puts on record, the first process behind the locks, the move | done |
| 14 | supervisor, memory transactions | further components of section 1.1 | open |

What composes what: `CronLedgerImport` extends `CronLedger`; `CronLedger`,
`DeliveryJournal` and `CronOutbox` each implement an abstract specification.
The interfaces between the others are narrow enough to be kept apart:
`CronScheduler` ends where `CronOutbox` and `CronLedgerImport` begin (a recorded
firing), and `DaemonLifecycle` decides who may run all of them.  `GenerationLease`
is about the launcher and shares nothing with the daemon.

## 3. Modules

### 3.1 `CronLedger`

One action is one `BEGIN IMMEDIATE` transaction of the actor (the claim command
is two: the sweep and the claim).  A transaction is atomic and durable, so a
crash of the daemon is only visible as a reply that does not arrive; every
action that replies has an outcome in which the reply is lost.

| model | code |
|---|---|
| `status`, `fence`, `target`, `kind` per key | row of `occurrences`; a key is `UNIQUE(job_id, scheduled_at_ms)` |
| `attempts`, `results` | those tables in rowid order; a lease token is its row |
| `jobRow` | `jobs.job_json`, counted in advances, or deleted |
| `held[c]` | the claim a consumer process holds, external to the daemon |
| `FireOccurrence` | `fire_occurrence`, with the row, envelope and advance in one transaction |
| `ClaimNextOccurrence` | main.rs `ClaimNextOccurrence`: `expire_superseded_attempts`, then `claim_next_occurrence` |
| `AcceptOccurrence`, `ReportFailureOccurrence` | `writeback_terminal` behind the gate `status = 'claimed' AND fence = ?` |
| `RetryOccurrence`, `CancelOccurrence` | the operator requests, both bumping the fence |

`OccurrenceLifecycle` is the same without tables, leases, clocks or late
writers: record, grant, close, reopen, withdraw.  `ImplementsLifecycle` says
that `CronLedger` implements it, with `status` as phase, `fence` as epoch and
the results as verdicts.

### 3.2 `CronLedgerImport`

`CronLedger` with the start-up around it: the daemon's phase, `migration_state`,
the job store and the retained outbox.  `StartDaemon` is the import transaction
(or the reasons not to run it), `Cutover` verifies and commits; the daemon may
die anywhere.  `Fire` is the whole `AppendJob` command with each of its durable
writes failing independently.  While the daemon is up every action of
`CronLedger` is possible (`LedgerCommand`); while it is down only consumers and
the clock move (`Outside`).  `legacy` remembers what the upgrade began with; no
action reads it.  `RestartFairness` is the launcher's.

### 3.3 `DeliveryJournal`

| model | code |
|---|---|
| `file[e]` | `evt-<id>.jsonl`: complete records, torn tail, what is synced, whether the directory entry is durable |
| `floorFile`, `retainedFloor` | `retained_floor.json` and its copy in `DeliveryJournalStore` |
| `degraded` | the actor's `delivery_degraded_reason` |
| `held[c]`, `told` | the lease a consumer was handed, the accepts it saw confirmed |
| `Begin`, `Accept`, `Abandon` | the handlers; the outcomes of `append_transition` and of the compaction are enumerated by `AppendFailed` and `CompactionFailed` |
| `AdvanceRetainedFloor`, `Start` | with each point where they may stop |
| `OutboxFails` | the outbox errors that degrade the actor without touching a journal |

`load_state` replays a journal record by record.  Since a record is only legal
after its predecessor (`Follows`), replaying a legal journal ends in the state
of its last record; the model reads it there and states legality separately
(`Replayable`, and the invariant `JournalsReplay`).  The actor is alone on these
files, so a handler is one action; dying in the middle of one is the matching
failure outcome followed by `DaemonCrash`.  `HostCrash` additionally drops what
was not synced; directories are synced as on Unix, before every append.  `Begin`
reads the clock twice: the second value stands for the code's second read, which
may refuse the compaction, and for the third, which stamps the lease.

`DeliveryRegister` is the promise: generations are granted one after the other,
at most one is accepted, and it is the newest; a retired event stays retired.

### 3.4 `CronOutbox`

| model | code |
|---|---|
| `slots[i]` | complete lines of `cron_outbox.jsonl` (0) and `.1`, `.2`, ... as sets: readers order by id, never by place |
| `torn`, `marker`, `epochFile`, `epoch` | unfinished last line, `ledger_started`, `ledger_epoch` (absent, cut short or whole) and the epoch in it |
| `nextId`, `retained`, `degraded` | the actor's `next_event_id`, `retained_events`, `delivery_degraded_reason` |
| `cursor`, `seen`, `opened` | a consumer: how far it read, what it was sent, what it went on to deliver |
| `AppendJob` | the outbox half of the command, `append_durable` with each point where it may fail (`AppendFails`) |
| `Rotated(s, k)` | the files after `k` renames of `rotate` |
| `OutboxRead`, `DeliveryBegin` | a page behind the cursor; membership first, then availability |
| `Start`, `StartFails` | `initialize_ledger_epoch`, `next_event_id`, the scan of the actor |

What a consumer does with the answer of `DeliveryBegin` is external; the comment
in the handler says that it goes on without a lease on the store's error, so
that case counts as delivered.  The lease itself is `DeliveryJournal`'s part,
the ledger half of the command `CronLedgerImport`'s.

`OutboxLog` is the promise: one event in at the newest end, some out at the
oldest, at most a file's worth at a time and never so that less than that stays,
and a new epoch only over an empty log.

### 3.5 `CronScheduler`

| model | code |
|---|---|
| `store`, `jobs`, `nextFire` | `scheduled_tasks.json`, the scheduler's jobs and its `next_fire_at` |
| `work` | the locals of a check or of the missed detection between two awaits |
| `events`, `report`, `reporting` | the channel to `run_event_loop`; the channel of missed jobs and the part its writer took |
| `recorded` | what the writer actor was handed and recorded; the actor itself is 3.2 to 3.4 |
| `Start`, `Normalize`, `DetectMissed`, `ForgetMissed` | `load_jobs`, which keeps the jobs whose schedule parses, and `detect_missed_jobs` |
| `Check`, `Send`, `Stamp`, `DeleteFinal` | `check`, one action per stretch between awaits, each store write with both outcomes |
| `Add`, `Update`, `Remove`, `Run` | the commands; a failed Add is taken back, a failed Remove or Update is not |
| `Record`, `LoopEnds`, `TakeReport`, ... | `run_event_loop`, `spawn_missed_outbox_writer` and their reaction to a shutdown |

Cron expressions are periods here and jitter is left out: the scheduler only
asks for the next instant after a given one.  A schedule that does not parse is
the instant 0: `cron.add` and `cron.update` take it as it comes, it is never due,
and the next start leaves its job out.  `Normalize` may happen whenever there is a
one-shot job, because `delete_after_run`, the field it repairs, is not modelled.

### 3.6 `DaemonLifecycle`

| model | code |
|---|---|
| `phase`, `turn`, `born` | the steps of a process from `main` to its end, the lock it is at, its start time |
| `file` | both lock files: absent, created but empty, or a pid with a start time |
| `Create`, `Write`, `Read`, `Remove`, `Recreate` | `try_acquire_lock_at`, one action per access to the file |
| `Verify`, `Look`, `Rename` | one entry of the layout migration: ownership, conflict, rename |
| `Open`, `Bind`, `Publish` | the stores, the IPC socket beside the scheduler's second acquisition, the pid file |
| `Stop`, `Release`, `Unlock`, `Close`, `CleanUp`, `Unlink` | a shutdown in its order, of which a failed start takes the second half |
| `MaySpawn` | when the launcher starts a daemon, with its spawn lock and its wait of five seconds |

An acquisition is assumed to be shorter than the launcher's wait, the rest of a
start is not.  A start beside a living process, which that wait makes possible,
is a *hasty* one and counts as a fault; `first` are the others.

### 3.7 `GenerationLease`

| model | code |
|---|---|
| `guardDir`, `records` | `<version>.lock.acquire-guard` and the choosing and owner records in it |
| `token`, `ticket`, `listed`, `blocked` | the locals of `try_acquire` and of the scan it is in |
| `lock`, `leases` | `<version>.lock`; the lifetime record of each pid |
| `Enter`, `MakeRecordsDir`, `Choose`, `Announce`, `Settle`, `Leave` | `try_acquire` around its two scans, and the drop of the guard |
| `Survey`, `Relist`, `Visit`, `Take`, `Decide` | the scans: a listing, then one record at a time, then what is made of them |
| `Look`, `Entry`, `Evict`, `Create`, `Fill`, `Verify` | `VersionTransaction::acquire` under the guard, one action per access to the lock file |
| `Validate`, `Register`, `Sign`, `Unlock`, `Remove` | `acquire_inner` inside the transaction, and its drop |
| `Start`, `Exec`, `Exit`, `Crash` | the stable launcher, the exec that keeps its pid, the ends of a process |
| `Collect` | the collector of the updater, external: it enters the same transaction, as the crate's tests play it |

A record is active exactly while the process that wrote it lives.  A scanner
removes the file of a record that is not published yet; `spoiled` remembers
whose, because that process' acquisition fails.  The directory is listed in one
step, the records are read one by one, and whatever happens between the two may
happen here.  The history variable `overtaken` tells when a check has come to a
choosing record that was gone because its owner's record had taken its place: from
then on the guard is not what its comment says (section 6).

### 3.8 Model-checking modules

`MCCronLedger`, `MCCronLedgerImport`, `MCDeliveryJournal`, `MCCronOutbox`,
`MCCronScheduler`, `MCDaemonLifecycle` and `MCGenerationLease` give the constants
their values.  Consumers, and the processes of the last, are symmetric wherever no
liveness is checked.

## 4. Runs

| run | bounds | shows |
|---|---|---|
| `ledger` | 1 job, 2 firings, the first perhaps imported without envelope, 2 consumers, fence up to 2, dead-letter threshold 1, clock set back | the type invariant, all safety and action properties of the ledger, and that it implements the lifecycle |
| `import_upgrade` | 2 firings of 1 job, in the store or not, each retained or not, fence up to 1, 2 crashes of the daemon, a consumer that may crash | imported until committed, then never again; what the JSON daemon fired or skipped is on record from then on and never handed out; envelopes stay; the daemon comes up |
| `journal` | 2 events, 2 consumers, 3 leases, compaction at 2 records, clock set back | the journals implement the register; accept is final and exclusive; the floor is final |
| `journal_power` | 1 event, 3 leases, power losses, clock set back | what a power loss leaves is never a corrupt journal |
| `outbox` | 3 files of 2 events, 8 firings, 7 ids, 2 epochs | ids are never aliased, readers skip nothing, evicted events stay evicted, the files implement a log |
| `scheduler` | a one-shot and a recurring job, channel of 1, 2 lives, 2 failed writes, an unreadable store, 2 commands, schedules that do not parse, clock up to 4 | confirmed jobs with a schedule that parses stay, silenced ones stay silent, no instant fires twice, decided firings are on their way and arrive, due jobs fire |
| `lifecycle` | 2 pids that come back, 2 legacy entries, 3 faults | a daemon that started alone stays alone at work and reachable, the move loses nothing, the service comes back |
| `generation_lease` | 2 processes that come back, 3 tokens, 2 tickets, 1 death | until a check overlooks a chooser guard and transaction are exclusive and no generation is deleted under a live lease; leftovers delay nobody who is alone |
| `fresh_restart`, `scheduler_stop`, `double_start`, `guard_scan` | small | the disagreements of section 6 |

Why the bounds suffice: a lease conflict needs two holders of one occurrence or
event, a zombie one re-claim, the ABA cases a retry between two claims; fence 2
and three leases allow every such chain.  A compaction needs two records before
it and one after.  A second firing or event is needed for ordering (oldest
first, dead letters, the floor); nothing in the code relates three of them
except the dead-letter walk, which compares each failure with each success.
Three outbox files of two events have a rename onto a file, one into a gap and
one that evicts; the firings go round twice and past the last id.  Clocks of
leases run only while one is live, with lease length 1: all the code does with
time is to compare.  The scheduler's clock has room for two instants of the
recurring job and its ageing out, and for a one-shot job that is due at once or
missed over a restart; a full channel needs one place and two firings.  Two
processes are what any race over one lock file needs; a third would only be
refused or reclaim in turn.  Three faults allow a crash that leaves a lock
behind, a hasty start and a stop or failure during it.  Two processes and what a
dead one left make up to three tokens in play, and tickets compare in every
order; the second ticket is taken by whoever saw an owner, and the one past it ends
an acquisition as the last of the code's does.

`CHECK_DEADLOCK FALSE` where the system may stop: a marker or epoch file cut
short, or a used-up id space, ends the outbox' work for good; the scheduler and
the lifecycle stop when commands, lives or faults are used up and nobody starts
a daemon again.

`MaxFence`, `MaxGrants`, `MaxClock`, `MaxFires`, `MaxEpochs`, `MaxTime`,
`MaxLives`, `MaxFailures`, `MaxMisreads`, `MaxCommands`, `MaxFaults` and `MaxCrashes`
are bounds of the model; a liveness property that could end at such a bound says so.

Fairness.
- `import_upgrade` and `fresh_restart`: a launcher starts a daemon that is down, and
  the daemon goes on with its start.  Nothing is assumed of consumers: no client in
  the repository calls `cron.claim` yet (`src/src/utils/cronDaemonClient.ts` refuses
  to), so that work once recorded is also claimed is not stated.
- `scheduler`: the tasks of the daemon run while they can (weak fairness of each
  step); `Check` is strongly fair, because the interval of the scheduler ticks on
  while commands keep winning single rounds of its `select!`.
- `lifecycle`: a process runs (weak fairness of its steps, and of the IPC task
  beside them), and when no process is left somebody asks for the daemon.

Firings, commands, crashes, stops and operator requests are never assumed.

Every property of a passing run comes with a mutant of a mapped definition that
violates it (`mutants` in `PROJECT.json`); the mutants are the operators next to
the definitions they replace which nothing else uses.

## 5. Proofs

`CronLedgerProofs` (TLAPS) proves for every value of the constants, with only
the assumption `LedgerConstants`:

- `Invariance`: `Spec => []IInv`.  `IInv` strengthens the properties by what
  they lean on: the type invariant, `LeasesNumbered`, that every held claim and
  every result refers to an existing attempt, that an open lease at the current
  fence and the status `claimed` go together, and that results, dispositions
  and completed occurrences agree.  The listed invariants are not inductive one
  by one: one result per lease needs that a resolved lease is off the gate,
  which needs distinct fences, which needs the fence bound.
- the listed invariants as corollaries: `TypeCorrect`, `LeasesAddUp` (lease
  numbers, claims and leases, imported rows), `ResultsAddUp` (one result per
  lease, results and dispositions, completion) and `ZombiesFenced` (the gate);
- the action properties `HistoryKept` and `LiveLeaseKept`;
- `AdvancedOnce` and `DeadLettersHold`, which count: they rest on `Counting`, that
  in every state finitely many firings have failed or advanced their job (a step
  changes the status of one firing at most), and on `FailureRunGrows`, that no step
  but the two which end a dead-letter run takes a failure out of it.  Without
  finiteness a larger run need not have a larger cardinality;
- `LifecycleImplemented`: initial states map to initial states and every step to
  a step of `OccurrenceLifecycle` or a stutter.

`DeliveryJournalProofs` proves, with only the assumption `JournalConstants`:

- for every instance, power losses included, `JournalsWellFormed`:
  `Spec => []IInv`, where `IInv` joins `TypeOK` and `JournalsReplay` with
  `BackupsReplay`: the journal a power loss would bring back in place of a
  renamed one is legal as well, without which `HostCrash` breaks the invariant.
  Corollaries: `JournalTypes`, `AlwaysReplayable`;
- for instances with `~HostCrashes` (the code does not give these guarantees
  otherwise, see section 6), `Guarantees`: `Spec => []SInv`.
  `SInv` adds `FloorInSync`, that a serving actor that is not degraded knows
  the floor on disk.  It makes "below the floor" mean the same to the handlers
  and to the properties; without it `AcceptedOnce` is not inductive.
  Corollaries: `DeliveredOnce`, `ConfirmedStays`, together `DeliveriesStand`, and
  `GenerationsHold`; from it
  the action properties `LeasesHonoured` and `FloorFinal`, and
  `RegisterImplemented`, that every step is one of `DeliveryRegister` or a
  stutter.

Both invariants rest on lemmas about the file operations (`AppendFailedSound`,
`AppendedSound`, `CompactionFailedSound`, `CompactedSound`, `HostCrashStep`):
whatever an operation leaves behind is a journal that replays, with the same
records, one more, or a checkpoint of the same generation.

`CronOutboxProofs` proves `Invariance`, `Spec => []IInv`, for every value of the
constants with only `OutboxConstants`.  `IInv` joins the properties with the
shape of the files (`WellFiled`: older files hold older ids, none twice, none
larger than the threshold), `IdsAhead`, and `SeenBelow`: what was sent in this
epoch is at most as new as something retained, or else the marker is there and
the next start renews the epoch.  Without the last an id could come back after
the files are deleted, and `NeverAliased` is not inductive.  The argument about
the code is in `RotationTrims` (a rotation stopped after any number of renames,
over any gaps, loses events of the oldest file only, and only for a full current
one) and `AppendWindow` (so does any append, complete or not).  Corollaries:
`TypeCorrect`, `IdsNeverAliased`, `CursorsSkipNothing`, `IndexIsRetained`; then
`NoEvictedDelivery` and `Implementation`, that every step is one of `OutboxLog`
or a stutter.

`GenerationLeaseProofs` proves the invariants of `GenerationLease` for any number
of processes, deaths, tickets and tokens, with only `LeaseConstants`:

- `Invariance` is `Spec => []IInv`, what holds whatever the scans overlook.  `IInv`
  adds to the types what the locals of a process say about its phase
  (`Attempts`: a token from the choice on, a ticket from the survey on), that
  the records of an attempt stay on disk while it counts on them
  (`RecordsInPlace`), which holds because the token of a live process keeps
  others from retiring its records, `Leased`, that what runs has a signed lease and
  that the creator of the lock is at work on it, and `Lone`, what an undisturbed
  process finds.  Corollaries: `TypeCorrect` and `LoneStarts`.
- `GuardedInvariance` is `Spec => []Guard`, what holds until a check has overlooked
  a chooser.  `Bakery` is the reason the guard is exclusive.  For a process `p` that
  is reading the records and any other `q`: `p` knows that it is blocked, or `q` comes after `p`
  (`GoesBehind`: `q` has a larger ticket, or is choosing one and has read or will
  read that of `p`), or `p` has still to read a record of `q` that goes first, or
  has still to come to the place where it stood and so to overlook it (`WillSee`);
  under the guard only `GoesBehind` is left.  Exclusiveness is not inductive without it.
  `Transaction` says that the lock on disk is that of the process inside, that
  nobody is about to remove it, and that nobody deletes what another has signed for.
- `GenerationsSafe`, from both: `SafeUnlessOvertaken`.  There is no assumption on
  the timing of the scans in any of these theorems; the property names the one read
  after which it says nothing, and the run `guard_scan` reaches it.

`CronLedgerImportProofs` reuses the step lemmas of `CronLedgerProofs` for the ledger
between restarts, with only the assumptions of the two modules:

- `LedgerSurvives`, for fresh installs and upgrades alike: the invariant of the
  ledger is kept by crashes, starts and imports, because an import clears the tables
  only while no attempt refers to an occurrence;
- `UpgradeInvariance`, the invariant of an upgrade.  `Pristine` says that before the
  cutover commits nothing is served, fired or claimed, that an occurrence without
  a row has no envelope, and that store and outbox are those the upgrade began with;
  without it a second import could not be seen to write what the first one wrote.
  `Honoured` says that what the import wrote for a legacy firing stays, without
  envelope, which is why no consumer of any target can claim it (`UnservedStays`).
  From it `LegacyHonoured` and `EnvelopesStay`.  On a fresh install the latter is
  false (section 6).

`CronSchedulerProofs` proves `Invariance`, `Spec => []IInv`, with only
`SchedulerConstants`.  `IInv` joins the properties with `Known` (ids are never
reused), `Kept` (a job nobody asked to remove, whose schedule parses, is in the store, and in
memory while there is one), `Silenced` (neither memory nor the store holds an enabled job that
should be silent, which is why no restart wakes it) and `Past`: what fired lies
before the next instant of its job, and its job is gone, or about to go, or has a
last run no earlier (`Behind`).  `Behind` is what a reload of the store after a
command leans on: without it a fresh agenda could hold an instant a second time.
The arithmetic is in `NextMultiple` and `NextInstantLater`.  Corollaries:
`TypeCorrect`, `AddedKept`, `FiringsAccounted`; then the action properties
`SilentStays` and `OnceAnInstant`.

`DaemonLifecycleProofs` proves, with only `LifecycleConstants` (finitely many pids,
none of them 0), for any number of processes, entries and faults:

- `TypeCorrect`: `TypeOK` is inductive.  That a start finds a start time nobody bears
  is a count over the other processes, the two lock files and the socket
  (`FreshIsFree`);
- `MigrationIsSafe`.  `Whereabouts` says where each entry is by where it was, and
  `Movers` that what a process still has to move covers the legacy directory, that it
  found cron's own entry exactly where there is one, and that nobody opens the stores
  before the directory is empty.  No lock is part of the argument: entries only leave
  the legacy directory, and whoever comes too late to move one gives up.  This
  matters, because the ownership gate does not keep movers apart: with two pids and
  five faults TLC finds two processes between gate and rename (a crash leaves both
  locks behind, a process reborn under the pid takes the legacy one over with a start
  time that is not its own, and an older one, about to end, removes the primary lock
  it read before).  With three faults there are none, so that a run with that bound
  would have shown exclusion of movers as an invariant;
- `FirstIsAlone`, for starts through the launcher (`Launched`; without it two starts
  can both reclaim a half-written lock).  `Prevails` follows the first daemon: until
  it has its locks it is alone, because the launcher waits (`Claims`); afterwards both
  files hold its pid and start time, so that everybody else reads one of them and is
  refused (`Holds`), until it ends.  `OpenedLate` says that the socket and the stores
  are opened after the locks, so that none of the others has them.

Only model-checked: all liveness (`DaemonComesUp`, `FiringsAreRecorded`,
`DueIsFired`, `ServedAgain`).  Liveness under fairness and ENABLED, and induction over data, are out of this
prover's reach.

## 6. Where code and comments disagree

Each is a run expected to end in a violation; `findings` quotes the lines.

- `fresh_restart`: after a fresh install `migration_state` stays absent while
  firings fill the ledger.  The next start with a job store runs the import over
  them: it replaces rows and envelopes recorded meanwhile (`EnvelopeIsImmutable`
  fails in the same instance), and once an occurrence was claimed it fails on
  the foreign key of `attempts`, then and on every later start.
- `scheduler_stop`: a one-shot job is deleted from the store while its firing is
  still in the channel; a stop of the daemon ends the event loop first and drops
  the channel, so the job is gone and nothing was recorded.  No crash is needed.
- `double_start`: a process whose identity equals the one in the lock takes it
  over as it stands, and the identity is made of the pid alone.  A daemon born
  under the pid of a crashed one therefore keeps a start time that is not its
  own, the next start takes the lock for stale, and two daemons become ready.
- `guard_scan`: the guard's scan lists the records and reads them afterwards, and
  passes over one that is gone by then.  A chooser that becomes an owner in
  between is seen neither as the one nor as the other, and two processes hold the
  guard.  In the same instance one then takes the other's half-written transaction lock
  for the rest of a crash, and the collector can delete a generation under a live
  lease.  `SafeUnlessOvertaken` is that nothing else leads there.

Observed while modelling, without a run of their own:

- A cancelled firing that nobody had claimed leaves no attempt, although the doc
  comment of the cancellation tells it by its abandoned attempt.
- The header of `delivery.rs` makes `sync_all` the commit point, but a record
  whose sync failed is read back, and a repeated accept is confirmed from it without
  another sync.  With power losses (`HostCrashes`) `DeliveriesHold` fails: a confirmed
  accept is forgotten.
- The started marker of the outbox is created in place and filled afterwards; a
  stop between the two leaves an empty one, which every later append and start
  refuse, although `append_durable` calls that an epoch at most.
- A Remove or Update whose store write failed is answered with an error, yet
  stays in memory and becomes durable with the next write.
- Neither `cron.add` nor `cron.update` asks whether the schedule can be parsed.  The
  job is confirmed, never fires, is left out by the next start and erased by the
  write after that; `AddedIsKept` therefore excepts it.
- Without the launcher, or past its wait, two starts can both pass the ownership
  gate of the migration (simultaneous reclaim of a half-written lock); with it too,
  after enough crashes (section 5).  What they move stays safe either way.
- `release_lock_at` removes a lock it cannot parse, so a stopping daemon can
  remove the half-written lock of the next one.  The clean-up removes the pid
  file first and the path of the socket last and unconditionally, so a daemon
  started in between can be refused, or lose its socket's path.
- The scheduler gives its lock up before the writer has drained; the import of
  the next daemon may then run beside the old writer.
- A scanner of the guard that removes the unpublished file of a live process makes
  that process' start fail with an error instead of trying again.

## 7. Not modelled

- Windows' way of making a rename durable; on Unix the directory is synced.
- Payloads, names, envelopes beyond "set once", request validation, JSON and
  SQL: data the properties do not tell apart.
- Corruption of complete records on disk; the code fails loud on it.
- Power losses of the outbox, and other programs than the daemon writing its
  files, except that they may be deleted while it is down.
- The journals of other epochs (removed at start) and the temporary files of
  floor and compaction, which nothing reads.  The floor's rename and the removal
  of journals count as durable once visible.
- Waits of the shutdown that run out, a pid file that cannot be written, IPC
  timeouts, daemons older than the unified layout, cron expressions and jitter.
- Legacy lock directories and processes that cannot be observed, which the
  generation lease treats as alive, the second record Windows needs, and the
  updater's collector beyond its use of the transaction.
- A consumer holds one lease at a time; two consumers stand for one that holds
  two.
- The components listed `not_modelled` in `PROJECT.json`, each with its reason.
  The account bridge and the search engine are derived from upstream projects,
  the sandbox and permission crates are policy evaluation and platform calls,
  and the TypeScript agent loop is driven by model output.

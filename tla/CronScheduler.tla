--------------------------- MODULE CronScheduler ---------------------------
(***************************************************************************)
(* The scheduler of the cron daemon (acosmi-scheduler daemon.rs,           *)
(* task_store.rs) and the two tasks of crabcode-cron main.rs that take its *)
(* firings to the writer actor: the jobs in memory and in                  *)
(* scheduled_tasks.json, the check that fires what is due, the commands,   *)
(* the report of what was missed while the daemon was down, shutdown and   *)
(* crash.                                                                  *)
(*                                                                         *)
(* The scheduler is one task.  What it does between two awaits is one      *)
(* action; its sends and its writes are steps of their own, because the    *)
(* other tasks, a shutdown or a crash may come between them.  The daemon   *)
(* owns the scheduler lock throughout.                                     *)
(***************************************************************************)
EXTENDS Integers, Sequences, FiniteSets, Functions

CONSTANTS
    OneShots,      \* ids of jobs that fire once
    Recurring,     \* ids of jobs that fire every Period
    Period,        \* distance of the instants of a recurring job
    MaxAge,        \* recurring_max_age_ms, 0 for none
    Instants,      \* the instants a one-shot job may be given
    Capacity,      \* capacity of the channel to the event loop
    MayCrash,      \* the daemon may die at any moment
    MaxTime,       \* bound: the clock
    MaxLives,      \* bound: starts of the daemon
    MaxFailures,   \* bound: failed writes of the store
    MaxMisreads,   \* bound: starts that cannot read the store
    MaxCommands    \* bound: commands in all

ASSUME SchedulerConstants ==
    /\ OneShots \cap Recurring = {}
    /\ Period \in Nat \ {0}
    /\ Capacity \in Nat \ {0}
    /\ Instants \subseteq 1 .. MaxTime
    /\ MayCrash \in BOOLEAN
    /\ MaxTime \in Nat \ {0}
    /\ {MaxAge, MaxLives, MaxFailures, MaxMisreads, MaxCommands} \subseteq Nat

VARIABLES
    now,        \* the clock
    store,      \* scheduled_tasks.json: the jobs by id
    sched,      \* where the scheduler task is
    jobs,       \* its jobs
    nextFire,   \* its next_fire_at
    work,       \* what is left of the check or load it is in
    events,     \* channel from the scheduler to the event loop
    report,     \* channel of missed jobs
    reporting,  \* the part of a report its writer task has taken
    loop,       \* the event loop still runs
    missedTask, \* the writer task of the reports still runs
    stopping,   \* the shutdown token is cancelled
    recorded,   \* occurrences on record with the writer actor
    added,      \* ids whose Add was confirmed
    dropped,    \* ids somebody tried to remove
    silent,     \* ids whose removal, or last change to disabled, was confirmed
    unparsable, \* ids that were given a schedule that does not parse
    fired,      \* firings decided in this life of the daemon
    lapsed,     \* last firings of a job, over all lives
    lives, failures, misreads, commands

disk == <<store, recorded>>
memory == <<jobs, nextFire, work>>
channels == <<events, report, reporting>>
tasks == <<loop, missedTask, stopping>>
book == <<added, dropped, silent, unparsable, fired, lapsed>>
bounds == <<lives, failures, misreads, commands>>
vars == <<now, store, sched, jobs, nextFire, work, events, report, reporting, loop,
          missedTask, stopping, recorded, added, dropped, silent, unparsable, fired,
          lapsed, lives, failures, misreads, commands>>

Jobs == OneShots \cup Recurring
Time == 1 .. MaxTime
Never == MaxTime + Period + 1

\* at is the instant of a one-shot job, 1 for a recurring one, and 0 where the schedule
\* does not parse; last is 0 until the job has run.
Job == [created : Time, last : 0 .. MaxTime, enabled : BOOLEAN, at : Instants \cup {0, 1}]
Firing == [job : Jobs, due : 1 .. Never]

NoWork == [unsent |-> {}, repeat |-> {}, final |-> {}, at |-> 0]
NoJobs == [j \in {} |-> 0]

Init ==
    /\ now = 1
    /\ store = NoJobs
    /\ sched = "down"
    /\ jobs = NoJobs
    /\ nextFire = NoJobs
    /\ work = NoWork
    /\ events = <<>>
    /\ report = {}
    /\ reporting = {}
    /\ loop = FALSE
    /\ missedTask = FALSE
    /\ stopping = FALSE
    /\ recorded = {}
    /\ added = {}
    /\ dropped = {}
    /\ silent = {}
    /\ unparsable = {}
    /\ fired = {}
    /\ lapsed = {}
    /\ lives = 0
    /\ failures = 0
    /\ misreads = 0
    /\ commands = 0

-----------------------------------------------------------------------------
(* Schedules and the store                                                  *)

NextInstant(j, job, from) ==
    CASE job.at # 0 /\ j \in Recurring -> (from \div Period + 1) * Period
      [] j \in OneShots /\ job.at > from -> job.at
      [] OTHER -> Never

\* When job j is due: remembered, or on first sight counted from its last run.
DueAt(j) ==
    IF j \in DOMAIN nextFire THEN nextFire[j]
    ELSE NextInstant(j, jobs[j],
                     IF jobs[j].last = 0 THEN jobs[j].created ELSE jobs[j].last)

Aged(j, job) == j \in Recurring /\ MaxAge > 0 /\ now - job.created >= MaxAge

\* persist_jobs: the file becomes the jobs in memory, or stays as it is.
Written(ok) ==
    \/ ok /\ store' = jobs' /\ UNCHANGED failures
    \/ ~ok /\ failures < MaxFailures /\ failures' = failures + 1 /\ UNCHANGED store

Without(f, S) == Restrict(f, DOMAIN f \ S)
With(f, j, job) == [k \in DOMAIN f \cup {j} |-> IF k = j THEN job ELSE f[k]]

\* What a request may say of the instants of job j: nothing checks that it parses.
InstantsOf(j) == {0} \cup IF j \in OneShots THEN Instants ELSE {1}

\* find_missed_jobs_detailed
Missed == {j \in DOMAIN jobs \cap OneShots : jobs[j].enabled /\ jobs[j].at \in 1 .. now - 1}

-----------------------------------------------------------------------------
(* Start-up                                                                 *)

\* is_valid_schedule: the other jobs are left out, and with the next write gone.
Parsable(content) == Restrict(content, {j \in DOMAIN content : content[j].at # 0})

\* load_jobs: a store that cannot be read counts as empty.
Start ==
    /\ sched = "down"
    /\ lives < MaxLives
    /\ lives' = lives + 1
    /\ sched' = "loaded"
    /\ loop' = TRUE
    /\ missedTask' = TRUE
    /\ \/ jobs' = Parsable(store) /\ UNCHANGED misreads
       \/ misreads < MaxMisreads /\ misreads' = misreads + 1 /\ jobs' = NoJobs
    /\ UNCHANGED <<now, nextFire, work, channels, stopping, book, failures, commands, disk>>

\* An At job without delete_after_run, a field left out here, makes the load write back
\* what it has kept.
Normalize(ok) ==
    /\ sched = "loaded"
    /\ DOMAIN jobs \cap OneShots # {}
    /\ sched' = "normalized"
    /\ UNCHANGED jobs
    /\ Written(ok)
    /\ UNCHANGED <<now, nextFire, work, channels, tasks, recorded, book, lives, misreads,
                   commands>>

\* detect_missed_jobs: one-shot jobs whose instant has passed are reported before they
\* are deleted.
DetectMissed ==
    /\ sched \in {"loaded", "normalized"}
    /\ LET missed == {[job |-> j, due |-> jobs[j].at] : j \in Missed}
       IN  /\ report' = missed
           /\ fired' = missed
           /\ lapsed' = lapsed \cup missed
    /\ work' = [NoWork EXCEPT !.final = Missed]
    /\ sched' = IF Missed = {} THEN "idle" ELSE "forgetting"
    /\ UNCHANGED <<now, jobs, nextFire, events, reporting, tasks, added, dropped, silent,
                   unparsable, bounds, disk>>

\* The end of detect_missed_jobs: the reported jobs are deleted.
ForgetMissed(ok) ==
    /\ sched = "forgetting"
    /\ jobs' = Without(jobs, work.final)
    /\ Written(ok)
    /\ work' = NoWork
    /\ sched' = "idle"
    /\ UNCHANGED <<now, nextFire, channels, tasks, recorded, book, lives, misreads,
                   commands>>

-----------------------------------------------------------------------------
(* check: decide, send, stamp, delete                                       *)

SeenDisabled == DOMAIN jobs
Seen == {j \in DOMAIN jobs : jobs[j].enabled}
RipeOnTheDot == {j \in Seen : DueAt(j) = now}
Ripe == {j \in Seen : DueAt(j) <= now}
Final == {j \in Ripe : j \in OneShots \/ Aged(j, jobs[j])}

Firings(S) == {[job |-> j, due |-> DueAt(j)] : j \in S}

\* Counted from the last run, which the check has not stamped yet.
RescheduledFromLast ==
    [j \in Seen \ Final |->
        IF j \in Ripe THEN NextInstant(j, jobs[j], jobs[j].last) ELSE DueAt(j)]

\* What next_fire_at holds after a check: every enabled job but the finished ones.
Rescheduled ==
    [j \in Seen \ Final |-> IF j \in Ripe THEN NextInstant(j, jobs[j], now) ELSE DueAt(j)]

Check ==
    /\ sched = "idle"
    /\ nextFire' = Rescheduled
    /\ work' = [unsent |-> Firings(Ripe), repeat |-> Ripe \ Final, final |-> Final,
                at |-> IF Ripe = {} THEN 0 ELSE now]
    /\ sched' = IF Ripe = {} THEN "idle" ELSE "sending"
    /\ fired' = fired \cup Firings(Ripe)
    /\ lapsed' = lapsed \cup Firings(Final)
    /\ UNCHANGED <<now, jobs, channels, tasks, disk, added, dropped, silent,
                   unparsable, bounds>>

EnqueuedPastCapacity(f) ==
    \/ loop /\ Len(events) <= Capacity /\ events' = Append(events, f)
    \/ ~loop /\ UNCHANGED events

\* try_send, which gives up when there is no room.
EnqueuedOrDropped(f) ==
    \/ loop /\ events' = IF Len(events) < Capacity THEN Append(events, f) ELSE events
    \/ ~loop /\ UNCHANGED events

EnqueuedWithSlack(f) ==
    \/ loop /\ Len(events) < Capacity - 1 /\ events' = Append(events, f)
    \/ ~loop /\ UNCHANGED events

\* The sender waits for room.  Once the event loop is gone a send fails, which
\* the scheduler only logs.
Enqueued(f) ==
    \/ loop /\ Len(events) < Capacity /\ events' = Append(events, f)
    \/ ~loop /\ UNCHANGED events

Send ==
    /\ sched = "sending"
    /\ \E f \in work.unsent :
          /\ Enqueued(f)
          /\ work' = [work EXCEPT !.unsent = @ \ {f}]
    /\ UNCHANGED <<now, sched, jobs, nextFire, report, reporting, tasks, disk, book, bounds>>

Stamped == [j \in DOMAIN jobs |->
               IF j \in work.repeat THEN [jobs[j] EXCEPT !.last = work.at] ELSE jobs[j]]

\* last_run_at of the recurring jobs, in memory and then in the store.
Stamp(ok) ==
    /\ sched = "sending"
    /\ work.unsent = {}
    /\ jobs' = Stamped
    /\ \/ work.repeat = {} /\ ok /\ UNCHANGED <<store, failures>>
       \/ work.repeat # {} /\ Written(ok)
    /\ sched' = "stamped"
    /\ UNCHANGED <<now, nextFire, work, channels, tasks, recorded, book, lives, misreads,
                   commands>>

DeleteFired(ok) ==
    /\ sched = "stamped"
    /\ jobs' = Without(jobs, work.final \cup work.repeat)
    /\ \/ work.final = {} /\ ok /\ UNCHANGED <<store, failures>>
       \/ work.final # {} /\ Written(ok)
    /\ work' = NoWork
    /\ sched' = "idle"
    /\ UNCHANGED <<now, nextFire, channels, tasks, recorded, book, lives, misreads,
                   commands>>

\* Jobs that fired for the last time are deleted.
DeleteFinal(ok) ==
    /\ sched = "stamped"
    /\ jobs' = Without(jobs, work.final)
    /\ \/ work.final = {} /\ ok /\ UNCHANGED <<store, failures>>
       \/ work.final # {} /\ Written(ok)
    /\ work' = NoWork
    /\ sched' = "idle"
    /\ UNCHANGED <<now, nextFire, channels, tasks, recorded, book, lives, misreads,
                   commands>>

-----------------------------------------------------------------------------
(* Commands, served between two checks                                      *)

Serve == sched = "idle" /\ commands < MaxCommands /\ commands' = commands + 1

\* A schedule that does not parse stands until a change to one that does is confirmed.
Misgiven(j, at, ok) ==
    unparsable' = CASE at = 0 -> unparsable \cup {j}
                    [] at # 0 /\ ok -> unparsable \ {j}
                    [] OTHER -> unparsable

\* A failed Add is taken back; ids are fresh.
Add(j, at, enabled, ok) ==
    /\ Serve
    /\ j \notin added \cup DOMAIN jobs \cup dropped
    /\ jobs' = IF ok THEN With(jobs, j, [created |-> now, last |-> 0,
                                         enabled |-> enabled, at |-> at])
               ELSE jobs
    /\ Written(ok)
    /\ added' = IF ok THEN added \cup {j} ELSE added
    /\ silent' = IF ok /\ ~enabled THEN silent \cup {j} ELSE silent
    /\ Misgiven(j, at, ok)
    /\ UNCHANGED <<now, sched, nextFire, work, channels, tasks, recorded, dropped, fired,
                   lapsed, lives, misreads>>

\* A failed Remove stays removed in memory.
Remove(j, ok) ==
    /\ Serve
    /\ j \in DOMAIN jobs
    /\ jobs' = Without(jobs, {j})
    /\ nextFire' = Without(nextFire, {j})
    /\ Written(ok)
    /\ dropped' = dropped \cup {j}
    /\ silent' = IF ok THEN silent \cup {j} ELSE silent
    /\ UNCHANGED <<now, sched, work, channels, tasks, recorded, added, unparsable, fired,
                   lapsed, lives, misreads>>

\* So does a failed Update.
Update(j, at, enabled, ok) ==
    /\ Serve
    /\ j \in DOMAIN jobs
    /\ jobs' = [jobs EXCEPT ![j].at = at, ![j].enabled = enabled]
    /\ nextFire' = Without(nextFire, {j})
    /\ Written(ok)
    /\ silent' = CASE enabled -> silent \ {j}
                   [] ~enabled /\ ok -> silent \cup {j}
                   [] OTHER -> silent
    /\ Misgiven(j, at, ok)
    /\ UNCHANGED <<now, sched, work, channels, tasks, recorded, added, dropped, fired,
                   lapsed, lives, misreads>>

\* A manual run takes the way of a firing and changes nothing else.
Run(j) ==
    /\ Serve
    /\ j \in DOMAIN jobs
    /\ Enqueued([job |-> j, due |-> now])
    /\ UNCHANGED <<now, sched, memory, report, reporting, tasks, disk, book, lives, failures,
                   misreads>>

-----------------------------------------------------------------------------
(* The tasks that take firings to the writer                                *)

\* run_event_loop: the record comes before the broadcast.
Record ==
    /\ loop
    /\ ~stopping
    /\ events # <<>>
    /\ recorded' = recorded \cup {Head(events)}
    /\ events' = Tail(events)
    /\ UNCHANGED <<now, store, sched, memory, report, reporting, tasks, book, bounds>>

\* Shutdown comes first in its select; what is in the channel goes with it.
LoopEnds ==
    /\ loop
    /\ stopping
    /\ loop' = FALSE
    /\ events' = <<>>
    /\ UNCHANGED <<now, sched, memory, report, reporting, missedTask, stopping, disk, book,
                   bounds>>

\* spawn_missed_outbox_writer: a report that was taken is finished.
TakeReport ==
    /\ missedTask
    /\ ~stopping
    /\ report # {}
    /\ reporting = {}
    /\ reporting' = report
    /\ report' = {}
    /\ UNCHANGED <<now, sched, memory, events, tasks, disk, book, bounds>>

RecordMissed ==
    /\ missedTask
    /\ \E f \in reporting :
          /\ recorded' = recorded \cup {f}
          /\ reporting' = reporting \ {f}
    /\ UNCHANGED <<now, store, sched, memory, events, report, tasks, book, bounds>>

MissedTaskEnds ==
    /\ missedTask
    /\ stopping
    /\ reporting = {}
    /\ missedTask' = FALSE
    /\ report' = {}
    /\ UNCHANGED <<now, sched, memory, events, reporting, loop, stopping, disk, book, bounds>>

-----------------------------------------------------------------------------
(* Shutdown, crash, time                                                    *)

Shutdown ==
    /\ sched # "down"
    /\ ~stopping
    /\ stopping' = TRUE
    /\ UNCHANGED <<now, sched, memory, channels, loop, missedTask, disk, book, bounds>>

\* The select of the scheduler is not biased: a check or a command may still win.
SchedulerEnds ==
    /\ sched = "idle"
    /\ stopping
    /\ sched' = "ended"
    /\ UNCHANGED <<now, memory, channels, tasks, disk, book, bounds>>

Gone ==
    /\ sched' = "down"
    /\ jobs' = NoJobs
    /\ nextFire' = NoJobs
    /\ work' = NoWork
    /\ events' = <<>>
    /\ report' = {}
    /\ reporting' = {}
    /\ loop' = FALSE
    /\ missedTask' = FALSE
    /\ stopping' = FALSE
    /\ fired' = {}
    /\ UNCHANGED <<now, disk, added, dropped, silent, unparsable, lapsed, bounds>>

\* shutdown_all: the event loop has ended; the other tasks get a few seconds.
Exit == sched # "down" /\ stopping /\ ~loop /\ Gone

Crash == MayCrash /\ sched # "down" /\ Gone

Tick ==
    /\ now < MaxTime
    /\ now' = now + 1
    /\ UNCHANGED <<sched, memory, channels, tasks, disk, book, bounds>>

Next ==
    \/ Start \/ DetectMissed
    \/ \E ok \in BOOLEAN : Normalize(ok) \/ ForgetMissed(ok) \/ Stamp(ok) \/ DeleteFinal(ok)
    \/ Check
    \/ Send
    \/ \E j \in Jobs, ok \in BOOLEAN :
          \/ \E at \in InstantsOf(j), enabled \in BOOLEAN :
                Add(j, at, enabled, ok) \/ Update(j, at, enabled, ok)
          \/ Remove(j, ok)
    \/ \E j \in Jobs : Run(j)
    \/ Record \/ LoopEnds
    \/ TakeReport \/ RecordMissed \/ MissedTaskEnds
    \/ Shutdown \/ SchedulerEnds \/ Exit \/ Crash
    \/ Tick

\* The tasks run while they can; the check interval keeps ticking.  Nobody has to
\* send a command, stop the daemon or start it.
Fairness ==
    /\ WF_vars(DetectMissed)
    /\ WF_vars(\E ok \in BOOLEAN : ForgetMissed(ok))
    /\ SF_vars(Check)
    /\ WF_vars(Send)
    /\ WF_vars(\E ok \in BOOLEAN : Stamp(ok))
    /\ WF_vars(\E ok \in BOOLEAN : DeleteFinal(ok))
    /\ WF_vars(Record)
    /\ WF_vars(TakeReport)
    /\ WF_vars(RecordMissed)

Spec == Init /\ [][Next]_vars /\ Fairness

-----------------------------------------------------------------------------
(* Properties                                                               *)

JobBooks == UNION {[S -> Job] : S \in SUBSET Jobs}

\* Types, and what the scheduler holds in each of its places.
TypeOK ==
    /\ now \in Time
    /\ store \in JobBooks
    /\ jobs \in JobBooks
    /\ sched \in {"down", "loaded", "normalized", "forgetting", "idle", "sending",
                  "stamped", "ended"}
    /\ nextFire \in UNION {[S -> 1 .. Never] : S \in SUBSET Jobs}
    /\ work.unsent \subseteq Firing /\ work.at \in 0 .. MaxTime
    /\ work.repeat \subseteq Recurring /\ work.final \subseteq Jobs
    /\ sched \in {"down", "loaded", "normalized", "idle", "ended"} => work = NoWork
    /\ events \in Seq(Firing) /\ Len(events) <= Capacity
    /\ report \subseteq Firing /\ reporting \subseteq Firing
    /\ {loop, missedTask, stopping} \subseteq BOOLEAN
    /\ recorded \subseteq Firing /\ fired \subseteq Firing /\ lapsed \subseteq Firing
    /\ added \subseteq Jobs /\ dropped \subseteq Jobs
    /\ silent \subseteq Jobs /\ unparsable \subseteq Jobs
    /\ lives \in 0 .. MaxLives /\ failures \in 0 .. MaxFailures
    /\ misreads \in 0 .. MaxMisreads /\ commands \in 0 .. MaxCommands

JobsOf(S) == {f.job : f \in S}

\* A job whose Add was confirmed stays in the store, over failed writes, crashes
\* and restarts, until somebody asks to remove it or its last firing is decided;
\* unless the schedule it was given last does not parse (a request like any other, but
\* the next start leaves the job out), or a start could not read the store.
AddedIsKept ==
    misreads = 0 =>
        added \ (dropped \cup JobsOf(lapsed) \cup unparsable) \subseteq DOMAIN store

EnRoute == work.unsent \cup Range(events) \cup report \cup reporting

\* While the daemon serves, every firing it decided is on record or on its way.
FiringsAccountedFor ==
    sched # "down" /\ ~stopping => fired \subseteq recorded \cup EnRoute

\* A one-shot job that left the store because it fired or was missed is on record,
\* or its firing is on the way to the record.
DeletedIsRecorded ==
    \A f \in lapsed : f.job \in DOMAIN store \cup dropped \/ f \in recorded \cup EnRoute

\* A job whose removal or disabling was confirmed does not fire again, in this life
\* or after a restart, unless somebody tries to enable it.
SilentStaysSilent == [][silent \cap JobsOf(fired' \ fired) = {}]_vars

\* Within one life of the daemon no check decides an instant a second time.
OncePerInstant ==
    [][sched = "idle" /\ sched' = "sending" => work'.unsent \cap fired = {}]_vars

\* What was decided gets on record unless the daemon stops first.
FiringsAreRecorded == []<>(fired \subseteq recorded \/ stopping \/ sched = "down")

\* Jobs that are due in memory fire, unless they are taken away, changed or disabled
\* first or the daemon stops: again and again, nothing is overdue.
DueIsFired ==
    []<>(\/ \A j \in DOMAIN nextFire : nextFire[j] > now
         \/ stopping \/ sched = "down")
=============================================================================

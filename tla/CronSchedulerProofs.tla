------------------------- MODULE CronSchedulerProofs -------------------------
(***************************************************************************)
(* Proofs about CronScheduler, for any jobs, periods, channel and bounds.  *)
(* The inductive invariant IInv joins the properties that TLC checks with  *)
(* what ties them together: ids are never reused, what is deleted has had  *)
(* its last firing decided, what is silent is enabled neither in memory    *)
(* nor in the store, and what has fired lies before the next instant of    *)
(* its job.                                                                *)
(***************************************************************************)
EXTENDS CronScheduler, TLAPS

\* A set of jobs by id, and the instants of some of them.
Book(b) == DOMAIN b \subseteq Jobs /\ b \in [DOMAIN b -> Job]
Agenda(f) == DOMAIN f \subseteq Jobs /\ f \in [DOMAIN f -> 1 .. Never]

\* The work of a check or load is a record of these parts.
Work == [unsent : SUBSET Firing, repeat : SUBSET Recurring, final : SUBSET Jobs,
         at : 0 .. MaxTime]

\* What a start reports as missed.
Lost == {[job |-> j, due |-> jobs[j].at] : j \in Missed}

\* TypeOK, with books and agendas for what they are.
Typed ==
    /\ now \in Time
    /\ Book(store) /\ Book(jobs) /\ Agenda(nextFire)
    /\ sched \in {"down", "loaded", "normalized", "forgetting", "idle", "sending",
                  "stamped", "ended"}
    /\ work \in Work
    /\ sched \in {"down", "loaded", "normalized", "idle", "ended"} => work = NoWork
    /\ events \in Seq(Firing) /\ Len(events) <= Capacity
    /\ report \subseteq Firing /\ reporting \subseteq Firing
    /\ loop \in BOOLEAN /\ missedTask \in BOOLEAN /\ stopping \in BOOLEAN
    /\ recorded \subseteq Firing /\ fired \subseteq Firing /\ lapsed \subseteq Firing
    /\ added \subseteq Jobs /\ dropped \subseteq Jobs
    /\ silent \subseteq Jobs /\ unparsable \subseteq Jobs
    /\ lives \in 0 .. MaxLives /\ failures \in 0 .. MaxFailures
    /\ misreads \in 0 .. MaxMisreads /\ commands \in 0 .. MaxCommands

\* What the scheduler holds in each of its places, and that the two tasks behind it
\* run until they are told to stop.
Places ==
    /\ sched \in {"forgetting", "stamped"} => work.unsent = {}
    /\ sched \in {"down", "loaded", "normalized"} => nextFire = NoJobs /\ fired = {}
    /\ sched # "down" /\ ~stopping => loop /\ missedTask

\* Every id anybody knows was added; ids are not added twice.
Known == DOMAIN jobs \cup DOMAIN store \cup silent \cup dropped \cup JobsOf(fired) \subseteq added

\* The jobs nobody has asked to remove or given a schedule that does not parse, and no
\* check or load has finished.
Wanted == added \ (dropped \cup JobsOf(lapsed) \cup unparsable)

\* A book has them all, with schedules that a start accepts.
HasWanted(b) == \A j \in Wanted : j \in DOMAIN b /\ b[j].at # 0

\* They are in the store, and in memory while there is one, until a start reads nothing.
Kept ==
    /\ work.final \subseteq JobsOf(lapsed)
    /\ misreads = 0 => HasWanted(store)
    /\ misreads = 0 /\ sched # "down" => HasWanted(jobs)

\* Neither memory nor the store holds an enabled job that should be silent.
Silenced ==
    \A j \in silent : /\ j \in DOMAIN jobs => ~jobs[j].enabled
                      /\ j \in DOMAIN store => ~store[j].enabled

\* A firing of this life can not be decided again: its job is gone or about to go, or
\* has a last run, or is about to get one, that is no earlier than the instant.
Behind(f) ==
    \/ f.job \notin DOMAIN jobs
    \/ f.job \in work.final
    \/ f.job \in Recurring /\ f.due <= jobs[f.job].last
    \/ f.job \in work.repeat /\ sched = "sending"

\* What fired lies in the past, before the next instant of its job.
Past ==
    \A f \in fired :
        /\ f.due <= now
        /\ sched = "sending" => f.due <= work.at
        /\ f.job \in DOMAIN nextFire => f.due < nextFire[f.job]
        /\ Behind(f)

IInv ==
    /\ Typed
    /\ Places
    /\ Known
    /\ Kept
    /\ Silenced
    /\ Past
    /\ FiringsAccountedFor

-----------------------------------------------------------------------------
(* Books of jobs, agendas, instants *)

\* JobBooks is the set of books, and the type of next_fire_at that of agendas.
LEMMA BooksAndAgendas ==
    ASSUME NEW b
    PROVE  /\ b \in JobBooks <=> Book(b)
           /\ b \in UNION {[S -> 1 .. Never] : S \in SUBSET Jobs} <=> Agenda(b)
<1>1. b \in JobBooks => Book(b)
  BY DEF JobBooks, Book
<1>2. Book(b) => b \in JobBooks
  BY DEF JobBooks, Book
<1>3. b \in UNION {[S -> 1 .. Never] : S \in SUBSET Jobs} => Agenda(b)
  BY DEF Agenda
<1>4. Agenda(b) => b \in UNION {[S -> 1 .. Never] : S \in SUBSET Jobs}
  BY DEF Agenda
<1> QED  BY <1>1, <1>2, <1>3, <1>4

\* The next multiple of a period lies after an instant, by a period at most.
LEMMA NextMultiple ==
    ASSUME NEW x \in Nat, NEW d \in Nat \ {0}
    PROVE  LET y == (x \div d + 1) * d IN y \in Nat /\ x < y /\ y <= x + d
<1> DEFINE q == x \div d
           r == x % d
<1>1. q \in Nat /\ r \in 0 .. (d - 1) /\ x = d * q + r
  OBVIOUS
<1> HIDE DEF q, r
<1>2. (q + 1) * d = d * q + d /\ d * q \in Nat
  BY <1>1
<1> QED  BY <1>1, <1>2 DEF q

\* An instant that is computed from the past of a recurring job lies after it, and
\* every instant is in range.
LEMMA NextInstantLater ==
    ASSUME NEW j \in Jobs, NEW job \in Job, NEW from \in 0 .. MaxTime
    PROVE  /\ NextInstant(j, job, from) \in 1 .. Never
           /\ from < NextInstant(j, job, from)
<1>1. MaxTime \in Nat /\ Period \in Nat \ {0} /\ Never = MaxTime + Period + 1 /\ from \in Nat
  BY SchedulerConstants DEF Never
<1>2. CASE job.at # 0 /\ j \in Recurring
  <2>1. NextInstant(j, job, from) = (from \div Period + 1) * Period
    BY <1>2, SchedulerConstants DEF NextInstant
  <2>2. LET y == (from \div Period + 1) * Period
        IN y \in Nat /\ from < y /\ y <= from + Period
    BY <1>1, NextMultiple
  <2> QED  BY <1>1, <2>1, <2>2
<1>3. CASE j \in OneShots /\ job.at > from
  <2>1. NextInstant(j, job, from) = job.at
    BY <1>3, SchedulerConstants DEF NextInstant
  <2>2. job.at \in Instants \/ job.at = 0 \/ job.at = 1
    BY DEF Job
  <2>3. Instants \subseteq 1 .. MaxTime /\ MaxTime \in Nat \ {0}
    BY SchedulerConstants
  <2>4. 0 \in 0 .. MaxTime /\ 1 \in 0 .. MaxTime
    BY <2>3
  <2>5. \A x \in 1 .. MaxTime : x \in 0 .. MaxTime
    BY <2>3
  <2>6. job.at \in 0 .. MaxTime
    BY <2>2, <2>3, <2>4, <2>5
  <2> QED  BY <1>1, <1>3, <2>1, <2>6
<1>4. CASE ~(job.at # 0 /\ j \in Recurring) /\ ~(j \in OneShots /\ job.at > from)
  <2>1. NextInstant(j, job, from) = Never
    BY <1>4 DEF NextInstant
  <2> QED  BY <1>1, <2>1
<1> QED  BY <1>2, <1>3, <1>4

\* A book or an agenda without some of its jobs.
LEMMA WithoutSome ==
    ASSUME NEW b, NEW S
    PROVE  /\ DOMAIN Without(b, S) = DOMAIN b \ S
           /\ \A k \in DOMAIN b \ S : Without(b, S)[k] = b[k]
           /\ Book(b) => Book(Without(b, S))
           /\ Agenda(b) => Agenda(Without(b, S))
  BY DEF Without, Restrict, Book, Agenda

\* What a start keeps of a book.
LEMMA ParsableBook ==
    ASSUME NEW b
    PROVE  /\ DOMAIN Parsable(b) = {k \in DOMAIN b : b[k].at # 0}
           /\ \A k \in DOMAIN Parsable(b) : Parsable(b)[k] = b[k]
           /\ Book(b) => Book(Parsable(b))
  BY DEF Parsable, Restrict, Book

\* A book with one job more.
LEMMA WithOne ==
    ASSUME NEW b, Book(b), NEW j \in Jobs, NEW job \in Job
    PROVE  /\ Book(With(b, j, job))
           /\ DOMAIN With(b, j, job) = DOMAIN b \cup {j}
           /\ With(b, j, job)[j] = job
           /\ \A k \in DOMAIN b \ {j} : With(b, j, job)[k] = b[k]
  BY DEF With, Book

\* A book with one job changed.
LEMMA UpdatedBook ==
    ASSUME Book(jobs), NEW j \in Jobs, NEW at \in InstantsOf(j), NEW on \in BOOLEAN,
           NEW ok \in BOOLEAN, Update(j, at, on, ok)
    PROVE  /\ Book(jobs') /\ DOMAIN jobs' = DOMAIN jobs
           /\ jobs'[j].enabled = on /\ jobs'[j].at = at /\ jobs'[j].last = jobs[j].last
           /\ \A k \in DOMAIN jobs \ {j} : jobs'[k] = jobs[k]
<1>1. /\ j \in DOMAIN jobs
      /\ jobs' = [jobs EXCEPT ![j].at = at, ![j].enabled = on]
  BY DEF Update
<1>2. jobs[j] \in Job /\ at \in Instants \cup {0, 1}
  BY <1>1 DEF Book, InstantsOf
<1>3. /\ DOMAIN jobs' = DOMAIN jobs
      /\ jobs'[j] = [[jobs[j] EXCEPT !.at = at] EXCEPT !.enabled = on]
      /\ \A k \in DOMAIN jobs \ {j} : jobs'[k] = jobs[k]
      /\ jobs' = [k \in DOMAIN jobs |-> jobs'[k]]
  BY <1>1 DEF Book
<1>4. /\ jobs'[j] \in Job /\ jobs'[j].enabled = on
      /\ jobs'[j].at = at /\ jobs'[j].last = jobs[j].last
  BY <1>2, <1>3 DEF Job
<1> QED  BY <1>3, <1>4 DEF Book

\* The stamps of a check change the last run of what fires again, and nothing else.
LEMMA StampedBook ==
    ASSUME Book(jobs), work.at \in 0 .. MaxTime
    PROVE  /\ Book(Stamped) /\ DOMAIN Stamped = DOMAIN jobs
           /\ \A k \in DOMAIN jobs :
                 /\ Stamped[k].enabled = jobs[k].enabled /\ Stamped[k].at = jobs[k].at
                 /\ Stamped[k].last = IF k \in work.repeat THEN work.at ELSE jobs[k].last
<1>1. \A k \in DOMAIN jobs : jobs[k] \in Job
  BY DEF Book
<1>2. ASSUME NEW k \in DOMAIN jobs
      PROVE  /\ Stamped[k] \in Job
             /\ Stamped[k].enabled = jobs[k].enabled /\ Stamped[k].at = jobs[k].at
             /\ Stamped[k].last = IF k \in work.repeat THEN work.at ELSE jobs[k].last
  BY <1>1, <1>2 DEF Stamped, Job
<1> QED  BY <1>2 DEF Stamped, Book

-----------------------------------------------------------------------------
(* Types *)

\* What a start reports: one-shot jobs whose instant has passed, in range.
LEMMA LostInRange ==
    ASSUME Typed
    PROVE  Lost \subseteq Firing /\ Missed \subseteq Jobs
<1>1. ASSUME NEW j \in Missed
      PROVE  [job |-> j, due |-> jobs[j].at] \in Firing
  <2>1. j \in Jobs /\ jobs[j].at \in 1 .. now - 1 /\ now \in 1 .. MaxTime
    BY <1>1 DEF Missed, Typed, Book, Time
  <2>2. jobs[j].at \in 1 .. Never
    BY <2>1, SchedulerConstants DEF Never
  <2> QED  BY <2>1, <2>2 DEF Firing
<1> QED  BY <1>1 DEF Lost, Missed, Typed, Book

\* Due instants are in range, and after the last run of a job if it has none on the
\* agenda.
LEMMA DueInRange ==
    ASSUME Typed, NEW j \in DOMAIN jobs
    PROVE  /\ DueAt(j) \in 1 .. Never
           /\ j \notin DOMAIN nextFire /\ jobs[j].last # 0 => jobs[j].last < DueAt(j)
<1>1. j \in Jobs /\ jobs[j] \in Job
  BY DEF Typed, Book
<1>2. jobs[j].created \in 0 .. MaxTime /\ jobs[j].last \in 0 .. MaxTime
  BY <1>1, SchedulerConstants DEF Job, Time
<1>3. CASE j \in DOMAIN nextFire
  BY <1>3 DEF Typed, Agenda, DueAt
<1>4. CASE j \notin DOMAIN nextFire
  BY <1>1, <1>2, <1>4, NextInstantLater DEF DueAt
<1> QED  BY <1>3, <1>4

\* What a check decides is a set of firings, each due by now.
LEMMA FiringsInRange ==
    ASSUME Typed, NEW S \in SUBSET Ripe
    PROVE  Firings(S) \subseteq Firing
<1>1. \A j \in S : j \in Jobs /\ DueAt(j) \in 1 .. Never
  BY DueInRange DEF Ripe, Seen, Typed, Book
<1> QED  BY <1>1 DEF Firings, Firing

\* A send keeps the channel within its capacity.
LEMMA EnqueuedInRange ==
    ASSUME NEW f \in Firing, events \in Seq(Firing), Len(events) <= Capacity, Enqueued(f)
    PROVE  events' \in Seq(Firing) /\ Len(events') <= Capacity
<1>1. Len(events) \in Nat /\ Capacity \in Nat
  BY SchedulerConstants
<1>2. CASE Len(events) < Capacity /\ events' = Append(events, f)
  <2>1. Append(events, f) \in Seq(Firing) /\ Len(Append(events, f)) = Len(events) + 1
    OBVIOUS
  <2> QED  BY <1>1, <1>2, <2>1
<1>3. CASE events' = events
  BY <1>3
<1> QED  BY <1>2, <1>3 DEF Enqueued

\* The agenda a check leaves: nothing on it has come yet.
LEMMA RescheduledAgenda ==
    ASSUME Typed
    PROVE  /\ Agenda(Rescheduled)
           /\ DOMAIN Rescheduled = Seen \ Final
           /\ \A j \in DOMAIN Rescheduled : now < Rescheduled[j]
<1>1. now \in Nat /\ now \in 0 .. MaxTime
  BY SchedulerConstants DEF Typed, Time
<1>2. ASSUME NEW j \in Seen \ Final
      PROVE  Rescheduled[j] \in 1 .. Never /\ now < Rescheduled[j]
  <2>1. j \in DOMAIN jobs /\ j \in Jobs /\ jobs[j] \in Job /\ DueAt(j) \in 1 .. Never
    BY <1>2, DueInRange DEF Seen, Typed, Book
  <2>2. CASE j \in Ripe
    BY <1>1, <1>2, <2>1, <2>2, NextInstantLater DEF Rescheduled
  <2>3. CASE j \notin Ripe
    <3>1. Rescheduled[j] = DueAt(j) /\ ~(DueAt(j) <= now)
      BY <1>2, <2>3 DEF Rescheduled, Ripe
    <3> QED  BY <1>1, <2>1, <3>1 DEF Never
  <2> QED  BY <2>2, <2>3
<1>3. Seen \ Final \subseteq Jobs
  BY DEF Seen, Typed, Book
<1> QED  BY <1>2, <1>3 DEF Rescheduled, Agenda

\* Every step keeps the types.
LEMMA TypedStep ==
    ASSUME Typed, Next
    PROVE  Typed'
<1>1. CASE Start
  <2>1. Book(store) /\ Book(NoJobs)
    BY DEF Typed, Book, NoJobs
  <2>2. Book(jobs')
    BY <1>1, <2>1, ParsableBook DEF Start
  <2>3. misreads' \in 0 .. MaxMisreads /\ lives' \in 0 .. MaxLives
    BY <1>1, SchedulerConstants DEF Start, Typed
  <2> QED  BY <1>1, <2>2, <2>3 DEF Start, Typed, channels, disk, book
<1>2. ASSUME NEW ok \in BOOLEAN, ForgetMissed(ok)
      PROVE  Typed'
  <2>1. Book(jobs) /\ Book(store)
    BY DEF Typed
  <2>2. Book(jobs')
    BY <1>2, <2>1, WithoutSome DEF ForgetMissed
  <2>3. Book(store')
    BY <1>2, <2>1, <2>2 DEF ForgetMissed, Written
  <2>4. NoWork \in Work /\ failures' \in 0 .. MaxFailures
    BY <1>2, SchedulerConstants DEF ForgetMissed, Written, Typed, Work, NoWork
  <2> QED  BY <1>2, <2>2, <2>3, <2>4 DEF ForgetMissed, Typed, channels, tasks, book
<1>3. ASSUME NEW ok \in BOOLEAN, Stamp(ok)
      PROVE  Typed'
  <2>1. Book(jobs') /\ (Book(store) => Book(store'))
    BY <1>3, StampedBook DEF Stamp, Written, Typed, Work
  <2>2. failures' \in 0 .. MaxFailures
    BY <1>3, SchedulerConstants DEF Stamp, Written, Typed
  <2> QED  BY <1>3, <2>1, <2>2 DEF Stamp, Typed, channels, tasks, book
<1>4. ASSUME NEW ok \in BOOLEAN, DeleteFinal(ok)
      PROVE  Typed'
  <2>1. Book(jobs) /\ Book(store)
    BY DEF Typed
  <2>2. Book(jobs')
    BY <1>4, <2>1, WithoutSome DEF DeleteFinal
  <2>3. Book(store')
    BY <1>4, <2>1, <2>2 DEF DeleteFinal, Written
  <2>4. NoWork \in Work /\ failures' \in 0 .. MaxFailures
    BY <1>4, SchedulerConstants DEF DeleteFinal, Written, Typed, Work, NoWork
  <2> QED  BY <1>4, <2>2, <2>3, <2>4 DEF DeleteFinal, Typed, channels, tasks, book
<1>5. CASE Check
  <2>1. Agenda(nextFire')
    BY <1>5, RescheduledAgenda DEF Check
  <2>2. Firings(Ripe) \subseteq Firing /\ Firings(Final) \subseteq Firing
    BY FiringsInRange DEF Final
  <2>3. work' \in Work /\ (Ripe = {} => work' = NoWork)
    <3>1. Ripe \subseteq Jobs /\ Final \subseteq Ripe /\ Ripe \ Final \subseteq Recurring
      BY DEF Ripe, Seen, Final, Typed, Book, Jobs
    <3>2. now \in 0 .. MaxTime /\ 0 \in 0 .. MaxTime
      BY SchedulerConstants DEF Typed, Time
    <3>3. work' \in Work
      BY <1>5, <2>2, <3>1, <3>2 DEF Check, Work
    <3>4. Ripe = {} => work' = NoWork
      BY <1>5, <3>1 DEF Check, NoWork, Firings
    <3> QED  BY <3>3, <3>4
  <2> QED  BY <1>5, <2>1, <2>2, <2>3 DEF Check, Typed, channels, tasks, disk, bounds
<1>6. CASE Send
  <2>1. PICK f \in work.unsent : Enqueued(f) /\ work' = [work EXCEPT !.unsent = @ \ {f}]
    BY <1>6 DEF Send
  <2>2. work' \in Work /\ f \in Firing
    BY <2>1 DEF Typed, Work
  <2>3. events' \in Seq(Firing) /\ Len(events') <= Capacity
    BY <2>1, <2>2, EnqueuedInRange DEF Typed
  <2> QED  BY <1>6, <2>2, <2>3 DEF Send, Typed, tasks, disk, book, bounds
<1>7. ASSUME NEW j \in Jobs, NEW ok \in BOOLEAN, NEW at \in InstantsOf(j),
              NEW on \in BOOLEAN, Add(j, at, on, ok)
      PROVE  Typed'
  <2>1. [created |-> now, last |-> 0, enabled |-> on, at |-> at] \in Job
    BY SchedulerConstants DEF Typed, Job, InstantsOf
  <2>2. Book(jobs) /\ Book(store)
    BY DEF Typed
  <2>3. Book(jobs')
    BY <1>7, <2>2, <2>1, WithOne DEF Add
  <2>4. Book(store')
    BY <1>7, <2>2, <2>3 DEF Add, Written
  <2>5. commands' \in 0 .. MaxCommands /\ failures' \in 0 .. MaxFailures
    BY <1>7, SchedulerConstants DEF Add, Serve, Written, Typed
  <2>6. added' \subseteq Jobs /\ silent' \subseteq Jobs /\ unparsable' \subseteq Jobs
    BY <1>7 DEF Add, Misgiven, Typed
  <2> QED  BY <1>7, <2>3, <2>4, <2>5, <2>6 DEF Add, Serve, Typed, channels, tasks
<1>8. ASSUME NEW j \in Jobs, NEW ok \in BOOLEAN, Remove(j, ok)
      PROVE  Typed'
  <2>1. Book(jobs) /\ Book(store) /\ Agenda(nextFire)
    BY DEF Typed
  <2>2. Book(jobs') /\ Agenda(nextFire')
    BY <1>8, <2>1, WithoutSome DEF Remove
  <2>3. Book(store')
    BY <1>8, <2>1, <2>2 DEF Remove, Written
  <2>4. commands' \in 0 .. MaxCommands /\ failures' \in 0 .. MaxFailures
    BY <1>8, SchedulerConstants DEF Remove, Serve, Written, Typed
  <2> QED  BY <1>8, <2>2, <2>3, <2>4 DEF Remove, Serve, Typed, channels, tasks
<1>9. ASSUME NEW j \in Jobs, NEW ok \in BOOLEAN, NEW at \in InstantsOf(j),
              NEW on \in BOOLEAN, Update(j, at, on, ok)
      PROVE  Typed'
  <2>1. Book(jobs) /\ Book(store) /\ Agenda(nextFire)
    BY DEF Typed
  <2>2. Book(jobs')
    BY <1>9, <2>1, UpdatedBook
  <2>3. Agenda(nextFire')
    BY <1>9, <2>1, WithoutSome DEF Update
  <2>4. Book(store')
    BY <1>9, <2>1, <2>2 DEF Update, Written
  <2>5. commands' \in 0 .. MaxCommands /\ failures' \in 0 .. MaxFailures
    BY <1>9, SchedulerConstants DEF Update, Serve, Written, Typed
  <2>6. silent' \subseteq Jobs /\ unparsable' \subseteq Jobs
    BY <1>9 DEF Update, Misgiven, Typed
  <2> QED  BY <1>9, <2>2, <2>3, <2>4, <2>5, <2>6 DEF Update, Serve, Typed, channels, tasks
<1>10. ASSUME NEW j \in Jobs, Run(j)
      PROVE  Typed'
  <2>1. [job |-> j, due |-> now] \in Firing
    BY SchedulerConstants DEF Typed, Firing, Time, Never
  <2>2. events' \in Seq(Firing) /\ Len(events') <= Capacity
    BY <1>10, <2>1, EnqueuedInRange DEF Run, Typed
  <2>3. commands' \in 0 .. MaxCommands
    BY <1>10, SchedulerConstants DEF Run, Serve, Typed
  <2> QED  BY <1>10, <2>2, <2>3 DEF Run, Typed, memory, tasks, disk, book
<1>11. CASE Record
  <2>1. Head(events) \in Firing /\ Tail(events) \in Seq(Firing) /\ Len(Tail(events)) <= Capacity
    BY <1>11, SchedulerConstants DEF Record, Typed
  <2> QED  BY <1>11, <2>1 DEF Record, Typed, memory, tasks, book, bounds
<1>12. CASE LoopEnds
  <2>1. <<>> \in Seq(Firing) /\ Len(<<>>) <= Capacity
    BY SchedulerConstants
  <2> QED  BY <1>12, <2>1 DEF LoopEnds, Typed, memory, disk, book, bounds
<1>13. CASE TakeReport
  BY <1>13, SchedulerConstants DEF Typed, TakeReport, memory, channels, tasks, disk,
     book, bounds
<1>14. CASE RecordMissed
  BY <1>14, SchedulerConstants DEF Typed, RecordMissed, memory, channels, tasks, disk,
     book, bounds
<1>15. CASE MissedTaskEnds
  BY <1>15, SchedulerConstants DEF Typed, MissedTaskEnds, memory, channels, tasks, disk,
     book, bounds
<1>16. CASE Shutdown
  BY <1>16, SchedulerConstants DEF Typed, Shutdown, memory, channels, tasks, disk, book,
     bounds
<1>17. CASE SchedulerEnds
  BY <1>17, SchedulerConstants DEF Typed, SchedulerEnds, memory, channels, tasks, disk,
     book, bounds
<1>18. CASE Exit
  <2>1. <<>> \in Seq(Firing) /\ Len(<<>>) <= Capacity /\ NoWork \in Work
    BY SchedulerConstants DEF NoWork, Work
  <2>2. Book(NoJobs) /\ Agenda(NoJobs)
    BY DEF Book, Agenda, NoJobs
  <2> QED  BY <1>18, <2>1, <2>2 DEF Exit, Gone, Typed, disk, bounds
<1>19. CASE Crash
  <2>1. <<>> \in Seq(Firing) /\ Len(<<>>) <= Capacity /\ NoWork \in Work
    BY SchedulerConstants DEF NoWork, Work
  <2>2. Book(NoJobs) /\ Agenda(NoJobs)
    BY DEF Book, Agenda, NoJobs
  <2> QED  BY <1>19, <2>1, <2>2 DEF Crash, Gone, Typed, disk, bounds
<1>20. CASE Tick
  BY <1>20, SchedulerConstants DEF Typed, Tick, memory, channels, tasks, disk, book,
     bounds, Time
<1>21. ASSUME NEW ok \in BOOLEAN, Normalize(ok)
       PROVE  Typed'
  <2>1. Book(store') /\ failures' \in 0 .. MaxFailures
    BY <1>21, SchedulerConstants DEF Normalize, Written, Typed
  <2> QED  BY <1>21, <2>1 DEF Normalize, Typed, channels, tasks, book
<1>22. CASE DetectMissed
  <2>1. Lost \subseteq Firing /\ Missed \subseteq Jobs
    BY LostInRange
  <2>2. work' \in Work /\ (sched' = "idle" => work' = NoWork)
    <3>1. 0 \in 0 .. MaxTime
      BY SchedulerConstants
    <3>2. /\ work' = [unsent |-> {}, repeat |-> {}, final |-> Missed, at |-> 0]
          /\ sched' = "idle" => Missed = {}
      BY <1>22 DEF DetectMissed, NoWork
    <3> QED  BY <2>1, <3>1, <3>2 DEF Work, NoWork
  <2>3. /\ report' = Lost /\ fired' = Lost /\ lapsed' = lapsed \cup Lost
        /\ sched' \in {"idle", "forgetting"}
        /\ UNCHANGED <<now, store, jobs, nextFire, events, reporting, tasks, recorded, added,
                       dropped, silent, unparsable, bounds>>
    BY <1>22 DEF DetectMissed, Lost, disk
  <2> QED  BY <2>1, <2>2, <2>3 DEF Typed, tasks, bounds
<1> QED  BY <1>1, <1>2, <1>3, <1>4, <1>5, <1>6, <1>7, <1>8, <1>9, <1>10, <1>11, <1>12,
     <1>13, <1>14, <1>15, <1>16, <1>17, <1>18, <1>19, <1>20, <1>21, <1>22 DEF Next

-----------------------------------------------------------------------------
(* Firings and where they are *)

\* The jobs of firings.
LEMMA JobsOfFirings ==
    /\ JobsOf({}) = {}
    /\ \A S, T : JobsOf(S \cup T) = JobsOf(S) \cup JobsOf(T)
    /\ \A S : JobsOf(Firings(S)) = S
    /\ JobsOf(Lost) = Missed /\ Missed \subseteq DOMAIN jobs
<1>1. JobsOf({}) = {} /\ \A S, T : JobsOf(S \cup T) = JobsOf(S) \cup JobsOf(T)
  BY DEF JobsOf
<1>2. ASSUME NEW S
      PROVE  JobsOf(Firings(S)) = S
  <2>1. \A f \in Firings(S) : f.job \in S
    BY DEF Firings
  <2>2. \A j \in S : [job |-> j, due |-> DueAt(j)] \in Firings(S)
    BY DEF Firings
  <2>3. \A j \in S : j \in JobsOf(Firings(S))
    <3>1. \A j : [job |-> j, due |-> DueAt(j)].job = j
      OBVIOUS
    <3> QED  BY <2>2, <3>1 DEF JobsOf
  <2>4. JobsOf(Firings(S)) \subseteq S
    BY <2>1 DEF JobsOf
  <2> QED  BY <2>3, <2>4
<1>3. JobsOf(Lost) = Missed /\ Missed \subseteq DOMAIN jobs
  <2>1. Missed \subseteq DOMAIN jobs
    BY DEF Missed
  <2>2. \A f \in Lost : f.job \in Missed
    BY DEF Lost
  <2>3. \A j \in Missed : [job |-> j, due |-> jobs[j].at] \in Lost
    BY DEF Lost
  <2>4. \A j \in Missed : j \in JobsOf(Lost)
    <3>1. \A j : [job |-> j, due |-> jobs[j].at].job = j
      OBVIOUS
    <3> QED  BY <2>3, <3>1 DEF JobsOf
  <2>5. JobsOf(Lost) \subseteq Missed
    BY <2>2 DEF JobsOf
  <2> QED  BY <2>1, <2>4, <2>5
<1> QED  BY <1>1, <1>2, <1>3

\* A firing that is sent is added to what the channel holds.
LEMMA RangeOfAppend ==
    ASSUME NEW s \in Seq(Firing), NEW f \in Firing
    PROVE  Range(Append(s, f)) = Range(s) \cup {f}
<1>1. /\ Len(s) \in Nat /\ DOMAIN s = 1 .. Len(s)
      /\ DOMAIN Append(s, f) = 1 .. (Len(s) + 1)
      /\ \A i \in 1 .. Len(s) : Append(s, f)[i] = s[i]
      /\ Append(s, f)[Len(s) + 1] = f
  OBVIOUS
<1> QED  BY <1>1 DEF Range

\* A firing that is received was the head of the channel.
LEMMA RangeOfTail ==
    ASSUME NEW s \in Seq(Firing), s # <<>>
    PROVE  Range(s) = {Head(s)} \cup Range(Tail(s))
<1>1. /\ Len(s) \in Nat \ {0} /\ DOMAIN s = 1 .. Len(s) /\ Head(s) = s[1]
      /\ Len(Tail(s)) = Len(s) - 1 /\ DOMAIN Tail(s) = 1 .. (Len(s) - 1)
      /\ \A i \in 1 .. (Len(s) - 1) : Tail(s)[i] = s[i + 1]
  OBVIOUS
<1>2. ASSUME NEW i \in DOMAIN s
      PROVE  s[i] = Head(s) \/ s[i] \in Range(Tail(s))
  <2>1. CASE i = 1
    BY <1>1, <2>1
  <2>2. CASE i # 1
    <3>1. i - 1 \in 1 .. (Len(s) - 1) /\ (i - 1) + 1 = i
      BY <1>1, <2>2
    <3>2. s[i] = Tail(s)[i - 1]
      BY <1>1, <3>1
    <3> QED  BY <1>1, <3>1, <3>2 DEF Range
  <2> QED  BY <2>1, <2>2
<1>3. ASSUME NEW i \in DOMAIN Tail(s)
      PROVE  Tail(s)[i] \in Range(s)
  <2>1. i + 1 \in DOMAIN s /\ Tail(s)[i] = s[i + 1]
    BY <1>1
  <2> QED  BY <2>1 DEF Range
<1>4. Head(s) \in Range(s)
  BY <1>1 DEF Range
<1> QED  BY <1>2, <1>3, <1>4 DEF Range

\* The step of a start, with what it reads.
LEMMA StartReads ==
    ASSUME Typed, Start
    PROVE  \E content \in {store, NoJobs} :
              /\ DOMAIN jobs' = {k \in DOMAIN content : content[k].at # 0}
              /\ \A k \in DOMAIN jobs' : jobs'[k] = content[k]
              /\ sched = "down" /\ sched' = "loaded"
              /\ misreads' = 0 => misreads = 0 /\ content = store
              /\ loop' /\ missedTask'
              /\ UNCHANGED <<now, store, nextFire, work, channels, recorded, book>>
<1>1. /\ sched = "down" /\ sched' = "loaded" /\ loop' /\ missedTask'
      /\ UNCHANGED <<now, store, nextFire, work, channels, recorded, book>>
  BY DEF Start, disk
<1>2. CASE jobs' = Parsable(store) /\ UNCHANGED misreads
  BY <1>1, <1>2, ParsableBook
<1>3. CASE misreads' = misreads + 1 /\ jobs' = NoJobs
  <2>1. misreads' # 0
    BY <1>3, SchedulerConstants DEF Typed
  <2>2. DOMAIN NoJobs = {}
    BY DEF NoJobs
  <2> QED  BY <1>1, <1>3, <2>1, <2>2
<1> QED  BY <1>2, <1>3 DEF Start

\* The end of a check or load, in memory and then in the store.
LEMMA DeletedFromBooks ==
    ASSUME NEW ok \in BOOLEAN, ForgetMissed(ok) \/ DeleteFinal(ok)
    PROVE  /\ DOMAIN jobs' = DOMAIN jobs \ work.final
           /\ \A k \in DOMAIN jobs' : jobs'[k] = jobs[k]
           /\ store' \in {store, jobs'}
           /\ work' = NoWork /\ sched' = "idle" /\ sched \in {"forgetting", "stamped"}
           /\ UNCHANGED <<now, nextFire, channels, tasks, recorded, book, misreads>>
<1>1. /\ jobs' = Without(jobs, work.final)
      /\ store' \in {store, jobs'}
      /\ work' = NoWork /\ sched' = "idle" /\ sched \in {"forgetting", "stamped"}
      /\ UNCHANGED <<now, nextFire, channels, tasks, recorded, book, misreads>>
  BY DEF ForgetMissed, DeleteFinal, Written
<1>2. DOMAIN jobs' = DOMAIN jobs \ work.final /\ \A k \in DOMAIN jobs \ work.final : jobs'[k] = jobs[k]
  BY <1>1, WithoutSome
<1> QED  BY <1>1, <1>2

\* A stamp, likewise.
LEMMA StampedBooks ==
    ASSUME Typed, NEW ok \in BOOLEAN, Stamp(ok)
    PROVE  /\ DOMAIN jobs' = DOMAIN jobs
           /\ \A k \in DOMAIN jobs :
                 /\ jobs'[k].enabled = jobs[k].enabled /\ jobs'[k].at = jobs[k].at
                 /\ jobs'[k].last = IF k \in work.repeat THEN work.at ELSE jobs[k].last
           /\ store' \in {store, jobs'}
           /\ sched = "sending" /\ sched' = "stamped" /\ work.unsent = {}
           /\ UNCHANGED <<now, nextFire, work, channels, tasks, recorded, book, misreads>>
<1>1. Book(jobs) /\ work.at \in 0 .. MaxTime
  BY DEF Typed, Work
<1>2. jobs' = Stamped
  BY DEF Stamp
<1> QED  BY <1>1, <1>2, StampedBook DEF Stamp, Written

\* An Add that was confirmed adds a job nobody knows; one that was not does nothing.
LEMMA AddedToBooks ==
    ASSUME Typed, NEW j \in Jobs, NEW ok \in BOOLEAN, NEW at \in InstantsOf(j),
           NEW on \in BOOLEAN, Add(j, at, on, ok)
    PROVE  /\ j \notin added
           /\ \/ /\ DOMAIN jobs' = DOMAIN jobs \cup {j} /\ store' = jobs'
                 /\ jobs'[j].at = at /\ jobs'[j].enabled = on
                 /\ added' = added \cup {j}
                 /\ silent' \subseteq silent \cup {j} /\ (on => silent' = silent)
              \/ /\ jobs' = jobs /\ store' = store
                 /\ added' = added /\ silent' = silent
           /\ \A k \in DOMAIN jobs \ {j} : jobs'[k] = jobs[k]
           /\ sched = "idle"
           /\ UNCHANGED <<now, sched, nextFire, work, channels, tasks, recorded, dropped,
                          fired, lapsed, misreads>>
<1>1. [created |-> now, last |-> 0, enabled |-> on, at |-> at] \in Job
  BY SchedulerConstants DEF Typed, Job, InstantsOf
<1>2. Book(jobs)
  BY DEF Typed
<1>3. /\ j \notin added /\ sched = "idle"
      /\ UNCHANGED <<now, sched, nextFire, work, channels, tasks, recorded, dropped, fired,
                     lapsed, misreads>>
  BY DEF Add, Serve
<1>4. CASE ok
  <2> DEFINE job == [created |-> now, last |-> 0, enabled |-> on, at |-> at]
  <2>1. /\ jobs' = With(jobs, j, job) /\ store' = jobs' /\ added' = added \cup {j}
        /\ silent' \subseteq silent \cup {j} /\ (on => silent' = silent)
    BY <1>4 DEF Add, Written
  <2>2. job \in Job
    BY <1>1
  <2>3. job.at = at /\ job.enabled = on
    OBVIOUS
  <2> HIDE DEF job
  <2>4. /\ DOMAIN With(jobs, j, job) = DOMAIN jobs \cup {j}
        /\ With(jobs, j, job)[j] = job
        /\ \A k \in DOMAIN jobs \ {j} : With(jobs, j, job)[k] = jobs[k]
    BY <1>2, <2>2, WithOne
  <2> QED  BY <1>3, <2>1, <2>3, <2>4
<1>5. CASE ~ok
  <2>1. jobs' = jobs /\ store' = store /\ added' = added /\ silent' = silent
    BY <1>5 DEF Add, Written
  <2> QED  BY <1>3, <2>1
<1> QED  BY <1>4, <1>5

\* A Remove takes a job from memory, and from the store if the write succeeds.
LEMMA RemovedFromBooks ==
    ASSUME NEW j \in Jobs, NEW ok \in BOOLEAN, Remove(j, ok)
    PROVE  /\ j \in DOMAIN jobs
           /\ DOMAIN jobs' = DOMAIN jobs \ {j}
           /\ \A k \in DOMAIN jobs' : jobs'[k] = jobs[k]
           /\ \/ store' = jobs' /\ silent' = silent \cup {j}
              \/ store' = store /\ silent' = silent
           /\ DOMAIN nextFire' = DOMAIN nextFire \ {j}
           /\ \A k \in DOMAIN nextFire' : nextFire'[k] = nextFire[k]
           /\ dropped' = dropped \cup {j}
           /\ sched = "idle"
           /\ UNCHANGED <<now, sched, work, channels, tasks, recorded, added, unparsable,
                          fired, lapsed, misreads>>
<1>1. /\ jobs' = Without(jobs, {j}) /\ nextFire' = Without(nextFire, {j})
      /\ \/ store' = jobs' /\ silent' = silent \cup {j}
         \/ store' = store /\ silent' = silent
  BY DEF Remove, Written
<1>2. /\ DOMAIN jobs' = DOMAIN jobs \ {j} /\ \A k \in DOMAIN jobs \ {j} : jobs'[k] = jobs[k]
      /\ DOMAIN nextFire' = DOMAIN nextFire \ {j}
      /\ \A k \in DOMAIN nextFire \ {j} : nextFire'[k] = nextFire[k]
  BY <1>1, WithoutSome
<1> QED  BY <1>1, <1>2 DEF Remove, Serve

\* An Update changes the instant of a job and whether it is enabled.
LEMMA UpdatedInBooks ==
    ASSUME Typed, NEW j \in Jobs, NEW ok \in BOOLEAN, NEW at \in InstantsOf(j),
           NEW on \in BOOLEAN, Update(j, at, on, ok)
    PROVE  /\ j \in DOMAIN jobs
           /\ DOMAIN jobs' = DOMAIN jobs
           /\ jobs'[j].last = jobs[j].last /\ jobs'[j].at = at
           /\ \A k \in DOMAIN jobs \ {j} : jobs'[k] = jobs[k]
           /\ store' \in {store, jobs'}
           /\ DOMAIN nextFire' = DOMAIN nextFire \ {j}
           /\ \A k \in DOMAIN nextFire' : nextFire'[k] = nextFire[k]
           /\ sched = "idle"
           /\ UNCHANGED <<now, sched, work, channels, tasks, recorded, added, dropped, fired,
                          lapsed, misreads>>
<1>1. nextFire' = Without(nextFire, {j}) /\ store' \in {store, jobs'}
  BY DEF Update, Written
<1>2. /\ DOMAIN nextFire' = DOMAIN nextFire \ {j}
      /\ \A k \in DOMAIN nextFire \ {j} : nextFire'[k] = nextFire[k]
  BY <1>1, WithoutSome
<1>3. Book(jobs)
  BY DEF Typed
<1>4. /\ DOMAIN jobs' = DOMAIN jobs
      /\ jobs'[j].last = jobs[j].last /\ jobs'[j].at = at
      /\ \A k \in DOMAIN jobs \ {j} : jobs'[k] = jobs[k]
  BY <1>3, UpdatedBook
<1> QED  BY <1>1, <1>2, <1>4 DEF Update, Serve

\* A schedule that does not parse is noted, and forgotten by a confirmed change only.
LEMMA MisgivenNoted ==
    ASSUME NEW j \in Jobs, NEW ok \in BOOLEAN, NEW at \in InstantsOf(j), NEW on \in BOOLEAN,
           Add(j, at, on, ok) \/ Update(j, at, on, ok)
    PROVE  /\ at = 0 => j \in unparsable'
           /\ store' = jobs' \/ unparsable \subseteq unparsable'
           /\ unparsable \subseteq unparsable' \cup {j}
<1>1. Misgiven(j, at, ok) /\ Written(ok)
  BY DEF Add, Update
<1> QED  BY <1>1 DEF Misgiven, Written

\* What an Update leaves to be silent is disabled wherever the change has got.
LEMMA UpdateSilences ==
    ASSUME Typed, NEW j \in Jobs, NEW ok \in BOOLEAN, NEW at \in InstantsOf(j),
           NEW on \in BOOLEAN, Update(j, at, on, ok)
    PROVE  \/ silent' = silent \ {j}
           \/ ~jobs'[j].enabled /\ store' = jobs' /\ silent' = silent \cup {j}
           \/ ~jobs'[j].enabled /\ store' = store /\ silent' = silent
<1>1. Book(jobs)
  BY DEF Typed
<1>2. jobs'[j].enabled = on
  BY <1>1, UpdatedBook
<1>3. CASE on
  BY <1>3 DEF Update
<1>4. CASE ~on /\ ok
  BY <1>2, <1>4 DEF Update, Written
<1>5. CASE ~on /\ ~ok
  BY <1>2, <1>5 DEF Update, Written
<1> QED  BY <1>3, <1>4, <1>5

-----------------------------------------------------------------------------
(* Each part of the invariant, step by step *)

\* Every step keeps what the scheduler holds in each of its places.
LEMMA PlacesStep ==
    ASSUME Typed, Places, Next
    PROVE  Places'
<1>1. CASE Start
  <2>1. /\ sched = "down" /\ sched' = "loaded" /\ loop' /\ missedTask'
        /\ UNCHANGED <<nextFire, work, book>>
    BY <1>1, StartReads
  <2> QED  BY <2>1 DEF Places, book
<1>2. ASSUME NEW ok \in BOOLEAN, ForgetMissed(ok)
      PROVE  Places'
  BY <1>2, DeletedFromBooks DEF Places, NoWork, tasks, book
<1>3. ASSUME NEW ok \in BOOLEAN, Stamp(ok)
      PROVE  Places'
  BY <1>3 DEF Places, Stamp, Written, memory, channels, tasks, disk, book, bounds
<1>4. ASSUME NEW ok \in BOOLEAN, DeleteFinal(ok)
      PROVE  Places'
  BY <1>4, DeletedFromBooks DEF Places, NoWork, tasks, book
<1>5. CASE Check
  BY <1>5 DEF Places, Check, memory, channels, tasks, disk, book, bounds, Typed, NoWork
<1>6. CASE Send
  BY <1>6 DEF Places, Send, Enqueued, memory, channels, tasks, disk, book, bounds
<1>7. ASSUME NEW j \in Jobs, NEW ok \in BOOLEAN, NEW at \in InstantsOf(j),
              NEW on \in BOOLEAN, Add(j, at, on, ok)
      PROVE  Places'
  BY <1>7 DEF Places, Add, Serve, Written, memory, channels, tasks, disk, book, bounds
<1>8. ASSUME NEW j \in Jobs, NEW ok \in BOOLEAN, Remove(j, ok)
      PROVE  Places'
  BY <1>8 DEF Places, Remove, Serve, Written, memory, channels, tasks, disk, book,
     bounds
<1>9. ASSUME NEW j \in Jobs, NEW ok \in BOOLEAN, NEW at \in InstantsOf(j),
              NEW on \in BOOLEAN, Update(j, at, on, ok)
      PROVE  Places'
  BY <1>9 DEF Places, Update, Serve, Written, memory, channels, tasks, disk, book,
     bounds
<1>10. ASSUME NEW j \in Jobs, Run(j)
      PROVE  Places'
  BY <1>10 DEF Places, Run, Serve, Enqueued, memory, channels, tasks, disk, book, bounds
<1>11. CASE Record
  BY <1>11 DEF Places, Record, memory, channels, tasks, disk, book, bounds
<1>12. CASE LoopEnds
  BY <1>12 DEF Places, LoopEnds, memory, channels, tasks, disk, book, bounds
<1>13. CASE TakeReport
  BY <1>13 DEF Places, TakeReport, memory, channels, tasks, disk, book, bounds
<1>14. CASE RecordMissed
  BY <1>14 DEF Places, RecordMissed, memory, channels, tasks, disk, book, bounds
<1>15. CASE MissedTaskEnds
  BY <1>15 DEF Places, MissedTaskEnds, memory, channels, tasks, disk, book, bounds
<1>16. CASE Shutdown
  BY <1>16 DEF Places, Shutdown, memory, channels, tasks, disk, book, bounds
<1>17. CASE SchedulerEnds
  BY <1>17 DEF Places, SchedulerEnds, memory, channels, tasks, disk, book, bounds,
     Typed, NoWork
<1>18. CASE Exit
  BY <1>18 DEF Places, Exit, Gone, NoWork
<1>19. CASE Crash
  BY <1>19 DEF Places, Crash, Gone, NoWork
<1>20. CASE Tick
  BY <1>20 DEF Places, Tick, memory, channels, tasks, disk, book, bounds
<1>21. ASSUME NEW ok \in BOOLEAN, Normalize(ok)
       PROVE  Places'
  BY <1>21 DEF Places, Normalize, tasks, book
<1>22. CASE DetectMissed
  BY <1>22 DEF Places, DetectMissed, NoWork, tasks
<1> QED  BY <1>1, <1>2, <1>3, <1>4, <1>5, <1>6, <1>7, <1>8, <1>9, <1>10, <1>11, <1>12,
     <1>13, <1>14, <1>15, <1>16, <1>17, <1>18, <1>19, <1>20, <1>21, <1>22 DEF Next

\* Every step keeps ids known.
LEMMA KnownStep ==
    ASSUME Typed, Places, Known, Next
    PROVE  Known'
<1>1. CASE Start
  <2>1. PICK content \in {store, NoJobs} :
           DOMAIN jobs' \subseteq DOMAIN content /\ UNCHANGED <<store, book>>
    BY <1>1, StartReads
  <2>2. DOMAIN content \subseteq added
    BY <2>1 DEF Known, NoJobs
  <2> QED  BY <2>1, <2>2 DEF Known, book
<1>2. ASSUME NEW ok \in BOOLEAN, ForgetMissed(ok)
      PROVE  Known'
  BY <1>2, DeletedFromBooks DEF Known, book
<1>3. ASSUME NEW ok \in BOOLEAN, Stamp(ok)
      PROVE  Known'
  BY <1>3, StampedBooks DEF Known, book
<1>4. ASSUME NEW ok \in BOOLEAN, DeleteFinal(ok)
      PROVE  Known'
  BY <1>4, DeletedFromBooks DEF Known, book
<1>5. CASE Check
  <2>1. JobsOf(fired') = JobsOf(fired) \cup Ripe
    BY <1>5, JobsOfFirings DEF Check
  <2>2. Ripe \subseteq DOMAIN jobs
    BY DEF Ripe, Seen
  <2> QED  BY <1>5, <2>1, <2>2 DEF Check, Known, disk
<1>6. CASE Send
  BY <1>6 DEF Known, Send, Enqueued, memory, channels, tasks, disk, book, bounds
<1>7. ASSUME NEW j \in Jobs, NEW ok \in BOOLEAN, NEW at \in InstantsOf(j),
              NEW on \in BOOLEAN, Add(j, at, on, ok)
      PROVE  Known'
  <2>1. \/ /\ DOMAIN jobs' = DOMAIN jobs \cup {j} /\ store' = jobs'
           /\ jobs'[j].at = at /\ jobs'[j].enabled = on
           /\ added' = added \cup {j}
           /\ silent' \subseteq silent \cup {j} /\ (on => silent' = silent)
        \/ /\ jobs' = jobs /\ store' = store
           /\ added' = added /\ silent' = silent
    BY <1>7, AddedToBooks
  <2>2. UNCHANGED <<dropped, fired>>
    BY <1>7 DEF Add
  <2> QED  BY <2>1, <2>2 DEF Known
<1>8. ASSUME NEW j \in Jobs, NEW ok \in BOOLEAN, Remove(j, ok)
      PROVE  Known'
  BY <1>8, RemovedFromBooks DEF Known
<1>9. ASSUME NEW j \in Jobs, NEW ok \in BOOLEAN, NEW at \in InstantsOf(j),
              NEW on \in BOOLEAN, Update(j, at, on, ok)
      PROVE  Known'
  <2>1. DOMAIN jobs' = DOMAIN jobs /\ store' \in {store, jobs'}
    BY <1>9, UpdatedInBooks
  <2>2. UNCHANGED <<added, dropped, fired>> /\ silent' \subseteq silent \cup {j} /\ j \in DOMAIN jobs
    BY <1>9 DEF Update
  <2> QED  BY <2>1, <2>2 DEF Known
<1>10. ASSUME NEW j \in Jobs, Run(j)
      PROVE  Known'
  BY <1>10 DEF Known, Run, Serve, Enqueued, memory, channels, tasks, disk, book, bounds
<1>11. CASE Record
  BY <1>11 DEF Known, Record, memory, channels, tasks, disk, book, bounds
<1>12. CASE LoopEnds
  BY <1>12 DEF Known, LoopEnds, memory, channels, tasks, disk, book, bounds
<1>13. CASE TakeReport
  BY <1>13 DEF Known, TakeReport, memory, channels, tasks, disk, book, bounds
<1>14. CASE RecordMissed
  BY <1>14 DEF Known, RecordMissed, memory, channels, tasks, disk, book, bounds
<1>15. CASE MissedTaskEnds
  BY <1>15 DEF Known, MissedTaskEnds, memory, channels, tasks, disk, book, bounds
<1>16. CASE Shutdown
  BY <1>16 DEF Known, Shutdown, memory, channels, tasks, disk, book, bounds
<1>17. CASE SchedulerEnds
  BY <1>17 DEF Known, SchedulerEnds, memory, channels, tasks, disk, book, bounds
<1>18. CASE Exit
  BY <1>18, JobsOfFirings DEF Known, Exit, Gone, NoJobs, disk
<1>19. CASE Crash
  BY <1>19, JobsOfFirings DEF Known, Crash, Gone, NoJobs, disk
<1>20. CASE Tick
  BY <1>20 DEF Known, Tick, memory, channels, tasks, disk, book, bounds
<1>21. ASSUME NEW ok \in BOOLEAN, Normalize(ok)
       PROVE  Known'
  BY <1>21 DEF Known, Normalize, Written, book
<1>22. CASE DetectMissed
  BY <1>22, JobsOfFirings DEF Known, DetectMissed, Lost, disk
<1> QED  BY <1>1, <1>2, <1>3, <1>4, <1>5, <1>6, <1>7, <1>8, <1>9, <1>10, <1>11, <1>12,
     <1>13, <1>14, <1>15, <1>16, <1>17, <1>18, <1>19, <1>20, <1>21, <1>22 DEF Next

\* Every step keeps the jobs that are wanted.
LEMMA KeptStep ==
    ASSUME Typed, Places, Kept, Next
    PROVE  Kept'
<1>1. CASE Start
  <2>1. PICK content \in {store, NoJobs} :
           /\ DOMAIN jobs' = {k \in DOMAIN content : content[k].at # 0}
           /\ \A k \in DOMAIN jobs' : jobs'[k] = content[k]
           /\ misreads' = 0 => misreads = 0 /\ content = store
           /\ UNCHANGED <<store, work, book>>
    BY <1>1, StartReads
  <2> QED  BY <2>1 DEF Kept, HasWanted, Wanted, book
<1>2. ASSUME NEW ok \in BOOLEAN, ForgetMissed(ok)
      PROVE  Kept'
  <2>1. /\ DOMAIN jobs' = DOMAIN jobs \ work.final /\ store' \in {store, jobs'}
        /\ \A x \in DOMAIN jobs' : jobs'[x] = jobs[x]
        /\ work'.final = {} /\ sched # "down"
        /\ UNCHANGED <<added, dropped, lapsed, unparsable, misreads>>
    BY <1>2, DeletedFromBooks DEF book, NoWork
  <2> QED  BY <2>1 DEF Kept, HasWanted, Wanted
<1>3. ASSUME NEW ok \in BOOLEAN, Stamp(ok)
      PROVE  Kept'
  <2>1. /\ DOMAIN jobs' = DOMAIN jobs /\ store' \in {store, jobs'} /\ sched # "down"
        /\ \A x \in DOMAIN jobs : jobs'[x].at = jobs[x].at
        /\ UNCHANGED <<work, added, dropped, lapsed, unparsable, misreads>>
    BY <1>3, StampedBooks DEF book
  <2> QED  BY <2>1 DEF Kept, HasWanted, Wanted
<1>4. ASSUME NEW ok \in BOOLEAN, DeleteFinal(ok)
      PROVE  Kept'
  <2>1. /\ DOMAIN jobs' = DOMAIN jobs \ work.final /\ store' \in {store, jobs'}
        /\ \A x \in DOMAIN jobs' : jobs'[x] = jobs[x]
        /\ work'.final = {} /\ sched # "down"
        /\ UNCHANGED <<added, dropped, lapsed, unparsable, misreads>>
    BY <1>4, DeletedFromBooks DEF book, NoWork
  <2> QED  BY <2>1 DEF Kept, HasWanted, Wanted
<1>5. CASE Check
  <2>1. JobsOf(lapsed') = JobsOf(lapsed) \cup Final /\ work'.final = Final
    BY <1>5, JobsOfFirings DEF Check
  <2>2. sched # "down" /\ UNCHANGED <<store, jobs, added, dropped, unparsable, misreads>>
    BY <1>5 DEF Check, disk, bounds
  <2> QED  BY <2>1, <2>2 DEF Kept, HasWanted, Wanted
<1>6. CASE Send
  <2>1. work'.final = work.final /\ UNCHANGED <<store, jobs, sched, book, misreads>>
    BY <1>6 DEF Send, Typed, Work, disk, bounds
  <2> QED  BY <2>1 DEF Kept, HasWanted, Wanted, book
<1>7. ASSUME NEW j \in Jobs, NEW ok \in BOOLEAN, NEW at \in InstantsOf(j),
              NEW on \in BOOLEAN, Add(j, at, on, ok)
      PROVE  Kept'
  <2>1. /\ \/ /\ DOMAIN jobs' = DOMAIN jobs \cup {j} /\ store' = jobs'
              /\ jobs'[j].at = at /\ added' = added \cup {j}
           \/ jobs' = jobs /\ store' = store /\ added' = added
        /\ \A k \in DOMAIN jobs \ {j} : jobs'[k] = jobs[k]
        /\ j \notin added /\ sched = "idle"
        /\ UNCHANGED <<work, sched, dropped, lapsed, misreads>>
    BY <1>7, AddedToBooks
  <2>2. (at = 0 => j \in unparsable') /\ unparsable \subseteq unparsable' \cup {j}
    BY <1>7, MisgivenNoted
  <2>3. Wanted' \subseteq Wanted \cup (added' \cap {j})
    BY <2>1, <2>2 DEF Wanted
  <2>4. j \in Wanted' => at # 0
    BY <2>2 DEF Wanted
  <2>5. CASE jobs' = jobs /\ store' = store /\ added' = added
    BY <2>1, <2>3, <2>5 DEF Kept, HasWanted
  <2>6. CASE /\ DOMAIN jobs' = DOMAIN jobs \cup {j} /\ store' = jobs'
             /\ jobs'[j].at = at /\ added' = added \cup {j}
    BY <2>1, <2>3, <2>4, <2>6 DEF Kept, HasWanted
  <2> QED  BY <2>1, <2>5, <2>6
<1>8. ASSUME NEW j \in Jobs, NEW ok \in BOOLEAN, Remove(j, ok)
      PROVE  Kept'
  <2>1. /\ DOMAIN jobs' = DOMAIN jobs \ {j} /\ dropped' = dropped \cup {j}
        /\ \A k \in DOMAIN jobs' : jobs'[k] = jobs[k]
        /\ store' \in {store, jobs'} /\ sched = "idle"
        /\ UNCHANGED <<work, sched, added, lapsed, unparsable, misreads>>
    BY <1>8, RemovedFromBooks
  <2> QED  BY <2>1 DEF Kept, HasWanted, Wanted
<1>9. ASSUME NEW j \in Jobs, NEW ok \in BOOLEAN, NEW at \in InstantsOf(j),
              NEW on \in BOOLEAN, Update(j, at, on, ok)
      PROVE  Kept'
  <2>1. /\ DOMAIN jobs' = DOMAIN jobs /\ jobs'[j].at = at
        /\ \A k \in DOMAIN jobs \ {j} : jobs'[k] = jobs[k]
        /\ store' \in {store, jobs'} /\ sched = "idle" /\ j \in DOMAIN jobs
        /\ UNCHANGED <<work, sched, added, dropped, lapsed, misreads>>
    BY <1>9, UpdatedInBooks
  <2>2. /\ at = 0 => j \in unparsable'
        /\ store' = jobs' \/ unparsable \subseteq unparsable'
        /\ unparsable \subseteq unparsable' \cup {j}
    BY <1>9, MisgivenNoted
  <2>3. Wanted' \subseteq Wanted \cup {j} /\ (j \in Wanted' => at # 0)
    BY <2>1, <2>2 DEF Wanted
  <2>4. store' = jobs' \/ (store' = store /\ Wanted' \subseteq Wanted)
    BY <2>1, <2>2 DEF Wanted
  <2> QED  BY <2>1, <2>3, <2>4 DEF Kept, HasWanted
<1>10. ASSUME NEW j \in Jobs, Run(j)
      PROVE  Kept'
  BY <1>10 DEF Kept, HasWanted, Wanted, Run, Serve, Enqueued, memory, channels, tasks, disk,
     book, bounds
<1>11. CASE Record
  BY <1>11 DEF Kept, HasWanted, Wanted, Record, memory, channels, tasks, disk,
     book, bounds
<1>12. CASE LoopEnds
  BY <1>12 DEF Kept, HasWanted, Wanted, LoopEnds, memory, channels, tasks, disk,
     book, bounds
<1>13. CASE TakeReport
  BY <1>13 DEF Kept, HasWanted, Wanted, TakeReport, memory, channels, tasks, disk,
     book, bounds
<1>14. CASE RecordMissed
  BY <1>14 DEF Kept, HasWanted, Wanted, RecordMissed, memory, channels, tasks, disk,
     book, bounds
<1>15. CASE MissedTaskEnds
  BY <1>15 DEF Kept, HasWanted, Wanted, MissedTaskEnds, memory, channels, tasks, disk,
     book, bounds
<1>16. CASE Shutdown
  BY <1>16 DEF Kept, HasWanted, Wanted, Shutdown, memory, channels, tasks, disk,
     book, bounds
<1>17. CASE SchedulerEnds
  BY <1>17 DEF Kept, HasWanted, Wanted, SchedulerEnds, memory, channels, tasks, disk,
     book, bounds
<1>18. CASE Exit
  BY <1>18 DEF Kept, HasWanted, Wanted, Exit, Gone, NoWork, disk, bounds
<1>19. CASE Crash
  BY <1>19 DEF Kept, HasWanted, Wanted, Crash, Gone, NoWork, disk, bounds
<1>20. CASE Tick
  BY <1>20 DEF Kept, HasWanted, Wanted, Tick, memory, channels, tasks, disk,
     book, bounds
<1>21. ASSUME NEW ok \in BOOLEAN, Normalize(ok)
       PROVE  Kept'
  BY <1>21 DEF Kept, HasWanted, Wanted, Normalize, Written, book
<1>22. CASE DetectMissed
  <2>1. /\ lapsed' = lapsed \cup Lost /\ work'.final = Missed /\ sched # "down"
        /\ UNCHANGED <<store, jobs, added, dropped, unparsable, misreads>>
    BY <1>22 DEF DetectMissed, Lost, NoWork, disk, bounds
  <2>2. JobsOf(lapsed') = JobsOf(lapsed) \cup Missed
    BY <2>1, JobsOfFirings
  <2> QED  BY <2>1, <2>2 DEF Kept, HasWanted, Wanted
<1> QED  BY <1>1, <1>2, <1>3, <1>4, <1>5, <1>6, <1>7, <1>8, <1>9, <1>10, <1>11, <1>12,
     <1>13, <1>14, <1>15, <1>16, <1>17, <1>18, <1>19, <1>20, <1>21, <1>22 DEF Next

\* Every step keeps the silent jobs silent.
LEMMA SilencedStep ==
    ASSUME Typed, Places, Known, Silenced, Next
    PROVE  Silenced'
<1>1. CASE Start
  <2>1. PICK content \in {store, NoJobs} :
           /\ DOMAIN jobs' \subseteq DOMAIN content
           /\ \A k \in DOMAIN jobs' : jobs'[k] = content[k]
           /\ UNCHANGED <<store, book>>
    BY <1>1, StartReads
  <2> QED  BY <2>1 DEF Silenced, NoJobs, book
<1>2. ASSUME NEW ok \in BOOLEAN, ForgetMissed(ok)
      PROVE  Silenced'
  BY <1>2, DeletedFromBooks DEF Silenced, book
<1>3. ASSUME NEW ok \in BOOLEAN, Stamp(ok)
      PROVE  Silenced'
  BY <1>3, StampedBooks DEF Silenced, book
<1>4. ASSUME NEW ok \in BOOLEAN, DeleteFinal(ok)
      PROVE  Silenced'
  BY <1>4, DeletedFromBooks DEF Silenced, book
<1>5. CASE Check
  BY <1>5 DEF Silenced, Check, memory, channels, tasks, disk, book, bounds
<1>6. CASE Send
  BY <1>6 DEF Silenced, Send, Enqueued, memory, channels, tasks, disk, book, bounds
<1>7. ASSUME NEW j \in Jobs, NEW ok \in BOOLEAN, NEW at \in InstantsOf(j),
              NEW on \in BOOLEAN, Add(j, at, on, ok)
      PROVE  Silenced'
  <2>1. j \notin silent
    BY <1>7, AddedToBooks DEF Known
  <2>2. /\ \/ /\ DOMAIN jobs' = DOMAIN jobs \cup {j} /\ store' = jobs'
              /\ jobs'[j].enabled = on
              /\ silent' \subseteq silent \cup {j} /\ (on => silent' = silent)
           \/ jobs' = jobs /\ store' = store /\ silent' = silent
        /\ \A k \in DOMAIN jobs \ {j} : jobs'[k] = jobs[k]
    BY <1>7, AddedToBooks
  <2>3. CASE silent' = silent /\ (jobs' = jobs /\ store' = store)
    BY <2>3 DEF Silenced
  <2>4. CASE ~(silent' = silent /\ (jobs' = jobs /\ store' = store))
    BY <2>1, <2>2, <2>4 DEF Silenced
  <2> QED  BY <2>3, <2>4
<1>8. ASSUME NEW j \in Jobs, NEW ok \in BOOLEAN, Remove(j, ok)
      PROVE  Silenced'
  <2>1. /\ DOMAIN jobs' = DOMAIN jobs \ {j}
        /\ \A k \in DOMAIN jobs' : jobs'[k] = jobs[k]
        /\ \/ store' = jobs' /\ silent' = silent \cup {j}
           \/ store' = store /\ silent' = silent
    BY <1>8, RemovedFromBooks
  <2>2. CASE store' = jobs' /\ silent' = silent \cup {j}
    BY <2>1, <2>2 DEF Silenced
  <2>3. CASE store' = store /\ silent' = silent
    BY <2>1, <2>3 DEF Silenced
  <2> QED  BY <2>1, <2>2, <2>3
<1>9. ASSUME NEW j \in Jobs, NEW ok \in BOOLEAN, NEW at \in InstantsOf(j),
              NEW on \in BOOLEAN, Update(j, at, on, ok)
      PROVE  Silenced'
  <2>1. /\ DOMAIN jobs' = DOMAIN jobs
        /\ \A k \in DOMAIN jobs \ {j} : jobs'[k] = jobs[k]
    BY <1>9, UpdatedInBooks
  <2>2. store' \in {store, jobs'}
    BY <1>9, UpdatedInBooks
  <2>3. \/ silent' = silent \ {j}
        \/ ~jobs'[j].enabled /\ store' = jobs' /\ silent' = silent \cup {j}
        \/ ~jobs'[j].enabled /\ store' = store /\ silent' = silent
    BY <1>9, UpdateSilences
  <2>4. CASE silent' = silent \ {j}
    BY <2>1, <2>2, <2>4 DEF Silenced
  <2>5. CASE ~jobs'[j].enabled /\ store' = jobs' /\ silent' = silent \cup {j}
    BY <2>1, <2>5 DEF Silenced
  <2>6. CASE ~jobs'[j].enabled /\ store' = store /\ silent' = silent
    BY <2>1, <2>6 DEF Silenced
  <2> QED  BY <2>3, <2>4, <2>5, <2>6
<1>10. ASSUME NEW j \in Jobs, Run(j)
      PROVE  Silenced'
  BY <1>10 DEF Silenced, Run, Serve, Enqueued, memory, channels, tasks, disk, book,
     bounds
<1>11. CASE Record
  BY <1>11 DEF Silenced, Record, memory, channels, tasks, disk, book, bounds
<1>12. CASE LoopEnds
  BY <1>12 DEF Silenced, LoopEnds, memory, channels, tasks, disk, book, bounds
<1>13. CASE TakeReport
  BY <1>13 DEF Silenced, TakeReport, memory, channels, tasks, disk, book, bounds
<1>14. CASE RecordMissed
  BY <1>14 DEF Silenced, RecordMissed, memory, channels, tasks, disk, book, bounds
<1>15. CASE MissedTaskEnds
  BY <1>15 DEF Silenced, MissedTaskEnds, memory, channels, tasks, disk, book, bounds
<1>16. CASE Shutdown
  BY <1>16 DEF Silenced, Shutdown, memory, channels, tasks, disk, book, bounds
<1>17. CASE SchedulerEnds
  BY <1>17 DEF Silenced, SchedulerEnds, memory, channels, tasks, disk, book, bounds
<1>18. CASE Exit
  BY <1>18 DEF Silenced, Exit, Gone, NoJobs, disk
<1>19. CASE Crash
  BY <1>19 DEF Silenced, Crash, Gone, NoJobs, disk
<1>20. CASE Tick
  BY <1>20 DEF Silenced, Tick, memory, channels, tasks, disk, book, bounds
<1>21. ASSUME NEW ok \in BOOLEAN, Normalize(ok)
       PROVE  Silenced'
  BY <1>21 DEF Silenced, Normalize, Written, book
<1>22. CASE DetectMissed
  BY <1>22 DEF Silenced, DetectMissed, disk
<1> QED  BY <1>1, <1>2, <1>3, <1>4, <1>5, <1>6, <1>7, <1>8, <1>9, <1>10, <1>11, <1>12,
     <1>13, <1>14, <1>15, <1>16, <1>17, <1>18, <1>19, <1>20, <1>21, <1>22 DEF Next

\* A check decides firings that are due, of jobs that are enabled, and none that was
\* decided before in this life.
LEMMA DecidedByCheck ==
    ASSUME Typed, Past, sched = "idle", NEW f \in Firings(Ripe)
    PROVE  /\ f \in Firing /\ f.job \in Ripe
           /\ f.due <= now
           /\ f \notin fired
<1>1. PICK j \in Ripe : f = [job |-> j, due |-> DueAt(j)]
  BY DEF Firings
<1>2. f.job = j /\ f.due = DueAt(j) /\ j \in DOMAIN jobs /\ DueAt(j) <= now
  BY <1>1 DEF Ripe, Seen
<1>3. f \in Firing
  BY FiringsInRange
<1>4. ASSUME f \in fired PROVE FALSE
  <2>1. f.job \in DOMAIN nextFire => f.due < nextFire[f.job]
    BY <1>4 DEF Past
  <2>2. work.final = {} /\ sched # "sending"
    BY DEF Typed, NoWork
  <2>3. f.due <= jobs[j].last
    BY <1>2, <1>4, <2>2 DEF Past, Behind
  <2>4. jobs[j].last \in 0 .. MaxTime /\ f.due \in 1 .. Never
    BY <1>2, <1>3 DEF Typed, Book, Job, Firing
  <2>5. jobs[j].last # 0
    BY <2>3, <2>4, SchedulerConstants DEF Never
  <2>6. CASE j \in DOMAIN nextFire
    <3>1. f.due < nextFire[j] /\ f.due = nextFire[j]
      BY <1>2, <2>1, <2>6 DEF DueAt
    <3>2. f.due \in Int
      BY <2>4
    <3> QED  BY <3>1, <3>2
  <2>7. CASE j \notin DOMAIN nextFire
    <3>1. jobs[j].last < f.due
      BY <1>2, <2>5, <2>7, DueInRange
    <3>2. f.due \in Int /\ jobs[j].last \in Int
      BY <2>4
    <3> QED  BY <2>3, <3>1, <3>2
  <2> QED  BY <2>6, <2>7
<1> QED  BY <1>1, <1>2, <1>3, <1>4

\* Every step keeps what fired in the past.
LEMMA PastStep ==
    ASSUME Typed, Places, Known, Past, Next
    PROVE  Past'
<1>1. CASE Start
  <2>1. sched = "down" /\ UNCHANGED book
    BY <1>1, StartReads
  <2> QED  BY <2>1 DEF Past, Places, book
<1>2. ASSUME NEW ok \in BOOLEAN, ForgetMissed(ok)
      PROVE  Past'
  <2>1. /\ DOMAIN jobs' = DOMAIN jobs \ work.final
        /\ \A k \in DOMAIN jobs' : jobs'[k] = jobs[k]
        /\ sched # "sending" /\ sched' # "sending"
        /\ UNCHANGED <<now, nextFire, fired>>
    BY <1>2, DeletedFromBooks DEF book
  <2>2. ASSUME NEW f \in fired
        PROVE  Behind(f)'
    <3>1. Behind(f)
      BY DEF Past
    <3> QED  BY <2>1, <3>1 DEF Behind
  <2> QED  BY <2>1, <2>2 DEF Past
<1>3. ASSUME NEW ok \in BOOLEAN, Stamp(ok)
      PROVE  Past'
  <2>1. /\ DOMAIN jobs' = DOMAIN jobs
        /\ \A k \in DOMAIN jobs :
              jobs'[k].last = IF k \in work.repeat THEN work.at ELSE jobs[k].last
        /\ sched = "sending" /\ sched' # "sending"
        /\ UNCHANGED <<now, nextFire, work, fired>>
    BY <1>3, StampedBooks DEF book
  <2>2. ASSUME NEW f \in fired
        PROVE  Behind(f)'
    <3>1. Behind(f) /\ f.due <= work.at
      BY <2>1 DEF Past
    <3>2. work.repeat \subseteq Recurring
      BY DEF Typed, Work
    <3>3. CASE f.job \in work.repeat /\ f.job \in DOMAIN jobs
      <4>1. jobs'[f.job].last = work.at
        BY <2>1, <3>3
      <4> QED  BY <3>1, <3>2, <3>3, <4>1 DEF Behind
    <3>4. CASE f.job \notin work.repeat /\ f.job \in DOMAIN jobs
      <4>1. jobs'[f.job].last = jobs[f.job].last
        BY <2>1, <3>4
      <4> QED  BY <2>1, <3>1, <3>4, <4>1 DEF Behind
    <3>5. CASE f.job \notin DOMAIN jobs
      BY <2>1, <3>5 DEF Behind
    <3> QED  BY <3>3, <3>4, <3>5
  <2> QED  BY <2>1, <2>2 DEF Past
<1>4. ASSUME NEW ok \in BOOLEAN, DeleteFinal(ok)
      PROVE  Past'
  <2>1. /\ DOMAIN jobs' = DOMAIN jobs \ work.final
        /\ \A k \in DOMAIN jobs' : jobs'[k] = jobs[k]
        /\ sched # "sending" /\ sched' # "sending"
        /\ UNCHANGED <<now, nextFire, fired>>
    BY <1>4, DeletedFromBooks DEF book
  <2>2. ASSUME NEW f \in fired
        PROVE  Behind(f)'
    <3>1. Behind(f)
      BY DEF Past
    <3> QED  BY <2>1, <3>1 DEF Behind
  <2> QED  BY <2>1, <2>2 DEF Past
<1>5. CASE Check
  <2>1. /\ sched = "idle" /\ nextFire' = Rescheduled /\ fired' = fired \cup Firings(Ripe)
        /\ work'.final = Final /\ work'.repeat = Ripe \ Final
        /\ Ripe # {} => sched' = "sending" /\ work'.at = now
        /\ Ripe = {} => sched' = "idle"
        /\ UNCHANGED <<now, jobs>>
    BY <1>5 DEF Check
  <2>2. work.final = {}
    BY <2>1 DEF Typed, NoWork
  <2>3. ASSUME NEW f \in fired'
        PROVE  f.due \in Int /\ f.due <= now /\ Behind(f)'
    <3>1. CASE f \in fired
      <4>1. f.due <= now /\ Behind(f) /\ f.due \in Int
        BY <3>1 DEF Past, Typed, Firing
      <4> QED  BY <2>1, <2>2, <4>1 DEF Behind
    <3>2. CASE f \in Firings(Ripe)
      <4>1. f \in Firing /\ f.job \in Ripe /\ f.due <= now
        BY <2>1, <3>2, DecidedByCheck
      <4>2. f.due \in Int
        BY <4>1 DEF Firing
      <4> QED  BY <2>1, <4>1, <4>2 DEF Behind
    <3> QED  BY <2>1, <3>1, <3>2
  <2>4. ASSUME NEW f \in fired', f.job \in DOMAIN nextFire'
        PROVE  f.due < nextFire'[f.job]
    <3>1. now < Rescheduled[f.job] /\ Rescheduled[f.job] \in 1 .. Never
      BY <2>1, <2>4, RescheduledAgenda DEF Agenda
    <3>2. now \in Int /\ Rescheduled[f.job] \in Int
      BY <3>1 DEF Typed, Time
    <3> QED  BY <2>1, <2>3, <3>1, <3>2
  <2> QED  BY <2>1, <2>3, <2>4 DEF Past
<1>6. CASE Send
  <2>1. /\ work'.final = work.final /\ work'.repeat = work.repeat /\ work'.at = work.at
        /\ UNCHANGED <<now, sched, jobs, nextFire, fired>>
    BY <1>6 DEF Send, Typed, Work, book
  <2>2. \A f : Behind(f)' <=> Behind(f)
    BY <2>1 DEF Behind
  <2> QED  BY <2>1, <2>2 DEF Past
<1>7. ASSUME NEW j \in Jobs, NEW ok \in BOOLEAN, NEW at \in InstantsOf(j),
              NEW on \in BOOLEAN, Add(j, at, on, ok)
      PROVE  Past'
  <2>1. /\ j \notin added /\ DOMAIN jobs' \subseteq DOMAIN jobs \cup {j}
        /\ \A k \in DOMAIN jobs \ {j} : jobs'[k] = jobs[k]
        /\ sched = "idle" /\ UNCHANGED <<now, sched, nextFire, work, fired>>
    BY <1>7, AddedToBooks
  <2>2. ASSUME NEW f \in fired
        PROVE  Behind(f)'
    <3>1. f.job # j
      BY <2>1 DEF Known, JobsOf
    <3>2. Behind(f)
      BY DEF Past
    <3> QED  BY <2>1, <3>1, <3>2 DEF Behind
  <2> QED  BY <2>1, <2>2 DEF Past
<1>8. ASSUME NEW j \in Jobs, NEW ok \in BOOLEAN, Remove(j, ok)
      PROVE  Past'
  <2>1. /\ DOMAIN jobs' = DOMAIN jobs \ {j}
        /\ \A k \in DOMAIN jobs' : jobs'[k] = jobs[k]
        /\ DOMAIN nextFire' = DOMAIN nextFire \ {j}
        /\ \A k \in DOMAIN nextFire' : nextFire'[k] = nextFire[k]
        /\ sched = "idle" /\ UNCHANGED <<now, sched, work, fired>>
    BY <1>8, RemovedFromBooks
  <2>2. ASSUME NEW f \in fired
        PROVE  Behind(f)'
    <3>1. Behind(f)
      BY DEF Past
    <3> QED  BY <2>1, <3>1 DEF Behind
  <2> QED  BY <2>1, <2>2 DEF Past
<1>9. ASSUME NEW j \in Jobs, NEW ok \in BOOLEAN, NEW at \in InstantsOf(j),
              NEW on \in BOOLEAN, Update(j, at, on, ok)
      PROVE  Past'
  <2>1. /\ DOMAIN jobs' = DOMAIN jobs
        /\ \A k \in DOMAIN jobs : jobs'[k].last = jobs[k].last
        /\ DOMAIN nextFire' = DOMAIN nextFire \ {j}
        /\ \A k \in DOMAIN nextFire' : nextFire'[k] = nextFire[k]
        /\ sched = "idle" /\ UNCHANGED <<now, sched, work, fired>>
    BY <1>9, UpdatedInBooks
  <2>2. ASSUME NEW f \in fired
        PROVE  Behind(f)'
    <3>1. Behind(f)
      BY DEF Past
    <3> QED  BY <2>1, <3>1 DEF Behind
  <2> QED  BY <2>1, <2>2 DEF Past
<1>10. ASSUME NEW j \in Jobs, Run(j)
      PROVE  Past'
  BY <1>10 DEF Past, Behind, Run, Serve, Enqueued, memory, channels, tasks, disk, book,
     bounds
<1>11. CASE Record
  BY <1>11 DEF Past, Behind, Record, memory, channels, tasks, disk, book, bounds
<1>12. CASE LoopEnds
  BY <1>12 DEF Past, Behind, LoopEnds, memory, channels, tasks, disk, book, bounds
<1>13. CASE TakeReport
  BY <1>13 DEF Past, Behind, TakeReport, memory, channels, tasks, disk, book, bounds
<1>14. CASE RecordMissed
  BY <1>14 DEF Past, Behind, RecordMissed, memory, channels, tasks, disk, book, bounds
<1>15. CASE MissedTaskEnds
  BY <1>15 DEF Past, Behind, MissedTaskEnds, memory, channels, tasks, disk, book, bounds
<1>16. CASE Shutdown
  BY <1>16 DEF Past, Behind, Shutdown, memory, channels, tasks, disk, book, bounds
<1>17. CASE SchedulerEnds
  BY <1>17 DEF Past, Behind, SchedulerEnds, memory, book
<1>18. CASE Exit
  BY <1>18 DEF Past, Exit, Gone
<1>19. CASE Crash
  BY <1>19 DEF Past, Crash, Gone
<1>20. CASE Tick
  <2>1. now \in Int /\ now' = now + 1 /\ UNCHANGED <<sched, memory, fired>>
    BY <1>20 DEF Tick, book, Typed, Time
  <2>2. \A f \in fired : f.due \in Int
    BY DEF Typed, Firing
  <2>3. \A f : Behind(f)' <=> Behind(f)
    BY <2>1 DEF Behind, memory
  <2> QED  BY <2>1, <2>2, <2>3 DEF Past, memory
<1>21. ASSUME NEW ok \in BOOLEAN, Normalize(ok)
       PROVE  Past'
  BY <1>21 DEF Past, Places, Normalize, book
<1>22. CASE DetectMissed
  <2>1. /\ fired' = Lost /\ work'.final = Missed /\ sched' # "sending"
        /\ DOMAIN nextFire' = {} /\ now' = now
    BY <1>22 DEF DetectMissed, Lost, NoWork, Places, NoJobs
  <2>2. ASSUME NEW f \in Lost
        PROVE  f.due <= now /\ f.job \in Missed
    <3>1. PICK j \in Missed : f = [job |-> j, due |-> jobs[j].at]
      BY DEF Lost
    <3>2. f.due \in 1 .. now - 1 /\ f.job = j /\ now \in Int
      BY <3>1 DEF Missed, Typed, Time
    <3> QED  BY <3>1, <3>2
  <2> QED  BY <2>1, <2>2 DEF Past, Behind
<1> QED  BY <1>1, <1>2, <1>3, <1>4, <1>5, <1>6, <1>7, <1>8, <1>9, <1>10, <1>11, <1>12,
     <1>13, <1>14, <1>15, <1>16, <1>17, <1>18, <1>19, <1>20, <1>21, <1>22 DEF Next

\* Every step keeps account of the firings.
LEMMA AccountStep ==
    ASSUME Typed, Places, FiringsAccountedFor, Next
    PROVE  FiringsAccountedFor'
<1>1. CASE Start
  <2>1. sched = "down" /\ UNCHANGED book
    BY <1>1, StartReads
  <2> QED  BY <2>1 DEF FiringsAccountedFor, Places, book
<1>2. ASSUME NEW ok \in BOOLEAN, ForgetMissed(ok)
      PROVE  FiringsAccountedFor'
  <2>1. /\ sched \in {"forgetting", "stamped"}
        /\ UNCHANGED <<events, report, reporting, stopping, recorded, fired>>
    BY <1>2, DeletedFromBooks DEF channels, tasks, book
  <2>2. work.unsent = {} /\ sched # "down"
    BY <2>1 DEF Places
  <2> QED  BY <2>1, <2>2 DEF FiringsAccountedFor, EnRoute
<1>3. ASSUME NEW ok \in BOOLEAN, Stamp(ok)
      PROVE  FiringsAccountedFor'
  BY <1>3, StampedBooks DEF FiringsAccountedFor, EnRoute, channels, tasks, book
<1>4. ASSUME NEW ok \in BOOLEAN, DeleteFinal(ok)
      PROVE  FiringsAccountedFor'
  <2>1. /\ sched \in {"forgetting", "stamped"}
        /\ UNCHANGED <<events, report, reporting, stopping, recorded, fired>>
    BY <1>4, DeletedFromBooks DEF channels, tasks, book
  <2>2. work.unsent = {} /\ sched # "down"
    BY <2>1 DEF Places
  <2> QED  BY <2>1, <2>2 DEF FiringsAccountedFor, EnRoute
<1>5. CASE Check
  <2>1. /\ fired' = fired \cup Firings(Ripe) /\ work'.unsent = Firings(Ripe) /\ sched = "idle"
        /\ UNCHANGED <<events, report, reporting, stopping, recorded>>
    BY <1>5 DEF Check, channels, tasks, disk
  <2>2. work.unsent = {}
    BY <2>1 DEF Typed, NoWork
  <2> QED  BY <2>1, <2>2 DEF FiringsAccountedFor, EnRoute
<1>6. CASE Send
  <2>1. PICK f \in work.unsent : Enqueued(f) /\ work' = [work EXCEPT !.unsent = @ \ {f}]
    BY <1>6 DEF Send
  <2>2. f \in Firing /\ work'.unsent = work.unsent \ {f} /\ events \in Seq(Firing)
    BY <2>1 DEF Typed, Work
  <2>3. UNCHANGED <<sched, stopping, report, reporting, recorded, fired>>
    BY <1>6 DEF Send, tasks, disk, book
  <2>4. sched # "down" /\ ~stopping => loop
    BY DEF Places
  <2>5. CASE sched # "down" /\ ~stopping
    <3>1. Range(events') = Range(events) \cup {f}
      BY <2>1, <2>2, <2>4, <2>5, RangeOfAppend DEF Enqueued
    <3> QED  BY <2>2, <2>3, <2>5, <3>1 DEF FiringsAccountedFor, EnRoute
  <2> QED  BY <2>3, <2>5 DEF FiringsAccountedFor
<1>7. ASSUME NEW j \in Jobs, NEW ok \in BOOLEAN, NEW at \in InstantsOf(j),
              NEW on \in BOOLEAN, Add(j, at, on, ok)
      PROVE  FiringsAccountedFor'
  BY <1>7, AddedToBooks DEF FiringsAccountedFor, EnRoute, channels, tasks
<1>8. ASSUME NEW j \in Jobs, NEW ok \in BOOLEAN, Remove(j, ok)
      PROVE  FiringsAccountedFor'
  BY <1>8, RemovedFromBooks DEF FiringsAccountedFor, EnRoute, channels, tasks
<1>9. ASSUME NEW j \in Jobs, NEW ok \in BOOLEAN, NEW at \in InstantsOf(j),
              NEW on \in BOOLEAN, Update(j, at, on, ok)
      PROVE  FiringsAccountedFor'
  BY <1>9, UpdatedInBooks DEF FiringsAccountedFor, EnRoute, channels, tasks
<1>10. ASSUME NEW j \in Jobs, Run(j)
      PROVE  FiringsAccountedFor'
  <2>1. [job |-> j, due |-> now] \in Firing /\ events \in Seq(Firing)
    BY SchedulerConstants DEF Typed, Firing, Time, Never
  <2>2. Range(events) \subseteq Range(events')
    BY <1>10, <2>1, RangeOfAppend DEF Run, Enqueued
  <2>3. UNCHANGED <<sched, work, stopping, report, reporting, recorded, fired>>
    BY <1>10 DEF Run, memory, tasks, disk, book
  <2> QED  BY <2>2, <2>3 DEF FiringsAccountedFor, EnRoute
<1>11. CASE Record
  <2>1. events \in Seq(Firing) /\ events # <<>>
    BY <1>11 DEF Record, Typed
  <2>2. Range(events) = {Head(events)} \cup Range(Tail(events))
    BY <2>1, RangeOfTail
  <2>3. /\ recorded' = recorded \cup {Head(events)} /\ events' = Tail(events)
        /\ UNCHANGED <<sched, work, stopping, report, reporting, fired>>
    BY <1>11 DEF Record, memory, tasks, book
  <2> QED  BY <2>2, <2>3 DEF FiringsAccountedFor, EnRoute
<1>12. CASE LoopEnds
  BY <1>12 DEF FiringsAccountedFor, LoopEnds
<1>13. CASE TakeReport
  BY <1>13 DEF FiringsAccountedFor, EnRoute, TakeReport, memory, channels, tasks, disk,
     book, bounds
<1>14. CASE RecordMissed
  BY <1>14 DEF FiringsAccountedFor, EnRoute, RecordMissed, memory, channels, tasks,
     disk, book, bounds
<1>15. CASE MissedTaskEnds
  BY <1>15 DEF FiringsAccountedFor, MissedTaskEnds
<1>16. CASE Shutdown
  BY <1>16 DEF FiringsAccountedFor, Shutdown
<1>17. CASE SchedulerEnds
  BY <1>17 DEF FiringsAccountedFor, EnRoute, SchedulerEnds, memory, channels, tasks,
     disk, book, bounds
<1>18. CASE Exit
  BY <1>18 DEF FiringsAccountedFor, Exit, Gone
<1>19. CASE Crash
  BY <1>19 DEF FiringsAccountedFor, Crash, Gone
<1>20. CASE Tick
  BY <1>20 DEF FiringsAccountedFor, EnRoute, Tick, memory, channels, tasks, disk, book,
     bounds
<1>21. ASSUME NEW ok \in BOOLEAN, Normalize(ok)
       PROVE  FiringsAccountedFor'
  BY <1>21 DEF FiringsAccountedFor, EnRoute, Normalize, channels, tasks, book
<1>22. CASE DetectMissed
  BY <1>22 DEF FiringsAccountedFor, EnRoute, DetectMissed
<1> QED  BY <1>1, <1>2, <1>3, <1>4, <1>5, <1>6, <1>7, <1>8, <1>9, <1>10, <1>11, <1>12,
     <1>13, <1>14, <1>15, <1>16, <1>17, <1>18, <1>19, <1>20, <1>21, <1>22 DEF Next

-----------------------------------------------------------------------------
(* The invariant, and what follows from it *)

\* A daemon that was never started has nothing to account for.
LEMMA InitInv ==
    ASSUME Init
    PROVE  IInv
<1>1. Book(NoJobs) /\ Agenda(NoJobs) /\ DOMAIN NoJobs = {}
  BY DEF Book, Agenda, NoJobs
<1>2. NoWork \in Work /\ NoWork.unsent = {} /\ NoWork.final = {}
  BY SchedulerConstants DEF NoWork, Work
<1>3. <<>> \in Seq(Firing) /\ Len(<<>>) <= Capacity
  BY SchedulerConstants
<1>4. Typed
  <2>1. 1 \in Time
    BY SchedulerConstants DEF Time
  <2>2. \A n \in {MaxLives, MaxFailures, MaxMisreads, MaxCommands} : 0 \in 0 .. n
    BY SchedulerConstants
  <2>3. /\ now \in Time /\ Book(store) /\ Book(jobs) /\ Agenda(nextFire)
        /\ work \in Work /\ work = NoWork /\ events \in Seq(Firing) /\ Len(events) <= Capacity
    BY <1>1, <1>2, <1>3, <2>1 DEF Init
  <2>4. /\ lives \in 0 .. MaxLives /\ failures \in 0 .. MaxFailures
        /\ misreads \in 0 .. MaxMisreads /\ commands \in 0 .. MaxCommands
    BY <2>2 DEF Init
  <2> QED  BY <2>3, <2>4 DEF Init, Typed
<1>5. Places /\ FiringsAccountedFor
  BY DEF Init, Places, FiringsAccountedFor
<1>6. Known /\ Kept /\ Silenced /\ Past
  BY <1>1, <1>2, JobsOfFirings DEF Init, Known, Kept, HasWanted, Wanted, Silenced, Past
<1> QED  BY <1>4, <1>5, <1>6 DEF IInv

\* Every step keeps the invariant, and so does no step.
LEMMA StepInv ==
    ASSUME IInv, [Next]_vars
    PROVE  IInv'
<1>1. CASE Next
  BY <1>1, TypedStep, PlacesStep, KnownStep, KeptStep, SilencedStep, PastStep, AccountStep
     DEF IInv
<1>2. CASE UNCHANGED vars
  <2> USE <1>2 DEF vars
  <2>1. Typed' /\ Places'
    BY DEF IInv, Typed, Places
  <2>2. Known' /\ Kept' /\ Silenced'
    BY DEF IInv, Known, Kept, HasWanted, Wanted, Silenced
  <2>3. Past' /\ FiringsAccountedFor'
    BY DEF IInv, Past, Behind, FiringsAccountedFor, EnRoute
  <2> QED  BY <2>1, <2>2, <2>3 DEF IInv
<1> QED  BY <1>1, <1>2

\* The inductive invariant holds in every state: of the jobs in memory, in the store
\* and on the agenda, and of the firings that were decided.
THEOREM Invariance == Spec => []IInv
<1>1. Init => IInv
  BY InitInv
<1>2. IInv /\ [Next]_vars => IInv'
  BY StepInv
<1> QED  BY <1>1, <1>2, PTL DEF Spec

\* The variables keep their types, and a scheduler that is down, idle or ended has no
\* work left of a check.
THEOREM TypeCorrect == Spec => []TypeOK
<1>1. IInv => TypeOK
  <2> SUFFICES ASSUME IInv PROVE TypeOK
    OBVIOUS
  <2>1. store \in JobBooks /\ jobs \in JobBooks
        /\ nextFire \in UNION {[S -> 1 .. Never] : S \in SUBSET Jobs}
    BY BooksAndAgendas DEF IInv, Typed
  <2>2. /\ work.unsent \subseteq Firing /\ work.at \in 0 .. MaxTime
        /\ work.repeat \subseteq Recurring /\ work.final \subseteq Jobs
    BY DEF IInv, Typed, Work
  <2> QED  BY <2>1, <2>2 DEF IInv, Typed, TypeOK
<1> QED  BY <1>1, Invariance, PTL

\* A job whose Add was confirmed is in the store, after failed writes, crashes and
\* restarts, until somebody asks to remove it or its last firing is decided; unless the
\* schedule it was given last does not parse, or a start could not read the store
\* (load_jobs).
THEOREM AddedKept == Spec => []AddedIsKept
<1>1. IInv => AddedIsKept
  BY DEF IInv, Kept, HasWanted, Wanted, AddedIsKept
<1> QED  BY <1>1, Invariance, PTL

\* While the daemon serves, a firing that was decided is on record, in the channel of
\* the event loop or in a report of missed jobs, or still to be sent by the check.
THEOREM FiringsAccounted == Spec => []FiringsAccountedFor
<1>1. IInv => FiringsAccountedFor
  BY DEF IInv
<1> QED  BY <1>1, Invariance, PTL

\* Only a start and a check decide firings, and each of enabled jobs only.
LEMMA DecidedIsEnabled ==
    ASSUME IInv, Next, NEW f \in fired' \ fired
    PROVE  f.job \notin silent
<1>1. Typed /\ Places /\ Silenced /\ Past
  BY DEF IInv
<1>2. CASE DetectMissed
  <2>1. PICK j \in Missed : f = [job |-> j, due |-> jobs[j].at]
    BY <1>2 DEF DetectMissed
  <2>2. f.job \in DOMAIN jobs /\ jobs[f.job].enabled
    BY <2>1 DEF Missed
  <2> QED  BY <1>1, <2>2 DEF Silenced
<1>3. CASE Check
  <2>1. f \in Firings(Ripe) /\ sched = "idle"
    BY <1>3 DEF Check
  <2>2. f.job \in DOMAIN jobs /\ jobs[f.job].enabled
    BY <1>1, <2>1, DecidedByCheck DEF Ripe, Seen
  <2> QED  BY <1>1, <2>2 DEF Silenced
<1>4. ASSUME NEW ok \in BOOLEAN,
             Normalize(ok) \/ ForgetMissed(ok) \/ Stamp(ok) \/ DeleteFinal(ok)
      PROVE  fired' = fired
  BY <1>4 DEF Normalize, ForgetMissed, Stamp, DeleteFinal, book
<1>5. ASSUME NEW j \in Jobs, NEW ok \in BOOLEAN, NEW at \in InstantsOf(j),
              NEW on \in BOOLEAN, Add(j, at, on, ok)
      PROVE  fired' = fired
  BY <1>5 DEF Add
<1>6. ASSUME NEW j \in Jobs, NEW ok \in BOOLEAN, Remove(j, ok)
      PROVE  fired' = fired
  BY <1>6 DEF Remove
<1>7. ASSUME NEW j \in Jobs, NEW ok \in BOOLEAN, NEW at \in InstantsOf(j),
             NEW on \in BOOLEAN, Update(j, at, on, ok)
      PROVE  fired' = fired
  BY <1>7 DEF Update
<1>8. CASE Exit \/ Crash
  BY <1>8 DEF Exit, Crash, Gone
<1>9. ASSUME \/ Start \/ Send \/ (\E j \in Jobs : Run(j)) \/ Record \/ LoopEnds \/ TakeReport
             \/ RecordMissed \/ MissedTaskEnds \/ Shutdown \/ SchedulerEnds \/ Tick
      PROVE  fired' = fired
  BY <1>9 DEF Start, Send, Run, Record, LoopEnds, TakeReport, RecordMissed, MissedTaskEnds,
     Shutdown, SchedulerEnds, Tick, book
<1> QED  BY <1>2, <1>3, <1>4, <1>5, <1>6, <1>7, <1>8, <1>9 DEF Next

\* A job whose removal or disabling was confirmed does not fire again, in this life of
\* the daemon or a later one, unless somebody tries to enable it.
THEOREM SilentStays == Spec => SilentStaysSilent
<1>1. IInv /\ [Next]_vars => [silent \cap JobsOf(fired' \ fired) = {}]_vars
  BY DecidedIsEnabled DEF JobsOf
<1> QED  BY <1>1, Invariance, PTL DEF Spec, SilentStaysSilent

\* Within one life of the daemon no check decides an instant a second time: what fired
\* lies before the next instant of its job, on the agenda or from its last run.
THEOREM OnceAnInstant == Spec => OncePerInstant
<1>1. ASSUME IInv, [Next]_vars, sched = "idle", sched' = "sending"
      PROVE  work'.unsent \cap fired = {}
  <2>1. Check
    BY <1>1 DEF Next, vars, Start, Normalize, DetectMissed, ForgetMissed, Stamp, DeleteFinal,
       Send, Add, Remove, Update, Run, Record, LoopEnds, TakeReport, RecordMissed, MissedTaskEnds, Shutdown,
       SchedulerEnds, Exit, Crash, Gone, Tick
  <2>2. work'.unsent = Firings(Ripe)
    BY <2>1 DEF Check
  <2> QED  BY <1>1, <2>2, DecidedByCheck DEF IInv
<1>2. IInv /\ [Next]_vars => [sched = "idle" /\ sched' = "sending" => work'.unsent \cap fired = {}]_vars
  BY <1>1
<1> QED  BY <1>2, Invariance, PTL DEF Spec, OncePerInstant
=============================================================================

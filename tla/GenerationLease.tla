--------------------------- MODULE GenerationLease ---------------------------
(***************************************************************************)
(* The lifetime lease over one installed generation                        *)
(* (acosmi-generation-lease lib.rs): a launcher registers itself before it *)
(* runs the generation, the collector of the updater deletes a generation  *)
(* nobody holds, and both do so inside a transaction, the file             *)
(* <version>.lock, which is looked at and created under a guard: a bakery  *)
(* of files that every process lists and reads.                            *)
(*                                                                         *)
(* Each access to a file another process may touch is a step; the listing  *)
(* of the guard's directory is one step and the reading of each file it    *)
(* named is another.  A record is active while the very process that wrote *)
(* it lives (pid and birth); Nobody stands for one that died.  Left out:   *)
(* legacy lock directories, processes that cannot be observed, files that  *)
(* cannot be accessed, the check of the token in one's own records.        *)
(***************************************************************************)
EXTENDS Naturals, FiniteSets

CONSTANTS
    Process,      \* pids
    Nobody,       \* a process that died
    Token,        \* owner tokens, random and therefore in any order
    MaxTicket,    \* the last ticket, u64::MAX
    MaxCrashes    \* bound: processes that die inside an acquisition

ASSUME LeaseConstants ==
    /\ Nobody \notin Process
    /\ Token \subseteq Nat \ {0}
    /\ MaxTicket \in Nat \ {0}
    /\ MaxCrashes \in Nat

VARIABLES
    phase,       \* where process p is
    goal,        \* what it acquires for: to launch, to adopt its lease, to collect
    token,       \* the token of its attempt at the guard, 0 for none
    ticket,      \* the largest ticket it has seen, then its own
    listed,      \* the records it has listed and not read yet
    blocked,     \* a record it has read goes first
    after,       \* where it goes once its records are retired, or its transaction over
    spoiled,     \* processes whose unpublished record a scanner removed
    guardDir,    \* the guard's directory: none, bare, ready
    records,     \* the records in it
    lock,        \* <version>.lock: who created it, and whether it is written
    leases,      \* the lifetime record of each pid: none, empty, live, stale
    generation,  \* the generation is installed
    alone,       \* processes that nobody disturbed since they started to acquire
    crashes,
    overtaken    \* history, which no guard reads: a check has overlooked a chooser

files == <<guardDir, records, lock, leases, generation>>
locals == <<goal, token, ticket, listed, blocked, after, spoiled>>
vars == <<phase, goal, token, ticket, listed, blocked, after, spoiled, guardDir, records,
          lock, leases, generation, alone, crashes, overtaken>>

NoLock == [by |-> Nobody, written |-> FALSE, exists |-> FALSE]
Lock == [by : Process \cup {Nobody}, written : BOOLEAN, exists : {TRUE}] \cup {NoLock}
LockOf(p, written) == [by |-> p, written |-> written, exists |-> TRUE]

Record == [kind : {"choosing", "owner"}, token : Token, ticket : 0 .. MaxTicket]

Guarded == {"look", "entry", "evict", "create", "fill", "verify"}
Inside == {"validate", "register", "sign", "delete", "unlock", "remove"}
Scanning == {"survey", "check"}
Acquiring == {"enter", "mkdir", "choose", "list", "take", "settle", "relist", "leave"}
                \cup Scanning \cup Guarded \cup Inside
Phase == {"off", "running"} \cup Acquiring

Init ==
    /\ phase = [p \in Process |-> "off"]
    /\ goal = [p \in Process |-> "launch"]
    /\ token = [p \in Process |-> 0]
    /\ ticket = [p \in Process |-> 0]
    /\ listed = [p \in Process |-> {}]
    /\ blocked = {}
    /\ after = [p \in Process |-> "end"]
    /\ spoiled = {}
    /\ guardDir = "none"
    /\ records = {}
    /\ lock = NoLock
    /\ leases = [p \in Process |-> "none"]
    /\ generation = TRUE
    /\ alone = {}
    /\ crashes = 0
    /\ overtaken = FALSE

At(p, from, to) == phase[p] = from /\ phase' = [phase EXCEPT ![p] = to]

-----------------------------------------------------------------------------
(* A process starts to acquire                                              *)

Quiet == \A q \in Process : phase[q] \in {"off", "running"}

Begin(p, g) ==
    /\ goal' = [goal EXCEPT ![p] = g]
    /\ alone' = IF Quiet /\ guardDir # "bare" THEN {p} ELSE {}
    /\ UNCHANGED <<token, ticket, listed, blocked, after, spoiled, files, crashes, overtaken>>

Start(p) == At(p, "off", "enter") /\ \E g \in {"launch", "collect"} : Begin(p, g)

\* The stable launcher execs the generation, which keeps pid and birth.
Exec(p) == At(p, "running", "enter") /\ Begin(p, "adopt")

-----------------------------------------------------------------------------
(* AcquisitionGuard::try_acquire                                            *)

Leaving(p, whereto) == after' = [after EXCEPT ![p] = whereto]

\* After an attempt that found the guard or the transaction taken: once more, or
\* one has tried often enough.
Missed(p) == \E whereto \in {"again", "end"} : Leaving(p, whereto)

FreshToken(p) ==
    \E t \in Token \ ({r.token : r \in records} \cup {token[q] : q \in Process}) :
        token' = [token EXCEPT ![p] = t]

\* initialize_acquire_guard_records_dir: the root that somebody created and left
\* bare is filled only when no other process is there, and after a minute.
Enter(p) ==
    /\ phase[p] = "enter"
    /\ \/ /\ guardDir = "none"
          /\ guardDir' = "bare"
          /\ phase' = [phase EXCEPT ![p] = "mkdir"]
          /\ UNCHANGED <<after, token>>
       \/ /\ guardDir = "bare"
          /\ phase' = [phase EXCEPT ![p] = "leave"]
          /\ Missed(p)
          /\ UNCHANGED <<guardDir, token>>
       \/ /\ guardDir = "ready" \/ \A q \in Process \ {p} : phase[q] = "off"
          /\ guardDir # "none"
          /\ guardDir' = "ready"
          /\ phase' = [phase EXCEPT ![p] = "choose"]
          /\ FreshToken(p)
          /\ UNCHANGED after
    /\ UNCHANGED <<goal, ticket, listed, blocked, spoiled, records, lock, leases, generation,
                   alone, crashes, overtaken>>

MakeRecordsDir(p) ==
    /\ At(p, "mkdir", "choose")
    /\ guardDir' = "ready"
    /\ FreshToken(p)
    /\ UNCHANGED <<goal, ticket, listed, blocked, after, spoiled, records, lock, leases,
                   generation, alone, crashes, overtaken>>

Choosing(p) == [kind |-> "choosing", token |-> token[p], ticket |-> 0]
Owning(p) == [kind |-> "owner", token |-> token[p], ticket |-> ticket[p]]

\* Mutant: a failed attempt forgets its choosing record.
OwnerRecordOnly(p) == {r \in records : r.token = token[p] /\ r.kind = "owner"}

OwnRecords(p) == {r \in records : r.token = token[p]}

\* write_guard_record_exclusive links a finished file under the record's name.  A
\* scanner may have removed that file, which ends the acquisition.
Publish(p, record, next) ==
    /\ \/ /\ p \notin spoiled
          /\ records' = records \cup {record}
          /\ phase' = [phase EXCEPT ![p] = next]
          /\ UNCHANGED after
       \/ /\ p \in spoiled
          /\ phase' = [phase EXCEPT ![p] = "leave"]
          /\ Leaving(p, "end")
          /\ UNCHANGED records
    /\ spoiled' = spoiled \ {p}
    /\ UNCHANGED <<goal, token, ticket, listed, blocked, guardDir, lock, leases, generation,
                   alone, crashes, overtaken>>

Choose(p) == phase[p] = "choose" /\ Publish(p, Choosing(p), "list")

\* scan_active_guard_records: the names, with those of unpublished records.
List(p, next) ==
    /\ phase' = [phase EXCEPT ![p] = next]
    /\ listed' = [listed EXCEPT ![p] = records \ OwnRecords(p)]
    /\ \E S \in SUBSET {q \in Process \ {p} : phase[q] \in {"choose", "take"}} :
          spoiled' = spoiled \cup S
    /\ UNCHANGED <<goal, token, ticket, blocked, after, files, alone, crashes, overtaken>>

Survey(p) == phase[p] = "list" /\ List(p, "survey")
Relist(p) == phase[p] = "relist" /\ List(p, "check")

\* Mutant: a record counts as long as its file is there.
AnyRecordActive(r) == TRUE

Active(r) == \E p \in Process : token[p] = r.token

Precedes(r, p) == r.ticket < ticket[p] \/ (r.ticket = ticket[p] /\ r.token < token[p])

\* Mutant: a chooser is not waited for.
GoesFirstWithTicket(r, p) == r.kind = "owner" /\ Precedes(r, p)

GoesFirst(r, p) == r.kind = "choosing" \/ Precedes(r, p)

\* The record of a chooser is gone because its owner's record has taken its place.
Overlooked(r) ==
    /\ r \notin records
    /\ r.kind = "choosing"
    /\ \E q \in Process : token[q] = r.token /\ Owning(q) \in records

\* The reading of one listed file: retired meanwhile, of a dead process and then
\* retired, or counted.
Visit(p) ==
    /\ phase[p] \in Scanning
    /\ \E r \in listed[p] :
          /\ listed' = [listed EXCEPT ![p] = @ \ {r}]
          /\ \/ /\ r \notin records
                /\ UNCHANGED <<ticket, blocked, records>>
             \/ /\ r \in records /\ ~Active(r)
                /\ records' = records \ {r}
                /\ UNCHANGED <<ticket, blocked>>
             \/ /\ r \in records /\ Active(r)
                /\ ticket' = IF phase[p] = "survey" /\ r.ticket > ticket[p]
                             THEN [ticket EXCEPT ![p] = r.ticket] ELSE ticket
                /\ blocked' = IF phase[p] = "check" /\ GoesFirst(r, p)
                              THEN blocked \cup {p} ELSE blocked
                /\ UNCHANGED records
          /\ overtaken' = (overtaken \/ (phase[p] = "check" /\ Overlooked(r)))
    /\ UNCHANGED <<phase, goal, token, after, spoiled, guardDir, lock, leases, generation,
                   alone, crashes>>

\* The ticket is one more than the largest, if there is one more.
Take(p) ==
    /\ phase[p] = "survey"
    /\ listed[p] = {}
    /\ \/ /\ ticket[p] < MaxTicket
          /\ ticket' = [ticket EXCEPT ![p] = @ + 1]
          /\ phase' = [phase EXCEPT ![p] = "take"]
          /\ UNCHANGED after
       \/ /\ ticket[p] = MaxTicket
          /\ phase' = [phase EXCEPT ![p] = "leave"]
          /\ Leaving(p, "end")
          /\ UNCHANGED ticket
    /\ UNCHANGED <<goal, token, listed, blocked, spoiled, files, alone, crashes, overtaken>>

Announce(p) == phase[p] = "take" /\ Publish(p, Owning(p), "settle")

\* The choosing record goes after the owner's is there.
Settle(p) ==
    /\ At(p, "settle", "relist")
    /\ records' = records \ {Choosing(p)}
    /\ UNCHANGED <<locals, guardDir, lock, leases, generation, alone, crashes, overtaken>>

Decide(p) ==
    /\ phase[p] = "check"
    /\ listed[p] = {}
    /\ \/ /\ p \notin blocked
          /\ phase' = [phase EXCEPT ![p] = "look"]
          /\ UNCHANGED after
       \/ /\ p \in blocked
          /\ phase' = [phase EXCEPT ![p] = "leave"]
          /\ Missed(p)
    /\ UNCHANGED <<goal, token, ticket, listed, blocked, spoiled, files, alone, crashes,
                   overtaken>>

\* A process that has nothing more to do is gone; what it leaves is nobody's.
Abandoned(p) ==
    /\ lock' = IF lock.by = p THEN [lock EXCEPT !.by = Nobody] ELSE lock
    /\ leases' = [leases EXCEPT ![p] = IF @ = "live" THEN "stale" ELSE @]

\* The guard, or what there is of an attempt, is given up.
Leave(p) ==
    /\ phase[p] = "leave"
    /\ records' = records \ OwnRecords(p)
    /\ phase' = [phase EXCEPT ![p] = CASE after[p] = "inside" -> "validate"
                                       [] after[p] = "again"  -> "enter"
                                       [] OTHER               -> "off"]
    /\ token' = [token EXCEPT ![p] = 0]
    /\ ticket' = [ticket EXCEPT ![p] = 0]
    /\ blocked' = blocked \ {p}
    /\ after' = [after EXCEPT ![p] = "end"]
    /\ IF phase'[p] = "off" THEN Abandoned(p) /\ alone' = alone \ {p}
       ELSE UNCHANGED <<lock, leases, alone>>
    /\ UNCHANGED <<goal, listed, spoiled, guardDir, generation, crashes, overtaken>>

-----------------------------------------------------------------------------
(* VersionTransaction::acquire, under the guard                             *)

GuardStep(p) == UNCHANGED <<goal, token, ticket, listed, blocked, spoiled, guardDir, records,
                            leases, generation, alone, crashes, overtaken>>

LockHeld == lock.written /\ lock.by # Nobody

Look(p) ==
    /\ phase[p] = "look"
    /\ \/ ~lock.written /\ phase' = [phase EXCEPT ![p] = "entry"] /\ UNCHANGED after
       \/ lock.written /\ ~LockHeld /\ phase' = [phase EXCEPT ![p] = "evict"] /\ UNCHANGED after
       \/ LockHeld /\ phase' = [phase EXCEPT ![p] = "leave"] /\ Missed(p)
    /\ UNCHANGED lock
    /\ GuardStep(p)

\* A file that is empty or cut short is taken for the rest of a crash.
Entry(p) ==
    /\ At(p, "entry", IF lock.exists THEN "evict" ELSE "create")
    /\ UNCHANGED <<lock, after>>
    /\ GuardStep(p)

Evict(p) ==
    /\ phase[p] = "evict"
    /\ \/ /\ lock.exists
          /\ lock' = NoLock
          /\ phase' = [phase EXCEPT ![p] = "create"]
          /\ UNCHANGED after
       \/ /\ ~lock.exists
          /\ phase' = [phase EXCEPT ![p] = "leave"]
          /\ Leaving(p, "end")
          /\ UNCHANGED lock
    /\ GuardStep(p)

Create(p) ==
    /\ phase[p] = "create"
    /\ \/ /\ ~lock.exists
          /\ lock' = LockOf(p, FALSE)
          /\ phase' = [phase EXCEPT ![p] = "fill"]
          /\ UNCHANGED after
       \/ /\ lock.exists
          /\ phase' = [phase EXCEPT ![p] = "leave"]
          /\ Missed(p)
          /\ UNCHANGED lock
    /\ GuardStep(p)

\* What is written goes to the file one created, whatever the name leads to now.
Fill(p) ==
    /\ At(p, "fill", "verify")
    /\ lock' = IF lock = LockOf(p, FALSE) THEN LockOf(p, TRUE) ELSE lock
    /\ UNCHANGED after
    /\ GuardStep(p)

Verify(p) ==
    /\ At(p, "verify", "leave")
    /\ Leaving(p, IF lock = LockOf(p, TRUE) THEN "inside" ELSE "end")
    /\ UNCHANGED lock
    /\ GuardStep(p)

-----------------------------------------------------------------------------
(* Inside the transaction: acquire_inner, or the collector                  *)

InsideStep(p) == UNCHANGED <<goal, token, ticket, listed, blocked, spoiled, guardDir, records,
                             lock, alone, crashes, overtaken>>

Over(p, whereto) == phase' = [phase EXCEPT ![p] = "unlock"] /\ Leaving(p, whereto)

\* A generation that is not there any more is not run; a lease that was handed
\* over is adopted.
Validate(p) ==
    /\ phase[p] = "validate"
    /\ goal[p] # "collect"
    /\ \/ ~generation /\ Over(p, "end")
       \/ /\ generation /\ goal[p] = "launch"
          /\ phase' = [phase EXCEPT ![p] = "register"]
          /\ UNCHANGED after
       \/ generation /\ goal[p] = "adopt" /\ Over(p, IF leases[p] = "live" THEN "run" ELSE "end")
    /\ UNCHANGED <<leases, generation>>
    /\ InsideStep(p)

\* A lease of an earlier process with this pid is replaced.
Register(p) ==
    /\ At(p, "register", "sign")
    /\ leases' = [leases EXCEPT ![p] = "empty"]
    /\ UNCHANGED <<after, generation>>
    /\ InsideStep(p)

Sign(p) ==
    /\ phase[p] = "sign"
    /\ leases' = [leases EXCEPT ![p] = "live"]
    /\ Over(p, "run")
    /\ UNCHANGED generation
    /\ InsideStep(p)

\* The collector deletes a generation without a live lease, in two steps.
Collect(p) ==
    /\ goal[p] = "collect"
    /\ \/ /\ phase[p] = "validate"
          /\ IF \E q \in Process : leases[q] = "live" THEN Over(p, "end")
             ELSE phase' = [phase EXCEPT ![p] = "delete"] /\ UNCHANGED after
          /\ UNCHANGED generation
       \/ /\ phase[p] = "delete"
          /\ generation' = FALSE
          /\ Over(p, "end")
    /\ UNCHANGED leases
    /\ InsideStep(p)

-----------------------------------------------------------------------------
(* The end of a transaction, and of a process                               *)

Finish(p) ==
    /\ phase' = [phase EXCEPT ![p] = IF after[p] = "run" THEN "running" ELSE "off"]
    /\ after' = [after EXCEPT ![p] = "end"]
    /\ alone' = alone \ {p}

\* remove_if_owned: reading and removing are two steps.
Unlock(p) ==
    /\ phase[p] = "unlock"
    /\ IF lock = LockOf(p, TRUE)
       THEN phase' = [phase EXCEPT ![p] = "remove"] /\ UNCHANGED <<after, alone>>
       ELSE Finish(p)
    /\ UNCHANGED <<goal, token, ticket, listed, blocked, spoiled, files, crashes, overtaken>>

Remove(p) ==
    /\ phase[p] = "remove"
    /\ lock' = NoLock
    /\ Finish(p)
    /\ UNCHANGED <<goal, token, ticket, listed, blocked, spoiled, guardDir, records, leases,
                   generation, crashes, overtaken>>

Gone(p) ==
    /\ phase' = [phase EXCEPT ![p] = "off"]
    /\ token' = [token EXCEPT ![p] = 0]
    /\ ticket' = [ticket EXCEPT ![p] = 0]
    /\ listed' = [listed EXCEPT ![p] = {}]
    /\ blocked' = blocked \ {p}
    /\ after' = [after EXCEPT ![p] = "end"]
    /\ spoiled' = spoiled \ {p}
    /\ alone' = alone \ {p}
    /\ Abandoned(p)
    /\ UNCHANGED <<goal, guardDir, records, generation, overtaken>>

\* The lifetime record stays when the process ends.
Exit(p) == phase[p] = "running" /\ Gone(p) /\ UNCHANGED crashes

Crash(p) ==
    /\ phase[p] \in Acquiring
    /\ crashes < MaxCrashes
    /\ crashes' = crashes + 1
    /\ Gone(p)

Step(p) ==
    \/ Start(p) \/ Exec(p)
    \/ Enter(p) \/ MakeRecordsDir(p) \/ Choose(p) \/ Survey(p) \/ Visit(p) \/ Take(p)
    \/ Announce(p) \/ Settle(p) \/ Relist(p) \/ Decide(p) \/ Leave(p)
    \/ Look(p) \/ Entry(p) \/ Evict(p) \/ Create(p) \/ Fill(p) \/ Verify(p)
    \/ Validate(p) \/ Register(p) \/ Sign(p) \/ Collect(p) \/ Unlock(p) \/ Remove(p)
    \/ Exit(p) \/ Crash(p)

Next == \E p \in Process : Step(p)

Spec == Init /\ [][Next]_vars

-----------------------------------------------------------------------------
(* Properties                                                               *)

Types ==
    /\ phase \in [Process -> Phase]
    /\ goal \in [Process -> {"launch", "adopt", "collect"}]
    /\ token \in [Process -> Token \cup {0}]
    /\ ticket \in [Process -> 0 .. MaxTicket]
    /\ listed \in [Process -> SUBSET Record]
    /\ after \in [Process -> {"end", "again", "inside", "run"}]
    /\ blocked \subseteq Process /\ spoiled \subseteq Process /\ alone \subseteq Process
    /\ guardDir \in {"none", "bare", "ready"}
    /\ records \subseteq Record
    /\ lock \in Lock
    /\ leases \in [Process -> {"none", "empty", "live", "stale"}]
    /\ generation \in BOOLEAN
    /\ crashes \in 0 .. MaxCrashes
    /\ overtaken \in BOOLEAN

\* A live attempt has a token of its own, its choosing record until the owner's is
\* there, and the owner's as long as it counts on it.
RecordsInPlace ==
    /\ \A p, q \in Process : token[p] = token[q] => p = q \/ token[p] = 0
    /\ \A p \in Process :
          /\ phase[p] \in {"list", "survey", "take", "settle"} => Choosing(p) \in records
          /\ phase[p] \in {"settle", "relist", "check"} \cup Guarded => Owning(p) \in records

\* The tokens of records that no live process has.
Leftovers == {t \in Token : /\ \E r \in records : r.token = t
                            /\ \A p \in Process : token[p] # t}

\* The types, what of an attempt is on disk while it lasts, and that only a crash
\* leaves records behind, those of one attempt.
TypeOK == Types /\ RecordsInPlace /\ Cardinality(Leftovers) <= crashes

\* AcquisitionGuard: at most one process looks at, removes or creates the
\* transaction's file.
OneGuardHolder == \A p, q \in Process : phase[p] \in Guarded /\ phase[q] \in Guarded => p = q

\* The check that overlooks a chooser (the read that finds its record gone, and goes
\* on) is the only way to two holders of the guard.  As long as it has not happened the
\* transaction is exclusive in turn, and so the collector never deletes a generation
\* under a live lease: it sees every launcher that validated before.
SafeUnlessOvertaken ==
    ~overtaken =>
        /\ OneGuardHolder
        /\ \A p, q \in Process : phase[p] \in Inside /\ phase[q] \in Inside => p = q
        /\ \A p \in Process : leases[p] = "live" => generation

\* Whatever processes that died have left behind, choosing records, tickets, half
\* written files or a stale lease, one that nobody disturbs gets its transaction in
\* the first attempt, and its lease unless the generation is gone.
LoneStartSucceeds ==
    \A p \in alone :
        /\ phase[p] = "leave" => after[p] = "inside"
        /\ phase[p] \in {"unlock", "remove"} /\ goal[p] # "collect" =>
              after[p] = "run" \/ ~generation
=============================================================================

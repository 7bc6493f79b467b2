--------------------------- MODULE DaemonLifecycle ---------------------------
(***************************************************************************)
(* The life of a cron daemon process (crabcode-cron main.rs) around its    *)
(* state: the lock files that admit one owner (acosmi-scheduler lock.rs),  *)
(* the move of the legacy directory (layout_migration.rs), the socket and  *)
(* the pid file, the order in which a stop or a failed start takes them    *)
(* down, and the launcher that starts the next one (acosmi-daemon-launcher *)
(* lib.rs).                                                                *)
(*                                                                         *)
(* A process is a pid and the time it was born; pids come back.  Every     *)
(* access to a file is a step.  Left out: the stores behind the writer,    *)
(* waits of shutdown_all that run out, a pid file that cannot be written,  *)
(* and daemons older than the unified layout, which know the legacy lock   *)
(* only.                                                                   *)
(***************************************************************************)
EXTENDS Integers, FiniteSets

CONSTANTS
    Pids,       \* the pids the system hands out
    Entries,    \* what the legacy directory may hold: jobs, outbox, ledger, ...
    Launched,   \* starts go through the launcher; otherwise anybody, any time
    MaxFaults   \* bound: crashes, failures, requests to stop and hasty starts

ASSUME LifecycleConstants ==
    /\ IsFiniteSet(Pids) /\ Pids \subseteq Nat \ {0}
    /\ Launched \in BOOLEAN
    /\ MaxFaults \in Nat

VARIABLES
    phase,      \* where process p is
    turn,       \* the lock it acquires or releases: legacy, primary, or again
    born,       \* its start time
    file,       \* the lock files
    pidFile,    \* the pid file
    socket,     \* who listens behind the socket's path
    bound,      \* processes that have bound the socket
    legacyDir,  \* .crabcode exists
    origin,     \* where each entry was before the first start
    old,        \* entries in .crabcode
    new,        \* entries in cron: none, legacy (moved) or own
    backup,     \* entries set aside as conflicts
    todo,       \* names process p has still to move
    entry,      \* the entry it is moving
    clash,      \* it found cron's own there
    writer,     \* processes with the outbox, ledger and journals open
    first,      \* processes that started when no other was left, with a lock of their own
    faults

locks == <<turn, file>>
ways == <<pidFile, socket, bound>>
layout == <<legacyDir, origin, old, new, backup>>
moving == <<todo, entry, clash>>
vars == <<phase, turn, born, file, pidFile, socket, bound, legacyDir, origin, old, new,
          backup, todo, entry, clash, writer, first, faults>>

NoPid == 0
Births == 1 .. Cardinality(Pids) + 3
NoFile == [pid |-> NoPid, born |-> 0]
Empty == [pid |-> NoPid, born |-> 1]   \* created, not written yet
Owner == [pid : Pids, born : Births]
Me(p) == [pid |-> p, born |-> born[p]]

Acquiring == {"create", "write", "read", "remove", "recreate"}
Starting == {"enter", "migrating", "gated", "moving"}
Ending == {"closing", "cleanup", "release", "unlock", "unlink"}
Phases == {"off", "ready", "serving"} \cup Acquiring \cup Starting \cup Ending

Alive(p) == phase[p] # "off"
LockOf(p) == IF turn[p] = "legacy" THEN "legacy" ELSE "primary"

Init ==
    /\ phase = [p \in Pids |-> "off"]
    /\ turn = [p \in Pids |-> "primary"]
    /\ born = [p \in Pids |-> 0]
    /\ file = [l \in {"legacy", "primary"} |-> NoFile]
    /\ pidFile = NoPid
    /\ socket = NoFile
    /\ bound = {}
    /\ legacyDir \in BOOLEAN
    /\ origin \in [Entries -> IF legacyDir THEN {"none", "old", "new", "both"}
                              ELSE {"none", "new"}]
    /\ old = {e \in Entries : origin[e] \in {"old", "both"}}
    /\ new = [e \in Entries |-> IF origin[e] \in {"new", "both"} THEN "own" ELSE "none"]
    /\ backup = {}
    /\ todo = [p \in Pids |-> {}]
    /\ entry = [p \in Pids |-> {}]
    /\ clash = {}
    /\ writer = {}
    /\ first = {}
    /\ faults = 0

-----------------------------------------------------------------------------
(* The launcher                                                             *)

\* A start time no file and no process bears.
Used == {born[p] : p \in Pids} \cup {file[l].born : l \in DOMAIN file} \cup {socket.born}
Fresh == CHOOSE b \in Births : b \notin Used

\* ensure_running spawns when the pid file names no living daemon, one spawn at a
\* time.  It waits five seconds for the pid file: longer than an acquisition takes,
\* but not always than the rest of a start.
MaySpawn ==
    Launched => /\ pidFile # NoPid => ~Alive(pidFile)
                /\ \A p \in Pids : phase[p] \in Acquiring => turn[p] = "again"

Fault == faults < MaxFaults /\ faults' = faults + 1

\* A start beside another process is a hasty one.
Start(p) ==
    /\ ~Alive(p)
    /\ MaySpawn
    /\ phase' = [phase EXCEPT ![p] = "create"]
    /\ turn' = [turn EXCEPT ![p] = IF legacyDir THEN "legacy" ELSE "primary"]
    /\ born' = [born EXCEPT ![p] = Fresh]
    /\ \/ /\ \A q \in Pids : ~Alive(q)
          /\ first' = {p}
          /\ UNCHANGED faults
       \/ /\ \E q \in Pids : Alive(q)
          /\ Fault
          /\ UNCHANGED first
    /\ UNCHANGED <<file, ways, layout, moving, writer>>

-----------------------------------------------------------------------------
(* try_acquire_lock_at                                                      *)

\* What follows an acquisition: the other lock, the migration, or, for the
\* scheduler's own acquisition, readiness.
Granted(p) ==
    /\ phase' = [phase EXCEPT ![p] = CASE turn[p] = "legacy"  -> "create"
                                       [] turn[p] = "primary" -> "enter"
                                       [] OTHER               -> "ready"]
    /\ turn' = [turn EXCEPT ![p] = IF @ = "legacy" THEN "primary" ELSE @]

Dead(p) ==
    /\ phase' = [phase EXCEPT ![p] = "off"]
    /\ turn' = [turn EXCEPT ![p] = "primary"]
    /\ born' = [born EXCEPT ![p] = 0]
    /\ bound' = bound \ {p}
    /\ todo' = [todo EXCEPT ![p] = {}]
    /\ entry' = [entry EXCEPT ![p] = {}]
    /\ clash' = clash \ {p}
    /\ writer' = writer \ {p}
    /\ first' = first \ {p}

\* main exits with code 11 and leaves everything; a scheduler without the lock
\* ends the start, whose stores are open by then.
Refused(p) ==
    \/ turn[p] # "again" /\ Dead(p)
    \/ /\ turn[p] = "again"
       /\ phase' = [phase EXCEPT ![p] = "closing"]
       /\ UNCHANGED <<turn, born, bound, moving, writer, first>>

\* create_new and the write of the content are two steps.
Create(p) ==
    /\ phase[p] = "create"
    /\ IF file[LockOf(p)] = NoFile
       THEN /\ file' = [file EXCEPT ![LockOf(p)] = Empty]
            /\ phase' = [phase EXCEPT ![p] = "write"]
       ELSE /\ phase' = [phase EXCEPT ![p] = "read"]
            /\ UNCHANGED file
    /\ UNCHANGED <<turn, born, ways, layout, moving, writer, first, faults>>

Write(p) ==
    /\ phase[p] = "write"
    /\ file' = [file EXCEPT ![LockOf(p)] = Me(p)]
    /\ Granted(p)
    /\ UNCHANGED <<born, ways, layout, moving, writer, first, faults>>

\* What the probe said on Windows once: nobody is alive.
BelievedDead(c) == FALSE

\* A lock that cannot be read is somebody's.
UnreadableHolds(c) == c = Empty \/ (c \in Owner /\ born[c.pid] = c.born)

\* Somebody else's lock counts when that very process can be seen alive.
HeldElsewhere(c) == c \in Owner /\ born[c.pid] = c.born

\* The identity is made of the pid alone: a lock left under a pid that came back
\* is taken for one's own, with the start time of the dead process in it.
Read(p) ==
    /\ phase[p] = "read"
    /\ LET c == file[LockOf(p)]
       IN  \/ /\ c \in Owner /\ c.pid = p
              /\ Granted(p)
              /\ first' = IF c.born = born[p] THEN first ELSE first \ {p}
              /\ UNCHANGED <<born, bound, moving, writer>>
           \/ /\ ~(c \in Owner /\ c.pid = p)
              /\ HeldElsewhere(c)
              /\ Refused(p)
           \/ /\ ~(c \in Owner /\ c.pid = p)
              /\ ~HeldElsewhere(c)
              /\ phase' = [phase EXCEPT ![p] = "remove"]
              /\ UNCHANGED <<turn, born, bound, moving, writer, first>>
    /\ UNCHANGED <<file, pidFile, socket, layout, faults>>

Remove(p) ==
    /\ phase[p] = "remove"
    /\ file' = [file EXCEPT ![LockOf(p)] = NoFile]
    /\ phase' = [phase EXCEPT ![p] = "recreate"]
    /\ UNCHANGED <<turn, born, ways, layout, moving, writer, first, faults>>

Recreate(p) ==
    /\ phase[p] = "recreate"
    /\ \/ /\ file[LockOf(p)] = NoFile
          /\ file' = [file EXCEPT ![LockOf(p)] = Empty]
          /\ phase' = [phase EXCEPT ![p] = "write"]
          /\ UNCHANGED <<turn, born, bound, moving, writer, first>>
       \/ /\ file[LockOf(p)] # NoFile
          /\ Refused(p)
          /\ UNCHANGED file
    /\ UNCHANGED <<pidFile, socket, layout, faults>>

-----------------------------------------------------------------------------
(* The start of an owner                                                    *)

AbortKeepingWork(p) ==
    /\ phase' = [phase EXCEPT ![p] = IF p \in writer THEN "closing" ELSE "cleanup"]
    /\ UNCHANGED <<todo, entry, clash>>

\* Before the writer is open a failure goes to the cleanup of main directly.
Abort(p) ==
    /\ phase' = [phase EXCEPT ![p] = IF p \in writer THEN "closing" ELSE "cleanup"]
    /\ todo' = [todo EXCEPT ![p] = {}]
    /\ entry' = [entry EXCEPT ![p] = {}]
    /\ clash' = clash \ {p}

\* unlink_stale_socket, then the names in the legacy directory.
Enter(p) ==
    /\ phase[p] = "enter"
    /\ socket' = NoFile
    /\ todo' = [todo EXCEPT ![p] = old]
    /\ phase' = [phase EXCEPT ![p] = "migrating"]
    /\ UNCHANGED <<locks, born, pidFile, bound, layout, entry, clash, writer, first, faults>>

\* owns_primary_lock, before every rename.
Owns(p) == file["primary"] = Me(p)

Verify(p) ==
    /\ phase[p] = "migrating"
    /\ \E e \in todo[p] :
          \/ /\ Owns(p)
             /\ entry' = [entry EXCEPT ![p] = {e}]
             /\ phase' = [phase EXCEPT ![p] = "gated"]
             /\ UNCHANGED <<todo, clash>>
          \/ ~Owns(p) /\ Abort(p)
    /\ UNCHANGED <<locks, born, ways, layout, writer, first, faults>>

Overlooked(p) == {}
Taken(p) == {e \in entry[p] : new[e] # "none"}

\* path_exists(dst)
Look(p) ==
    /\ phase[p] = "gated"
    /\ clash' = IF Taken(p) = {} THEN clash ELSE clash \cup {p}
    /\ phase' = [phase EXCEPT ![p] = "moving"]
    /\ UNCHANGED <<locks, born, ways, layout, todo, entry, writer, first, faults>>

\* A conflict is renamed beside itself; a source that is gone is an error.
Rename(p) ==
    /\ phase[p] = "moving"
    /\ \/ /\ entry[p] \subseteq old
          /\ old' = old \ entry[p]
          /\ IF p \in clash
             THEN backup' = backup \cup entry[p] /\ UNCHANGED new
             ELSE /\ new' = [e \in Entries |-> IF e \in entry[p] THEN "legacy" ELSE new[e]]
                  /\ UNCHANGED backup
          /\ todo' = [todo EXCEPT ![p] = @ \ entry[p]]
          /\ entry' = [entry EXCEPT ![p] = {}]
          /\ clash' = clash \ {p}
          /\ phase' = [phase EXCEPT ![p] = "migrating"]
       \/ /\ ~(entry[p] \subseteq old)
          /\ Abort(p)
          /\ UNCHANGED <<old, new, backup>>
    /\ UNCHANGED <<locks, born, ways, legacyDir, origin, writer, first, faults>>

\* The epoch, the ledger and the journals are opened, which creates what is not
\* there; then the scheduler acquires the lock again, by identity.
Open(p) ==
    /\ phase[p] = "migrating"
    /\ todo[p] = {}
    /\ new' = [e \in Entries |-> IF new[e] = "none" THEN "own" ELSE new[e]]
    /\ writer' = writer \cup {p}
    /\ turn' = [turn EXCEPT ![p] = "again"]
    /\ phase' = [phase EXCEPT ![p] = "create"]
    /\ UNCHANGED <<born, file, ways, legacyDir, origin, old, backup, moving, first, faults>>

\* The IPC task binds while the scheduler acquires.
Bind(p) ==
    /\ phase[p] \in Acquiring \cup {"ready"}
    /\ turn[p] = "again"
    /\ p \notin bound
    /\ socket' = Me(p)
    /\ bound' = bound \cup {p}
    /\ UNCHANGED <<phase, locks, born, pidFile, layout, moving, writer, first, faults>>

\* wait_for_runtime_ready, write_pid_file
Publish(p) ==
    /\ phase[p] = "ready"
    /\ p \in bound
    /\ pidFile' = p
    /\ phase' = [phase EXCEPT ![p] = "serving"]
    /\ UNCHANGED <<locks, born, socket, bound, layout, moving, writer, first, faults>>

-----------------------------------------------------------------------------
(* The end                                                                  *)

\* A signal: the scheduler ends and gives the primary lock up.
Stop(p) ==
    /\ phase[p] = "serving"
    /\ Fault
    /\ phase' = [phase EXCEPT ![p] = "release"]
    /\ UNCHANGED <<locks, born, ways, layout, moving, writer, first>>

\* What follows the release of a lock.
Released(p) ==
    /\ phase' = [phase EXCEPT ![p] = CASE turn[p] = "again"   -> "closing"
                                       [] turn[p] = "primary" -> "release"
                                       [] OTHER               -> "unlink"]
    /\ turn' = [turn EXCEPT ![p] = IF @ = "primary" THEN "legacy" ELSE @]

\* release_lock_at: a file of another identity stays; one that cannot be parsed is
\* taken for one's own.  Reading and removing are two steps.
Release(p) ==
    /\ phase[p] = "release"
    /\ LET c == file[LockOf(p)]
       IN  \/ c # NoFile /\ (c \in Owner => c.pid = p)
              /\ phase' = [phase EXCEPT ![p] = "unlock"] /\ UNCHANGED turn
           \/ (c = NoFile \/ (c \in Owner /\ c.pid # p)) /\ Released(p)
    /\ UNCHANGED <<born, file, ways, layout, moving, writer, first, faults>>

Unlock(p) ==
    /\ phase[p] = "unlock"
    /\ file' = [file EXCEPT ![LockOf(p)] = NoFile]
    /\ Released(p)
    /\ UNCHANGED <<born, ways, layout, moving, writer, first, faults>>

\* shutdown_all: the listener, unless a failed start aborted it, unlinks the socket;
\* the writer drains and ends.
Close(p) ==
    /\ phase[p] = "closing"
    /\ \/ p \in bound /\ socket' = NoFile
       \/ ~(p \in bound /\ pidFile = p) /\ UNCHANGED socket
    /\ writer' = writer \ {p}
    /\ phase' = [phase EXCEPT ![p] = "cleanup"]
    /\ UNCHANGED <<locks, born, pidFile, bound, layout, moving, first, faults>>

\* cleanup_runtime_files: the pid file if it is one's own, both locks, the socket's
\* path whoever listens there.
CleanUp(p) ==
    /\ phase[p] = "cleanup"
    /\ pidFile' = IF pidFile = p THEN NoPid ELSE pidFile
    /\ turn' = [turn EXCEPT ![p] = "primary"]
    /\ phase' = [phase EXCEPT ![p] = "release"]
    /\ UNCHANGED <<born, file, socket, bound, layout, moving, writer, first, faults>>

Unlink(p) ==
    /\ phase[p] = "unlink"
    /\ socket' = NoFile
    /\ Dead(p)
    /\ UNCHANGED <<file, pidFile, layout, faults>>

\* An I/O error anywhere between the acquisition and readiness.
Fail(p) ==
    /\ \/ phase[p] \in Starting \ {"enter"}
       \/ phase[p] \in Acquiring \cup {"ready"} /\ turn[p] = "again"
    /\ Fault
    /\ Abort(p)
    /\ UNCHANGED <<locks, born, ways, layout, writer, first>>

Crash(p) ==
    /\ Alive(p)
    /\ Fault
    /\ Dead(p)
    /\ UNCHANGED <<file, pidFile, socket, layout>>

Step(p) ==
    \/ Create(p) \/ Write(p) \/ Read(p) \/ Remove(p) \/ Recreate(p)
    \/ Enter(p) \/ Verify(p) \/ Look(p) \/ Rename(p) \/ Open(p) \/ Publish(p)
    \/ Release(p) \/ Unlock(p) \/ Close(p) \/ CleanUp(p) \/ Unlink(p)

Next == \E p \in Pids : Start(p) \/ Step(p) \/ Bind(p) \/ Stop(p) \/ Fail(p) \/ Crash(p)

\* Processes run, and a daemon is asked for whenever there is none.  Nothing has to
\* fail, and nobody has to be hasty.
Fairness ==
    /\ \A p \in Pids : WF_vars(Step(p)) /\ WF_vars(Bind(p))
    /\ WF_vars(\E p \in Pids : (\A q \in Pids : ~Alive(q)) /\ Start(p))

Spec == Init /\ [][Next]_vars /\ Fairness

-----------------------------------------------------------------------------
(* Properties                                                               *)

\* Types, and what belongs to which phase.
TypeOK ==
    /\ phase \in [Pids -> Phases]
    /\ turn \in [Pids -> {"legacy", "primary", "again"}]
    /\ born \in [Pids -> Births \cup {0}]
    /\ \A p \in Pids : Alive(p) <=> born[p] # 0
    /\ \A p, q \in Pids : p # q /\ Alive(p) => born[p] # born[q]
    /\ file \in [{"legacy", "primary"} -> Owner \cup {NoFile, Empty}]
    /\ pidFile \in Pids \cup {NoPid}
    /\ socket \in Owner \cup {NoFile}
    /\ legacyDir \in BOOLEAN
    /\ origin \in [Entries -> {"none", "old", "new", "both"}]
    /\ old \subseteq Entries /\ backup \subseteq Entries
    /\ new \in [Entries -> {"none", "legacy", "own"}]
    /\ todo \in [Pids -> SUBSET Entries] /\ entry \in [Pids -> SUBSET Entries]
    /\ {bound, clash, writer, first} \subseteq SUBSET Pids
    /\ \A p \in bound \cup writer \cup first : Alive(p)
    /\ \A p \in Pids :
          /\ todo[p] # {} => phase[p] \in Starting
          /\ Cardinality(entry[p]) = IF phase[p] \in {"gated", "moving"} THEN 1 ELSE 0
          /\ p \in clash => phase[p] = "moving"
    /\ faults \in 0 .. MaxFaults

\* The processes at work on the state: starting with both locks, moving the legacy
\* directory, or with the stores open and not about to give them up.
Ruling == {p \in Pids : phase[p] \in Starting \/ (p \in writer /\ phase[p] \notin Ending)}

\* A daemon that started when no other process was left, and wrote its own locks, is
\* the only one that moves the legacy directory and that rules over the outbox, the
\* ledger and the journals, whoever starts after it; and once its pid is published,
\* somebody listens.
FirstPrevails ==
    \A p \in first :
        /\ p \in Ruling => Ruling = {p}
        /\ phase[p] = "serving" => pidFile = p /\ socket = Me(p)

\* The move loses nothing and overwrites nothing, over crashes and restarts and
\* whoever moves beside: legacy data is in the old place, set aside or moved, and what
\* cron had stays.  Who has the stores open has the legacy data in them wherever cron
\* had none of its own.
MoveIsSafe ==
    \A e \in Entries :
        /\ origin[e] \in {"old", "both"} => e \in old \cup backup \/ new[e] = "legacy"
        /\ origin[e] \in {"new", "both"} => new[e] = "own"
        /\ origin[e] = "old" /\ writer # {} => new[e] = "legacy"

\* Whatever a crash leaves behind, half-written locks included, never keeps the
\* daemon from starting again.
ServedAgain == []<>(\E p \in Pids : phase[p] = "serving")

\* The two layers together, the launcher's spawn lock and the scheduler lock, keep two
\* daemons from being ready, each with a scheduler that owns the state, at a time.
NoDoubleStart ==
    \A p, q \in Pids : phase[p] \in {"ready", "serving"} /\ phase[q] \in {"ready", "serving"}
                           => p = q
=============================================================================

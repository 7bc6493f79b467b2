-------------------------- MODULE CronLedgerImport --------------------------
(***************************************************************************)
(* Restarts of the cron daemon around its ledger: migrate_json_store runs  *)
(* before the writer on every start and imports scheduled_tasks.json and   *)
(* the retained outbox into the ledger, once, in two transactions.  While  *)
(* the daemon is up the ledger takes the steps of CronLedger, and a fire   *)
(* is appended to the outbox first and recorded in the ledger second.      *)
(***************************************************************************)
EXTENDS CronLedger

CONSTANTS
    Continuation,   \* the jobs whose session target is a chat thread
    MaxCrashes      \* bound: how often the daemon dies

ASSUME ImportConstants ==
    /\ Continuation \subseteq Job
    /\ MaxCrashes \in Nat

VARIABLES
    daemon,      \* "down", "importing" (import committed, cutover not yet), "up"
    migration,   \* migration_state.status, "none" where there is no row
    source,      \* scheduled_tasks.json exists
    stored,      \* the jobs in it
    retained,    \* the first retained outbox event of each firing, by type
    crashes,     \* how often the daemon died
    legacy       \* history: the retained events and the jobs the ledger was started with

restart == <<daemon, migration, source, stored, retained, crashes, legacy>>
allVars == <<vars, restart>>

EventType == {"none", "Fired", "Skipped"}

EmptyLedger ==
    /\ status = [k \in Key |-> "absent"]
    /\ fence = [k \in Key |-> 0]
    /\ target = [k \in Key |-> NoTarget]
    /\ kind = [k \in Key |-> "scheduled"]
    /\ attempts = <<>>
    /\ results = <<>>
    /\ jobRow = [j \in Job |-> Gone]
    /\ held = [c \in Consumer |-> 0]
    /\ clock = 0
    /\ daemon = "down"
    /\ migration = "none"
    /\ crashes = 0

\* A machine that never ran the daemon.
FreshInit ==
    /\ EmptyLedger
    /\ source = FALSE
    /\ stored = {}
    /\ retained = [k \in Key |-> "none"]
    /\ legacy = [retained |-> retained, stored |-> stored]

\* A machine whose previous daemon kept only the JSON store and the outbox.
UpgradeInit ==
    /\ EmptyLedger
    /\ source = TRUE
    /\ stored \in SUBSET Job
    /\ retained \in [Key -> EventType]
    /\ legacy = [retained |-> retained, stored |-> stored]

-----------------------------------------------------------------------------
(* Start-up *)

\* classify_occurrence
ImportedStatus(k) ==
    CASE retained[k] = "none" -> "absent"
      [] retained[k] = "Skipped" -> "skipped"
      [] retained[k] = "Fired" /\ JobOf(k) \in stored \cap Continuation -> "needs_adoption"
      [] OTHER -> "pending"

\* The import transaction clears jobs and occurrences and fills them from the
\* JSON store and the outbox; a row of attempts that references an occurrence
\* makes the DELETE, and with it the start, fail.
ImportRows ==
    /\ status' = [k \in Key |-> ImportedStatus(k)]
    /\ fence' = [k \in Key |-> 0]
    /\ target' = [k \in Key |-> NoTarget]
    /\ kind' = [k \in Key |-> IF retained[k] = "Skipped" THEN "missed_skipped" ELSE "scheduled"]
    /\ jobRow' = [j \in Job |-> IF j \in stored THEN 0 ELSE Gone]

\* Mutant: a committed import is repeated on every start.
NeedsImportAlways == source

NeedsImport == migration # "committed" /\ source

\* migrate_json_store, up to the commit of its import transaction.
StartDaemon ==
    /\ daemon = "down"
    /\ \/ /\ ~NeedsImport
          /\ daemon' = "up"
          /\ UNCHANGED <<vars, migration>>
       \/ /\ NeedsImport
          /\ attempts = <<>>
          /\ ImportRows
          /\ migration' = "imported"
          /\ daemon' = "importing"
          /\ UNCHANGED <<attempts, results, held, clock>>
    /\ UNCHANGED <<source, stored, retained, crashes, legacy>>

\* Mutant: verify miscounts an import with skipped firings and gives up.
CutoverMiscounting ==
    /\ daemon = "importing"
    /\ IF \E k \in Key : status[k] = "skipped"
       THEN daemon' = "down" /\ UNCHANGED migration
       ELSE daemon' = "up" /\ migration' = "committed"
    /\ UNCHANGED <<vars, source, stored, retained, crashes, legacy>>

\* verify finds the rows just written; cutover commits the migration.
Cutover ==
    /\ daemon = "importing"
    /\ migration' = "committed"
    /\ daemon' = "up"
    /\ UNCHANGED <<vars, source, stored, retained, crashes, legacy>>

DaemonCrash ==
    /\ daemon # "down"
    /\ crashes < MaxCrashes
    /\ daemon' = "down"
    /\ crashes' = crashes + 1
    /\ UNCHANGED <<vars, migration, source, stored, retained, legacy>>

-----------------------------------------------------------------------------
(* While the daemon is up *)

\* A job is added over IPC and the store written.
AddJob(j) ==
    /\ daemon = "up"
    /\ j \notin stored
    /\ stored' = stored \cup {j}
    /\ source' = TRUE
    /\ UNCHANGED <<vars, daemon, migration, retained, crashes, legacy>>

EventTypeOf(cause) == IF cause = "missed_skipped" THEN "Skipped" ELSE "Fired"

\* A final or missed job leaves the store with its fire.
StoredAfter(j, cause) ==
    IF cause \in {"recurring", "manual"} THEN stored ELSE stored \ {j}

\* The scheduler hands the event to the writer, which appends it to the outbox
\* and then, whether or not that failed, records the occurrence, which may fail
\* too; meanwhile the scheduler writes the store, or fails to.  The daemon may
\* die between any two of these.
Fire(k, cause, tgt) ==
    /\ daemon = "up"
    /\ JobOf(k) \in stored
    /\ stored' \in {stored, StoredAfter(JobOf(k), cause)}
    /\ retained' \in {retained,
                      [retained EXCEPT ![k] = IF @ = "none" THEN EventTypeOf(cause) ELSE @]}
    /\ FireOccurrence(k, cause, tgt) \/ UNCHANGED vars
    /\ \/ UNCHANGED <<daemon, crashes>>
       \/ /\ crashes < MaxCrashes
          /\ daemon' = "down"
          /\ crashes' = crashes + 1
    /\ UNCHANGED <<migration, source, legacy>>

\* Outbox rotation evicts the events of a firing.
EvictRetained(k) ==
    /\ daemon = "up"
    /\ retained[k] # "none"
    /\ retained' = [retained EXCEPT ![k] = "none"]
    /\ UNCHANGED <<vars, daemon, migration, source, stored, crashes, legacy>>

\* The ledger commands the consumers and operators send.
LedgerCommand ==
    /\ daemon = "up"
    /\ \/ \E c \in Consumer : \/ ClaimNextOccurrence(c)
                              \/ AcceptOccurrence(c)
                              \/ ReportFailureOccurrence(c)
       \/ \E k \in Key : RetryOccurrence(k) \/ CancelOccurrence(k)
    /\ UNCHANGED restart

\* Consumers and the clock do not wait for the daemon.
Outside ==
    /\ Tick \/ \E c \in Consumer : ConsumerCrash(c)
    /\ UNCHANGED restart

RestartNext ==
    \/ StartDaemon
    \/ Cutover
    \/ DaemonCrash
    \/ \E j \in Job : AddJob(j)
    \/ \E k \in Key, cause \in Cause, tgt \in Target : Fire(k, cause, tgt)
    \/ \E k \in Key : EvictRetained(k)
    \/ LedgerCommand
    \/ Outside

\* The launcher starts the daemon again until it is up.
RestartFairness == WF_allVars(StartDaemon) /\ WF_allVars(Cutover)

FreshSpec == FreshInit /\ [][RestartNext]_allVars /\ RestartFairness
UpgradeSpec == UpgradeInit /\ [][RestartNext]_allVars /\ RestartFairness

-----------------------------------------------------------------------------
(* Properties *)

\* What may become of a firing the JSON daemon had left in the outbox.
LegacyStatus(k) ==
    CASE legacy.retained[k] = "Skipped" -> {"skipped"}
      [] legacy.retained[k] = "Fired" /\ JobOf(k) \in legacy.stored \cap Continuation ->
            {"needs_adoption"}
      [] OTHER -> {"pending", "skipped"}

\* What the JSON daemon fired or skipped is on record from the cutover on and no
\* consumer is ever handed it a second time, although the import is cut short and
\* repeated, the scheduler fires it again and the outbox forgets it.
LegacyIsHonoured ==
    migration = "committed" =>
        \A k \in Key : legacy.retained[k] # "none" =>
            /\ status[k] \in LegacyStatus(k)
            /\ \A a \in DOMAIN attempts : attempts[a].key # k

\* An occurrence keeps the envelope its first fire gave it.
EnvelopeIsImmutable ==
    [][\A k \in Key : target[k] # NoTarget => target'[k] = target[k]]_allVars

\* A start whose import finds jobs for the first time succeeds like any other:
\* the daemon, once down, comes up again.
DaemonComesUp == daemon = "down" ~> daemon = "up"
=============================================================================

------------------------ MODULE CronLedgerImportProofs ------------------------
(***************************************************************************)
(* Proofs about CronLedgerImport: the ledger across starts, crashes and    *)
(* imports, from the step lemmas of CronLedgerProofs.  An import clears    *)
(* the tables only while no attempt references an occurrence, so that the  *)
(* invariant of the ledger survives it; and on the upgrade path it comes   *)
(* before everything else, so that no envelope is lost to it and what the  *)
(* JSON daemon had fired is on record before anyone is served.             *)
(***************************************************************************)
EXTENDS CronLedgerImport, CronLedgerProofs

\* What is kept of the ledger by every start, with or without a store to import.
Ledger == IInv /\ LegacyNeverLeased

\* The upgrade path: until the cutover commits, the source is there to be imported,
\* the writer does not serve, and nobody has fired or claimed anything.
Pristine ==
    /\ source
    /\ migration \in {"none", "imported", "committed"}
    /\ daemon \in {"down", "importing", "up"}
    /\ daemon = "importing" => migration = "imported"
    /\ \A k \in Key : ~Recorded(k) => target[k] = NoTarget
    /\ migration # "committed" =>
          /\ daemon # "up"
          /\ attempts = <<>>
          /\ \A c \in Consumer : held[c] = 0
          /\ \A k \in Key : target[k] = NoTarget
          /\ retained = legacy.retained /\ stored = legacy.stored

\* What the import wrote: the image of the store and the outbox, on record without
\* envelope until the cutover, and for the legacy firings ever after.
Honoured ==
    /\ legacy.retained \in [Key -> EventType]
    /\ migration = "imported" => \A k \in Key : status[k] = ImportedStatus(k)
    /\ migration = "committed" =>
          \A k \in Key : legacy.retained[k] # "none" =>
              status[k] \in LegacyStatus(k) /\ target[k] = NoTarget

UpgradeInv == Ledger /\ Pristine /\ Honoured

-----------------------------------------------------------------------------
(* The ledger across restarts *)

\* An empty ledger is one the import found nothing to put in.
LEMMA EmptyIsInit ==
    ASSUME EmptyLedger
    PROVE  Ledger
<1>1. Init
  BY DEF EmptyLedger, Init, Gone
<1>2. LegacyNeverLeased
  BY DEF EmptyLedger, LegacyNeverLeased
<1> QED  BY <1>1, <1>2, InitInvariant DEF Ledger

\* The rows an import writes are of their types.
LEMMA ImportTypes ==
    ASSUME ImportRows
    PROVE  /\ status' \in [Key -> {"absent", "pending", "skipped", "needs_adoption"}]
           /\ status' \in [Key -> Status]
           /\ fence' \in [Key -> Nat] /\ target' \in [Key -> Target \cup {NoTarget}]
           /\ kind' \in [Key -> Kind] /\ jobRow' \in [Job -> Int]
<1>1. \A k \in Key : ImportedStatus(k) \in {"absent", "pending", "skipped", "needs_adoption"}
  BY DEF ImportedStatus
<1>2. status' \in [Key -> {"absent", "pending", "skipped", "needs_adoption"}]
  BY <1>1 DEF ImportRows
<1>3. /\ fence' \in [Key -> Nat] /\ target' \in [Key -> Target \cup {NoTarget}]
      /\ kind' \in [Key -> Kind] /\ jobRow' \in [Job -> Int]
  BY DEF ImportRows, Kind, Gone
<1> QED  BY <1>2, <1>3 DEF Status

\* An import finds a ledger without attempts and leaves one.
LEMMA ImportKeepsLedger ==
    ASSUME Ledger, attempts = <<>>, ImportRows, UNCHANGED <<attempts, results, held, clock>>
    PROVE  Ledger'
<1>1. TypeOK'
  BY ImportTypes DEF Ledger, IInv, TypeOK
<1>2. DOMAIN attempts' = {} /\ Len(attempts') = 0
  OBVIOUS
<1>3. DOMAIN results' = {}
  BY <1>2 DEF Ledger, IInv, ResultResolvesLease
<1>4. \A k \in Key : status'[k] # "claimed" /\ status'[k] # "completed"
  <2>1. status' \in [Key -> {"absent", "pending", "skipped", "needs_adoption"}]
    BY ImportTypes
  <2> QED  BY <2>1
<1>5. HoldersAreLeases' /\ HoldersAreDistinct'
  BY <1>2 DEF Ledger, IInv, HoldersAreLeases, HoldersAreDistinct
<1>6. LeasesNumbered' /\ ClaimedIffOpenLease' /\ OneResultPerLease' /\ ResultResolvesLease'
  BY <1>2, <1>3, <1>4 DEF LeasesNumbered, ClaimedIffOpenLease, OneResultPerLease,
                          ResultResolvesLease
<1>7. CompletedIffSuccess' /\ ExpiredIsSuperseded' /\ LegacyNeverLeased'
  BY <1>2, <1>3, <1>4 DEF CompletedIffSuccess, ExpiredIsSuperseded, LegacyNeverLeased
<1> QED  BY <1>1, <1>5, <1>6, <1>7 DEF Ledger, IInv

\* Every other step of the daemon is one of the ledger or none.
LEMMA StepOfLedger ==
    ASSUME [RestartNext]_allVars, ~(StartDaemon /\ NeedsImport)
    PROVE  [Next]_vars
<1>1. CASE StartDaemon
  BY <1>1 DEF StartDaemon
<1>2. CASE Cutover \/ DaemonCrash \/ (\E j \in Job : AddJob(j)) \/ (\E k \in Key : EvictRetained(k))
  BY <1>2 DEF Cutover, DaemonCrash, AddJob, EvictRetained
<1>3. CASE \E k \in Key, cause \in Cause, tgt \in Target : Fire(k, cause, tgt)
  BY <1>3 DEF Fire, Next
<1>4. CASE LedgerCommand
  BY <1>4 DEF LedgerCommand, Next
<1>5. CASE Outside
  BY <1>5 DEF Outside, Next
<1>6. CASE UNCHANGED allVars
  BY <1>6 DEF allVars
<1> QED  BY <1>1, <1>2, <1>3, <1>4, <1>5, <1>6 DEF RestartNext

\* Every step keeps the ledger in order.
LEMMA RestartKeepsLedger ==
    ASSUME Ledger, [RestartNext]_allVars
    PROVE  Ledger'
<1>1. CASE StartDaemon /\ NeedsImport
  <2>1. /\ attempts = <<>> /\ ImportRows
        /\ UNCHANGED <<attempts, results, held, clock>>
    BY <1>1 DEF StartDaemon
  <2> QED  BY <2>1, ImportKeepsLedger
<1>2. CASE ~(StartDaemon /\ NeedsImport)
  BY <1>2, StepOfLedger, StepInvariant, StepLeasesTargets DEF Ledger
<1> QED  BY <1>1, <1>2

\* The leases of the ledger add up, its results agree and no zombie passes its gate
\* whatever the daemon is started with and however often it dies: an import that would
\* delete an occurrence with an attempt is refused.
THEOREM LedgerSurvives ==
    FreshSpec \/ UpgradeSpec => [](LeasesAccountedFor /\ ResultsAgree /\ ZombiesAreFenced)
<1>1. FreshInit => Ledger
  BY EmptyIsInit DEF FreshInit
<1>2. UpgradeInit => Ledger
  BY EmptyIsInit DEF UpgradeInit
<1>3. Ledger /\ [RestartNext]_allVars => Ledger'
  BY RestartKeepsLedger
<1>4. Ledger => LeasesAccountedFor /\ ResultsAgree /\ ZombiesAreFenced
  BY GateIsFenced DEF Ledger, IInv, LeasesAccountedFor, ResultsAgree, ZombiesAreFenced
<1> QED  BY <1>1, <1>2, <1>3, <1>4, PTL DEF FreshSpec, UpgradeSpec

-----------------------------------------------------------------------------
(* The upgrade *)

\* A fire gives an envelope only to an occurrence that has none yet.
LEMMA StepKeepsEnvelopes ==
    ASSUME Ledger, Pristine, [Next]_vars
    PROVE  /\ \A k \in Key : target[k] # NoTarget => target'[k] = target[k]
           /\ \A k \in Key : ~Recorded(k)' => target'[k] = NoTarget
<1>1. TypeOK /\ IInv
  BY DEF Ledger, IInv
<1>2. CASE \E k \in Key, cause \in Cause, tgt \in Target :
              ~Recorded(k) /\ FireOccurrence(k, cause, tgt)
  <2>1. PICK k \in Key, cause \in Cause, tgt \in Target :
           ~Recorded(k) /\ FireOccurrence(k, cause, tgt)
    BY <1>2
  <2>2. /\ status' = [status EXCEPT ![k] = InitialStatus(KindOf(cause))]
        /\ target' = [target EXCEPT ![k] = tgt]
    BY <2>1 DEF FireOccurrence
  <2>3. InitialStatus(KindOf(cause)) # "absent"
    BY DEF InitialStatus
  <2>4. /\ \A o \in Key : o # k => target'[o] = target[o] /\ status'[o] = status[o]
        /\ status'[k] # "absent" /\ target[k] = NoTarget
    BY <1>1, <2>1, <2>2, <2>3 DEF TypeOK, Pristine
  <2> QED  BY <2>4 DEF Recorded, Pristine
<1>3. CASE ~\E k \in Key, cause \in Cause, tgt \in Target :
               ~Recorded(k) /\ FireOccurrence(k, cause, tgt)
  BY <1>1, <1>3, StepKeepsRecord DEF RecordKept, Pristine
<1> QED  BY <1>2, <1>3

\* A pending occurrence without envelope is nobody's work: it can only be cancelled.
LEMMA UnservedStays ==
    ASSUME TypeOK, [Next]_vars, NEW k \in Key, status[k] = "pending", target[k] = NoTarget
    PROVE  status'[k] \in {"pending", "skipped"}
<1>1. status \in [Key -> Status]
  BY DEF TypeOK
<1>2. CASE UNCHANGED status
  BY <1>2
<1>3. ASSUME NEW o \in Key, NEW cause \in Cause, NEW tgt \in Target,
             FireOccurrence(o, cause, tgt)
      PROVE  status'[k] = "pending"
  BY <1>1, <1>3 DEF FireOccurrence, Recorded, vars
<1>4. ASSUME NEW c \in Consumer, ClaimNextOccurrence(c)
      PROVE  status'[k] = "pending"
  <2>1. CASE \E o \in Key, rows \in {attempts, ExpireSupersededAttempts} :
                Claimable(o, Serves[c]) /\ GrantLease(c, o, rows)
    <3>1. PICK o \in Key : target[o] = Serves[c] /\ status' = [status EXCEPT ![o] = "claimed"]
      BY <2>1 DEF Claimable, GrantLease
    <3>2. o # k
      BY <3>1, LedgerConstants
    <3> QED  BY <1>1, <3>1, <3>2
  <2> QED  BY <1>4, <2>1 DEF ClaimNextOccurrence
<1>5. ASSUME NEW c \in Consumer, AcceptOccurrence(c) \/ ReportFailureOccurrence(c)
      PROVE  status'[k] = "pending"
  <2>1. CASE ~UNCHANGED status
    <3>1. PICK terminal \in {"completed", "failed"} :
            /\ WritebackGate(held[c])
            /\ status' = [status EXCEPT ![attempts[held[c]].key] = terminal]
      BY <1>5, <2>1 DEF AcceptOccurrence, ReportFailureOccurrence, WritebackTerminal
    <3>2. attempts[held[c]].key # k
      BY <3>1 DEF WritebackGate
    <3> QED  BY <1>1, <3>1, <3>2
  <2> QED  BY <2>1
<1>6. ASSUME NEW o \in Key, RetryOccurrence(o) \/ CancelOccurrence(o)
      PROVE  status'[k] \in {"pending", "skipped"}
  BY <1>1, <1>6 DEF RetryOccurrence, Retryable, CancelOccurrence
<1>7. ASSUME (\E c \in Consumer : ConsumerCrash(c)) \/ Tick \/ ClockSetBack \/ UNCHANGED vars
      PROVE  status'[k] = "pending"
  BY <1>7 DEF ConsumerCrash, Tick, ClockSetBack, vars
<1> QED  BY <1>3, <1>4, <1>5, <1>6, <1>7 DEF Next

\* A step of the ledger leaves a legacy firing as the import or a cancellation left it.
LEMMA LegacyStays ==
    ASSUME Ledger, Pristine, [Next]_vars, NEW k \in Key, legacy.retained[k] # "none",
           status[k] \in LegacyStatus(k), target[k] = NoTarget
    PROVE  status'[k] \in LegacyStatus(k) /\ target'[k] = NoTarget
<1>1. TypeOK /\ RowKept(k)
  BY StepKeepsRows DEF Ledger, IInv
<1>2. /\ status[k] \in {"pending", "skipped", "needs_adoption"}
      /\ status[k] = "pending" => "skipped" \in LegacyStatus(k)
  <2>1. LegacyStatus(k) \in {{"skipped"}, {"needs_adoption"}, {"pending", "skipped"}}
    BY DEF LegacyStatus
  <2> QED  BY <2>1
<1>3. target'[k] = NoTarget
  BY <1>1, <1>2 DEF RowKept, Recorded
<1>4. CASE status[k] = "pending"
  BY <1>1, <1>2, <1>3, <1>4, UnservedStays
<1>5. CASE status[k] \in {"skipped", "needs_adoption"}
  BY <1>1, <1>3, <1>5 DEF RowKept
<1> QED  BY <1>2, <1>4, <1>5

\* What the import writes for a firing is what may become of it.
LEMMA ImportHonours ==
    ASSUME legacy.retained \in [Key -> EventType], retained = legacy.retained,
           stored = legacy.stored, NEW k \in Key, legacy.retained[k] # "none"
    PROVE  ImportedStatus(k) \in LegacyStatus(k)
<1>1. retained[k] \in {"Fired", "Skipped"}
  BY DEF EventType
<1>2. CASE retained[k] = "Skipped"
  <2>1. ImportedStatus(k) = "skipped" /\ LegacyStatus(k) = {"skipped"}
    BY <1>2 DEF ImportedStatus, LegacyStatus
  <2> QED  BY <2>1
<1>3. CASE retained[k] = "Fired" /\ JobOf(k) \in stored \cap Continuation
  <2>1. ImportedStatus(k) = "needs_adoption" /\ LegacyStatus(k) = {"needs_adoption"}
    BY <1>3 DEF ImportedStatus, LegacyStatus
  <2> QED  BY <2>1
<1>4. CASE retained[k] = "Fired" /\ JobOf(k) \notin stored \cap Continuation
  <2>1. ImportedStatus(k) = "pending" /\ LegacyStatus(k) = {"pending", "skipped"}
    BY <1>4 DEF ImportedStatus, LegacyStatus
  <2> QED  BY <2>1
<1> QED  BY <1>1, <1>2, <1>3, <1>4

\* The steps of the upgrade path.
LEMMA UpgradeStep ==
    ASSUME UpgradeInv, [RestartNext]_allVars
    PROVE  /\ UpgradeInv'
           /\ \A k \in Key : target[k] # NoTarget => target'[k] = target[k]
<1>0. Ledger /\ Pristine /\ Honoured /\ Ledger'
  BY RestartKeepsLedger DEF UpgradeInv
<1> SUFFICES /\ Pristine' /\ Honoured'
             /\ \A k \in Key : target[k] # NoTarget => target'[k] = target[k]
  BY <1>0 DEF UpgradeInv
<1>a. legacy' = legacy
  BY DEF RestartNext, StartDaemon, Cutover, DaemonCrash, AddJob, Fire, EvictRetained,
         LedgerCommand, Outside, restart, allVars
<1>b. /\ \A k \in Key : LegacyStatus(k)' = LegacyStatus(k)
      /\ UNCHANGED <<retained, stored>> => \A k \in Key : ImportedStatus(k)' = ImportedStatus(k)
  BY <1>a DEF ImportedStatus, LegacyStatus
<1>1. CASE StartDaemon /\ NeedsImport
  <2>1. /\ attempts = <<>> /\ ImportRows /\ migration' = "imported" /\ daemon' = "importing"
        /\ UNCHANGED <<attempts, held, source, stored, retained>> /\ migration # "committed"
    BY <1>1 DEF StartDaemon, NeedsImport
  <2>2. \A k \in Key : target'[k] = NoTarget /\ target[k] = NoTarget
    BY <1>0, <2>1 DEF ImportRows, Pristine
  <2>3. Pristine'
    BY <1>0, <1>a, <2>1, <2>2 DEF Pristine
  <2>4. \A k \in Key : status'[k] = ImportedStatus(k)'
    BY <1>b, <2>1 DEF ImportRows
  <2>5. Honoured'
    BY <1>0, <1>a, <2>1, <2>4 DEF Honoured
  <2> QED  BY <2>2, <2>3, <2>5
<1>2. CASE ~(StartDaemon /\ NeedsImport)
  <2>1. [Next]_vars
    BY <1>2, StepOfLedger
  <2>2. /\ \A k \in Key : target[k] # NoTarget => target'[k] = target[k]
        /\ \A k \in Key : ~Recorded(k)' => target'[k] = NoTarget
    BY <1>0, <2>1, StepKeepsEnvelopes
  <2>3. CASE migration' = "committed"
    <3>1. source' /\ daemon' \in {"down", "up"}
      BY <1>0, <1>2, <2>3 DEF Pristine, RestartNext, StartDaemon, Cutover, DaemonCrash, AddJob, Fire,
         EvictRetained, LedgerCommand, Outside, restart, allVars
    <3>2. Pristine'
      BY <2>2, <2>3, <3>1 DEF Pristine
    <3>3. \A k \in Key : legacy.retained[k] # "none" =>
              status'[k] \in LegacyStatus(k) /\ target'[k] = NoTarget
      <4>1. CASE migration = "committed"
        BY <1>0, <2>1, <4>1, LegacyStays DEF Honoured
      <4>2. CASE migration # "committed"
        <5>1. Cutover
          BY <1>0, <1>2, <2>3, <4>2 DEF Pristine, RestartNext, StartDaemon, Cutover, DaemonCrash,
             AddJob, Fire, EvictRetained, LedgerCommand, Outside, restart, allVars
        <5>2. migration = "imported" /\ UNCHANGED <<status, target>>
          BY <1>0, <5>1 DEF Cutover, Pristine, vars
        <5> QED  BY <1>0, <4>2, <5>2, ImportHonours DEF Honoured, Pristine
      <4> QED  BY <4>1, <4>2
    <3>4. Honoured'
      BY <1>0, <1>a, <1>b, <2>3, <3>3 DEF Honoured
    <3> QED  BY <2>2, <3>2, <3>4
  <2>4. CASE migration' # "committed"
    <3>1. migration # "committed" /\ daemon # "up" /\ attempts = <<>>
          /\ \A c \in Consumer : held[c] = 0
      BY <1>0, <1>2, <2>4 DEF Pristine, RestartNext, StartDaemon, Cutover, DaemonCrash, AddJob,
         Fire, EvictRetained, LedgerCommand, Outside, restart, allVars
    <3>2. /\ UNCHANGED <<vars, source, stored, retained, migration>>
          /\ daemon' \in {"down", daemon}
      <4>1. ~StartDaemon
        BY <1>0, <1>2, <3>1 DEF StartDaemon, NeedsImport, Pristine
      <4>2. ~Cutover
        BY <2>4 DEF Cutover
      <4>3. CASE DaemonCrash
        BY <4>3 DEF DaemonCrash
      <4>4. ~(\E j \in Job : AddJob(j)) /\ ~(\E k \in Key : EvictRetained(k)) /\ ~LedgerCommand
        BY <3>1 DEF AddJob, EvictRetained, LedgerCommand
      <4>5. ~\E k \in Key, cause \in Cause, tgt \in Target : Fire(k, cause, tgt)
        BY <3>1 DEF Fire
      <4>6. ~Outside
        BY <3>1 DEF Outside, Tick, ConsumerCrash
      <4>7. CASE UNCHANGED allVars
        BY <1>0, <3>1, <4>7 DEF allVars, restart, Pristine
      <4> QED  BY <4>1, <4>2, <4>3, <4>4, <4>5, <4>6, <4>7 DEF RestartNext
    <3>3. Pristine'
      BY <1>0, <1>a, <3>1, <3>2 DEF Pristine, Recorded, vars
    <3>4. Honoured'
      BY <1>0, <1>a, <1>b, <2>4, <3>2 DEF Honoured, vars
    <3> QED  BY <2>2, <3>3, <3>4
  <2> QED  BY <2>3, <2>4
<1> QED  BY <1>1, <1>2

\* The invariant of the upgrade path.
THEOREM UpgradeInvariance == UpgradeSpec => []UpgradeInv
<1>1. UpgradeInit => UpgradeInv
  <2> SUFFICES ASSUME UpgradeInit PROVE UpgradeInv
    OBVIOUS
  <2>1. Ledger
    BY EmptyIsInit DEF UpgradeInit
  <2>2. legacy.retained = retained /\ legacy.stored = stored
    BY DEF UpgradeInit
  <2>3. Pristine /\ Honoured
    BY <2>2 DEF UpgradeInit, EmptyLedger, Pristine, Honoured
  <2> QED  BY <2>1, <2>3 DEF UpgradeInv
<1>2. UpgradeInv /\ [RestartNext]_allVars => UpgradeInv'
  BY UpgradeStep
<1> QED  BY <1>1, <1>2, PTL DEF UpgradeSpec

\* What the JSON daemon fired or skipped is on record from the cutover on, and no
\* consumer is handed it a second time: its row has no envelope and never gets one.
THEOREM LegacyHonoured == UpgradeSpec => []LegacyIsHonoured
<1>1. UpgradeInv => LegacyIsHonoured
  <2> SUFFICES ASSUME UpgradeInv, migration = "committed", NEW k \in Key,
                      legacy.retained[k] # "none"
               PROVE  /\ status[k] \in LegacyStatus(k)
                      /\ \A a \in DOMAIN attempts : attempts[a].key # k
    BY DEF LegacyIsHonoured
  <2>1. status[k] \in LegacyStatus(k) /\ target[k] = NoTarget
    BY DEF UpgradeInv, Honoured
  <2>2. \A a \in DOMAIN attempts : target[attempts[a].key] \in Target
    BY DEF UpgradeInv, Ledger, LegacyNeverLeased
  <2> QED  BY <2>1, <2>2, LedgerConstants
<1> QED  BY <1>1, UpgradeInvariance, PTL

\* On the upgrade path no import and no second fire takes the envelope of an occurrence.
THEOREM EnvelopesStay == UpgradeSpec => EnvelopeIsImmutable
<1>1. UpgradeInv /\ [RestartNext]_allVars =>
        [\A k \in Key : target[k] # NoTarget => target'[k] = target[k]]_allVars
  BY UpgradeStep
<1> QED  BY <1>1, UpgradeInvariance, PTL DEF UpgradeSpec, EnvelopeIsImmutable
=============================================================================

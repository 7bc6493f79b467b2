------------------------ MODULE OccurrenceLifecycle ------------------------
(***************************************************************************)
(* What the cron occurrence ledger promises, without tables, leases or     *)
(* late writers: every firing of a job has one lifecycle, work on it is    *)
(* granted epoch by epoch, and only the newest grant can close it.         *)
(***************************************************************************)
EXTENDS Naturals

CONSTANT Key        \* the firings: one per (job_id, scheduled_at_ms)

VARIABLES phase,    \* where each firing is in its life
          epoch,    \* how often the right to close it has changed hands
          verdicts  \* the closing verdicts on record

lifecycle == <<phase, epoch, verdicts>>

Phase == {"absent", "pending", "claimed", "completed", "failed", "skipped",
          "needs_adoption"}

Init ==
    /\ phase \in [Key -> {"absent", "pending", "skipped", "needs_adoption"}]
    /\ epoch = [k \in Key |-> 0]
    /\ verdicts = {}

\* A firing is put on record once; a missed one may be born skipped.
Record(k) ==
    /\ phase[k] = "absent"
    /\ \E p \in {"pending", "skipped"} : phase' = [phase EXCEPT ![k] = p]
    /\ UNCHANGED <<epoch, verdicts>>

\* The right to close k is granted anew; the previous grant is void.
Grant(k) ==
    /\ phase[k] \in {"pending", "claimed"}
    /\ phase' = [phase EXCEPT ![k] = "claimed"]
    /\ epoch' = [epoch EXCEPT ![k] = @ + 1]
    /\ UNCHANGED verdicts

\* The newest grant closes k, and its verdict is the only one of its epoch.
Close(k) ==
    /\ phase[k] = "claimed"
    /\ \/ /\ phase' = [phase EXCEPT ![k] = "completed"]
          /\ verdicts' = verdicts \cup {<<k, epoch[k], "success">>}
       \/ /\ phase' = [phase EXCEPT ![k] = "failed"]
          /\ verdicts' = verdicts \cup {<<k, epoch[k], "failure">>}
    /\ UNCHANGED epoch

Reopen(k) ==
    /\ phase[k] = "failed"
    /\ phase' = [phase EXCEPT ![k] = "pending"]
    /\ epoch' = [epoch EXCEPT ![k] = @ + 1]
    /\ UNCHANGED verdicts

Withdraw(k) ==
    /\ phase[k] \in {"pending", "claimed"}
    /\ phase' = [phase EXCEPT ![k] = "skipped"]
    /\ epoch' = [epoch EXCEPT ![k] = @ + 1]
    /\ UNCHANGED verdicts

Next == \E k \in Key : Record(k) \/ Grant(k) \/ Close(k) \/ Reopen(k) \/ Withdraw(k)

Spec == Init /\ [][Next]_lifecycle

=============================================================================

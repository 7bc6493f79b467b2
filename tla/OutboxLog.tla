----------------------------- MODULE OutboxLog ------------------------------
(***************************************************************************)
(* What the cron outbox promises its readers, without files: a log that    *)
(* grows at its newest end and forgets only at its oldest, never more than *)
(* a file's worth of events at a time nor so that less than that stays.    *)
(***************************************************************************)
EXTENDS Naturals, FiniteSets

CONSTANT File   \* the events of a file

VARIABLES log,      \* the events a reader can still read
          epoch,    \* the namespace of their ids
          serving

outboxLog == <<log, epoch, serving>>

Init ==
    /\ log = {}
    /\ epoch = 0
    /\ serving = FALSE

Older(S, T) == \A d \in S, e \in T : d.id < e.id

\* One firing: at most one event comes in, some of the oldest may go.
Turn ==
    /\ serving
    /\ Cardinality(log' \ log) <= 1
    /\ Older(log, log' \ log)
    /\ Older(log \ log', log \cap log')
    /\ Cardinality(log \ log') <= File
    /\ log \subseteq log' \/ Cardinality(log \cap log') >= File
    /\ UNCHANGED <<epoch, serving>>

\* Out of service the log may be deleted as a whole, and a log that is empty
\* may start over in an epoch of its own.
Suspend == serving /\ serving' = FALSE /\ UNCHANGED <<log, epoch>>
Wipe == ~serving /\ log' = {} /\ UNCHANGED <<epoch, serving>>
Renew == ~serving /\ log = {} /\ epoch' = epoch + 1 /\ serving' \in BOOLEAN /\ UNCHANGED log
Resume == ~serving /\ epoch # 0 /\ serving' = TRUE /\ UNCHANGED <<log, epoch>>

Next == Turn \/ Suspend \/ Wipe \/ Renew \/ Resume

Spec == Init /\ [][Next]_outboxLog

=============================================================================

------------------------- MODULE MCCronLedgerImport -------------------------
(* Finite instances of CronLedgerImport. *)
EXTENDS CronLedgerImport

CONSTANTS j1, main, c1

OnlyMain == [c \in {c1} |-> main]
=============================================================================

---------------------------- MODULE MCCronLedger ----------------------------
(* Finite instances of CronLedger. *)
EXTENDS CronLedger, TLC

CONSTANTS j1, main, isolated, c1, c2

OneTarget == {main}
BothServeMain == [c \in {c1, c2} |-> main]
FirstIsLegacy == {<<j1, 1>>}
ConsumerSymmetry == Permutations({c1, c2})
=============================================================================

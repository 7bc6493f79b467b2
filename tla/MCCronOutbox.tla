---------------------------- MODULE MCCronOutbox ----------------------------
(* The constants of CronOutbox for TLC are all in the configurations.       *)
EXTENDS CronOutbox
=============================================================================

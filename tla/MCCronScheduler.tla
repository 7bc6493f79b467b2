--------------------------- MODULE MCCronScheduler ---------------------------
(* Model values and bounds for CronScheduler.                               *)
EXTENDS CronScheduler
=============================================================================

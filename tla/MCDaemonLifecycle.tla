-------------------------- MODULE MCDaemonLifecycle --------------------------
(* Model values and bounds for DaemonLifecycle.                             *)
EXTENDS DaemonLifecycle
=============================================================================

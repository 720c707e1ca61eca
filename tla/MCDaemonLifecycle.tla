-------------------------- MODULE MCDaemonLifecycle --------------------------
(* Starts, updates and a quit over one data directory's daemon.            *)
EXTENDS DaemonLifecycle
=============================================================================

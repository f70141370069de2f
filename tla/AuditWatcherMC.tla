--------------------------- MODULE AuditWatcherMC ---------------------------
(* Instances of AuditWatcher for TLC: the constants are numbers, given in   *)
(* the configurations.                                                       *)
EXTENDS AuditWatcher
=============================================================================

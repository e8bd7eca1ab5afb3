---------------------------- MODULE MCLogMonitor ----------------------------
(* Small instances of LogMonitor. *)
EXTENDS LogMonitor

MCText == {"a", "b"}
=============================================================================

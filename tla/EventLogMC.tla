------------------------------ MODULE EventLogMC ------------------------------
(* EventLog on small instances; the events are interchangeable.             *)
EXTENDS EventLog, TLC

Symmetry == Permutations(Event)
=============================================================================

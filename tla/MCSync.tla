------------------------------- MODULE MCSync -------------------------------
(* Small instances of Sync: threads a, b, c and a process p. *)
EXTENDS Sync, TLC

CONSTANTS a, b, c, p

MCThreads == {a, b, c}
MCTasks == {a, b, c, p}
MCInitValue == [s \in Semaphores |-> 1]
MCParties == [x \in Barriers |-> {a, b, c}]
=============================================================================

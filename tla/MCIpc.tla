-------------------------------- MODULE MCIpc --------------------------------
(* Small instances of Ipc: init, a producer P and consumers C and D. *)
EXTENDS Ipc, TLC

CONSTANTS P, C, D, nm

MCQueues == {Waiting(t) : t \in Tasks} \cup {Senders(b) : b \in Boxes} \cup {Receivers(b) : b \in Boxes}
MCSends == [p \in Programs |-> IF p = P THEN {nm} ELSE {}]
MCRecvs == [p \in Programs |-> IF p \in {C, D} THEN {nm} ELSE {}]
MCMay == [p \in Programs |->
  CASE p = init -> {"spawn", "wait", "exit"}
    [] p = P    -> {"spawn", "kill", "sleep"}
    [] OTHER    -> {"kill", "wait"}]
=============================================================================

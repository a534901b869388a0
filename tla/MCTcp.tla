------------------------------- MODULE MCTcp -------------------------------
(* Small instances of Tcp. *)
EXTENDS Tcp, TLC

MCISS == [e \in End |-> IF e = Client THEN 1 ELSE 2]
=============================================================================

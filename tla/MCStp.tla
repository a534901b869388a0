------------------------------- MODULE MCStp -------------------------------
(* The ring of four bridges of four_node_ring.py. *)
EXTENDS Stp, TLC

MCPeer ==
  <<1, 1>> :> <<2, 1>> @@ <<2, 1>> :> <<1, 1>> @@
  <<1, 2>> :> <<3, 1>> @@ <<3, 1>> :> <<1, 2>> @@
  <<2, 2>> :> <<4, 1>> @@ <<4, 1>> :> <<2, 2>> @@
  <<3, 2>> :> <<4, 2>> @@ <<4, 2>> :> <<3, 2>>
MCPorts == DOMAIN MCPeer
=============================================================================

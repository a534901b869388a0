------------------------------- MODULE Channel -------------------------------
(***************************************************************************)
(* What a message box promises: a bounded buffer that delivers every message *)
(* once, in the order of the sends (mbox.h:16-20, 44-48, 58-61).             *)
(***************************************************************************)
EXTENDS Naturals, Sequences

CONSTANTS Boxes, Messages, Capacity, None

VARIABLES
  channel,   \* the messages of each box, oldest first
  last       \* the message delivered last from each box

Init ==
  /\ channel = [b \in Boxes |-> <<>>]
  /\ last = [b \in Boxes |-> None]

Send(b, msg) ==
  /\ Len(channel[b]) < Capacity
  /\ channel' = [channel EXCEPT ![b] = Append(@, msg)]
  /\ UNCHANGED last

Receive(b) ==
  /\ channel[b] # <<>>
  /\ last' = [last EXCEPT ![b] = Head(channel[b])]
  /\ channel' = [channel EXCEPT ![b] = Tail(@)]

Next == \E b \in Boxes : Receive(b) \/ \E msg \in Messages : Send(b, msg)

Spec == Init /\ [][Next]_<<channel, last>>
=============================================================================

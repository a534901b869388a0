-------------------------------- MODULE Mbox --------------------------------
(***************************************************************************)
(* The message boxes of the kernel (p4-Synchronization-Primitives-IPC/      *)
(* mbox.c): named bounded buffers on top of the scheduler.                   *)
(*                                                                         *)
(* A call that blocks does so once, before it touches the buffer, and does   *)
(* not look at the buffer again when it resumes: send and recv are split     *)
(* there.  The lock of a box is taken and released within one handler, so    *)
(* it is free whenever a handler starts and is left out.                     *)
(***************************************************************************)
EXTENDS Processes

CONSTANTS
  Names,            \* of boxes
  Messages,
  MAX_MBOX_LENGTH,
  EMPTY             \* the empty name, and what a buffer entry holds at boot

Senders(b) == <<"send", b>>
Receivers(b) == <<"recv", b>>

ASSUME MboxAssumption ==
  /\ MAX_MBOX_LENGTH \in Nat \ {0}
  /\ EMPTY \notin Names \cup Messages \cup Boxes
  /\ WaitQueues = {Waiting(t) : t \in Tasks}
                  \cup {Senders(b) : b \in Boxes} \cup {Receivers(b) : b \in Boxes}

VARIABLES
  name, user_num, msg_queue, msg_num, send_pos, recv_pos    \* MessageBoxen[b]

bufferVars == <<msg_queue, msg_num, send_pos, recv_pos>>
boxVars == <<name, user_num, bufferVars>>

Positions == 0 .. MAX_MBOX_LENGTH - 1

MboxTypeOK ==
  /\ ProcessesTypeOK
  /\ name \in [Boxes -> Names \cup {EMPTY}]
  /\ user_num \in [Boxes -> Int]
  /\ msg_queue \in [Boxes -> [Positions -> Messages \cup {EMPTY}]]
  /\ msg_num \in [Boxes -> Int]
  /\ send_pos \in [Boxes -> Positions]
  /\ recv_pos \in [Boxes -> Positions]

init_mbox ==
  /\ name = [b \in Boxes |-> EMPTY]
  /\ user_num = [b \in Boxes |-> 0]
  /\ msg_queue = [b \in Boxes |-> [i \in Positions |-> EMPTY]]
  /\ msg_num = [b \in Boxes |-> 0]
  /\ send_pos = [b \in Boxes |-> 0]
  /\ recv_pos = [b \in Boxes |-> 0]

-----------------------------------------------------------------------------
Named(nm) == {b \in Boxes : name[b] = nm}

First(bs) == CHOOSE b \in bs : \A c \in bs : b <= c

\* Mutant of Found: a new box is made although one has the name.
FoundFree(nm) == First(IF Named(EMPTY) # {} THEN Named(EMPTY) ELSE Named(nm))

\* The box called nm, or else the first one without a name.
Found(nm) == First(IF Named(nm) # {} THEN Named(nm) ELSE Named(EMPTY))

\* user_num stays: "if (mbox_use[i] = 0)" assigns and is never true.  With
\* neither kind of box the code returns an arbitrary value; no caller risks it.
do_mbox_open(nm) ==
  /\ Named(nm) \cup Named(EMPTY) # {}
  /\ name' = [name EXCEPT ![Found(nm)] = nm]
  /\ mbox_use' = [mbox_use EXCEPT ![current_running][Found(nm)] = 1]
  /\ UNCHANGED <<schedulerVars, pid, program, spawn_times, user_num, bufferVars>>

\* The box is wiped, with the queues of its users, when user_num drops to 0.
Wipe(b) ==
  /\ name' = [name EXCEPT ![b] = EMPTY]
  /\ msg_num' = [msg_num EXCEPT ![b] = 0]
  /\ send_pos' = [send_pos EXCEPT ![b] = 0]
  /\ recv_pos' = [recv_pos EXCEPT ![b] = 0]
  /\ wait_queue' = [wait_queue EXCEPT ![Senders(b)] = <<>>, ![Receivers(b)] = <<>>]
  /\ UNCHANGED <<current_running, idle, ready_queue, sleep_wait_queue, status, deadline, msg_queue>>

do_mbox_close(b) ==
  /\ user_num' = [user_num EXCEPT ![b] = @ - 1]
  /\ mbox_use' = [mbox_use EXCEPT ![current_running][b] = 0]
  /\ IF user_num[b] - 1 = 0 THEN Wipe(b) ELSE UNCHANGED <<schedulerVars, name, bufferVars>>
  /\ UNCHANGED <<pid, program, spawn_times>>

-----------------------------------------------------------------------------
\* Mutant of do_mbox_is_full: off by one.
do_mbox_is_full_late(b) == msg_num[b] > MAX_MBOX_LENGTH

do_mbox_is_full(b) == msg_num[b] = MAX_MBOX_LENGTH
do_mbox_is_empty(b) == msg_num[b] = 0

\* Mutant of following: the position does not wrap in time.
followingLate(i) == IF i = MAX_MBOX_LENGTH THEN 0 ELSE i + 1

following(i) == IF i = MAX_MBOX_LENGTH - 1 THEN 0 ELSE i + 1

\* Mutant of Deposit: no receiver is unblocked.
DepositSilent(b, msg) ==
  /\ msg_queue' = [msg_queue EXCEPT ![b][send_pos[b]] = msg]
  /\ send_pos' = [send_pos EXCEPT ![b] = following(@)]
  /\ msg_num' = [msg_num EXCEPT ![b] = @ + 1]
  /\ UNCHANGED <<schedulerVars, processVars, name, user_num, recv_pos>>

\* The part of do_mbox_send after the test of do_mbox_is_full.
Deposit(b, msg) ==
  /\ msg_queue' = [msg_queue EXCEPT ![b][send_pos[b]] = msg]
  /\ send_pos' = [send_pos EXCEPT ![b] = following(@)]
  /\ msg_num' = [msg_num EXCEPT ![b] = @ + 1]
  /\ Continue(unblock_one(Queues, Receivers(b)))
  /\ UNCHANGED <<processVars, name, user_num, recv_pos>>

\* Mutant of Delivered: the newest message comes first.
DeliveredLast(b) ==
  msg_queue[b][IF send_pos[b] = 0 THEN MAX_MBOX_LENGTH - 1 ELSE send_pos[b] - 1]

\* The message that do_mbox_recv copies out.
Delivered(b) == msg_queue[b][recv_pos[b]]

\* The part of do_mbox_recv after the test of do_mbox_is_empty.
Remove(b) ==
  /\ recv_pos' = [recv_pos EXCEPT ![b] = following(@)]
  /\ msg_num' = [msg_num EXCEPT ![b] = @ - 1]
  /\ Continue(unblock_one(Queues, Senders(b)))
  /\ UNCHANGED <<processVars, name, user_num, msg_queue, send_pos>>

\* A call that finds the box full, or empty, gives up the CPU at once.
BlockOn(q) == block(Queues, q) /\ UNCHANGED <<processVars, boxVars>>
=============================================================================

--------------------------------- MODULE Ipc ---------------------------------
(***************************************************************************)
(* Processes that spawn, kill and wait for each other and exchange messages, *)
(* in any order: every system call of kernel.c and mbox.c under a client     *)
(* that keeps to the following rules, which the programs of the repository   *)
(* follow but for the races that Sanguo shows.                              *)
(*   - kill and wait name a live process, and spawn finds a free slot;       *)
(*   - a process does not exit while another one waits for it;              *)
(*   - a program is not spawned while a process runs it;                    *)
(*   - a box is opened before it is used and there are boxes enough.         *)
(* May says which of the calls of kernel.c and scheduler.c a program makes.  *)
(*                                                                         *)
(* call, id and last record the client: the system call that a process is    *)
(* blocked in, the ids it has from mbox_open, and the last message received  *)
(* from each box.                                                           *)
(***************************************************************************)
EXTENDS Mbox

CONSTANTS
  May,              \* the calls "spawn", "kill", "wait", "exit", "sleep" of a program
  Sends, Recvs,     \* the names of the boxes a program sends to, receives from
  MaxSpawn,         \* bound on spawn_times
  MaxClose          \* bound on the calls of mbox_close per box

ASSUME IpcAssumption ==
  /\ May \in [Programs -> SUBSET {"spawn", "kill", "wait", "exit", "sleep"}]
  /\ Sends \in [Programs -> SUBSET Names] /\ Recvs \in [Programs -> SUBSET Names]
  /\ MaxSpawn \in Nat /\ MaxClose \in Nat
  /\ Threads = {}

VARIABLES call, id, last

clientVars == <<call, id, last>>
vars == <<schedulerVars, processVars, boxVars, clientVars>>

UserCode == <<"user">>
Calls == {UserCode} \cup ({"wait"} \X (0 .. MaxSpawn)) \cup ({"recv"} \X Boxes)
         \cup ({"send"} \X Boxes \X Messages)

IpcTypeOK ==
  /\ MboxTypeOK
  /\ call \in [Tasks -> Calls]
  /\ id \in [Tasks -> [Names -> Boxes \cup {EMPTY}]]
  /\ last \in [Boxes -> Messages \cup {EMPTY}]

Init ==
  /\ ProcessesInit
  /\ init_mbox
  /\ call = [t \in Tasks |-> UserCode]
  /\ id = [t \in Tasks |-> [nm \in Names |-> EMPTY]]
  /\ last = [b \in Boxes |-> EMPTY]

InUserCode(t) == Running(t) /\ call[t] = UserCode
Makes(t, c) == InUserCode(t) /\ c \in May[program[t]]

Enter(t, c) == call' = [call EXCEPT ![t] = c]
Return(t) == Enter(t, UserCode)

-----------------------------------------------------------------------------
spawn(t, p) ==
  /\ Makes(t, "spawn")
  /\ spawn_times < MaxSpawn
  /\ Live # Tasks
  /\ \A u \in Live : program[u] # p
  /\ do_spawn(p)
  /\ call' = [call EXCEPT ![FreeSlot] = UserCode]
  /\ id' = [id EXCEPT ![FreeSlot] = [nm \in Names |-> EMPTY]]
  /\ UNCHANGED <<boxVars, last>>

kill(t, u) ==
  /\ Makes(t, "kill")
  /\ u \in Live
  /\ do_kill(u)
  /\ UNCHANGED <<processVars, boxVars, clientVars>>

wait(t, u) ==
  /\ Makes(t, "wait")
  /\ u \in Live \ {t}
  /\ do_wait(u)
  /\ Enter(t, <<"wait", pid[u]>>)
  /\ UNCHANGED <<processVars, boxVars, id, last>>

exit(t) ==
  /\ Makes(t, "exit")
  /\ wait_queue[Waiting(t)] = <<>>
  /\ do_exit
  /\ UNCHANGED <<processVars, boxVars, clientVars>>

yield(t) == InUserCode(t) /\ do_yield /\ UNCHANGED <<processVars, boxVars, clientVars>>

sleep(t) ==
  /\ Makes(t, "sleep")
  /\ \E ticks \in 1 .. MaxSleep : do_sleep(ticks)
  /\ UNCHANGED <<processVars, boxVars, clientVars>>

-----------------------------------------------------------------------------
mbox_open(t, nm) ==
  /\ InUserCode(t)
  /\ id[t][nm] = EMPTY
  /\ nm \in Sends[program[t]] \cup Recvs[program[t]]
  /\ do_mbox_open(nm)
  /\ id' = [id EXCEPT ![t][nm] = Found(nm)]
  /\ UNCHANGED <<call, last>>

mbox_close(t, nm) ==
  /\ InUserCode(t)
  /\ id[t][nm] # EMPTY
  /\ user_num[id[t][nm]] > -MaxClose
  /\ do_mbox_close(id[t][nm])
  /\ id' = [id EXCEPT ![t][nm] = EMPTY]
  /\ UNCHANGED <<call, last>>

Uses(t, nm, b) == InUserCode(t) /\ id[t][nm] = b

mbox_send(t, nm, b, msg) ==
  /\ nm \in Sends[program[t]] /\ Uses(t, nm, b)
  /\ \/ do_mbox_is_full(b) /\ BlockOn(Senders(b)) /\ Enter(t, <<"send", b, msg>>)
     \/ ~do_mbox_is_full(b) /\ Deposit(b, msg) /\ UNCHANGED call
  /\ UNCHANGED <<id, last>>

mbox_recv(t, nm, b) ==
  /\ nm \in Recvs[program[t]] /\ Uses(t, nm, b)
  /\ \/ do_mbox_is_empty(b) /\ BlockOn(Receivers(b)) /\ Enter(t, <<"recv", b>>) /\ UNCHANGED last
     \/ /\ ~do_mbox_is_empty(b)
        /\ Remove(b)
        /\ last' = [last EXCEPT ![b] = Delivered(b)]
        /\ UNCHANGED call
  /\ UNCHANGED id

-----------------------------------------------------------------------------
(***************************************************************************)
(* The rest of a blocked call, once its process has been unblocked and runs. *)
(***************************************************************************)
resume_wait(t) ==
  /\ Running(t)
  /\ call[t][1] = "wait"
  /\ Return(t)
  /\ UNCHANGED <<schedulerVars, processVars, boxVars, id, last>>

resume_mbox_send(t, b, msg) ==
  /\ Running(t)
  /\ call[t] = <<"send", b, msg>>
  /\ Deposit(b, msg)
  /\ Return(t)
  /\ UNCHANGED <<id, last>>

resume_mbox_recv(t, b) ==
  /\ Running(t)
  /\ call[t] = <<"recv", b>>
  /\ Remove(b)
  /\ last' = [last EXCEPT ![b] = Delivered(b)]
  /\ Return(t)
  /\ UNCHANGED id

-----------------------------------------------------------------------------
\* A process is preempted in user mode only.  With no kernel thread the idle
\* loop is a dead end: it sees no interrupt, so no sleeper ever expires.
Kernel ==
  /\ InUserCode(current_running)
  /\ timer_preempt
  /\ UNCHANGED <<processVars, boxVars, clientVars>>

ProcessCall(t) ==
  \/ \E p \in Programs : spawn(t, p)
  \/ \E u \in Tasks : kill(t, u) \/ wait(t, u)
  \/ exit(t) \/ yield(t) \/ sleep(t)
  \/ resume_wait(t)

MboxCall(t) ==
  \/ \E nm \in Names : mbox_open(t, nm) \/ mbox_close(t, nm)
  \/ \E b \in Boxes :
       \/ \E nm \in Names : mbox_recv(t, nm, b) \/ \E msg \in Messages : mbox_send(t, nm, b, msg)
       \/ resume_mbox_recv(t, b)
       \/ \E msg \in Messages : resume_mbox_send(t, b, msg)

Next ==
  \/ Kernel
  \/ \E t \in Tasks : ProcessCall(t) \/ MboxCall(t)

Spec == Init /\ [][Next]_vars

-----------------------------------------------------------------------------
(***************************************************************************)
(* A process that is blocked in wait(q) is on the queue of the live process  *)
(* with pid q, and one that wait(q) has let go finds no process with that    *)
(* pid: slots are reused, pids are not (kernel.c:239-326).                   *)
(***************************************************************************)
WaitSound ==
  \A t \in Live : \A q \in 0 .. MaxSpawn :
    call[t] = <<"wait", q>> =>
      IF status[t] = "BLOCKED"
      THEN \E u \in Live : pid[u] = q /\ t \in Range(wait_queue[Waiting(u)])
      ELSE \A u \in Live : pid[u] # q

(***************************************************************************)
(* The ids a process holds name the boxes it has opened, which are the ones  *)
(* its pcb records, and no two boxes have one name: a restart of a user      *)
(* in another slot, or a close by another user, takes no box away.           *)
(***************************************************************************)
HandlesValid ==
  /\ \A b, c \in Boxes : name[b] = name[c] /\ name[b] # EMPTY => b = c
  /\ \A t \in Live : \A b \in Boxes :
       (mbox_use[t][b] = 1) <=> (\E nm \in Names : id[t][nm] = b /\ name[b] = nm)

\* One program sends to a box and one receives from it.
OneToOne ==
  \A p, q \in Programs : p # q => Sends[p] \cap Sends[q] = {} /\ Recvs[p] \cap Recvs[q] = {}

(***************************************************************************)
(* Nobody sleeps on a box that has become usable: with one sender and one    *)
(* receiver, a blocked sender means a full box and a blocked receiver an     *)
(* empty one, kills included (mbox.c:154-205).                               *)
(***************************************************************************)
NoLostWakeup ==
  \A b \in Boxes :
    /\ wait_queue[Senders(b)] # <<>> => do_mbox_is_full(b)
    /\ wait_queue[Receivers(b)] # <<>> => do_mbox_is_empty(b)

(***************************************************************************)
(* "A message box is a bounded buffer which holds up to MAX_MBOX_LENGTH      *)
(* items" (mbox.c:65-66): as long as that holds, msg_num counts between 0    *)
(* and MAX_MBOX_LENGTH and is the distance from recv_pos to send_pos.         *)
(***************************************************************************)
BoxBounded ==
  \A b \in Boxes :
    /\ msg_num[b] \in 0 .. MAX_MBOX_LENGTH
    /\ (recv_pos[b] + msg_num[b]) % MAX_MBOX_LENGTH = send_pos[b]

(***************************************************************************)
(* Every message is delivered once and in order: the boxes implement the     *)
(* bounded channel, with its contents read from the ring.                    *)
(***************************************************************************)
Contents(b) ==
  [i \in 1 .. msg_num[b] |-> msg_queue[b][(recv_pos[b] + i - 1) % MAX_MBOX_LENGTH]]

Abstract ==
  INSTANCE Channel WITH Capacity <- MAX_MBOX_LENGTH, None <- EMPTY,
                        channel <- [b \in Boxes |-> Contents(b)]

DeliversInOrder == Abstract!Spec
=============================================================================

------------------------------ MODULE Processes ------------------------------
(***************************************************************************)
(* The process table of the kernel: spawn, kill and wait                    *)
(* (p4-Synchronization-Primitives-IPC/kernel.c).                            *)
(*                                                                         *)
(* Tasks are the slots of pcb[], and a slot whose status is EXITED is free.  *)
(* The interrupts of a process stay off while it is in the kernel, so a     *)
(* system call is atomic up to its calls of scheduler_entry.                *)
(***************************************************************************)
EXTENDS Scheduler, Integers

CONSTANTS
  Programs,     \* the files of the ramdisk
  init,         \* the one that the kernel starts
  MAX_MBOXEN    \* entries of the message box table

Boxes == 0 .. MAX_MBOXEN - 1

\* The queue of the processes that wait for the one in slot t to terminate.
Waiting(t) == <<"wait", t>>

ASSUME ProcessesAssumption ==
  /\ Tasks = 0 .. Cardinality(Tasks) - 1
  /\ {Waiting(t) : t \in Tasks} \subseteq WaitQueues
  /\ init \in Programs
  /\ MAX_MBOXEN \in Nat

VARIABLES
  pid,          \* pcb_t.pid
  program,      \* pcb_t.entry_point
  mbox_use,     \* pcb_t.mbox_use
  spawn_times

processVars == <<pid, program, mbox_use, spawn_times>>

ProcessesTypeOK ==
  /\ SchedulerTypeOK
  /\ pid \in [Tasks -> Nat]
  /\ program \in [Tasks -> Programs]
  /\ mbox_use \in [Tasks -> [Boxes -> {0, 1}]]
  /\ spawn_times \in Nat

\* _start: an empty table, do_spawn("init") and the first scheduler_entry.
ProcessesInit ==
  /\ current_running = 0
  /\ idle = FALSE
  /\ ready_queue = <<>>
  /\ sleep_wait_queue = <<>>
  /\ wait_queue = [q \in WaitQueues |-> <<>>]
  /\ status = [t \in Tasks |-> IF t = 0 THEN "FIRST_TIME" ELSE "EXITED"]
  /\ deadline = [t \in Tasks |-> 0]
  /\ pid = [t \in Tasks |-> 0]
  /\ program = [t \in Tasks |-> init]
  /\ mbox_use = [t \in Tasks |-> [i \in Boxes |-> 0]]
  /\ spawn_times = 1

Live == {t \in Tasks : status[t] # "EXITED"}

-----------------------------------------------------------------------------
\* dead_task_find: the first free slot; the callers leave one free.
FreeSlot == CHOOSE t \in Tasks \ Live : \A u \in Tasks \ Live : t <= u

do_spawn(p) ==
  LET t == FreeSlot
  IN  /\ status' = [status EXCEPT ![t] = "FIRST_TIME"]
      /\ ready_queue' = Append(ready_queue, t)
      /\ wait_queue' = [wait_queue EXCEPT ![Waiting(t)] = <<>>]
      /\ pid' = [pid EXCEPT ![t] = spawn_times]
      /\ program' = [program EXCEPT ![t] = p]
      /\ mbox_use' = [mbox_use EXCEPT ![t] = [i \in Boxes |-> 0]]
      /\ spawn_times' = spawn_times + 1
      /\ UNCHANGED <<current_running, idle, sleep_wait_queue, deadline>>

-----------------------------------------------------------------------------
\* A task is on a queue once.
Without(q, t) ==
  IF t \in Range(q)
  THEN LET i == CHOOSE i \in DOMAIN q : q[i] = t
       IN  SubSeq(q, 1, i - 1) \o SubSeq(q, i + 1, Len(q))
  ELSE q

\* The task is unlinked from the queue that holds its node, and is dead.
Unlinked(t) ==
  [waiting |-> [q \in WaitQueues |-> Without(wait_queue[q], t)],
   ready   |-> Without(ready_queue, t),
   st      |-> [status EXCEPT ![t] = "EXITED"]]

\* Mutant of do_kill: the processes that wait for the victim are not woken.
do_kill_silent(t) ==
  LET qs == Unlinked(t)
  IN  \/ /\ t = current_running
         /\ scheduler(qs.ready, sleep_wait_queue, qs.st, deadline)
         /\ wait_queue' = qs.waiting
      \/ /\ t # current_running
         /\ wait_queue' = qs.waiting /\ ready_queue' = qs.ready /\ status' = qs.st
         /\ sleep_wait_queue' = Without(sleep_wait_queue, t)
         /\ UNCHANGED <<current_running, idle, deadline>>

\* Mutant of do_kill: the node of a sleeping victim stays in its queue.
do_kill_linked(t) ==
  LET qs == unblock_all(Unlinked(t), Waiting(t))
  IN  \/ /\ t = current_running
         /\ scheduler(qs.ready, sleep_wait_queue, qs.st, deadline)
         /\ wait_queue' = qs.waiting
      \/ /\ t # current_running
         /\ Continue(qs)

\* do_kill of the process in slot t, found by pcb_with_pid_find.
do_kill(t) ==
  LET qs == unblock_all(Unlinked(t), Waiting(t))
  IN  \/ /\ t = current_running
         /\ scheduler(qs.ready, sleep_wait_queue, qs.st, deadline)
         /\ wait_queue' = qs.waiting
      \/ /\ t # current_running
         /\ wait_queue' = qs.waiting /\ ready_queue' = qs.ready /\ status' = qs.st
         /\ sleep_wait_queue' = Without(sleep_wait_queue, t)
         /\ UNCHANGED <<current_running, idle, deadline>>

\* do_wait for the process in slot t; its caller returns when it runs again.
do_wait(t) == block(Queues, Waiting(t))
=============================================================================

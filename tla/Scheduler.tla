------------------------------ MODULE Scheduler ------------------------------
(***************************************************************************)
(* The scheduler of the OS kernel with synchronisation primitives and IPC  *)
(* (p4-Synchronization-Primitives-IPC/scheduler.c, queue.c, interrupt.c).   *)
(*                                                                         *)
(* One CPU runs one task at a time.  A task that is not running is on       *)
(* exactly one intrusive queue: the ready queue, the sleep queue, or one   *)
(* of the wait queues of the kernel's objects (locks, conditions, ...).     *)
(* Kernel code is never preempted: kernel threads run with nested_count 1   *)
(* and a process has nested_count 1 during a system call, and timer_irq     *)
(* returns early in both cases.  A handler is therefore atomic up to its     *)
(* calls of scheduler_entry, and the operators below describe one handler   *)
(* from its start, or from its return from scheduler_entry, to its end or   *)
(* its next scheduler_entry.                                                *)
(*                                                                         *)
(* Time is relative: deadline[t] is the number of ticks left until          *)
(* pcb_t.deadline, so "deadline <= time_elapsed" reads deadline[t] = 0.     *)
(***************************************************************************)
EXTENDS Naturals, Sequences, FiniteSets, Functions

CONSTANTS
  Tasks,        \* the tasks that have been spawned
  Threads,      \* those of type KERNEL_THREAD; the others are PROCESSes
  WaitQueues,   \* the wait queues of the kernel's objects
  MaxSleep      \* the longest sleep, in ticks, any task asks for

ASSUME SchedulerAssumption ==
  /\ Tasks # {} /\ IsFiniteSet(Tasks)
  /\ Threads \subseteq Tasks
  /\ MaxSleep \in Nat

VARIABLES
  current_running,    \* the task on the CPU (or the last one, while idle)
  idle,               \* scheduler() spins in its loop for a ready task
  ready_queue,
  sleep_wait_queue,
  wait_queue,         \* of each object in WaitQueues
  status,             \* pcb_t.status
  deadline            \* pcb_t.deadline, relative to time_elapsed

schedulerVars ==
  <<current_running, idle, ready_queue, sleep_wait_queue, wait_queue, status, deadline>>

Status == {"FIRST_TIME", "READY", "BLOCKED", "EXITED", "SLEEPING"}
Runnable == {"FIRST_TIME", "READY"}

SchedulerTypeOK ==
  /\ current_running \in Tasks
  /\ idle \in BOOLEAN
  /\ ready_queue \in Seq(Tasks)
  /\ sleep_wait_queue \in Seq(Tasks)
  /\ wait_queue \in [WaitQueues -> Seq(Tasks)]
  /\ status \in [Tasks -> Status]
  /\ deadline \in [Tasks -> 0 .. MaxSleep]

(***************************************************************************)
(* The state once kernel.c has spawned every task and entered the scheduler *)
(* for the first time; the spawning order is arbitrary.                     *)
(***************************************************************************)
SpawnOrders ==
  {q \in [1 .. Cardinality(Tasks) -> Tasks] : IsInjective(q) /\ Range(q) = Tasks}

SchedulerInit ==
  /\ \E q \in SpawnOrders : current_running = Head(q) /\ ready_queue = Tail(q)
  /\ idle = FALSE
  /\ sleep_wait_queue = <<>>
  /\ wait_queue = [o \in WaitQueues |-> <<>>]
  /\ status = [t \in Tasks |-> "FIRST_TIME"]
  /\ deadline = [t \in Tasks |-> 0]

Running(t) == current_running = t /\ ~idle

-----------------------------------------------------------------------------
(***************************************************************************)
(* scheduler(): wake the expired prefix of the sleep queue (check_sleeping  *)
(* stops at the first task that has not expired), then take the head of the *)
(* ready queue, or spin while there is none.  Its arguments are the queues,  *)
(* statuses and deadlines as the calling handler left them.                 *)
(***************************************************************************)
ExpiredPrefix(sleepq, left, k) ==
  /\ \A i \in 1 .. k : left[sleepq[i]] = 0
  /\ k < Len(sleepq) => left[sleepq[k + 1]] > 0

scheduler(ready, sleepq, st, left) ==
  \E k \in 0 .. Len(sleepq) :
    /\ ExpiredPrefix(sleepq, left, k)
    /\ LET woken    == SubSeq(sleepq, 1, k)
           runnable == ready \o woken
       IN  /\ sleep_wait_queue' = SubSeq(sleepq, k + 1, Len(sleepq))
           /\ status' = [t \in Tasks |-> IF t \in Range(woken) THEN "READY" ELSE st[t]]
           /\ idle' = (runnable = <<>>)
           /\ current_running' = IF runnable = <<>> THEN current_running ELSE Head(runnable)
           /\ ready_queue' = IF runnable = <<>> THEN <<>> ELSE Tail(runnable)
    /\ deadline' = left

(***************************************************************************)
(* What the queue helpers of a handler change: the wait queues, the ready   *)
(* queue and the statuses.  A handler starts from Queues and ends with      *)
(* Continue (it returns) or Block (it gives up the CPU).                    *)
(***************************************************************************)
Queues == [waiting |-> wait_queue, ready |-> ready_queue, st |-> status]

\* Mutant of unblock_one: the task that came last is unblocked first.
unblock_last(qs, o) ==
  IF qs.waiting[o] = <<>> THEN qs
  ELSE LET t == qs.waiting[o][Len(qs.waiting[o])]
       IN  [waiting |-> [qs.waiting EXCEPT ![o] = SubSeq(@, 1, Len(@) - 1)],
            ready   |-> Append(qs.ready, t),
            st      |-> [qs.st EXCEPT ![t] = "READY"]]

unblock_one(qs, o) ==
  IF qs.waiting[o] = <<>> THEN qs
  ELSE LET t == Head(qs.waiting[o])
       IN  [waiting |-> [qs.waiting EXCEPT ![o] = Tail(@)],
            ready   |-> Append(qs.ready, t),
            st      |-> [qs.st EXCEPT ![t] = "READY"]]

\* Mutant of unblock_all: the tasks are moved but stay BLOCKED.
unblock_all_blocked(qs, o) ==
  [waiting |-> [qs.waiting EXCEPT ![o] = <<>>], ready |-> qs.ready \o qs.waiting[o], st |-> qs.st]

\* while (!is_empty(&o->wait_queue)) unblock_one(&o->wait_queue)
unblock_all(qs, o) ==
  [waiting |-> [qs.waiting EXCEPT ![o] = <<>>],
   ready   |-> qs.ready \o qs.waiting[o],
   st      |-> [t \in Tasks |-> IF t \in Range(qs.waiting[o]) THEN "READY" ELSE qs.st[t]]]

Continue(qs) ==
  /\ wait_queue' = qs.waiting
  /\ ready_queue' = qs.ready
  /\ status' = qs.st
  /\ UNCHANGED <<current_running, idle, sleep_wait_queue, deadline>>

block(qs, o) ==
  /\ wait_queue' = [qs.waiting EXCEPT ![o] = Append(@, current_running)]
  /\ scheduler(qs.ready, sleep_wait_queue,
               [qs.st EXCEPT ![current_running] = "BLOCKED"], deadline)

-----------------------------------------------------------------------------
(***************************************************************************)
(* The handlers that concern the scheduler alone.                           *)
(***************************************************************************)
\* Mutant of Requeue: the current task goes to the front.
RequeueFirst(left) ==
  /\ scheduler(<<current_running>> \o ready_queue, sleep_wait_queue,
               [status EXCEPT ![current_running] = "READY"], left)
  /\ UNCHANGED wait_queue

\* Put the current task at the end of the ready queue and schedule.
Requeue(left) ==
  /\ scheduler(Append(ready_queue, current_running), sleep_wait_queue,
               [status EXCEPT ![current_running] = "READY"], left)
  /\ UNCHANGED wait_queue

do_yield == Requeue(deadline)

\* A sleep shorter than a tick does not give up the CPU and changes nothing.
do_sleep(ticks) ==
  /\ ticks > 0
  /\ scheduler(ready_queue, Append(sleep_wait_queue, current_running),
               [status EXCEPT ![current_running] = "SLEEPING"],
               [deadline EXCEPT ![current_running] = ticks])
  /\ UNCHANGED wait_queue

do_exit ==
  /\ scheduler(ready_queue, sleep_wait_queue,
               [status EXCEPT ![current_running] = "EXITED"], deadline)
  /\ UNCHANGED wait_queue

Elapse == [t \in Tasks |-> IF deadline[t] > 0 THEN deadline[t] - 1 ELSE 0]

(***************************************************************************)
(* The timer interrupt preempts a process in user mode.  Kernel threads, and *)
(* the idle loop of a kernel thread, only see time pass.  The idle loop of a *)
(* process sees no interrupt at all: it runs inside the exception that the   *)
(* process entered the kernel with, and CLI/STI do not clear the exception   *)
(* level (entry.S:26-39).                                                    *)
(***************************************************************************)
timer_preempt ==
  /\ ~idle
  /\ current_running \notin Threads
  /\ Requeue(Elapse)

timer_tick ==
  /\ current_running \in Threads
  /\ \E t \in Tasks : deadline[t] > 0
  /\ deadline' = Elapse
  /\ UNCHANGED <<current_running, idle, ready_queue, sleep_wait_queue, wait_queue, status>>

\* Mutant of timer_irq: time is counted after the test of nested_count.
timer_irq_late == timer_preempt

timer_irq == timer_preempt \/ timer_tick

\* The loop of scheduler() finds a task that check_sleeping has woken.
idle_loop ==
  /\ idle
  /\ scheduler(ready_queue, sleep_wait_queue, status, deadline)
  /\ ~idle'
  /\ UNCHANGED wait_queue

-----------------------------------------------------------------------------
(***************************************************************************)
(* No task is lost and none is in two places: its status says where it is,  *)
(* a queue holds it once, and a task that is neither running nor exited is   *)
(* on the queue that its status names.  cpu is the set of running tasks.     *)
(***************************************************************************)
Placed(cpu, ready, sleepq, waiting, st) ==
  /\ \A t \in cpu : st[t] \in Runnable /\ t \notin Range(ready)
  /\ IsInjective(ready) /\ IsInjective(sleepq)
  /\ \A t \in Range(ready) : st[t] \in Runnable
  /\ \A t \in Range(sleepq) : st[t] = "SLEEPING"
  /\ \A o \in WaitQueues :
       /\ IsInjective(waiting[o])
       /\ \A t \in Range(waiting[o]) : st[t] = "BLOCKED"
       /\ \A p \in WaitQueues : o # p => Range(waiting[o]) \cap Range(waiting[p]) = {}
  /\ \A t \in Tasks :
       /\ st[t] \in Runnable => t \in cpu \cup Range(ready)
       /\ st[t] = "SLEEPING" => t \in Range(sleepq)
       /\ st[t] = "BLOCKED" => \E o \in WaitQueues : t \in Range(waiting[o])

OnCPU == IF idle THEN {} ELSE {current_running}

TaskPlacement == Placed(OnCPU, ready_queue, sleep_wait_queue, wait_queue, status)
=============================================================================

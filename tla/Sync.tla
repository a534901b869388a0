-------------------------------- MODULE Sync --------------------------------
(***************************************************************************)
(* Locks, condition variables, semaphores and barriers of the kernel       *)
(* (p4-Synchronization-Primitives-IPC/sync.c) on top of its scheduler.      *)
(*                                                                         *)
(* The primitives are called by kernel threads; processes only run, sleep,  *)
(* yield and are preempted.  Each action is one call by the running thread, *)
(* from its entry to its return or to the point where it blocks; Resume is  *)
(* what a blocked call still does once the thread runs again.               *)
(*                                                                         *)
(* call, holds, units and calls record the clients: the blocking call a     *)
(* thread is inside, the locks it has acquired, how many more semaphore_up  *)
(* than semaphore_down calls have been completed, and how many times a      *)
(* thread has called barrier_wait.                                          *)
(***************************************************************************)
EXTENDS Scheduler

CONSTANTS
  Locks, Conditions, Semaphores, Barriers,
  NULL,
  InitValue,    \* InitValue[s]: the value given to semaphore_init
  Parties,      \* Parties[b]: the threads that rendezvous at barrier b
  MaxUnits,     \* bound on units
  MaxCalls      \* bound on the number of barrier_wait calls of a thread

Objects == Locks \cup Conditions \cup Semaphores \cup Barriers

ASSUME SyncAssumption ==
  /\ WaitQueues = Objects
  /\ Locks \cap (Conditions \cup Semaphores \cup Barriers) = {}
  /\ Conditions \cap (Semaphores \cup Barriers) = {} /\ Semaphores \cap Barriers = {}
  /\ NULL \notin Tasks \cup Locks
  /\ MaxUnits \in Nat /\ MaxCalls \in Nat
  /\ InitValue \in [Semaphores -> 0 .. MaxUnits]
  /\ Parties \in [Barriers -> SUBSET Threads]

VARIABLES
  lock_status,      \* lock_t.status
  held_task,        \* lock_t.held_task
  blocking_lock,    \* pcb_t.blocking_lock
  value,            \* semaphore_t.value
  m,                \* barrier_t.m
  call, holds, units, calls

objectVars == <<lock_status, held_task, blocking_lock, value, m>>
clientVars == <<call, holds, units, calls>>
vars == <<schedulerVars, objectVars, clientVars>>

n(b) == Cardinality(Parties[b])

\* The blocking call a task is inside; UserCode when it is inside none.
UserCode == <<"user", "user">>
Calls == {UserCode}
         \cup ({"lock_acquire", "condition_wait"} \X Locks)
         \cup ({"semaphore_down"} \X Semaphores)
         \cup ({"barrier_wait"} \X Barriers)

SyncTypeOK ==
  /\ SchedulerTypeOK
  /\ lock_status \in [Locks -> {"UNLOCKED", "LOCKED"}]
  /\ held_task \in [Locks -> Tasks \cup {NULL}]
  /\ blocking_lock \in [Tasks -> Locks \cup {NULL}]
  /\ value \in [Semaphores -> 0 .. MaxUnits]
  /\ m \in [Barriers -> Nat]
  /\ call \in [Tasks -> Calls]
  /\ holds \in [Tasks -> SUBSET Locks]
  /\ units \in [Semaphores -> 0 .. MaxUnits]
  /\ calls \in [Tasks -> [Barriers -> 0 .. MaxCalls]]

\* lock_init, condition_init, semaphore_init and barrier_init of every object.
Init ==
  /\ SchedulerInit
  /\ lock_status = [l \in Locks |-> "UNLOCKED"]
  /\ held_task = [l \in Locks |-> NULL]
  /\ blocking_lock = [t \in Tasks |-> NULL]
  /\ value = InitValue
  /\ m = [b \in Barriers |-> 0]
  /\ call = [t \in Tasks |-> UserCode]
  /\ holds = [t \in Tasks |-> {}]
  /\ units = InitValue
  /\ calls = [t \in Tasks |-> [b \in Barriers |-> 0]]

\* Thread t runs its own code: only then can it make a call.
InUserCode(t) == Running(t) /\ call[t] = UserCode
ThreadCode(t) == InUserCode(t) /\ t \in Threads

-----------------------------------------------------------------------------
(***************************************************************************)
(* Locks.  A release hands the lock to the head of the wait queue without   *)
(* unlocking it.                                                            *)
(***************************************************************************)
\* The tasks that the deadlock check of lock_acquire_helper visits after t.
Walk(t, l) ==
  LET next[i \in 0 .. Cardinality(Tasks)] ==
        IF i = 0 THEN held_task[l]
        ELSE IF next[i - 1] = NULL \/ next[i - 1] = t THEN next[i - 1]
        ELSE IF blocking_lock[next[i - 1]] = NULL THEN NULL
        ELSE held_task[blocking_lock[next[i - 1]]]
  IN next

DeadlockFound(t, l) == Walk(t, l)[Cardinality(Tasks)] = t

\* Thread t enters lock_acquire_helper(l), and leaves its caller unless it blocks.
\* No code gives held_task a task, so the walk never finds t and the early
\* return with 1 is out of reach; the guard keeps the walk in the model.
lock_acquire_helper(t, l) ==
  /\ \/ /\ lock_status[l] = "UNLOCKED"
        /\ lock_status' = [lock_status EXCEPT ![l] = "LOCKED"]
        /\ call' = [call EXCEPT ![t] = UserCode]
        /\ holds' = [holds EXCEPT ![t] = @ \cup {l}]
        /\ Continue(Queues)
        /\ UNCHANGED blocking_lock
     \/ /\ lock_status[l] = "LOCKED"
        /\ ~DeadlockFound(t, l)
        /\ blocking_lock' = [blocking_lock EXCEPT ![t] = l]
        /\ call' = [call EXCEPT ![t] = <<"lock_acquire", l>>]
        /\ block(Queues, l)
        /\ UNCHANGED <<lock_status, holds>>
  /\ UNCHANGED <<held_task, value, m, units, calls>>

lock_acquire(t, l) ==
  /\ ThreadCode(t)
  /\ l \notin holds[t]
  /\ lock_acquire_helper(t, l)

\* Mutant of lock_release_helper: the lock is unlocked although it is handed on.
lock_release_unlocks(t, l) ==
  /\ lock_status' = [lock_status EXCEPT ![l] = "UNLOCKED"]
  /\ held_task' = [held_task EXCEPT ![l] = NULL]
  /\ holds' = [holds EXCEPT ![t] = @ \ {l}]

lock_release_helper(t, l) ==
  /\ lock_status' = IF wait_queue[l] = <<>>
                    THEN [lock_status EXCEPT ![l] = "UNLOCKED"] ELSE lock_status
  /\ held_task' = [held_task EXCEPT ![l] = NULL]
  /\ holds' = [holds EXCEPT ![t] = @ \ {l}]

\* Mutant of lock_release: no waiter is unblocked.
lock_release_silent(t, l) ==
  /\ ThreadCode(t)
  /\ l \in holds[t]
  /\ lock_release_helper(t, l)
  /\ UNCHANGED <<schedulerVars, blocking_lock, value, m, call, units, calls>>

lock_release(t, l) ==
  /\ ThreadCode(t)
  /\ l \in holds[t]
  /\ lock_release_helper(t, l)
  /\ Continue(unblock_one(Queues, l))
  /\ UNCHANGED <<blocking_lock, value, m, call, units, calls>>

-----------------------------------------------------------------------------
(***************************************************************************)
(* Condition variables.                                                     *)
(***************************************************************************)
condition_wait(t, l, c) ==
  /\ ThreadCode(t)
  /\ l \in holds[t]
  /\ lock_release_helper(t, l)
  /\ block(unblock_one(Queues, l), c)
  /\ call' = [call EXCEPT ![t] = <<"condition_wait", l>>]
  /\ UNCHANGED <<blocking_lock, value, m, units, calls>>

condition_signal(t, c) ==
  /\ ThreadCode(t)
  /\ Continue(unblock_one(Queues, c))
  /\ UNCHANGED <<objectVars, clientVars>>

condition_broadcast(t, c) ==
  /\ ThreadCode(t)
  /\ Continue(unblock_all(Queues, c))
  /\ UNCHANGED <<objectVars, clientVars>>

-----------------------------------------------------------------------------
(***************************************************************************)
(* Semaphores.  semaphore_up gives its unit to the head of the wait queue    *)
(* without going through the value.                                         *)
(***************************************************************************)
\* Mutant of semaphore_up: a waiter is unblocked and the value grows too.
semaphore_up_twice(t, s) ==
  /\ ThreadCode(t)
  /\ units[s] < MaxUnits
  /\ Continue(unblock_one(Queues, s))
  /\ value' = [value EXCEPT ![s] = @ + 1]
  /\ units' = [units EXCEPT ![s] = @ + 1]
  /\ UNCHANGED <<lock_status, held_task, blocking_lock, m, call, holds, calls>>

semaphore_up(t, s) ==
  /\ ThreadCode(t)
  /\ units[s] < MaxUnits
  /\ IF value[s] <= 0 /\ wait_queue[s] # <<>>
     THEN Continue(unblock_one(Queues, s)) /\ UNCHANGED value
     ELSE value' = [value EXCEPT ![s] = @ + 1] /\ UNCHANGED schedulerVars
  /\ units' = [units EXCEPT ![s] = @ + 1]
  /\ UNCHANGED <<lock_status, held_task, blocking_lock, m, call, holds, calls>>

\* Mutant of semaphore_down: off by one, the value 0 does not block.
semaphore_down_overdraws(t, s) ==
  /\ ThreadCode(t)
  /\ value' = [value EXCEPT ![s] = @ - 1]
  /\ units' = [units EXCEPT ![s] = @ - 1]
  /\ UNCHANGED <<schedulerVars, lock_status, held_task, blocking_lock, m, call, holds, calls>>

semaphore_down(t, s) ==
  /\ ThreadCode(t)
  /\ \/ /\ value[s] <= 0
        /\ block(Queues, s)
        /\ call' = [call EXCEPT ![t] = <<"semaphore_down", s>>]
        /\ UNCHANGED <<value, units>>
     \/ /\ value[s] > 0
        /\ value' = [value EXCEPT ![s] = @ - 1]
        /\ units' = [units EXCEPT ![s] = @ - 1]
        /\ UNCHANGED <<schedulerVars, call>>
  /\ UNCHANGED <<lock_status, held_task, blocking_lock, m, holds, calls>>

-----------------------------------------------------------------------------
(***************************************************************************)
(* Barriers.                                                                *)
(***************************************************************************)
\* Mutant of barrier_wait: the last thread does not reset m.
barrier_wait_once(t, b) ==
  /\ ThreadCode(t)
  /\ t \in Parties[b]
  /\ calls[t][b] < MaxCalls
  /\ calls' = [calls EXCEPT ![t][b] = @ + 1]
  /\ \/ /\ m[b] >= n(b) - 1
        /\ Continue(unblock_all(Queues, b))
        /\ UNCHANGED <<m, call>>
     \/ /\ m[b] < n(b) - 1
        /\ m' = [m EXCEPT ![b] = @ + 1]
        /\ block(Queues, b)
        /\ call' = [call EXCEPT ![t] = <<"barrier_wait", b>>]
  /\ UNCHANGED <<lock_status, held_task, blocking_lock, value, holds, units>>

\* Mutant of barrier_wait: one thread too few is waited for.
barrier_wait_early(t, b) ==
  /\ ThreadCode(t)
  /\ t \in Parties[b]
  /\ calls[t][b] < MaxCalls
  /\ calls' = [calls EXCEPT ![t][b] = @ + 1]
  /\ \/ /\ m[b] + 1 >= n(b) - 1
        /\ m' = [m EXCEPT ![b] = 0]
        /\ Continue(unblock_all(Queues, b))
        /\ UNCHANGED call
     \/ /\ m[b] + 1 < n(b) - 1
        /\ m' = [m EXCEPT ![b] = @ + 1]
        /\ block(Queues, b)
        /\ call' = [call EXCEPT ![t] = <<"barrier_wait", b>>]
  /\ UNCHANGED <<lock_status, held_task, blocking_lock, value, holds, units>>

barrier_wait(t, b) ==
  /\ ThreadCode(t)
  /\ t \in Parties[b]
  /\ calls[t][b] < MaxCalls
  /\ calls' = [calls EXCEPT ![t][b] = @ + 1]
  /\ \/ /\ m[b] >= n(b) - 1
        /\ m' = [m EXCEPT ![b] = 0]
        /\ Continue(unblock_all(Queues, b))
        /\ UNCHANGED call
     \/ /\ m[b] < n(b) - 1
        /\ m' = [m EXCEPT ![b] = @ + 1]
        /\ block(Queues, b)
        /\ call' = [call EXCEPT ![t] = <<"barrier_wait", b>>]
  /\ UNCHANGED <<lock_status, held_task, blocking_lock, value, holds, units>>

-----------------------------------------------------------------------------
(***************************************************************************)
(* The rest of a blocked call, once its thread has been unblocked and runs.  *)
(***************************************************************************)
ReturnTo(t) == Running(t) /\ call' = [call EXCEPT ![t] = UserCode] /\ UNCHANGED schedulerVars

resume_lock_acquire(t, l) ==
  /\ call[t] = <<"lock_acquire", l>>
  /\ ReturnTo(t)
  /\ blocking_lock' = [blocking_lock EXCEPT ![t] = NULL]
  /\ holds' = [holds EXCEPT ![t] = @ \cup {l}]
  /\ UNCHANGED <<lock_status, held_task, value, m, units, calls>>

resume_condition_wait(t, l) ==
  /\ Running(t)
  /\ call[t] = <<"condition_wait", l>>
  /\ lock_acquire_helper(t, l)

resume_semaphore_down(t, s) ==
  /\ call[t] = <<"semaphore_down", s>>
  /\ ReturnTo(t)
  /\ units' = [units EXCEPT ![s] = @ - 1]
  /\ UNCHANGED <<objectVars, holds, calls>>

resume_barrier_wait(t, b) ==
  /\ call[t] = <<"barrier_wait", b>>
  /\ ReturnTo(t)
  /\ UNCHANGED <<objectVars, holds, units, calls>>

Resume(t) ==
  \/ \E l \in Locks : resume_lock_acquire(t, l) \/ resume_condition_wait(t, l)
  \/ \E s \in Semaphores : resume_semaphore_down(t, s)
  \/ \E b \in Barriers : resume_barrier_wait(t, b)

-----------------------------------------------------------------------------
yield(t) == InUserCode(t) /\ do_yield /\ UNCHANGED <<objectVars, clientVars>>

sleep(t) ==
  /\ InUserCode(t)
  /\ \E ticks \in 1 .. MaxSleep : do_sleep(ticks)
  /\ UNCHANGED <<objectVars, clientVars>>

exit(t) == InUserCode(t) /\ holds[t] = {} /\ do_exit /\ UNCHANGED <<objectVars, clientVars>>

Kernel == (timer_irq \/ idle_loop) /\ UNCHANGED <<objectVars, clientVars>>

LockCall(t) == \E l \in Locks : lock_acquire(t, l) \/ lock_release(t, l)

ConditionCall(t) ==
  \E c \in Conditions :
    \/ \E l \in Locks : condition_wait(t, l, c)
    \/ condition_signal(t, c)
    \/ condition_broadcast(t, c)

SemaphoreCall(t) == \E s \in Semaphores : semaphore_up(t, s) \/ semaphore_down(t, s)

BarrierCall(t) == \E b \in Barriers : barrier_wait(t, b)

Next ==
  \/ Kernel
  \/ \E t \in Tasks :
       \/ LockCall(t) \/ ConditionCall(t) \/ SemaphoreCall(t) \/ BarrierCall(t)
       \/ Resume(t)
       \/ yield(t) \/ sleep(t) \/ exit(t)

Spec == Init /\ [][Next]_vars

(***************************************************************************)
(* Fairness.  The timer ticks, the idle loop spins and a running thread goes *)
(* on.  Kernel threads are not preempted, so the rest is what every client   *)
(* of the repository does (th1.c, th2.c, philosophers.c): a thread gives up   *)
(* the CPU again and again, and releases the lock it holds.                  *)
(***************************************************************************)
Release(t) == \E l \in Locks : lock_release(t, l)

Fairness ==
  /\ WF_vars(timer_irq /\ UNCHANGED <<objectVars, clientVars>>)
  /\ WF_vars(idle_loop /\ UNCHANGED <<objectVars, clientVars>>)
  /\ \A t \in Tasks : WF_vars(Resume(t)) /\ WF_vars(yield(t)) /\ SF_vars(Release(t))

FairSpec == Spec /\ Fairness

-----------------------------------------------------------------------------
(***************************************************************************)
(* Safety.                                                                  *)
(***************************************************************************)
\* Woken from the wait queue of o, but not running again yet or not returned.
Granted(t, o, name) == call[t] = <<name, o>> /\ status[t] # "BLOCKED"

\* The threads between acquiring l and releasing it, in or out of lock_acquire.
Owners(l) == {t \in Tasks : l \in holds[t] \/ Granted(t, l, "lock_acquire")}

(***************************************************************************)
(* A lock has an owner exactly while it is LOCKED, and one owner only, also *)
(* across the hand-off from lock_release to the waiter it unblocks and      *)
(* across the re-acquisition that ends condition_wait (sync.c:42-110).       *)
(***************************************************************************)
MutualExclusion ==
  \A l \in Locks :
    /\ lock_status[l] = "LOCKED" <=> Owners(l) # {}
    /\ \A t, u \in Owners(l) : t = u

(***************************************************************************)
(* No thread stays in a wait queue when what it waits for is available, and *)
(* only the threads of a blocked call wait there.                           *)
(***************************************************************************)
WaitersHaveReason ==
  /\ \A l \in Locks : wait_queue[l] # <<>> => lock_status[l] = "LOCKED"
  /\ \A s \in Semaphores : wait_queue[s] # <<>> => value[s] = 0
  /\ \A b \in Barriers : Len(wait_queue[b]) = m[b] /\ (m[b] > 0 => m[b] < n(b))

(***************************************************************************)
(* Units of a semaphore are neither lost nor made: those not taken by a      *)
(* completed semaphore_down are in its value or in the hands of a thread     *)
(* that semaphore_up unblocked and that has yet to run (sync.c:136-155).     *)
(***************************************************************************)
SemaphoreConservation ==
  \A s \in Semaphores :
    units[s] = value[s] + Cardinality({t \in Tasks : Granted(t, s, "semaphore_down")})

(***************************************************************************)
(* The barrier separates rounds: a thread that has returned from its k-th    *)
(* barrier_wait knows that every party has made its k-th call, even when     *)
(* the fast ones already wait again (sync.c:166-181, barrier_test.c:34-44).  *)
(***************************************************************************)
Returned(t, b) == IF call[t] = <<"barrier_wait", b>> THEN calls[t][b] - 1 ELSE calls[t][b]

BarrierSeparatesRounds ==
  \A b \in Barriers : \A t, u \in Parties[b] : Returned(t, b) <= calls[u][b]

(***************************************************************************)
(* Locks are granted in the order of the calls: a step that gives l to a new *)
(* owner while threads wait for it gives it to the first of them.            *)
(***************************************************************************)
NoBarging ==
  [][\A l \in Locks : \A t \in Owners(l)' \ Owners(l) :
       wait_queue[l] # <<>> => t = Head(wait_queue[l])]_vars

(***************************************************************************)
(* Round robin: a task on the ready queue runs eventually, and a sleeping    *)
(* one wakes although check_sleeping (scheduler.c:15-29) looks at the head   *)
(* of the unordered sleep queue only.                                       *)
(***************************************************************************)
ReadyTasksRun == \A t \in Tasks : (t \in Range(ready_queue)) ~> Running(t)

SleepersWake == \A t \in Tasks : (status[t] = "SLEEPING") ~> (status[t] # "SLEEPING")

(***************************************************************************)
(* A thread that blocks in lock_acquire, or that condition_wait makes wait    *)
(* for its lock again, gets it: neither the hand-off nor a releaser that      *)
(* takes the lock back at once can starve it.                                *)
(***************************************************************************)
LockGranted ==
  \A t \in Tasks, l \in Locks : (call[t] = <<"lock_acquire", l>>) ~> (l \in holds[t])

(***************************************************************************)
(* "Return 1 on failure due to deadlock" (sync.c:71): as long as that holds, *)
(* two threads are never each blocked on a lock the other one owns.          *)
(***************************************************************************)
NoLockCycle ==
  ~ \E t, u \in Tasks : \E k, l \in Locks :
      /\ t # u /\ k \in holds[u] /\ l \in holds[t]
      /\ status[t] = "BLOCKED" /\ call[t] = <<"lock_acquire", k>>
      /\ status[u] = "BLOCKED" /\ call[u] = <<"lock_acquire", l>>
=============================================================================

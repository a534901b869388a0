------------------------------ MODULE SyncProofs ------------------------------
(***************************************************************************)
(* Type correctness, the placement of tasks, mutual exclusion of locks,     *)
(* conservation of semaphore units, the reasons for which threads wait, the *)
(* rounds of barriers and the order of locks, for every set of threads,     *)
(* processes, locks, conditions, semaphores and barriers.                   *)
(***************************************************************************)
EXTENDS Sync, SchedulerProofs

(***************************************************************************)
(* The inductive invariant.  WaitersCalls says which call a task on a wait  *)
(* queue is inside: without it, the task that a release unblocks need not    *)
(* be one that takes the lock over.                                         *)
(***************************************************************************)
CallFor(o, k) ==
  \/ o \in Locks /\ k = <<"lock_acquire", o>>
  \/ o \in Conditions /\ \E l \in Locks : k = <<"condition_wait", l>>
  \/ o \in Semaphores /\ k = <<"semaphore_down", o>>
  \/ o \in Barriers /\ k = <<"barrier_wait", o>>

WaitersCalls == \A o \in WaitQueues : \A t \in Range(wait_queue[o]) : CallFor(o, call[t])

\* The bounds of value and units follow from SemaphoreConservation.
Types ==
  /\ SchedulerTypeOK
  /\ lock_status \in [Locks -> {"UNLOCKED", "LOCKED"}]
  /\ held_task \in [Locks -> Tasks \cup {NULL}]
  /\ blocking_lock \in [Tasks -> Locks \cup {NULL}]
  /\ value \in [Semaphores -> Nat]
  /\ m \in [Barriers -> Nat]
  /\ call \in [Tasks -> Calls]
  /\ holds \in [Tasks -> SUBSET Locks]
  /\ units \in [Semaphores -> Int]
  /\ \A s \in Semaphores : units[s] <= MaxUnits
  /\ calls \in [Tasks -> [Barriers -> 0 .. MaxCalls]]

IInv ==
  /\ Types
  /\ TaskPlacement
  /\ WaitersCalls
  /\ MutualExclusion
  /\ SemaphoreConservation

-----------------------------------------------------------------------------
(* Who is granted what.                                                     *)

LEMMA ObjectQueues ==
  /\ Locks \subseteq WaitQueues /\ Conditions \subseteq WaitQueues
  /\ Semaphores \subseteq WaitQueues /\ Barriers \subseteq WaitQueues
BY SyncAssumption DEF Objects

(***************************************************************************)
(* A task on a wait queue waits for that queue's object only.               *)
(***************************************************************************)
LEMMA OneObject ==
  ASSUME NEW o, NEW k, CallFor(o, k)
  PROVE  /\ \A l \in Locks : k = <<"lock_acquire", l>> <=> o = l
         /\ \A s \in Semaphores : k = <<"semaphore_down", s>> <=> o = s
         /\ k # UserCode
BY SyncAssumption DEF CallFor, UserCode

(***************************************************************************)
(* What a thread that runs its own code, or that resumes, is not.           *)
(***************************************************************************)
LEMMA RunningThread ==
  ASSUME Types, TaskPlacement, NEW t \in Tasks, Running(t)
  PROVE  /\ ~idle /\ current_running = t /\ OnCPU = {t}
         /\ Placed({t}, ready_queue, sleep_wait_queue, wait_queue, status)
         /\ status[t] # "BLOCKED"
         /\ \A o \in WaitQueues : t \notin Range(wait_queue[o])
<1>1. ~idle /\ current_running = t /\ OnCPU = {t} BY DEF Running, OnCPU
<1>2. Placed({t}, ready_queue, sleep_wait_queue, wait_queue, status)
  BY <1>1 DEF TaskPlacement
<1>3. status[t] # "BLOCKED" BY <1>2 DEF Placed, Runnable
<1> QED BY <1>1, <1>2, <1>3, RunningOnNoQueue

(***************************************************************************)
(* What the queue helpers do to the waiters of an object.                   *)
(***************************************************************************)
LEMMA UnblockOne ==
  ASSUME SchedulerTypeOK, TaskPlacement, NEW o \in WaitQueues, wait_queue[o] # <<>>
  PROVE  /\ Head(wait_queue[o]) \in Tasks /\ Head(wait_queue[o]) \in Range(wait_queue[o])
         /\ status[Head(wait_queue[o])] = "BLOCKED"
         /\ \A t \in Tasks : unblock_one(Queues, o).st[t] = "BLOCKED"
              <=> status[t] = "BLOCKED" /\ t # Head(wait_queue[o])
         /\ \A p \in WaitQueues :
              Range(unblock_one(Queues, o).waiting[p]) \subseteq Range(wait_queue[p])
<1> DEFINE h == Head(wait_queue[o])
<1>1. /\ wait_queue \in [WaitQueues -> Seq(Tasks)] /\ status \in [Tasks -> Status]
      /\ wait_queue[o] \in Seq(Tasks)
  BY DEF SchedulerTypeOK
<1>2. /\ h \in Tasks /\ Range(wait_queue[o]) = Range(Tail(wait_queue[o])) \cup {h}
  BY <1>1, DequeueRange
<1>3. status[h] = "BLOCKED"
  BY <1>2 DEF TaskPlacement, Placed
<1>4. /\ unblock_one(Queues, o).st = [status EXCEPT ![h] = "READY"]
      /\ unblock_one(Queues, o).waiting = [wait_queue EXCEPT ![o] = Tail(@)]
  BY DEF unblock_one, Queues
<1> HIDE DEF h
<1>5. \A t \in Tasks : unblock_one(Queues, o).st[t] = "BLOCKED"
         <=> status[t] = "BLOCKED" /\ t # h
  BY <1>1, <1>2, <1>4
<1>6. ASSUME NEW p \in WaitQueues
      PROVE  Range(unblock_one(Queues, o).waiting[p]) \subseteq Range(wait_queue[p])
  <2>1. unblock_one(Queues, o).waiting[p] = IF p = o THEN Tail(wait_queue[o]) ELSE wait_queue[p]
    BY <1>1, <1>4
  <2> QED BY <2>1, <1>2
<1> QED BY <1>2, <1>3, <1>5, <1>6 DEF h

LEMMA UnblockAll ==
  ASSUME SchedulerTypeOK, TaskPlacement, NEW o \in WaitQueues
  PROVE  /\ \A t \in Tasks : unblock_all(Queues, o).st[t] = "BLOCKED"
              <=> status[t] = "BLOCKED" /\ t \notin Range(wait_queue[o])
         /\ \A p \in WaitQueues :
              Range(unblock_all(Queues, o).waiting[p]) \subseteq Range(wait_queue[p])
<1>1. wait_queue \in [WaitQueues -> Seq(Tasks)] BY DEF SchedulerTypeOK
<1>2. /\ unblock_all(Queues, o).waiting = [wait_queue EXCEPT ![o] = <<>>]
      /\ unblock_all(Queues, o).st
           = [t \in Tasks |-> IF t \in Range(wait_queue[o]) THEN "READY" ELSE status[t]]
  BY DEF unblock_all, Queues
<1>3. Range(<<>>) = {} BY DEF Range
<1>4. ASSUME NEW p \in WaitQueues
      PROVE  Range(unblock_all(Queues, o).waiting[p]) \subseteq Range(wait_queue[p])
  <2>1. unblock_all(Queues, o).waiting[p] = IF p = o THEN <<>> ELSE wait_queue[p]
    BY <1>1, <1>2
  <2> QED BY <2>1, <1>3
<1> QED BY <1>2, <1>4

(***************************************************************************)
(* A step of task c that unblocks the tasks W of the queue of o leaves every *)
(* other task where it was with respect to every other object.              *)
(***************************************************************************)
LEMMA OthersKeepGrants ==
  ASSUME WaitersCalls, NEW c \in Tasks, NEW o \in WaitQueues,
         NEW W \in SUBSET Range(wait_queue[o]),
         \A t \in Tasks \ {c} : /\ status'[t] = "BLOCKED" <=> status[t] = "BLOCKED" /\ t \notin W
                                /\ call'[t] = call[t],
         NEW t \in Tasks \ {c}
  PROVE  /\ \A l \in Locks : l # o => (Granted(t, l, "lock_acquire")' <=> Granted(t, l, "lock_acquire"))
         /\ \A s \in Semaphores :
              s # o => (Granted(t, s, "semaphore_down")' <=> Granted(t, s, "semaphore_down"))
<1>1. CASE t \in W
  <2>1. CallFor(o, call[t]) BY <1>1 DEF WaitersCalls
  <2> QED BY <2>1, OneObject DEF Granted
<1>2. CASE t \notin W
  BY <1>2 DEF Granted
<1> QED BY <1>1, <1>2

(***************************************************************************)
(* WaitersCalls after a step of task c that puts nobody on a wait queue, and *)
(* after one that puts c on the queue of x for which its new call is right.  *)
(***************************************************************************)
LEMMA NobodyWaits ==
  ASSUME WaitersCalls, NEW c \in Tasks,
         \A o \in WaitQueues : wait_queue[o] \in Seq(Tasks) /\ c \notin Range(wait_queue[o]),
         \A u \in Tasks \ {c} : call'[u] = call[u],
         \A o \in WaitQueues : Range(wait_queue'[o]) \subseteq Range(wait_queue[o])
  PROVE  WaitersCalls'
<1> SUFFICES ASSUME NEW o \in WaitQueues, NEW t \in Range(wait_queue'[o])
             PROVE  CallFor(o, call'[t])
  BY DEF WaitersCalls, CallFor
<1>1. t \in Range(wait_queue[o]) OBVIOUS
<1>2. t \in Tasks \ {c} BY <1>1, RangeOfSeq
<1>3. call'[t] = call[t] BY <1>2
<1> QED BY <1>1, <1>3 DEF WaitersCalls

LEMMA RunnerWaits ==
  ASSUME WaitersCalls, NEW c \in Tasks, NEW x \in WaitQueues, CallFor(x, call'[c]),
         \A o \in WaitQueues : wait_queue[o] \in Seq(Tasks) /\ c \notin Range(wait_queue[o]),
         \A u \in Tasks \ {c} : call'[u] = call[u],
         \A o \in WaitQueues : \A u \in Range(wait_queue'[o]) :
           u \in Range(wait_queue[o]) \/ (o = x /\ u = c)
  PROVE  WaitersCalls'
<1> SUFFICES ASSUME NEW o \in WaitQueues, NEW t \in Range(wait_queue'[o])
             PROVE  CallFor(o, call'[t])
  BY DEF WaitersCalls, CallFor
<1>1. CASE t \in Range(wait_queue[o])
  <2>1. t \in Tasks \ {c} BY <1>1, RangeOfSeq
  <2>2. call'[t] = call[t] BY <2>1
  <2> QED BY <1>1, <2>2 DEF WaitersCalls
<1>2. CASE t \notin Range(wait_queue[o])
  BY <1>2
<1> QED BY <1>1, <1>2

-----------------------------------------------------------------------------
(* The two conservation laws, object by object.                             *)

Owns(t, l) == l \in holds[t] \/ Granted(t, l, "lock_acquire")

MutexOn(l) ==
  /\ lock_status[l] = "LOCKED" <=> \E t \in Tasks : Owns(t, l)
  /\ \A t, u \in Tasks : Owns(t, l) /\ Owns(u, l) => t = u

Down(s) == {t \in Tasks : Granted(t, s, "semaphore_down")}

ConservedOn(s) == units[s] = value[s] + Cardinality(Down(s))

LEMMA MutexByLock ==
  /\ MutualExclusion <=> \A l \in Locks : MutexOn(l)
  /\ MutualExclusion' <=> \A l \in Locks : MutexOn(l)'
BY DEF MutualExclusion, MutexOn, Owners, Owns

LEMMA ConservationBySemaphore ==
  /\ SemaphoreConservation <=> \A s \in Semaphores : ConservedOn(s)
  /\ SemaphoreConservation' <=> \A s \in Semaphores : ConservedOn(s)'
BY DEF SemaphoreConservation, ConservedOn, Down

LEMMA DownFinite ==
  ASSUME NEW s \in Semaphores
  PROVE  IsFiniteSet(Down(s)) /\ Cardinality(Down(s)) \in Nat
BY SchedulerAssumption, FS_Subset, FS_CardinalityType DEF Down

(***************************************************************************)
(* The bounds on value and units that SyncTypeOK states.                    *)
(***************************************************************************)
LEMMA UnitsBounded ==
  ASSUME Types, SemaphoreConservation
  PROVE  SyncTypeOK
<1>1. ASSUME NEW s \in Semaphores
      PROVE  value[s] \in 0 .. MaxUnits /\ units[s] \in 0 .. MaxUnits
  <2>1. units[s] = value[s] + Cardinality(Down(s)) /\ Cardinality(Down(s)) \in Nat
    BY DownFinite, ConservationBySemaphore DEF ConservedOn
  <2>2. value[s] \in Nat /\ units[s] \in Int /\ units[s] <= MaxUnits BY DEF Types
  <2>3. MaxUnits \in Nat BY SyncAssumption
  <2> QED BY <2>1, <2>2, <2>3
<1>2. value \in [Semaphores -> 0 .. MaxUnits] /\ units \in [Semaphores -> 0 .. MaxUnits]
  BY <1>1 DEF Types
<1> QED BY <1>2 DEF Types, SyncTypeOK

(***************************************************************************)
(* A step of c that keeps who owns lock l keeps its mutual exclusion; and    *)
(* likewise for the units of a semaphore.                                   *)
(***************************************************************************)
LEMMA MutexKept ==
  ASSUME NEW l \in Locks, MutexOn(l), lock_status'[l] = lock_status[l],
         \A t \in Tasks : Owns(t, l)' <=> Owns(t, l)
  PROVE  MutexOn(l)'
BY DEF MutexOn

LEMMA ConservedKept ==
  ASSUME NEW s \in Semaphores, ConservedOn(s), value'[s] = value[s], units'[s] = units[s],
         \A t \in Tasks : Granted(t, s, "semaphore_down")' <=> Granted(t, s, "semaphore_down")
  PROVE  ConservedOn(s)'
<1>1. Down(s)' = Down(s) BY DEF Down
<1> QED BY <1>1 DEF ConservedOn

(***************************************************************************)
(* A step that changes only scheduler state, and leaves the wait queues and  *)
(* the set of blocked tasks alone.                                          *)
(***************************************************************************)
LEMMA Quiet ==
  ASSUME IInv, SchedulerTypeOK', TaskPlacement',
         UNCHANGED <<objectVars, clientVars>>, wait_queue' = wait_queue,
         \A t \in Tasks : status'[t] = "BLOCKED" <=> status[t] = "BLOCKED"
  PROVE  IInv'
<1>1. /\ lock_status' = lock_status /\ held_task' = held_task
      /\ blocking_lock' = blocking_lock /\ value' = value /\ m' = m
      /\ call' = call /\ holds' = holds /\ units' = units /\ calls' = calls
  BY DEF objectVars, clientVars
<1>2. Types' BY <1>1 DEF IInv, Types
<1>3. WaitersCalls' BY <1>1 DEF IInv, WaitersCalls, CallFor
<1>4. MutualExclusion'
  <2>1. ASSUME NEW l \in Locks PROVE MutexOn(l)'
    <3>1. \A t \in Tasks : Owns(t, l)' <=> Owns(t, l) BY <1>1 DEF Owns, Granted
    <3>2. MutexOn(l) BY MutexByLock DEF IInv
    <3> QED BY <1>1, <3>1, <3>2, MutexKept
  <2> QED BY <2>1, MutexByLock
<1>5. SemaphoreConservation'
  <2>1. ASSUME NEW s \in Semaphores PROVE ConservedOn(s)'
    <3>1. \A t \in Tasks : Granted(t, s, "semaphore_down")' <=> Granted(t, s, "semaphore_down")
      BY <1>1 DEF Granted
    <3>2. ConservedOn(s) BY ConservationBySemaphore DEF IInv
    <3> QED BY <1>1, <3>1, <3>2, ConservedKept
  <2> QED BY <2>1, ConservationBySemaphore
<1> QED BY <1>2, <1>3, <1>4, <1>5 DEF IInv

(***************************************************************************)
(* A step of the running thread t that unblocks only the tasks W of the      *)
(* queue of o keeps both laws for every other object.                       *)
(***************************************************************************)
LEMMA OtherObjects ==
  ASSUME IInv, NEW t \in Tasks, NEW o \in WaitQueues,
         NEW W \in SUBSET Range(wait_queue[o]),
         \A u \in Tasks \ {t} : /\ status'[u] = "BLOCKED" <=> status[u] = "BLOCKED" /\ u \notin W
                                /\ call'[u] = call[u]
                                /\ holds'[u] = holds[u]
  PROVE  /\ \A l \in Locks :
              /\ l # o /\ lock_status'[l] = lock_status[l]
              /\ l \in holds'[t] <=> l \in holds[t]
              /\ call[t] # <<"lock_acquire", l>> /\ call'[t] # <<"lock_acquire", l>>
              => MutexOn(l)'
         /\ \A s \in Semaphores :
              /\ s # o /\ value'[s] = value[s] /\ units'[s] = units[s]
              /\ call[t] # <<"semaphore_down", s>> /\ call'[t] # <<"semaphore_down", s>>
              => ConservedOn(s)'
<1>1. \A u \in Tasks \ {t} :
        /\ \A l \in Locks : l # o => (Granted(u, l, "lock_acquire")' <=> Granted(u, l, "lock_acquire"))
        /\ \A s \in Semaphores :
             s # o => (Granted(u, s, "semaphore_down")' <=> Granted(u, s, "semaphore_down"))
  BY OthersKeepGrants DEF IInv
<1>2. ASSUME NEW l \in Locks, l # o, lock_status'[l] = lock_status[l],
             l \in holds'[t] <=> l \in holds[t],
             call[t] # <<"lock_acquire", l>>, call'[t] # <<"lock_acquire", l>>
      PROVE  MutexOn(l)'
  <2>1. \A u \in Tasks : Owns(u, l)' <=> Owns(u, l)
    <3>1. Owns(t, l)' <=> Owns(t, l) BY <1>2 DEF Owns, Granted
    <3>2. \A u \in Tasks \ {t} : Owns(u, l)' <=> Owns(u, l) BY <1>1, <1>2 DEF Owns
    <3> QED BY <3>1, <3>2
  <2>2. MutexOn(l) BY MutexByLock DEF IInv
  <2> QED BY <1>2, <2>1, <2>2, MutexKept
<1>3. ASSUME NEW s \in Semaphores, s # o, value'[s] = value[s], units'[s] = units[s],
             call[t] # <<"semaphore_down", s>>, call'[t] # <<"semaphore_down", s>>
      PROVE  ConservedOn(s)'
  <2>1. \A u \in Tasks : Granted(u, s, "semaphore_down")' <=> Granted(u, s, "semaphore_down")
    <3>1. Granted(t, s, "semaphore_down")' <=> Granted(t, s, "semaphore_down")
      BY <1>3 DEF Granted
    <3> QED BY <3>1, <1>1, <1>3
  <2>2. ConservedOn(s) BY ConservationBySemaphore DEF IInv
  <2> QED BY <1>3, <2>1, <2>2, ConservedKept
<1> QED BY <1>2, <1>3

(***************************************************************************)
(* What a handler leaves behind that ends without giving up the CPU, or      *)
(* with block: type and placement, the wait queues, and who is blocked.      *)
(***************************************************************************)
Handler(t, o, W, qs) ==
  /\ qs \in QueuesType
  /\ Placed({t}, qs.ready, sleep_wait_queue, qs.waiting, qs.st)
  /\ \A u \in Tasks : qs.st[u] = "BLOCKED" <=> status[u] = "BLOCKED" /\ u \notin W
  /\ \A p \in WaitQueues : Range(qs.waiting[p]) \subseteq Range(wait_queue[p])

LEMMA HandlerQueues ==
  ASSUME Types, TaskPlacement, NEW t \in Tasks, Running(t), NEW o \in WaitQueues
  PROVE  /\ Handler(t, o, {}, Queues)
         /\ wait_queue[o] = <<>> => unblock_one(Queues, o) = Queues
         /\ wait_queue[o] # <<>> =>
              /\ Handler(t, o, {Head(wait_queue[o])}, unblock_one(Queues, o))
              /\ {Head(wait_queue[o])} \in SUBSET Range(wait_queue[o])
         /\ Handler(t, o, Range(wait_queue[o]), unblock_all(Queues, o))
<1>1. SchedulerTypeOK /\ OnCPU = {t} /\ {t} \in SUBSET Tasks /\ sleep_wait_queue \in Seq(Tasks)
  BY RunningThread DEF Types, SchedulerTypeOK
<1>2. /\ Queues \in QueuesType
      /\ Placed({t}, Queues.ready, sleep_wait_queue, Queues.waiting, Queues.st)
  BY <1>1, QueuesPlaced
<1>3. Handler(t, o, {}, Queues)
  BY <1>2 DEF Handler, Queues
<1>4. wait_queue[o] = <<>> => unblock_one(Queues, o) = Queues
  BY DEF unblock_one, Queues
<1>5. ASSUME wait_queue[o] # <<>>
      PROVE  /\ Handler(t, o, {Head(wait_queue[o])}, unblock_one(Queues, o))
             /\ {Head(wait_queue[o])} \in SUBSET Range(wait_queue[o])
  BY <1>1, <1>2, <1>5, UnblockOne, UnblockOnePlaced DEF Handler
<1>6. Handler(t, o, Range(wait_queue[o]), unblock_all(Queues, o))
  BY <1>1, <1>2, UnblockAll, UnblockAllPlaced DEF Handler
<1> QED BY <1>3, <1>4, <1>5, <1>6

LEMMA HandlerContinues ==
  ASSUME Types, TaskPlacement, NEW t \in Tasks, Running(t), NEW o \in WaitQueues,
         NEW W, NEW qs, Handler(t, o, W, qs), Continue(qs)
  PROVE  /\ SchedulerTypeOK' /\ TaskPlacement'
         /\ \A u \in Tasks : status'[u] = "BLOCKED" <=> status[u] = "BLOCKED" /\ u \notin W
         /\ \A p \in WaitQueues : Range(wait_queue'[p]) \subseteq Range(wait_queue[p])
<1>1. OnCPU = {t} /\ SchedulerTypeOK BY RunningThread DEF Types
<1>2. SchedulerTypeOK' /\ TaskPlacement' BY <1>1, ContinuePlaced DEF Handler
<1> QED BY <1>2 DEF Handler, Continue

LEMMA HandlerBlocks ==
  ASSUME Types, TaskPlacement, NEW t \in Tasks, Running(t), NEW o \in WaitQueues,
         NEW W, NEW qs, Handler(t, o, W, qs), NEW x \in WaitQueues, block(qs, x)
  PROVE  /\ SchedulerTypeOK' /\ TaskPlacement'
         /\ status'[t] = "BLOCKED"
         /\ \A u \in Tasks \ {t} :
              status'[u] = "BLOCKED" <=> status[u] = "BLOCKED" /\ u \notin W
         /\ \A p \in WaitQueues : \A u \in Range(wait_queue'[p]) :
              u \in Range(wait_queue[p]) \/ (p = x /\ u = t)
<1>1. SchedulerTypeOK /\ ~idle /\ current_running = t BY RunningThread DEF Types
<1>2. SchedulerTypeOK' /\ TaskPlacement' BY <1>1, BlockPlaced DEF Handler
<1>3. \A u \in Tasks : status'[u] = "BLOCKED" <=> u = t \/ qs.st[u] = "BLOCKED"
  BY <1>1, BlockBlocks DEF Handler
<1>4. ASSUME NEW p \in WaitQueues
      PROVE  \A u \in Range(wait_queue'[p]) : u \in Range(wait_queue[p]) \/ (p = x /\ u = t)
  <2>1. qs.waiting \in [WaitQueues -> Seq(Tasks)] BY DEF Handler, QueuesType
  <2>2. wait_queue'[p] = IF p = x THEN Append(qs.waiting[p], t) ELSE qs.waiting[p]
    BY <1>1, <2>1 DEF block
  <2>3. Range(Append(qs.waiting[p], t)) = Range(qs.waiting[p]) \cup {t}
    BY <2>1, EnqueueRange
  <2> QED BY <2>2, <2>3 DEF Handler
<1> QED BY <1>2, <1>3, <1>4 DEF Handler

-----------------------------------------------------------------------------
(* One lemma per kind of call.                                              *)

(***************************************************************************)
(* UserCode and the calls that block elsewhere grant nothing.               *)
(***************************************************************************)
NoGrant(k) ==
  /\ \A l \in Locks : k # <<"lock_acquire", l>>
  /\ \A s \in Semaphores : k # <<"semaphore_down", s>>

LEMMA NoGrantCalls ==
  /\ NoGrant(UserCode)
  /\ \A l : NoGrant(<<"condition_wait", l>>) /\ NoGrant(<<"barrier_wait", l>>)
BY DEF NoGrant, UserCode

LEMMA CallTypes ==
  /\ UserCode \in Calls
  /\ \A l \in Locks : <<"lock_acquire", l>> \in Calls /\ <<"condition_wait", l>> \in Calls
  /\ \A s \in Semaphores : <<"semaphore_down", s>> \in Calls
  /\ \A b \in Barriers : <<"barrier_wait", b>> \in Calls
BY DEF Calls

LEMMA WaitQueueTypes ==
  ASSUME Types
  PROVE  \A o \in WaitQueues : wait_queue[o] \in Seq(Tasks)
BY DEF Types, SchedulerTypeOK

LEMMA AcquireHelperStep ==
  ASSUME IInv, NEW t \in Tasks, NEW l \in Locks, Running(t), NoGrant(call[t]),
         lock_acquire_helper(t, l)
  PROVE  IInv'
<1>0. /\ l \in WaitQueues /\ \A s \in Semaphores : s # l
      /\ {} \in SUBSET Range(wait_queue[l])
      /\ Types /\ TaskPlacement /\ WaitersCalls /\ MutualExclusion
  BY ObjectQueues, SyncAssumption DEF IInv
<1>1. Handler(t, l, {}, Queues) BY <1>0, HandlerQueues
<1>2. /\ held_task' = held_task /\ value' = value /\ m' = m /\ units' = units /\ calls' = calls
  BY DEF lock_acquire_helper
<1>3. \A o \in WaitQueues : wait_queue[o] \in Seq(Tasks) /\ t \notin Range(wait_queue[o])
  BY <1>0, RunningThread, WaitQueueTypes
<1>4. MutexOn(l) BY <1>0, MutexByLock
<1>5. CASE /\ lock_status[l] = "UNLOCKED"
           /\ lock_status' = [lock_status EXCEPT ![l] = "LOCKED"]
           /\ call' = [call EXCEPT ![t] = UserCode]
           /\ holds' = [holds EXCEPT ![t] = @ \cup {l}]
           /\ Continue(Queues)
           /\ UNCHANGED blocking_lock
  <2>1. /\ SchedulerTypeOK' /\ TaskPlacement'
        /\ \A u \in Tasks : status'[u] = "BLOCKED" <=> status[u] = "BLOCKED"
        /\ \A p \in WaitQueues : Range(wait_queue'[p]) \subseteq Range(wait_queue[p])
    BY <1>0, <1>1, <1>5, HandlerContinues
  <2>2. /\ holds \in [Tasks -> SUBSET Locks] /\ call \in [Tasks -> Calls]
        /\ lock_status \in [Locks -> {"UNLOCKED", "LOCKED"}]
    BY <1>0 DEF Types
  <2>3. /\ \A k \in Locks : lock_status'[k] = IF k = l THEN "LOCKED" ELSE lock_status[k]
        /\ \A u \in Tasks : call'[u] = IF u = t THEN UserCode ELSE call[u]
        /\ \A u \in Tasks : holds'[u] = IF u = t THEN holds[u] \cup {l} ELSE holds[u]
    BY <1>5, <2>2
  <2>4. Types' BY <1>0, <1>2, <1>5, <2>1, <2>2, CallTypes DEF Types
  <2>5. WaitersCalls' BY <1>0, <1>3, <2>1, <2>3, NobodyWaits
  <2>6. NoGrant(call'[t]) BY <2>3, NoGrantCalls
  <2>7. \A u \in Tasks \ {t} : /\ status'[u] = "BLOCKED" <=> status[u] = "BLOCKED" /\ u \notin {}
                               /\ call'[u] = call[u] /\ holds'[u] = holds[u]
    BY <2>1, <2>3
  <2>8. \A k \in Locks : k # l => MutexOn(k)'
    BY <1>0, <2>3, <2>6, <2>7, OtherObjects DEF NoGrant
  <2>9. MutexOn(l)'
    <3>1. \A u \in Tasks : ~Owns(u, l) BY <1>4, <1>5 DEF MutexOn
    <3>2. \A u \in Tasks : Owns(u, l)' <=> u = t
      BY <2>3, <2>6, <2>7, <3>1 DEF Owns, Granted, NoGrant
    <3> QED BY <2>3, <3>2 DEF MutexOn
  <2>10. \A s \in Semaphores : ConservedOn(s)'
    BY <1>0, <1>2, <2>6, <2>7, OtherObjects DEF NoGrant
  <2> QED BY <2>1, <2>4, <2>5, <2>8, <2>9, <2>10, MutexByLock, ConservationBySemaphore DEF IInv
<1>6. CASE /\ lock_status[l] = "LOCKED"
           /\ ~DeadlockFound(t, l)
           /\ blocking_lock' = [blocking_lock EXCEPT ![t] = l]
           /\ call' = [call EXCEPT ![t] = <<"lock_acquire", l>>]
           /\ block(Queues, l)
           /\ UNCHANGED <<lock_status, holds>>
  <2>1. /\ SchedulerTypeOK' /\ TaskPlacement'
        /\ status'[t] = "BLOCKED"
        /\ \A u \in Tasks \ {t} :
             status'[u] = "BLOCKED" <=> status[u] = "BLOCKED" /\ u \notin {}
        /\ \A p \in WaitQueues : \A u \in Range(wait_queue'[p]) :
             u \in Range(wait_queue[p]) \/ (p = l /\ u = t)
    BY <1>0, <1>1, <1>6, HandlerBlocks
  <2>2. call \in [Tasks -> Calls] /\ blocking_lock \in [Tasks -> Locks \cup {NULL}]
    BY <1>0 DEF Types
  <2>3. /\ \A u \in Tasks : call'[u] = IF u = t THEN <<"lock_acquire", l>> ELSE call[u]
        /\ lock_status' = lock_status /\ holds' = holds
    BY <1>6, <2>2
  <2>4. Types' BY <1>0, <1>2, <1>6, <2>1, <2>2, CallTypes DEF Types
  <2>5. WaitersCalls'
    <3>1. CallFor(l, call'[t]) BY <2>3 DEF CallFor
    <3> QED BY <1>0, <1>3, <2>1, <2>3, <3>1, RunnerWaits
  <2>6. \A u \in Tasks \ {t} : /\ status'[u] = "BLOCKED" <=> status[u] = "BLOCKED" /\ u \notin {}
                               /\ call'[u] = call[u] /\ holds'[u] = holds[u]
    BY <2>1, <2>3
  <2>7. \A k \in Locks : k # l => MutexOn(k)'
    <3>1. \A k \in Locks : k # l =>
            call[t] # <<"lock_acquire", k>> /\ call'[t] # <<"lock_acquire", k>>
      BY <2>3 DEF NoGrant
    <3> QED BY <1>0, <2>3, <2>6, <3>1, OtherObjects
  <2>8. MutexOn(l)'
    <3>1. \A u \in Tasks : Owns(u, l)' <=> Owns(u, l)
      <4>1. Owns(t, l)' <=> Owns(t, l) BY <2>1, <2>3 DEF Owns, Granted, NoGrant
      <4>2. \A u \in Tasks \ {t} : Owns(u, l)' <=> Owns(u, l) BY <2>6 DEF Owns, Granted
      <4> QED BY <4>1, <4>2
    <3> QED BY <1>4, <2>3, <3>1, MutexKept
  <2>9. \A s \in Semaphores : ConservedOn(s)'
    <3>1. \A s \in Semaphores :
            call[t] # <<"semaphore_down", s>> /\ call'[t] # <<"semaphore_down", s>>
      BY <2>3 DEF NoGrant
    <3> QED BY <1>0, <1>2, <2>6, <3>1, OtherObjects
  <2> QED BY <2>1, <2>4, <2>5, <2>7, <2>8, <2>9, MutexByLock, ConservationBySemaphore DEF IInv
<1> QED BY <1>5, <1>6 DEF lock_acquire_helper

(***************************************************************************)
(* The thread that takes l over from its owner t: the first of its waiters, *)
(* if any.  All the other tasks inside lock_acquire(l) stay blocked.         *)
(***************************************************************************)
Successor(l) == IF wait_queue[l] = <<>> THEN {} ELSE {Head(wait_queue[l])}

LEMMA ReleaseHandler ==
  ASSUME IInv, NEW t \in Tasks, Running(t), NEW l \in Locks
  PROVE  /\ l \in WaitQueues /\ Successor(l) \in SUBSET Range(wait_queue[l])
         /\ Handler(t, l, Successor(l), unblock_one(Queues, l))
<1>1. l \in WaitQueues /\ Types /\ TaskPlacement BY ObjectQueues DEF IInv
<1> QED BY <1>1, HandlerQueues DEF Successor

LEMMA ReleaseMutex ==
  ASSUME IInv, NEW t \in Tasks, Running(t), NEW l \in Locks, l \in holds[t],
         NoGrant(call[t]), NoGrant(call'[t]), lock_release_helper(t, l),
         \A u \in Tasks \ {t} :
           /\ status'[u] = "BLOCKED" <=> status[u] = "BLOCKED" /\ u \notin Successor(l)
           /\ call'[u] = call[u]
  PROVE  MutexOn(l)'
<1>1. /\ l \in WaitQueues /\ Types /\ TaskPlacement /\ WaitersCalls /\ MutexOn(l)
  BY ObjectQueues, MutexByLock DEF IInv
<1>2. \A u \in Tasks : Owns(u, l) => u = t
  BY <1>1 DEF MutexOn, Owns
<1>3. lock_status[l] = "LOCKED"
  BY <1>1 DEF MutexOn, Owns
<1>4. \A u \in Tasks : holds'[u] = IF u = t THEN holds[t] \ {l} ELSE holds[u]
  BY <1>1 DEF lock_release_helper, Types
<1>5. ~Owns(t, l)'
  BY <1>4 DEF Owns, Granted, NoGrant
<1>6. \A u \in Tasks \ {t} : l \notin holds'[u] /\ ~Granted(u, l, "lock_acquire")
  BY <1>2, <1>4 DEF Owns
<1>7. CASE wait_queue[l] = <<>>
  <2>1. lock_status'[l] = "UNLOCKED" BY <1>1, <1>7 DEF lock_release_helper, Types
  <2>2. \A u \in Tasks \ {t} : ~Owns(u, l)'
    BY <1>6, <1>7 DEF Owns, Granted, Successor
  <2> QED BY <2>1, <2>2, <1>5 DEF MutexOn
<1>8. CASE wait_queue[l] # <<>>
  <2>0. PICK h \in Tasks : h = Head(wait_queue[l])
    BY <1>1, <1>8, UnblockOne DEF Types
  <2>1. lock_status'[l] = "LOCKED" BY <1>3, <1>8 DEF lock_release_helper
  <2>2. h \in Tasks /\ h \in Range(wait_queue[l]) /\ Successor(l) = {h} /\ status[h] = "BLOCKED"
    BY <1>1, <1>8, <2>0, UnblockOne DEF Types, Successor
  <2>3. CallFor(l, call[h]) BY <1>1, <2>2 DEF WaitersCalls
  <2>4. h # t /\ call[h] = <<"lock_acquire", l>>
    BY <1>1, <2>2, <2>3, OneObject, RunningThread
  <2>5. Owns(h, l)'
    <3>1. status'[h] # "BLOCKED" BY <2>2, <2>4
    <3>2. call'[h] = <<"lock_acquire", l>> BY <2>2, <2>4
    <3> QED BY <3>1, <3>2 DEF Owns, Granted
  <2>6. \A u \in Tasks \ {t} : u # h => ~Owns(u, l)'
    BY <1>6, <2>2 DEF Owns, Granted
  <2>7. \A u \in Tasks : Owns(u, l)' <=> u = h BY <2>2, <2>5, <2>6, <1>5
  <2> QED BY <2>1, <2>2, <2>7 DEF MutexOn
<1> QED BY <1>7, <1>8

LEMMA ReleaseStep ==
  ASSUME IInv, NEW t \in Tasks, NEW l \in Locks, lock_release(t, l)
  PROVE  IInv'
<1>0. /\ Types /\ TaskPlacement /\ WaitersCalls /\ \A s \in Semaphores : s # l
      /\ Running(t) /\ NoGrant(call[t]) /\ l \in holds[t]
  BY SyncAssumption, NoGrantCalls DEF IInv, lock_release, ThreadCode, InUserCode
<1>1. /\ l \in WaitQueues /\ Successor(l) \in SUBSET Range(wait_queue[l])
      /\ Handler(t, l, Successor(l), unblock_one(Queues, l))
  BY <1>0, ReleaseHandler
<1>2. /\ call' = call /\ value' = value /\ units' = units /\ m' = m
      /\ blocking_lock' = blocking_lock /\ calls' = calls
      /\ lock_release_helper(t, l) /\ Continue(unblock_one(Queues, l))
  BY DEF lock_release
<1>3. /\ SchedulerTypeOK' /\ TaskPlacement'
      /\ \A u \in Tasks : status'[u] = "BLOCKED" <=> status[u] = "BLOCKED" /\ u \notin Successor(l)
      /\ \A p \in WaitQueues : Range(wait_queue'[p]) \subseteq Range(wait_queue[p])
  BY <1>0, <1>1, <1>2, HandlerContinues
<1>4. \A o \in WaitQueues : wait_queue[o] \in Seq(Tasks) /\ t \notin Range(wait_queue[o])
  BY <1>0, RunningThread, WaitQueueTypes
<1>5. /\ \A k \in Locks : k # l => lock_status'[k] = lock_status[k]
      /\ \A u \in Tasks : holds'[u] = IF u = t THEN holds[t] \ {l} ELSE holds[u]
  BY <1>0, <1>2 DEF lock_release_helper, Types
<1>6. Types' BY <1>0, <1>2, <1>3 DEF Types, lock_release_helper
<1>7. WaitersCalls' BY <1>0, <1>2, <1>3, <1>4, NobodyWaits
<1>8. MutexOn(l)' BY <1>0, <1>2, <1>3, ReleaseMutex
<1>9. \A u \in Tasks \ {t} :
        /\ status'[u] = "BLOCKED" <=> status[u] = "BLOCKED" /\ u \notin Successor(l)
        /\ call'[u] = call[u] /\ holds'[u] = holds[u]
  BY <1>2, <1>3, <1>5
<1>10. \A k \in Locks : k # l => MutexOn(k)'
  <2>1. \A k \in Locks : call[t] # <<"lock_acquire", k>> /\ call'[t] # <<"lock_acquire", k>>
    BY <1>0, <1>2 DEF NoGrant
  <2>2. \A k \in Locks : k # l => (k \in holds'[t] <=> k \in holds[t]) BY <1>5
  <2> QED BY <1>1, <1>5, <1>9, <2>1, <2>2, OtherObjects
<1>11. \A s \in Semaphores : ConservedOn(s)'
  <2>1. \A s \in Semaphores :
          call[t] # <<"semaphore_down", s>> /\ call'[t] # <<"semaphore_down", s>>
    BY <1>0, <1>2 DEF NoGrant
  <2> QED BY <1>0, <1>1, <1>2, <1>9, <2>1, OtherObjects
<1> QED BY <1>3, <1>6, <1>7, <1>8, <1>10, <1>11, MutexByLock, ConservationBySemaphore DEF IInv

LEMMA ConditionWaitStep ==
  ASSUME IInv, NEW t \in Tasks, NEW l \in Locks, NEW c \in Conditions, condition_wait(t, l, c)
  PROVE  IInv'
<1>0. /\ Types /\ TaskPlacement /\ WaitersCalls /\ \A s \in Semaphores : s # l
      /\ Running(t) /\ NoGrant(call[t]) /\ l \in holds[t] /\ c \in WaitQueues
  BY SyncAssumption, ObjectQueues, NoGrantCalls DEF IInv, condition_wait, ThreadCode, InUserCode
<1>1. /\ l \in WaitQueues /\ Successor(l) \in SUBSET Range(wait_queue[l])
      /\ Handler(t, l, Successor(l), unblock_one(Queues, l))
  BY <1>0, ReleaseHandler
<1>2. /\ call' = [call EXCEPT ![t] = <<"condition_wait", l>>]
      /\ value' = value /\ units' = units /\ m' = m
      /\ blocking_lock' = blocking_lock /\ calls' = calls
      /\ lock_release_helper(t, l) /\ block(unblock_one(Queues, l), c)
  BY DEF condition_wait
<1>3. /\ SchedulerTypeOK' /\ TaskPlacement'
      /\ \A u \in Tasks \ {t} :
           status'[u] = "BLOCKED" <=> status[u] = "BLOCKED" /\ u \notin Successor(l)
      /\ \A p \in WaitQueues : \A u \in Range(wait_queue'[p]) :
           u \in Range(wait_queue[p]) \/ (p = c /\ u = t)
  BY <1>0, <1>1, <1>2, HandlerBlocks
<1>4. \A o \in WaitQueues : wait_queue[o] \in Seq(Tasks) /\ t \notin Range(wait_queue[o])
  BY <1>0, RunningThread, WaitQueueTypes
<1>5. /\ \A k \in Locks : k # l => lock_status'[k] = lock_status[k]
      /\ \A u \in Tasks : holds'[u] = IF u = t THEN holds[t] \ {l} ELSE holds[u]
      /\ \A u \in Tasks : call'[u] = IF u = t THEN <<"condition_wait", l>> ELSE call[u]
  BY <1>0, <1>2 DEF lock_release_helper, Types
<1>6. NoGrant(call'[t]) BY <1>5, NoGrantCalls
<1>7. Types' BY <1>0, <1>2, <1>3, CallTypes DEF Types, lock_release_helper
<1>8. WaitersCalls'
  <2>1. CallFor(c, call'[t]) BY <1>5 DEF CallFor
  <2>2. \A u \in Tasks \ {t} : call'[u] = call[u] BY <1>5
  <2> QED BY <1>0, <1>3, <1>4, <2>1, <2>2, RunnerWaits
<1>9. \A u \in Tasks \ {t} :
        /\ status'[u] = "BLOCKED" <=> status[u] = "BLOCKED" /\ u \notin Successor(l)
        /\ call'[u] = call[u] /\ holds'[u] = holds[u]
  BY <1>3, <1>5
<1>10. MutexOn(l)' BY <1>0, <1>2, <1>6, <1>9, ReleaseMutex
<1>11. \A k \in Locks : k # l => MutexOn(k)'
  <2>1. \A k \in Locks : call[t] # <<"lock_acquire", k>> /\ call'[t] # <<"lock_acquire", k>>
    BY <1>0, <1>6 DEF NoGrant
  <2>2. \A k \in Locks : k # l => (k \in holds'[t] <=> k \in holds[t]) BY <1>5
  <2> QED BY <1>1, <1>5, <1>9, <2>1, <2>2, OtherObjects
<1>12. \A s \in Semaphores : ConservedOn(s)'
  <2>1. \A s \in Semaphores :
          call[t] # <<"semaphore_down", s>> /\ call'[t] # <<"semaphore_down", s>>
    BY <1>0, <1>6 DEF NoGrant
  <2> QED BY <1>0, <1>1, <1>2, <1>9, <2>1, OtherObjects
<1> QED BY <1>3, <1>7, <1>8, <1>10, <1>11, <1>12, MutexByLock, ConservationBySemaphore DEF IInv

(***************************************************************************)
(* A step that takes from no lock and no semaphore: it may unblock tasks W   *)
(* that wait for a condition or a barrier o, and the running thread t may    *)
(* block on o or return, but only from and into calls that grant nothing.    *)
(***************************************************************************)
LEMMA NoLockInvolved ==
  ASSUME IInv, NEW t \in Tasks, NEW o \in WaitQueues, NEW W \in SUBSET Range(wait_queue[o]),
         o \in Conditions \cup Barriers, NoGrant(call[t]), NoGrant(call'[t]),
         \A u \in Tasks \ {t} :
           /\ status'[u] = "BLOCKED" <=> status[u] = "BLOCKED" /\ u \notin W
           /\ call'[u] = call[u],
         holds' = holds, lock_status' = lock_status, value' = value, units' = units
  PROVE  MutualExclusion' /\ SemaphoreConservation'
<1>1. \A l \in Locks : l # o BY SyncAssumption
<1>2. \A s \in Semaphores : s # o BY SyncAssumption
<1>3. \A u \in Tasks \ {t} :
        /\ status'[u] = "BLOCKED" <=> status[u] = "BLOCKED" /\ u \notin W
        /\ call'[u] = call[u] /\ holds'[u] = holds[u]
  OBVIOUS
<1>4. \A l \in Locks : MutexOn(l)'
  <2>1. \A l \in Locks : call[t] # <<"lock_acquire", l>> /\ call'[t] # <<"lock_acquire", l>>
    BY DEF NoGrant
  <2>2. \A l \in Locks : lock_status'[l] = lock_status[l] /\ (l \in holds'[t] <=> l \in holds[t])
    OBVIOUS
  <2> QED BY <1>1, <1>3, <2>1, <2>2, OtherObjects
<1>5. \A s \in Semaphores : ConservedOn(s)'
  <2>1. \A s \in Semaphores :
          call[t] # <<"semaphore_down", s>> /\ call'[t] # <<"semaphore_down", s>>
    BY DEF NoGrant
  <2>2. \A s \in Semaphores : value'[s] = value[s] /\ units'[s] = units[s]
    OBVIOUS
  <2> QED BY <1>2, <1>3, <2>1, <2>2, OtherObjects
<1> QED BY <1>4, <1>5, MutexByLock, ConservationBySemaphore

LEMMA NotifyStep ==
  ASSUME IInv, NEW t \in Tasks, NEW c \in Conditions,
         condition_signal(t, c) \/ condition_broadcast(t, c)
  PROVE  IInv'
<1>0. /\ Types /\ TaskPlacement /\ WaitersCalls
      /\ Running(t) /\ NoGrant(call[t]) /\ c \in WaitQueues
  BY ObjectQueues, NoGrantCalls
  DEF IInv, condition_signal, condition_broadcast, ThreadCode, InUserCode
<1>1. /\ call' = call /\ holds' = holds /\ lock_status' = lock_status /\ held_task' = held_task
      /\ value' = value /\ units' = units /\ m' = m
      /\ blocking_lock' = blocking_lock /\ calls' = calls
  BY DEF condition_signal, condition_broadcast, objectVars, clientVars
<1>2. PICK W \in SUBSET Range(wait_queue[c]) :
        \E qs : Handler(t, c, W, qs) /\ Continue(qs)
  <2>1. CASE condition_broadcast(t, c)
    <3>1. Handler(t, c, Range(wait_queue[c]), unblock_all(Queues, c)) BY <1>0, HandlerQueues
    <3> QED BY <2>1, <3>1 DEF condition_broadcast
  <2>2. CASE condition_signal(t, c) /\ wait_queue[c] = <<>>
    <3>1. Handler(t, c, {}, Queues) /\ unblock_one(Queues, c) = Queues
      BY <1>0, <2>2, HandlerQueues
    <3> QED BY <2>2, <3>1 DEF condition_signal
  <2>3. CASE condition_signal(t, c) /\ wait_queue[c] # <<>>
    <3>1. /\ Handler(t, c, {Head(wait_queue[c])}, unblock_one(Queues, c))
          /\ {Head(wait_queue[c])} \in SUBSET Range(wait_queue[c])
      BY <1>0, <2>3, HandlerQueues
    <3> QED BY <2>3, <3>1 DEF condition_signal
  <2> QED BY <2>1, <2>2, <2>3
<1>3. PICK qs : Handler(t, c, W, qs) /\ Continue(qs) BY <1>2
<1>4. /\ SchedulerTypeOK' /\ TaskPlacement'
      /\ \A u \in Tasks : status'[u] = "BLOCKED" <=> status[u] = "BLOCKED" /\ u \notin W
      /\ \A p \in WaitQueues : Range(wait_queue'[p]) \subseteq Range(wait_queue[p])
  BY <1>0, <1>3, HandlerContinues
<1>5. \A o \in WaitQueues : wait_queue[o] \in Seq(Tasks) /\ t \notin Range(wait_queue[o])
  BY <1>0, RunningThread, WaitQueueTypes
<1>6. Types' BY <1>0, <1>1, <1>4 DEF Types
<1>7. WaitersCalls' BY <1>0, <1>1, <1>4, <1>5, NobodyWaits
<1>8. MutualExclusion' /\ SemaphoreConservation'
  <2>1. NoGrant(call'[t]) BY <1>0, <1>1
  <2> QED BY <1>0, <1>1, <1>4, <2>1, NoLockInvolved
<1> QED BY <1>4, <1>6, <1>7, <1>8 DEF IInv

LEMMA BarrierStep ==
  ASSUME IInv, NEW t \in Tasks, NEW b \in Barriers, barrier_wait(t, b)
  PROVE  IInv'
<1>0. /\ Types /\ TaskPlacement /\ WaitersCalls
      /\ Running(t) /\ NoGrant(call[t]) /\ b \in WaitQueues
      /\ {} \in SUBSET Range(wait_queue[b])
  BY ObjectQueues, NoGrantCalls DEF IInv, barrier_wait, ThreadCode, InUserCode
<1>1. /\ holds' = holds /\ lock_status' = lock_status /\ held_task' = held_task
      /\ value' = value /\ units' = units /\ blocking_lock' = blocking_lock
      /\ calls[t][b] < MaxCalls /\ calls' = [calls EXCEPT ![t][b] = @ + 1]
  BY DEF barrier_wait
<1>2. calls' \in [Tasks -> [Barriers -> 0 .. MaxCalls]]
  <2>1. calls \in [Tasks -> [Barriers -> 0 .. MaxCalls]] /\ MaxCalls \in Nat
    BY <1>0, SyncAssumption DEF Types
  <2>2. calls[t] \in [Barriers -> 0 .. MaxCalls] /\ calls[t][b] + 1 \in 0 .. MaxCalls
    BY <1>1, <2>1
  <2>3. [calls[t] EXCEPT ![b] = calls[t][b] + 1] \in [Barriers -> 0 .. MaxCalls]
    BY <2>2
  <2>4. calls' = [calls EXCEPT ![t] = [calls[t] EXCEPT ![b] = calls[t][b] + 1]]
    BY <1>1
  <2> QED BY <2>1, <2>3, <2>4
<1>3. \A o \in WaitQueues : wait_queue[o] \in Seq(Tasks) /\ t \notin Range(wait_queue[o])
  BY <1>0, RunningThread, WaitQueueTypes
<1>4. m \in [Barriers -> Nat] /\ call \in [Tasks -> Calls] BY <1>0 DEF Types
<1>5. CASE m' = [m EXCEPT ![b] = 0] /\ Continue(unblock_all(Queues, b)) /\ UNCHANGED call
  <2>1. Handler(t, b, Range(wait_queue[b]), unblock_all(Queues, b))
    BY <1>0, HandlerQueues
  <2>2. /\ SchedulerTypeOK' /\ TaskPlacement'
        /\ \A u \in Tasks : status'[u] = "BLOCKED"
             <=> status[u] = "BLOCKED" /\ u \notin Range(wait_queue[b])
        /\ \A p \in WaitQueues : Range(wait_queue'[p]) \subseteq Range(wait_queue[p])
    BY <1>0, <1>5, <2>1, HandlerContinues
  <2>3. call' = call /\ NoGrant(call'[t]) /\ \A u \in Tasks \ {t} : call'[u] = call[u]
    BY <1>0, <1>5
  <2>4. Types' BY <1>0, <1>1, <1>2, <1>4, <1>5, <2>2 DEF Types
  <2>5. WaitersCalls' BY <1>0, <1>3, <2>2, <2>3, NobodyWaits
  <2>6. MutualExclusion' /\ SemaphoreConservation'
    <3>1. Range(wait_queue[b]) \in SUBSET Range(wait_queue[b]) OBVIOUS
    <3> QED BY <1>0, <1>1, <2>2, <2>3, <3>1, NoLockInvolved
  <2> QED BY <2>2, <2>4, <2>5, <2>6 DEF IInv
<1>6. CASE /\ m' = [m EXCEPT ![b] = @ + 1]
           /\ block(Queues, b)
           /\ call' = [call EXCEPT ![t] = <<"barrier_wait", b>>]
  <2>1. Handler(t, b, {}, Queues) BY <1>0, HandlerQueues
  <2>2. /\ SchedulerTypeOK' /\ TaskPlacement'
        /\ \A u \in Tasks \ {t} :
             status'[u] = "BLOCKED" <=> status[u] = "BLOCKED" /\ u \notin {}
        /\ \A p \in WaitQueues : \A u \in Range(wait_queue'[p]) :
             u \in Range(wait_queue[p]) \/ (p = b /\ u = t)
    BY <1>0, <1>6, <2>1, HandlerBlocks
  <2>3. /\ call'[t] = <<"barrier_wait", b>> /\ \A u \in Tasks \ {t} : call'[u] = call[u]
        /\ call' \in [Tasks -> Calls]
    BY <1>4, <1>6, CallTypes
  <2>4. m' \in [Barriers -> Nat] BY <1>4, <1>6
  <2>5. Types' BY <1>0, <1>1, <1>2, <2>2, <2>3, <2>4 DEF Types
  <2>6. WaitersCalls'
    <3>1. CallFor(b, call'[t]) BY <2>3 DEF CallFor
    <3> QED BY <1>0, <1>3, <2>2, <2>3, <3>1, RunnerWaits
  <2>7. MutualExclusion' /\ SemaphoreConservation'
    <3>1. NoGrant(call'[t]) BY <2>3, NoGrantCalls
    <3>2. PICK W \in SUBSET Range(wait_queue[b]) : W = {} BY <1>0
    <3>3. \A u \in Tasks \ {t} :
            /\ status'[u] = "BLOCKED" <=> status[u] = "BLOCKED" /\ u \notin W
            /\ call'[u] = call[u]
      BY <2>2, <2>3, <3>2
    <3> QED BY <1>0, <1>1, <3>1, <3>3, NoLockInvolved
  <2> QED BY <2>2, <2>5, <2>6, <2>7 DEF IInv
<1> QED BY <1>5, <1>6 DEF barrier_wait

(***************************************************************************)
(* A call that involves the semaphore s only.                               *)
(***************************************************************************)
LEMMA OneSemaphore ==
  ASSUME IInv, NEW t \in Tasks, NEW s \in Semaphores,
         NEW W \in SUBSET Range(wait_queue[s]),
         \A l \in Locks : call[t] # <<"lock_acquire", l>> /\ call'[t] # <<"lock_acquire", l>>,
         \A r \in Semaphores \ {s} :
           call[t] # <<"semaphore_down", r>> /\ call'[t] # <<"semaphore_down", r>>,
         \A u \in Tasks \ {t} :
           /\ status'[u] = "BLOCKED" <=> status[u] = "BLOCKED" /\ u \notin W
           /\ call'[u] = call[u],
         holds' = holds, lock_status' = lock_status,
         \A r \in Semaphores \ {s} : value'[r] = value[r] /\ units'[r] = units[r],
         ConservedOn(s)'
  PROVE  MutualExclusion' /\ SemaphoreConservation'
<1>1. s \in WaitQueues /\ \A l \in Locks : l # s BY ObjectQueues, SyncAssumption
<1>2. \A u \in Tasks \ {t} :
        /\ status'[u] = "BLOCKED" <=> status[u] = "BLOCKED" /\ u \notin W
        /\ call'[u] = call[u] /\ holds'[u] = holds[u]
  OBVIOUS
<1>3. \A l \in Locks : MutexOn(l)'
  <2>1. \A l \in Locks : lock_status'[l] = lock_status[l] /\ (l \in holds'[t] <=> l \in holds[t])
    OBVIOUS
  <2> QED BY <1>1, <1>2, <2>1, OtherObjects
<1>4. \A r \in Semaphores \ {s} : ConservedOn(r)'
  BY <1>1, <1>2, OtherObjects
<1> QED BY <1>3, <1>4, MutexByLock, ConservationBySemaphore

LEMMA SemaphoreUpStep ==
  ASSUME IInv, NEW t \in Tasks, NEW s \in Semaphores, semaphore_up(t, s)
  PROVE  IInv'
<1>0. /\ Types /\ TaskPlacement /\ WaitersCalls /\ ConservedOn(s)
      /\ Running(t) /\ NoGrant(call[t]) /\ s \in WaitQueues
      /\ {} \in SUBSET Range(wait_queue[s])
  BY ObjectQueues, NoGrantCalls, ConservationBySemaphore
  DEF IInv, semaphore_up, ThreadCode, InUserCode
<1>1. /\ holds' = holds /\ lock_status' = lock_status /\ held_task' = held_task
      /\ m' = m /\ blocking_lock' = blocking_lock /\ calls' = calls /\ call' = call
      /\ units[s] < MaxUnits /\ units' = [units EXCEPT ![s] = @ + 1]
  BY DEF semaphore_up
<1>2. /\ value \in [Semaphores -> Nat] /\ units \in [Semaphores -> Int]
      /\ call \in [Tasks -> Calls] /\ MaxUnits \in Nat
      /\ \A r \in Semaphores : units[r] <= MaxUnits
  BY <1>0, SyncAssumption DEF Types
<1>3. /\ units' \in [Semaphores -> Int] /\ units'[s] = units[s] + 1
      /\ \A r \in Semaphores \ {s} : units'[r] = units[r]
      /\ \A r \in Semaphores : units'[r] <= MaxUnits
  BY <1>1, <1>2
<1>4. \A o \in WaitQueues : wait_queue[o] \in Seq(Tasks) /\ t \notin Range(wait_queue[o])
  BY <1>0, RunningThread, WaitQueueTypes
<1>5. /\ \A l \in Locks : call[t] # <<"lock_acquire", l>> /\ call'[t] # <<"lock_acquire", l>>
      /\ \A r \in Semaphores :
           call[t] # <<"semaphore_down", r>> /\ call'[t] # <<"semaphore_down", r>>
      /\ \A u \in Tasks \ {t} : call'[u] = call[u]
  BY <1>0, <1>1 DEF NoGrant
<1>6. IsFiniteSet(Down(s)) /\ Cardinality(Down(s)) \in Nat BY DownFinite
<1>7. CASE /\ wait_queue[s] # <<>>
           /\ Continue(unblock_one(Queues, s))
           /\ value' = value
  <2>1. PICK h \in Tasks : h = Head(wait_queue[s])
    BY <1>0, <1>7, UnblockOne DEF Types
  <2>2. PICK W \in SUBSET Range(wait_queue[s]) : W = {h}
    BY <1>0, <1>7, <2>1, HandlerQueues
  <2>3. Handler(t, s, W, unblock_one(Queues, s))
    BY <1>0, <1>7, <2>1, <2>2, HandlerQueues
  <2>4. /\ SchedulerTypeOK' /\ TaskPlacement'
        /\ \A u \in Tasks : status'[u] = "BLOCKED" <=> status[u] = "BLOCKED" /\ u \notin W
        /\ \A p \in WaitQueues : Range(wait_queue'[p]) \subseteq Range(wait_queue[p])
    BY <1>0, <1>7, <2>3, HandlerContinues
  <2>5. Types' BY <1>0, <1>1, <1>3, <1>7, <2>4 DEF Types
  <2>6. WaitersCalls' BY <1>0, <1>4, <1>5, <2>4, NobodyWaits
  <2>7. status[h] = "BLOCKED" /\ call[h] = <<"semaphore_down", s>>
    <3>1. h \in Range(wait_queue[s]) /\ status[h] = "BLOCKED"
      BY <1>0, <1>7, <2>1, UnblockOne DEF Types
    <3>2. CallFor(s, call[h]) BY <1>0, <3>1 DEF WaitersCalls
    <3> QED BY <3>1, <3>2, OneObject
  <2>8. Down(s)' = Down(s) \cup {h} /\ h \notin Down(s)
    <3>1. h \notin Down(s) BY <2>7 DEF Down, Granted
    <3>2. \A u \in Tasks : Granted(u, s, "semaphore_down")'
                             <=> Granted(u, s, "semaphore_down") \/ u = h
      BY <1>1, <2>2, <2>4, <2>7 DEF Granted
    <3> QED BY <3>1, <3>2 DEF Down
  <2>9. ConservedOn(s)'
    <3>1. Cardinality(Down(s) \cup {h}) = Cardinality(Down(s)) + 1
      BY <1>6, <2>8, FS_AddElement
    <3>2. Cardinality(Down(s)') = Cardinality(Down(s)) + 1 BY <2>8, <3>1
    <3>3. units[s] = value[s] + Cardinality(Down(s)) BY <1>0 DEF ConservedOn
    <3>4. units'[s] = value'[s] + Cardinality(Down(s)')
      BY <1>2, <1>3, <1>6, <1>7, <3>2, <3>3
    <3> QED BY <3>4 DEF ConservedOn
  <2>10. MutualExclusion' /\ SemaphoreConservation'
    <3>1. \A u \in Tasks \ {t} :
            /\ status'[u] = "BLOCKED" <=> status[u] = "BLOCKED" /\ u \notin W
            /\ call'[u] = call[u]
      BY <1>5, <2>4
    <3>2. \A r \in Semaphores \ {s} : value'[r] = value[r] /\ units'[r] = units[r]
      BY <1>3, <1>7
    <3> QED BY <1>1, <1>5, <2>9, <3>1, <3>2, OneSemaphore
  <2> QED BY <2>4, <2>5, <2>6, <2>10 DEF IInv
<1>8. CASE value' = [value EXCEPT ![s] = @ + 1] /\ UNCHANGED schedulerVars
  <2>1. /\ wait_queue' = wait_queue /\ status' = status
        /\ SchedulerTypeOK' /\ TaskPlacement'
    BY <1>0, <1>8 DEF schedulerVars, Types, SchedulerTypeOK, TaskPlacement, OnCPU, Placed
  <2>2. /\ value' \in [Semaphores -> Nat] /\ value'[s] = value[s] + 1
        /\ \A r \in Semaphores \ {s} : value'[r] = value[r]
    BY <1>2, <1>8
  <2>3. Types' BY <1>0, <1>1, <1>3, <2>1, <2>2 DEF Types
  <2>4. WaitersCalls' BY <1>0, <1>4, <1>5, <2>1, NobodyWaits
  <2>5. ConservedOn(s)'
    <3>1. Down(s)' = Down(s) BY <1>1, <2>1 DEF Down, Granted
    <3>2. units[s] = value[s] + Cardinality(Down(s)) BY <1>0 DEF ConservedOn
    <3>3. units'[s] = value'[s] + Cardinality(Down(s)')
      BY <1>2, <1>3, <1>6, <2>2, <3>1, <3>2
    <3> QED BY <3>3 DEF ConservedOn
  <2>6. MutualExclusion' /\ SemaphoreConservation'
    <3>1. PICK W \in SUBSET Range(wait_queue[s]) : W = {} BY <1>0
    <3>2. \A u \in Tasks \ {t} :
            /\ status'[u] = "BLOCKED" <=> status[u] = "BLOCKED" /\ u \notin W
            /\ call'[u] = call[u]
      BY <1>5, <2>1, <3>1
    <3> QED BY <1>1, <1>3, <1>5, <2>2, <2>5, <3>2, OneSemaphore
  <2> QED BY <2>1, <2>3, <2>4, <2>6 DEF IInv
<1> QED BY <1>7, <1>8 DEF semaphore_up

LEMMA SemaphoreDownStep ==
  ASSUME IInv, NEW t \in Tasks, NEW s \in Semaphores, semaphore_down(t, s)
  PROVE  IInv'
<1>0. /\ Types /\ TaskPlacement /\ WaitersCalls /\ ConservedOn(s)
      /\ Running(t) /\ NoGrant(call[t]) /\ s \in WaitQueues
      /\ {} \in SUBSET Range(wait_queue[s])
  BY ObjectQueues, NoGrantCalls, ConservationBySemaphore
  DEF IInv, semaphore_down, ThreadCode, InUserCode
<1>1. /\ holds' = holds /\ lock_status' = lock_status /\ held_task' = held_task
      /\ m' = m /\ blocking_lock' = blocking_lock /\ calls' = calls
  BY DEF semaphore_down
<1>2. /\ value \in [Semaphores -> Nat] /\ units \in [Semaphores -> Int]
      /\ call \in [Tasks -> Calls] /\ MaxUnits \in Nat
      /\ \A r \in Semaphores : units[r] <= MaxUnits
  BY <1>0, SyncAssumption DEF Types
<1>3. \A o \in WaitQueues : wait_queue[o] \in Seq(Tasks) /\ t \notin Range(wait_queue[o])
  BY <1>0, RunningThread, WaitQueueTypes
<1>4. IsFiniteSet(Down(s)) /\ Cardinality(Down(s)) \in Nat BY DownFinite
<1>5. PICK W \in SUBSET Range(wait_queue[s]) : W = {} BY <1>0
<1>6. units[s] = value[s] + Cardinality(Down(s)) BY <1>0 DEF ConservedOn
<1>7. CASE /\ block(Queues, s)
           /\ call' = [call EXCEPT ![t] = <<"semaphore_down", s>>]
           /\ value' = value /\ units' = units
  <2>1. Handler(t, s, {}, Queues) BY <1>0, HandlerQueues
  <2>2. /\ SchedulerTypeOK' /\ TaskPlacement' /\ status'[t] = "BLOCKED"
        /\ \A u \in Tasks \ {t} :
             status'[u] = "BLOCKED" <=> status[u] = "BLOCKED" /\ u \notin {}
        /\ \A p \in WaitQueues : \A u \in Range(wait_queue'[p]) :
             u \in Range(wait_queue[p]) \/ (p = s /\ u = t)
    BY <1>0, <1>7, <2>1, HandlerBlocks
  <2>3. /\ call'[t] = <<"semaphore_down", s>> /\ \A u \in Tasks \ {t} : call'[u] = call[u]
        /\ call' \in [Tasks -> Calls]
    BY <1>2, <1>7, CallTypes
  <2>4. Types' BY <1>0, <1>1, <1>7, <2>2, <2>3 DEF Types
  <2>5. WaitersCalls'
    <3>1. CallFor(s, call'[t]) BY <2>3 DEF CallFor
    <3> QED BY <1>0, <1>3, <2>2, <2>3, <3>1, RunnerWaits
  <2>6. ConservedOn(s)'
    <3>1. \A u \in Tasks : Granted(u, s, "semaphore_down")' <=> Granted(u, s, "semaphore_down")
      <4>1. Granted(t, s, "semaphore_down")' <=> Granted(t, s, "semaphore_down")
        BY <1>0, <2>2 DEF Granted, NoGrant
      <4>2. \A u \in Tasks \ {t} :
              Granted(u, s, "semaphore_down")' <=> Granted(u, s, "semaphore_down")
        BY <2>2, <2>3 DEF Granted
      <4> QED BY <4>1, <4>2
    <3> QED BY <1>0, <1>7, <3>1, ConservedKept
  <2>7. MutualExclusion' /\ SemaphoreConservation'
    <3>1. /\ \A l \in Locks : call[t] # <<"lock_acquire", l>> /\ call'[t] # <<"lock_acquire", l>>
          /\ \A r \in Semaphores \ {s} :
               call[t] # <<"semaphore_down", r>> /\ call'[t] # <<"semaphore_down", r>>
      BY <1>0, <2>3 DEF NoGrant
    <3>2. \A u \in Tasks \ {t} :
            /\ status'[u] = "BLOCKED" <=> status[u] = "BLOCKED" /\ u \notin W
            /\ call'[u] = call[u]
      BY <1>5, <2>2, <2>3
    <3>3. \A r \in Semaphores \ {s} : value'[r] = value[r] /\ units'[r] = units[r]
      BY <1>7
    <3> QED BY <1>1, <2>6, <3>1, <3>2, <3>3, OneSemaphore
  <2> QED BY <2>2, <2>4, <2>5, <2>7 DEF IInv
<1>8. CASE /\ value[s] > 0
           /\ value' = [value EXCEPT ![s] = @ - 1]
           /\ units' = [units EXCEPT ![s] = @ - 1]
           /\ UNCHANGED <<schedulerVars, call>>
  <2>1. /\ wait_queue' = wait_queue /\ status' = status /\ call' = call
        /\ SchedulerTypeOK' /\ TaskPlacement'
    BY <1>0, <1>8 DEF schedulerVars, Types, SchedulerTypeOK, TaskPlacement, OnCPU, Placed
  <2>2. /\ value' \in [Semaphores -> Nat] /\ value'[s] = value[s] - 1
        /\ \A r \in Semaphores \ {s} : value'[r] = value[r]
    BY <1>2, <1>8
  <2>3. /\ units' \in [Semaphores -> Int] /\ units'[s] = units[s] - 1
        /\ \A r \in Semaphores \ {s} : units'[r] = units[r]
        /\ \A r \in Semaphores : units'[r] <= MaxUnits
    BY <1>2, <1>8
  <2>4. Types' BY <1>0, <1>1, <2>1, <2>2, <2>3 DEF Types
  <2>5. /\ \A l \in Locks : call[t] # <<"lock_acquire", l>> /\ call'[t] # <<"lock_acquire", l>>
        /\ \A r \in Semaphores :
             call[t] # <<"semaphore_down", r>> /\ call'[t] # <<"semaphore_down", r>>
        /\ \A u \in Tasks \ {t} : call'[u] = call[u]
    BY <1>0, <2>1 DEF NoGrant
  <2>6. WaitersCalls' BY <1>0, <1>3, <2>1, <2>5, NobodyWaits
  <2>7. ConservedOn(s)'
    <3>1. Down(s)' = Down(s) BY <2>1 DEF Down, Granted
    <3>2. units'[s] = value'[s] + Cardinality(Down(s)')
      BY <1>2, <1>4, <1>6, <2>2, <2>3, <3>1
    <3> QED BY <3>2 DEF ConservedOn
  <2>8. MutualExclusion' /\ SemaphoreConservation'
    <3>1. \A u \in Tasks \ {t} :
            /\ status'[u] = "BLOCKED" <=> status[u] = "BLOCKED" /\ u \notin W
            /\ call'[u] = call[u]
      BY <1>5, <2>1, <2>5
    <3> QED BY <1>1, <2>2, <2>3, <2>5, <2>7, <3>1, OneSemaphore
  <2> QED BY <2>1, <2>4, <2>6, <2>8 DEF IInv
<1> QED BY <1>7, <1>8 DEF semaphore_down

-----------------------------------------------------------------------------
(* The rest of a call whose thread has been unblocked.                      *)

LEMMA ReturnFrame ==
  ASSUME IInv, NEW t \in Tasks, ReturnTo(t)
  PROVE  /\ Running(t) /\ status[t] # "BLOCKED"
         /\ SchedulerTypeOK' /\ TaskPlacement' /\ WaitersCalls'
         /\ wait_queue' = wait_queue /\ status' = status
         /\ call' \in [Tasks -> Calls] /\ NoGrant(call'[t])
         /\ \A u \in Tasks \ {t} : call'[u] = call[u]
<1>1. /\ Types /\ TaskPlacement /\ WaitersCalls /\ Running(t)
      /\ wait_queue' = wait_queue /\ status' = status
  BY DEF IInv, ReturnTo, schedulerVars
<1>2. SchedulerTypeOK' /\ TaskPlacement'
  BY <1>1 DEF ReturnTo, schedulerVars, Types, SchedulerTypeOK, TaskPlacement, OnCPU, Placed
<1>3. /\ call' \in [Tasks -> Calls] /\ call'[t] = UserCode
      /\ \A u \in Tasks \ {t} : call'[u] = call[u]
  BY <1>1, CallTypes DEF ReturnTo, Types
<1>4. status[t] # "BLOCKED"
      /\ \A o \in WaitQueues : wait_queue[o] \in Seq(Tasks) /\ t \notin Range(wait_queue[o])
  BY <1>1, RunningThread, WaitQueueTypes
<1>5. WaitersCalls' BY <1>1, <1>3, <1>4, NobodyWaits
<1> QED BY <1>1, <1>2, <1>3, <1>4, <1>5, NoGrantCalls

LEMMA ResumeAcquireStep ==
  ASSUME IInv, NEW t \in Tasks, NEW l \in Locks, resume_lock_acquire(t, l)
  PROVE  IInv'
<1>1. /\ ReturnTo(t) /\ call[t] = <<"lock_acquire", l>>
      /\ holds' = [holds EXCEPT ![t] = @ \cup {l}]
      /\ blocking_lock' = [blocking_lock EXCEPT ![t] = NULL]
      /\ lock_status' = lock_status /\ held_task' = held_task /\ value' = value
      /\ m' = m /\ units' = units /\ calls' = calls
  BY DEF resume_lock_acquire
<1>2. /\ status[t] # "BLOCKED"
      /\ SchedulerTypeOK' /\ TaskPlacement' /\ WaitersCalls'
      /\ wait_queue' = wait_queue /\ status' = status
      /\ call' \in [Tasks -> Calls] /\ NoGrant(call'[t])
      /\ \A u \in Tasks \ {t} : call'[u] = call[u]
  BY <1>1, ReturnFrame
<1>3. Types' BY <1>1, <1>2 DEF IInv, Types
<1>4. \A u \in Tasks : holds'[u] = IF u = t THEN holds[u] \cup {l} ELSE holds[u]
  BY <1>1 DEF IInv, Types
<1>5. \A k \in Locks : MutexOn(k)'
  <2> SUFFICES ASSUME NEW k \in Locks PROVE MutexOn(k)'
    OBVIOUS
  <2>1. Owns(t, k)' <=> Owns(t, k)
    BY <1>1, <1>2, <1>4 DEF Owns, Granted, NoGrant
  <2>2. \A u \in Tasks \ {t} : Owns(u, k)' <=> Owns(u, k)
    BY <1>2, <1>4 DEF Owns, Granted
  <2>3. MutexOn(k) BY MutexByLock DEF IInv
  <2> QED BY <1>1, <2>1, <2>2, <2>3, MutexKept
<1>6. \A s \in Semaphores : ConservedOn(s)'
  <2> SUFFICES ASSUME NEW s \in Semaphores PROVE ConservedOn(s)'
    OBVIOUS
  <2>1. Granted(t, s, "semaphore_down")' <=> Granted(t, s, "semaphore_down")
    BY <1>1, <1>2 DEF Granted, NoGrant
  <2>2. \A u \in Tasks \ {t} : Granted(u, s, "semaphore_down")' <=> Granted(u, s, "semaphore_down")
    BY <1>2 DEF Granted
  <2>3. ConservedOn(s) BY ConservationBySemaphore DEF IInv
  <2> QED BY <1>1, <2>1, <2>2, <2>3, ConservedKept
<1> QED BY <1>2, <1>3, <1>5, <1>6, MutexByLock, ConservationBySemaphore DEF IInv

LEMMA ResumeDownStep ==
  ASSUME IInv, NEW t \in Tasks, NEW s \in Semaphores, resume_semaphore_down(t, s)
  PROVE  IInv'
<1>1. /\ ReturnTo(t) /\ call[t] = <<"semaphore_down", s>>
      /\ units' = [units EXCEPT ![s] = @ - 1]
      /\ blocking_lock' = blocking_lock /\ holds' = holds
      /\ lock_status' = lock_status /\ held_task' = held_task /\ value' = value
      /\ m' = m /\ calls' = calls
  BY DEF resume_semaphore_down, objectVars
<1>2. /\ status[t] # "BLOCKED"
      /\ SchedulerTypeOK' /\ TaskPlacement' /\ WaitersCalls'
      /\ wait_queue' = wait_queue /\ status' = status
      /\ call' \in [Tasks -> Calls] /\ NoGrant(call'[t])
      /\ \A u \in Tasks \ {t} : call'[u] = call[u]
  BY <1>1, ReturnFrame
<1>3. /\ units \in [Semaphores -> Int] /\ value \in [Semaphores -> Nat] /\ MaxUnits \in Nat
      /\ \A r \in Semaphores : units[r] <= MaxUnits
  BY SyncAssumption DEF IInv, Types
<1>4. /\ units' \in [Semaphores -> Int] /\ units'[s] = units[s] - 1
      /\ \A r \in Semaphores : r # s => units'[r] = units[r]
      /\ \A r \in Semaphores : units'[r] <= MaxUnits
  BY <1>1, <1>3
<1>5. Types' BY <1>1, <1>2, <1>4 DEF IInv, Types
<1>6. \A k \in Locks : MutexOn(k)'
  <2> SUFFICES ASSUME NEW k \in Locks PROVE MutexOn(k)'
    OBVIOUS
  <2>1. Owns(t, k)' <=> Owns(t, k)
    BY <1>1, <1>2 DEF Owns, Granted, NoGrant
  <2>2. \A u \in Tasks \ {t} : Owns(u, k)' <=> Owns(u, k)
    BY <1>1, <1>2 DEF Owns, Granted
  <2>3. MutexOn(k) BY MutexByLock DEF IInv
  <2> QED BY <1>1, <2>1, <2>2, <2>3, MutexKept
<1>7. ConservedOn(s)'
  <2>1. t \in Down(s) BY <1>1, <1>2 DEF Down, Granted
  <2>2. Down(s)' = Down(s) \ {t}
    <3>1. ~Granted(t, s, "semaphore_down")' BY <1>2 DEF Granted, NoGrant
    <3>2. \A u \in Tasks \ {t} :
            Granted(u, s, "semaphore_down")' <=> Granted(u, s, "semaphore_down")
      BY <1>2 DEF Granted
    <3> QED BY <3>1, <3>2 DEF Down
  <2>3. Cardinality(Down(s) \ {t}) = Cardinality(Down(s)) - 1
    BY <2>1, DownFinite, FS_RemoveElement
  <2>4. units[s] = value[s] + Cardinality(Down(s)) /\ Cardinality(Down(s)) \in Nat
    BY DownFinite, ConservationBySemaphore DEF IInv, ConservedOn
  <2>5. Cardinality(Down(s)') = Cardinality(Down(s)) - 1 BY <2>2, <2>3
  <2>6. units'[s] = value'[s] + Cardinality(Down(s)')
    BY <1>1, <1>3, <1>4, <2>4, <2>5
  <2> QED BY <2>6 DEF ConservedOn
<1>8. ASSUME NEW r \in Semaphores, r # s PROVE ConservedOn(r)'
  <2>1. Granted(t, r, "semaphore_down")' <=> Granted(t, r, "semaphore_down")
    BY <1>1, <1>2, <1>8 DEF Granted, NoGrant
  <2>2. \A u \in Tasks \ {t} : Granted(u, r, "semaphore_down")' <=> Granted(u, r, "semaphore_down")
    BY <1>2 DEF Granted
  <2>3. ConservedOn(r) BY ConservationBySemaphore DEF IInv
  <2> QED BY <1>1, <1>4, <1>8, <2>1, <2>2, <2>3, ConservedKept
<1> QED BY <1>2, <1>5, <1>6, <1>7, <1>8, MutexByLock, ConservationBySemaphore DEF IInv

LEMMA ResumeBarrierStep ==
  ASSUME IInv, NEW t \in Tasks, NEW b \in Barriers, resume_barrier_wait(t, b)
  PROVE  IInv'
<1>1. /\ ReturnTo(t) /\ call[t] = <<"barrier_wait", b>>
      /\ blocking_lock' = blocking_lock /\ holds' = holds /\ units' = units
      /\ lock_status' = lock_status /\ held_task' = held_task /\ value' = value
      /\ m' = m /\ calls' = calls
  BY DEF resume_barrier_wait, objectVars
<1>2. /\ SchedulerTypeOK' /\ TaskPlacement' /\ WaitersCalls'
      /\ wait_queue' = wait_queue /\ status' = status
      /\ call' \in [Tasks -> Calls] /\ NoGrant(call'[t])
      /\ \A u \in Tasks \ {t} : call'[u] = call[u]
  BY <1>1, ReturnFrame
<1>3. Types' BY <1>1, <1>2 DEF IInv, Types
<1>4. b \in WaitQueues /\ NoGrant(call[t]) BY <1>1, ObjectQueues, NoGrantCalls
<1>5. PICK W \in SUBSET Range(wait_queue[b]) : W = {} OBVIOUS
<1>6. \A u \in Tasks \ {t} :
        /\ status'[u] = "BLOCKED" <=> status[u] = "BLOCKED" /\ u \notin W
        /\ call'[u] = call[u]
  BY <1>2, <1>5
<1>7. MutualExclusion' /\ SemaphoreConservation'
  BY <1>1, <1>2, <1>4, <1>6, NoLockInvolved
<1> QED BY <1>2, <1>3, <1>7 DEF IInv

LEMMA ResumeStep ==
  ASSUME IInv, NEW t \in Tasks, Resume(t)
  PROVE  IInv'
<1>1. ASSUME NEW l \in Locks, resume_condition_wait(t, l) PROVE IInv'
  <2>1. Running(t) /\ NoGrant(call[t]) /\ lock_acquire_helper(t, l)
    BY <1>1, NoGrantCalls DEF resume_condition_wait
  <2> QED BY <2>1, AcquireHelperStep
<1> QED BY <1>1, ResumeAcquireStep, ResumeDownStep, ResumeBarrierStep DEF Resume

-----------------------------------------------------------------------------
LEMMA InitInvariant == Init => IInv
<1> SUFFICES ASSUME Init PROVE IInv
  OBVIOUS
<1>1. SchedulerTypeOK /\ TaskPlacement BY SchedulerInitPlaced DEF Init
<1>2. /\ lock_status = [l \in Locks |-> "UNLOCKED"] /\ held_task = [l \in Locks |-> NULL]
      /\ blocking_lock = [t \in Tasks |-> NULL] /\ value = InitValue
      /\ m = [b \in Barriers |-> 0] /\ call = [t \in Tasks |-> UserCode]
      /\ holds = [t \in Tasks |-> {}] /\ units = InitValue
      /\ calls = [t \in Tasks |-> [b \in Barriers |-> 0]]
      /\ wait_queue = [o \in WaitQueues |-> <<>>]
  BY DEF Init, SchedulerInit
<1>3. InitValue \in [Semaphores -> 0 .. MaxUnits] /\ MaxUnits \in Nat /\ MaxCalls \in Nat
  BY SyncAssumption
<1>4. Types
  <2>1. lock_status \in [Locks -> {"UNLOCKED", "LOCKED"}] BY <1>2
  <2>2. held_task \in [Locks -> Tasks \cup {NULL}] BY <1>2
  <2>3. blocking_lock \in [Tasks -> Locks \cup {NULL}] BY <1>2
  <2>4. value \in [Semaphores -> Nat] /\ m \in [Barriers -> Nat] BY <1>2, <1>3
  <2>5. call \in [Tasks -> Calls] BY <1>2, CallTypes
  <2>6. holds \in [Tasks -> SUBSET Locks] BY <1>2
  <2>7. units \in [Semaphores -> Int] /\ \A s \in Semaphores : units[s] <= MaxUnits
    BY <1>2, <1>3
  <2>8. calls \in [Tasks -> [Barriers -> 0 .. MaxCalls]] BY <1>2, <1>3
  <2> QED BY <1>1, <2>1, <2>2, <2>3, <2>4, <2>5, <2>6, <2>7, <2>8 DEF Types
<1>5. WaitersCalls
  <2>1. Range(<<>>) = {} BY DEF Range
  <2> QED BY <1>2, <2>1 DEF WaitersCalls
<1>6. MutualExclusion
  <2>1. \A l \in Locks : \A t \in Tasks : ~Owns(t, l)
    BY <1>2 DEF Owns, Granted, UserCode
  <2> QED BY <1>2, <2>1, MutexByLock DEF MutexOn
<1>7. SemaphoreConservation
  <2>1. ASSUME NEW s \in Semaphores PROVE ConservedOn(s)
    <3>1. Down(s) = {} BY <1>2 DEF Down, Granted, UserCode
    <3>2. Cardinality(Down(s)) = 0 BY <3>1, FS_EmptySet
    <3>3. InitValue[s] \in Int BY <1>3
    <3> QED BY <1>2, <3>2, <3>3 DEF ConservedOn
  <2> QED BY <2>1, ConservationBySemaphore
<1> QED BY <1>1, <1>4, <1>5, <1>6, <1>7 DEF IInv

LEMMA NextInvariant == IInv /\ [Next]_vars => IInv'
<1> SUFFICES ASSUME IInv, [Next]_vars PROVE IInv'
  OBVIOUS
<1>0. Types /\ SchedulerTypeOK /\ TaskPlacement BY DEF IInv, Types
<1>1. CASE Kernel
  <2>1. timer_irq \/ idle_loop BY <1>1 DEF Kernel
  <2>2. SchedulerTypeOK' /\ TaskPlacement' BY <1>0, <2>1, KernelPlaced
  <2>3. /\ wait_queue' = wait_queue
        /\ \A t \in Tasks : status'[t] = "BLOCKED" <=> status[t] = "BLOCKED"
    BY <1>0, <2>1, OthersBlock
  <2>4. UNCHANGED <<objectVars, clientVars>> BY <1>1 DEF Kernel
  <2> QED BY <2>2, <2>3, <2>4, Quiet
<1>2. ASSUME NEW t \in Tasks, LockCall(t) PROVE IInv'
  <2>1. ASSUME NEW l \in Locks, lock_acquire(t, l) PROVE IInv'
    <3>1. Running(t) /\ NoGrant(call[t]) /\ lock_acquire_helper(t, l)
      BY <2>1, NoGrantCalls DEF lock_acquire, ThreadCode, InUserCode
    <3> QED BY <3>1, AcquireHelperStep
  <2> QED BY <1>2, <2>1, ReleaseStep DEF LockCall
<1>3. ASSUME NEW t \in Tasks, ConditionCall(t) PROVE IInv'
  BY <1>3, ConditionWaitStep, NotifyStep DEF ConditionCall
<1>4. ASSUME NEW t \in Tasks, SemaphoreCall(t) PROVE IInv'
  BY <1>4, SemaphoreUpStep, SemaphoreDownStep DEF SemaphoreCall
<1>5. ASSUME NEW t \in Tasks, BarrierCall(t) PROVE IInv'
  BY <1>5, BarrierStep DEF BarrierCall
<1>6. ASSUME NEW t \in Tasks, Resume(t) PROVE IInv'
  BY <1>6, ResumeStep
<1>7. ASSUME NEW t \in Tasks, yield(t) \/ sleep(t) \/ exit(t) PROVE IInv'
  <2>1. /\ ~idle /\ UNCHANGED <<objectVars, clientVars>>
        /\ do_yield \/ (\E ticks \in 1 .. MaxSleep : do_sleep(ticks)) \/ do_exit
    BY <1>7 DEF yield, sleep, exit, InUserCode, Running
  <2>2. SchedulerTypeOK' /\ TaskPlacement'
    <3>1. CASE do_yield
      <4>1. deadline \in [Tasks -> 0 .. MaxSleep] BY <1>0 DEF SchedulerTypeOK
      <4> QED BY <1>0, <2>1, <3>1, <4>1, RequeuePlaced DEF do_yield
    <3>2. CASE \E ticks \in 1 .. MaxSleep : do_sleep(ticks) BY <1>0, <2>1, <3>2, SleepPlaced
    <3>3. CASE do_exit BY <1>0, <2>1, <3>3, ExitPlaced
    <3> QED BY <2>1, <3>1, <3>2, <3>3
  <2>3. /\ wait_queue' = wait_queue
        /\ \A u \in Tasks : status'[u] = "BLOCKED" <=> status[u] = "BLOCKED"
    BY <1>0, <2>1, OthersBlock
  <2> QED BY <2>1, <2>2, <2>3, Quiet
<1>8. CASE UNCHANGED vars
  <2>1. UNCHANGED <<objectVars, clientVars>> /\ UNCHANGED schedulerVars BY <1>8 DEF vars
  <2>2. /\ wait_queue' = wait_queue /\ status' = status
        /\ SchedulerTypeOK' /\ TaskPlacement'
    BY <1>0, <2>1 DEF schedulerVars, SchedulerTypeOK, TaskPlacement, OnCPU, Placed
  <2> QED BY <2>1, <2>2, Quiet
<1> QED BY <1>1, <1>2, <1>3, <1>4, <1>5, <1>6, <1>7, <1>8 DEF Next

LEMMA Invariance == Spec => []IInv
BY InitInvariant, NextInvariant, PTL DEF Spec

(***************************************************************************)
(* Every variable keeps its type; in particular the value of a semaphore     *)
(* never becomes negative nor exceeds the units there are (sync.c:136-155).  *)
(***************************************************************************)
THEOREM TypeCorrect == Spec => []SyncTypeOK
<1>1. IInv => SyncTypeOK BY UnitsBounded DEF IInv
<1> QED BY <1>1, Invariance, PTL

(***************************************************************************)
(* No task is lost by the scheduler or by a primitive, and none is in two    *)
(* queues: block, unblock_one, check_sleeping and scheduler() move a task     *)
(* from one place to exactly one other (scheduler.c, sync.c:11-23).          *)
(***************************************************************************)
THEOREM TasksPlaced == Spec => []TaskPlacement
<1>1. IInv => TaskPlacement BY DEF IInv
<1> QED BY <1>1, Invariance, PTL

(***************************************************************************)
(* A lock has one owner at most, and is LOCKED exactly while it has one,     *)
(* across hand-off and re-acquisition (sync.c:42-110).                       *)
(***************************************************************************)
THEOREM LocksExclude == Spec => []MutualExclusion
<1>1. IInv => MutualExclusion BY DEF IInv
<1> QED BY <1>1, Invariance, PTL

(***************************************************************************)
(* Semaphore units are neither lost nor made (sync.c:136-155).               *)
(***************************************************************************)
THEOREM UnitsConserved == Spec => []SemaphoreConservation
<1>1. IInv => SemaphoreConservation BY DEF IInv
<1> QED BY <1>1, Invariance, PTL

-----------------------------------------------------------------------------
(***************************************************************************)
(* Why threads wait, object by object, relative to IInv.  Of a barrier: every *)
(* party has made r calls, and those on its queue one more.                  *)
(***************************************************************************)
LockReason(l) == wait_queue[l] # <<>> => lock_status[l] = "LOCKED"

SemaphoreReason(s) == wait_queue[s] # <<>> => value[s] = 0

CallsAre(b, r) ==
  \A u \in Parties[b] : calls[u][b] = IF u \in Range(wait_queue[b]) THEN r + 1 ELSE r

Round(b) ==
  /\ Range(wait_queue[b]) \subseteq Parties[b]
  /\ Len(wait_queue[b]) = m[b] /\ (m[b] > 0 => m[b] < n(b))
  /\ \E r \in Nat : CallsAre(b, r)

QInv ==
  /\ \A l \in Locks : LockReason(l)
  /\ \A s \in Semaphores : SemaphoreReason(s)
  /\ \A b \in Barriers : Round(b)

(***************************************************************************)
(* A step that concerns the objects O only keeps the reasons of the others.   *)
(***************************************************************************)
Only(O) ==
  /\ \A p \in WaitQueues : p \notin O \cup Conditions => wait_queue'[p] = wait_queue[p]
  /\ \A l \in Locks : l \notin O => lock_status'[l] = lock_status[l]
  /\ \A s \in Semaphores : s \notin O => value'[s] = value[s]
  /\ \A b \in Barriers :
       b \notin O => m'[b] = m[b] /\ \A u \in Tasks : calls'[u][b] = calls[u][b]

LEMMA ReasonsOfOthers ==
  ASSUME QInv, NEW O, Only(O)
  PROVE  /\ \A l \in Locks : l \notin O => LockReason(l)'
         /\ \A s \in Semaphores : s \notin O => SemaphoreReason(s)'
         /\ \A b \in Barriers : b \notin O => Round(b)'
<1>1. ASSUME NEW l \in Locks, l \notin O PROVE LockReason(l)'
  <2>1. wait_queue'[l] = wait_queue[l] BY <1>1, ObjectQueues, SyncAssumption DEF Only
  <2> QED BY <1>1, <2>1 DEF QInv, LockReason, Only
<1>2. ASSUME NEW s \in Semaphores, s \notin O PROVE SemaphoreReason(s)'
  <2>1. wait_queue'[s] = wait_queue[s] BY <1>2, ObjectQueues, SyncAssumption DEF Only
  <2> QED BY <1>2, <2>1 DEF QInv, SemaphoreReason, Only
<1>3. ASSUME NEW b \in Barriers, b \notin O PROVE Round(b)'
  <2>1. wait_queue'[b] = wait_queue[b] BY <1>3, ObjectQueues, SyncAssumption DEF Only
  <2>2. m'[b] = m[b] /\ \A u \in Parties[b] : calls'[u][b] = calls[u][b]
    BY <1>3, SyncAssumption, SchedulerAssumption DEF Only
  <2>3. Round(b) BY DEF QInv
  <2>4. PICK r \in Nat : CallsAre(b, r) BY <2>3 DEF Round
  <2>5. CallsAre(b, r)' BY <2>1, <2>2, <2>4 DEF CallsAre
  <2> QED BY <2>1, <2>2, <2>3, <2>5 DEF Round, n
<1> QED BY <1>1, <1>2, <1>3

LEMMA ReasonsKept ==
  ASSUME QInv,
         \A p \in WaitQueues : p \notin Conditions => wait_queue'[p] = wait_queue[p],
         UNCHANGED <<lock_status, value, m, calls>>
  PROVE  QInv'
<1>1. Only({}) BY DEF Only
<1> QED BY <1>1, ReasonsOfOthers DEF QInv

LEMMA LockAlone ==
  ASSUME QInv, NEW l \in Locks, Only({l}), LockReason(l)'
  PROVE  QInv'
<1>1. \A s \in Semaphores \cup Barriers : s # l BY SyncAssumption
<1> QED BY <1>1, ReasonsOfOthers DEF QInv

LEMMA SemaphoreAlone ==
  ASSUME QInv, NEW s \in Semaphores, Only({s}), SemaphoreReason(s)'
  PROVE  QInv'
<1>1. \A l \in Locks \cup Barriers : l # s BY SyncAssumption
<1> QED BY <1>1, ReasonsOfOthers DEF QInv

LEMMA BarrierAlone ==
  ASSUME QInv, NEW b \in Barriers, Only({b}), Round(b)'
  PROVE  QInv'
<1>1. \A l \in Locks \cup Semaphores : l # b BY SyncAssumption
<1> QED BY <1>1, ReasonsOfOthers DEF QInv

(***************************************************************************)
(* The wait queues that the helpers leave.                                  *)
(***************************************************************************)
LEMMA QueuesAfter ==
  ASSUME Types, NEW o \in WaitQueues
  PROVE  /\ unblock_one(Queues, o).waiting \in [WaitQueues -> Seq(Tasks)]
         /\ unblock_all(Queues, o).waiting \in [WaitQueues -> Seq(Tasks)]
         /\ Queues.waiting \in [WaitQueues -> Seq(Tasks)]
         /\ \A p \in WaitQueues :
              /\ Queues.waiting[p] = wait_queue[p]
              /\ unblock_one(Queues, o).waiting[p]
                   = IF p = o /\ wait_queue[o] # <<>> THEN Tail(wait_queue[o]) ELSE wait_queue[p]
              /\ unblock_all(Queues, o).waiting[p] = IF p = o THEN <<>> ELSE wait_queue[p]
<1>1. wait_queue \in [WaitQueues -> Seq(Tasks)] /\ Queues.waiting = wait_queue
  BY DEF Types, SchedulerTypeOK, Queues
<1>2. wait_queue[o] # <<>> => Tail(wait_queue[o]) \in Seq(Tasks) BY <1>1, DequeueRange
<1>3. unblock_one(Queues, o).waiting
        = IF wait_queue[o] = <<>> THEN wait_queue ELSE [wait_queue EXCEPT ![o] = Tail(@)]
  BY <1>1 DEF unblock_one
<1>4. unblock_all(Queues, o).waiting = [wait_queue EXCEPT ![o] = <<>>]
  BY <1>1 DEF unblock_all
<1>5. <<>> \in Seq(Tasks) BY EmptySeq
<1> QED BY <1>1, <1>2, <1>3, <1>4, <1>5

LEMMA BlockAppends ==
  ASSUME NEW qs, qs.waiting \in [WaitQueues -> Seq(Tasks)], NEW x \in WaitQueues, block(qs, x)
  PROVE  \A p \in WaitQueues :
           wait_queue'[p] = IF p = x THEN Append(qs.waiting[x], current_running) ELSE qs.waiting[p]
BY DEF block

(***************************************************************************)
(* The number of tasks on a queue without repetitions.                       *)
(***************************************************************************)
LEMMA QueueCount ==
  ASSUME NEW S, NEW q \in Seq(S), IsInjective(q)
  PROVE  IsFiniteSet(Range(q)) /\ Cardinality(Range(q)) = Len(q)
<1>1. Len(q) \in Nat /\ DOMAIN q = 1 .. Len(q) BY LenProperties
<1>2. q \in [1 .. Len(q) -> Range(q)] BY <1>1, SeqDef DEF Range
<1>3. q \in Bijection(1 .. Len(q), Range(q))
  BY <1>1, <1>2 DEF Bijection, Injection, Surjection, Range
<1>4. ExistsBijection(1 .. Len(q), Range(q)) BY <1>3 DEF ExistsBijection
<1> QED BY <1>1, <1>4, FS_CountingElements, FS_NatBijection
-----------------------------------------------------------------------------
(* Per call.                                                                 *)
LEMMA AcquireReasons ==
  ASSUME IInv, QInv, NEW t \in Tasks, NEW l \in Locks, Running(t), lock_acquire_helper(t, l)
  PROVE  QInv'
<1>1. Types /\ l \in WaitQueues /\ current_running = t BY ObjectQueues DEF IInv, Running
<1>2. /\ Queues.waiting \in [WaitQueues -> Seq(Tasks)]
      /\ \A p \in WaitQueues : Queues.waiting[p] = wait_queue[p]
  BY <1>1, QueuesAfter
<1>3. UNCHANGED <<value, m, calls>> BY DEF lock_acquire_helper
<1>4. lock_status \in [Locks -> {"UNLOCKED", "LOCKED"}] BY <1>1 DEF Types
<1>6. CASE /\ lock_status' = [lock_status EXCEPT ![l] = "LOCKED"] /\ Continue(Queues)
  <2>1. \A p \in WaitQueues : wait_queue'[p] = wait_queue[p] BY <1>2, <1>6 DEF Continue
  <2>2. lock_status'[l] = "LOCKED" /\ \A k \in Locks : k # l => lock_status'[k] = lock_status[k]
    BY <1>4, <1>6
  <2>3. LockReason(l)' BY <2>2 DEF LockReason
  <2>4. Only({l}) BY <1>3, <2>1, <2>2 DEF Only
  <2> QED BY <2>3, <2>4, LockAlone
<1>7. CASE lock_status[l] = "LOCKED" /\ block(Queues, l) /\ UNCHANGED lock_status
  <2>1. \A p \in WaitQueues : p # l => wait_queue'[p] = wait_queue[p]
    BY <1>1, <1>2, <1>7, BlockAppends
  <2>2. LockReason(l)' BY <1>7 DEF LockReason
  <2>3. Only({l}) BY <1>3, <1>7, <2>1 DEF Only
  <2> QED BY <2>2, <2>3, LockAlone
<1> QED BY <1>6, <1>7 DEF lock_acquire_helper

(* lock_release, and the first half of condition_wait. *)
LEMMA ReleaseReasons ==
  ASSUME IInv, QInv, NEW t \in Tasks, NEW l \in Locks, Running(t), lock_release_helper(t, l),
         UNCHANGED <<value, m, calls>>,
         \/ Continue(unblock_one(Queues, l))
         \/ \E c \in Conditions : block(unblock_one(Queues, l), c)
  PROVE  QInv'
<1>1. Types /\ l \in WaitQueues BY ObjectQueues DEF IInv
<1>2. /\ unblock_one(Queues, l).waiting \in [WaitQueues -> Seq(Tasks)]
      /\ \A p \in WaitQueues :
           unblock_one(Queues, l).waiting[p]
             = IF p = l /\ wait_queue[l] # <<>> THEN Tail(wait_queue[l]) ELSE wait_queue[p]
  BY <1>1, QueuesAfter
<1>3. \A p \in WaitQueues : p \notin Conditions =>
        wait_queue'[p] = IF p = l /\ wait_queue[l] # <<>> THEN Tail(wait_queue[l]) ELSE wait_queue[p]
  <2>1. CASE Continue(unblock_one(Queues, l)) BY <2>1, <1>2 DEF Continue
  <2>2. CASE \E c \in Conditions : block(unblock_one(Queues, l), c)
    <3>1. PICK c \in Conditions : block(unblock_one(Queues, l), c) BY <2>2
    <3>2. c \in WaitQueues BY ObjectQueues
    <3>3. \A p \in WaitQueues : p # c => wait_queue'[p] = unblock_one(Queues, l).waiting[p]
      BY <1>2, <3>1, <3>2, BlockAppends
    <3> QED BY <1>2, <3>3
  <2> QED BY <2>1, <2>2
<1>4. l \notin Conditions \cup Semaphores \cup Barriers BY SyncAssumption
<1>5. lock_status \in [Locks -> {"UNLOCKED", "LOCKED"}] BY <1>1 DEF Types
<1>6. \A k \in Locks : k # l => lock_status'[k] = lock_status[k]
  BY <1>5 DEF lock_release_helper
<1>7. LockReason(l)'
  <2>1. CASE wait_queue[l] = <<>>
    <3>1. wait_queue'[l] = <<>> BY <1>1, <1>3, <1>4, <2>1
    <3> QED BY <3>1 DEF LockReason
  <2>2. CASE wait_queue[l] # <<>>
    BY <2>2 DEF QInv, LockReason, lock_release_helper
  <2> QED BY <2>1, <2>2
<1>8. Only({l}) BY <1>3, <1>6 DEF Only
<1> QED BY <1>7, <1>8, LockAlone

LEMMA SemaphoreReasons ==
  ASSUME IInv, QInv, NEW t \in Tasks, NEW s \in Semaphores,
         semaphore_up(t, s) \/ semaphore_down(t, s)
  PROVE  QInv'
<1>1. /\ Types /\ s \in WaitQueues /\ s \notin Locks \cup Conditions \cup Barriers
      /\ UNCHANGED <<lock_status, m, calls>>
  BY ObjectQueues, SyncAssumption DEF IInv, semaphore_up, semaphore_down
<1>2. /\ value \in [Semaphores -> Nat] /\ SemaphoreReason(s) /\ value[s] \in Nat
      /\ wait_queue \in [WaitQueues -> Seq(Tasks)]
  BY <1>1 DEF Types, QInv, SchedulerTypeOK
<1>4. CASE Continue(unblock_one(Queues, s)) /\ UNCHANGED value
  <2>1. \A p \in WaitQueues :
          wait_queue'[p] = IF p = s /\ wait_queue[s] # <<>> THEN Tail(wait_queue[s]) ELSE wait_queue[p]
    BY <1>1, <1>4, QueuesAfter DEF Continue
  <2>2. SemaphoreReason(s)' BY <1>1, <1>2, <1>4, <2>1 DEF SemaphoreReason
  <2>3. Only({s}) BY <1>1, <1>4, <2>1 DEF Only
  <2> QED BY <2>2, <2>3, SemaphoreAlone
<1>5. CASE /\ wait_queue[s] = <<>> \/ value[s] > 0
           /\ value' = [value EXCEPT ![s] = @ + 1] \/ value' = [value EXCEPT ![s] = @ - 1]
           /\ UNCHANGED wait_queue
  <2>1. wait_queue[s] = <<>> BY <1>2, <1>5 DEF SemaphoreReason
  <2>2. SemaphoreReason(s)' BY <1>5, <2>1 DEF SemaphoreReason
  <2>3. \A r \in Semaphores : r # s => value'[r] = value[r] BY <1>2, <1>5
  <2>4. Only({s}) BY <1>1, <1>5, <2>3 DEF Only
  <2> QED BY <2>2, <2>4, SemaphoreAlone
<1>6. CASE value[s] <= 0 /\ block(Queues, s) /\ UNCHANGED value
  <2>0. /\ Queues.waiting \in [WaitQueues -> Seq(Tasks)]
        /\ \A p \in WaitQueues : Queues.waiting[p] = wait_queue[p]
    BY <1>1, QueuesAfter
  <2>1. \A p \in WaitQueues : p # s => wait_queue'[p] = wait_queue[p]
    BY <1>1, <1>6, <2>0, BlockAppends
  <2>2. SemaphoreReason(s)'
    <3>1. value[s] = 0 BY <1>2, <1>6
    <3> QED BY <1>6, <3>1 DEF SemaphoreReason
  <2>3. Only({s}) BY <1>1, <1>6, <2>1 DEF Only
  <2> QED BY <2>2, <2>3, SemaphoreAlone
<1>7. CASE semaphore_up(t, s)
  <2>1. ~ (value[s] <= 0) => value[s] > 0 BY <1>2
  <2> QED BY <1>4, <1>5, <1>7, <2>1 DEF semaphore_up, schedulerVars
<1>8. CASE semaphore_down(t, s)
  BY <1>5, <1>6, <1>8 DEF semaphore_down, schedulerVars
<1> QED BY <1>7, <1>8

(***************************************************************************)
(* The threads that wait at b are parties of it, as many as m[b] says; when   *)
(* all but the caller do, they are all the others.                           *)
(***************************************************************************)
LEMMA AllOthersWait ==
  ASSUME IInv, QInv, NEW t \in Tasks, NEW b \in Barriers, t \in Parties[b],
         t \notin Range(wait_queue[b])
  PROVE  /\ n(b) \in Nat /\ m[b] < n(b)
         /\ m[b] >= n(b) - 1 => Range(wait_queue[b]) = Parties[b] \ {t}
<1>1. IsFiniteSet(Parties[b])
  BY SyncAssumption, SchedulerAssumption, FS_Subset
<1>2. n(b) \in Nat /\ n(b) = Cardinality(Parties[b]) BY <1>1, FS_CardinalityType DEF n
<1>3. IsFiniteSet(Parties[b] \ {t}) /\ Cardinality(Parties[b] \ {t}) = n(b) - 1
  BY <1>1, <1>2, FS_RemoveElement
<1>4. /\ wait_queue[b] \in Seq(Tasks) /\ IsInjective(wait_queue[b])
      /\ Range(wait_queue[b]) \subseteq Parties[b] \ {t} /\ Len(wait_queue[b]) = m[b]
      /\ m[b] \in Nat
  BY ObjectQueues DEF IInv, Types, SchedulerTypeOK, TaskPlacement, Placed, QInv, Round
<1>5. Cardinality(Range(wait_queue[b])) = m[b] BY <1>4, QueueCount
<1>6. /\ m[b] <= n(b) - 1
      /\ n(b) - 1 = m[b] => Parties[b] \ {t} = Range(wait_queue[b])
  BY <1>3, <1>4, <1>5, FS_Subset
<1> QED BY <1>2, <1>4, <1>6

LEMMA BarrierReasons ==
  ASSUME IInv, QInv, NEW t \in Tasks, NEW b \in Barriers, barrier_wait(t, b)
  PROVE  QInv'
<1>1. /\ Types /\ TaskPlacement /\ b \in WaitQueues /\ Running(t) /\ current_running = t
      /\ b \notin Locks \cup Conditions \cup Semaphores
      /\ t \in Parties[b] /\ calls' = [calls EXCEPT ![t][b] = @ + 1]
      /\ UNCHANGED <<lock_status, value>>
  BY ObjectQueues, SyncAssumption
  DEF IInv, barrier_wait, ThreadCode, InUserCode, Running
<1>2. /\ wait_queue[b] \in Seq(Tasks) /\ m \in [Barriers -> Nat] /\ m[b] \in Nat
      /\ calls \in [Tasks -> [Barriers -> 0 .. MaxCalls]]
      /\ Parties[b] \subseteq Tasks
  BY <1>1, SyncAssumption, SchedulerAssumption DEF Types, SchedulerTypeOK
<1>3. t \notin Range(wait_queue[b]) BY <1>1, RunningThread
<1>4. /\ Round(b) /\ n(b) \in Nat /\ m[b] < n(b)
      /\ m[b] >= n(b) - 1 => Range(wait_queue[b]) = Parties[b] \ {t}
  BY <1>1, <1>3, AllOthersWait DEF QInv
<1>5. PICK r \in Nat : CallsAre(b, r) BY <1>4 DEF Round
<1>6. /\ calls'[t][b] = r + 1
      /\ \A u \in Parties[b] : u # t => calls'[u][b] = calls[u][b]
      /\ \A u \in Tasks : \A c \in Barriers : c # b => calls'[u][c] = calls[u][c]
  <2>1. calls[t][b] = r BY <1>1, <1>3, <1>5 DEF CallsAre
  <2> QED BY <1>1, <1>2, <2>1
<1>8. CASE /\ m[b] >= n(b) - 1 /\ m' = [m EXCEPT ![b] = 0]
           /\ Continue(unblock_all(Queues, b))
  <2>1. \A p \in WaitQueues : wait_queue'[p] = IF p = b THEN <<>> ELSE wait_queue[p]
    BY <1>1, <1>8, QueuesAfter DEF Continue
  <2>2. m'[b] = 0 /\ \A c \in Barriers : c # b => m'[c] = m[c] BY <1>2, <1>8
  <2>3. wait_queue'[b] = <<>> /\ Range(wait_queue'[b]) = {} /\ Len(wait_queue'[b]) = 0
    BY <1>1, <2>1, EmptySeq DEF Range
  <2>4. \A u \in Parties[b] : calls'[u][b] = r + 1
    BY <1>4, <1>5, <1>6, <1>8 DEF CallsAre
  <2>5. CallsAre(b, r + 1)' BY <2>3, <2>4 DEF CallsAre
  <2>6. Round(b)' BY <1>5, <2>2, <2>3, <2>5 DEF Round
  <2>7. Only({b}) BY <1>1, <1>6, <2>1, <2>2 DEF Only
  <2> QED BY <2>6, <2>7, BarrierAlone
<1>9. CASE m[b] < n(b) - 1 /\ m' = [m EXCEPT ![b] = @ + 1] /\ block(Queues, b)
  <2>0. /\ Queues.waiting \in [WaitQueues -> Seq(Tasks)]
        /\ \A p \in WaitQueues : Queues.waiting[p] = wait_queue[p]
    BY <1>1, QueuesAfter
  <2>1. /\ \A p \in WaitQueues : p # b => wait_queue'[p] = wait_queue[p]
        /\ wait_queue'[b] = Append(wait_queue[b], t)
    BY <1>1, <1>9, <2>0, BlockAppends
  <2>2. m'[b] = m[b] + 1 /\ \A c \in Barriers : c # b => m'[c] = m[c] BY <1>2, <1>9
  <2>3. /\ Range(wait_queue'[b]) = Range(wait_queue[b]) \cup {t}
        /\ Len(wait_queue'[b]) = Len(wait_queue[b]) + 1
    BY <1>2, <2>1, EnqueueRange, AppendProperties
  <2>4. CallsAre(b, r)'
    <3> SUFFICES ASSUME NEW u \in Parties[b]
                 PROVE  calls'[u][b] = IF u \in Range(wait_queue'[b]) THEN r + 1 ELSE r
      BY DEF CallsAre
    <3>1. CASE u = t BY <3>1, <1>6, <2>3
    <3>2. CASE u # t BY <3>2, <1>5, <1>6, <2>3 DEF CallsAre
    <3> QED BY <3>1, <3>2
  <2>5. Len(wait_queue'[b]) = m'[b] /\ m'[b] < n(b) BY <1>2, <1>4, <1>9, <2>2, <2>3 DEF Round
  <2>6. Round(b)'
    <3>1. Range(wait_queue'[b]) \subseteq Parties[b] BY <1>1, <1>4, <2>3 DEF Round
    <3>2. n(b)' = n(b) BY DEF n
    <3> QED BY <1>5, <2>4, <2>5, <3>1, <3>2 DEF Round
  <2>7. Only({b}) BY <1>1, <1>6, <2>1, <2>2 DEF Only
  <2> QED BY <2>6, <2>7, BarrierAlone
<1> QED BY <1>8, <1>9 DEF barrier_wait

LEMMA ReasonsInit == Init => QInv
<1> SUFFICES ASSUME Init PROVE QInv OBVIOUS
<1>1. /\ \A o \in WaitQueues : wait_queue[o] = <<>>
      /\ m = [b \in Barriers |-> 0] /\ calls = [t \in Tasks |-> [b \in Barriers |-> 0]]
  BY DEF Init, SchedulerInit
<1>2. Range(<<>>) = {} /\ Len(<<>>) = 0 BY EmptySeq DEF Range
<1>3. ASSUME NEW b \in Barriers PROVE Round(b)
  <2>1. wait_queue[b] = <<>> BY <1>1, ObjectQueues
  <2>2. m[b] = 0 BY <1>1
  <2>3. CallsAre(b, 0)
    <3>1. \A u \in Parties[b] : calls[u][b] = 0
      BY <1>1, SyncAssumption, SchedulerAssumption
    <3> QED BY <1>2, <2>1, <3>1 DEF CallsAre
  <2> QED BY <1>2, <2>1, <2>2, <2>3 DEF Round
<1>4. \A o \in Locks \cup Semaphores : wait_queue[o] = <<>> BY <1>1, ObjectQueues
<1> QED BY <1>3, <1>4 DEF QInv, LockReason, SemaphoreReason

LEMMA ReasonsNext == IInv /\ QInv /\ [Next]_vars => QInv'
<1> SUFFICES ASSUME IInv, QInv, [Next]_vars PROVE QInv'
  OBVIOUS
<1>0. Types /\ SchedulerTypeOK /\ TaskPlacement BY DEF IInv, Types
<1>1. CASE Kernel
  <2>1. wait_queue' = wait_queue /\ UNCHANGED <<lock_status, value, m, calls>>
    BY <1>0, <1>1, OthersBlock DEF Kernel, objectVars, clientVars
  <2> QED BY <2>1, ReasonsKept
<1>2. ASSUME NEW t \in Tasks, NEW l \in Locks, lock_acquire(t, l) \/ lock_release(t, l)
      PROVE  QInv'
  BY <1>2, AcquireReasons, ReleaseReasons
  DEF lock_acquire, lock_release, ThreadCode, InUserCode
<1>3. ASSUME NEW t \in Tasks, NEW c \in Conditions,
             condition_signal(t, c) \/ condition_broadcast(t, c)
      PROVE  QInv'
  <2>1. c \in WaitQueues /\ UNCHANGED <<lock_status, value, m, calls>>
    BY <1>3, ObjectQueues DEF condition_signal, condition_broadcast, objectVars, clientVars
  <2>2. \A p \in WaitQueues : p # c => wait_queue'[p] = wait_queue[p]
    BY <1>0, <1>3, <2>1, QueuesAfter DEF condition_signal, condition_broadcast, Continue
  <2> QED BY <2>1, <2>2, ReasonsKept
<1>4. ASSUME NEW t \in Tasks, NEW l \in Locks, NEW c \in Conditions, condition_wait(t, l, c)
      PROVE  QInv'
  BY <1>4, ReleaseReasons DEF condition_wait, ThreadCode, InUserCode
<1>5. ASSUME NEW t \in Tasks, SemaphoreCall(t) PROVE QInv'
  BY <1>5, SemaphoreReasons DEF SemaphoreCall
<1>6. ASSUME NEW t \in Tasks, BarrierCall(t) PROVE QInv'
  BY <1>6, BarrierReasons DEF BarrierCall
<1>7. ASSUME NEW t \in Tasks, NEW l \in Locks, resume_condition_wait(t, l) PROVE QInv'
  BY <1>7, AcquireReasons DEF resume_condition_wait
<1>8. ASSUME NEW t \in Tasks,
             \/ \E l \in Locks : resume_lock_acquire(t, l)
             \/ \E s \in Semaphores : resume_semaphore_down(t, s)
             \/ \E b \in Barriers : resume_barrier_wait(t, b)
      PROVE  QInv'
  <2>1. wait_queue' = wait_queue /\ UNCHANGED <<lock_status, value, m, calls>>
    BY <1>8 DEF resume_lock_acquire, resume_semaphore_down, resume_barrier_wait,
                ReturnTo, schedulerVars, objectVars
  <2> QED BY <2>1, ReasonsKept
<1>9. ASSUME NEW t \in Tasks, yield(t) \/ sleep(t) \/ exit(t) PROVE QInv'
  <2>1. /\ ~idle /\ UNCHANGED <<objectVars, clientVars>>
        /\ do_yield \/ (\E ticks \in 1 .. MaxSleep : do_sleep(ticks)) \/ do_exit
    BY <1>9 DEF yield, sleep, exit, InUserCode, Running
  <2>2. wait_queue' = wait_queue BY <1>0, <2>1, OthersBlock
  <2>3. UNCHANGED <<lock_status, value, m, calls>> BY <2>1 DEF objectVars, clientVars
  <2> QED BY <2>2, <2>3, ReasonsKept
<1>10. CASE UNCHANGED vars
  <2>1. wait_queue' = wait_queue /\ UNCHANGED <<lock_status, value, m, calls>>
    BY <1>10 DEF vars, schedulerVars, objectVars, clientVars
  <2> QED BY <2>1, ReasonsKept
<1> QED BY <1>1, <1>2, <1>3, <1>4, <1>5, <1>6, <1>7, <1>8, <1>9, <1>10
        DEF Next, LockCall, ConditionCall, Resume

LEMMA ReasonsHold == Spec => [](IInv /\ QInv)
BY InitInvariant, NextInvariant, ReasonsInit, ReasonsNext, PTL DEF Spec

(***************************************************************************)
(* No thread waits for what is available: a queue is empty while its lock is  *)
(* UNLOCKED or its semaphore has units, and as many wait at a barrier as have *)
(* arrived, fewer than its parties (sync.c:42-181).                          *)
(***************************************************************************)
THEOREM NobodyWaitsForNothing == Spec => []WaitersHaveReason
<1>1. QInv => WaitersHaveReason
  BY DEF QInv, LockReason, SemaphoreReason, Round, WaitersHaveReason
<1> QED BY <1>1, ReasonsHold, PTL

(***************************************************************************)
(* For any number of parties and rounds, no thread leaves its k-th            *)
(* barrier_wait before every party has entered its own (sync.c:166-181).     *)
(***************************************************************************)
THEOREM RoundsSeparate == Spec => []BarrierSeparatesRounds
<1>1. ASSUME IInv, QInv, NEW b \in Barriers, NEW t \in Parties[b], NEW u \in Parties[b]
      PROVE  Returned(t, b) <= calls[u][b]
  <2>1. PICK r \in Nat : CallsAre(b, r) BY <1>1 DEF QInv, Round
  <2>2. calls[u][b] \in {r, r + 1} BY <2>1 DEF CallsAre
  <2>3. CASE t \in Range(wait_queue[b])
    <3>1. CallFor(b, call[t]) BY <1>1, <2>3, ObjectQueues DEF IInv, WaitersCalls
    <3>2. call[t] = <<"barrier_wait", b>> BY <3>1, SyncAssumption DEF CallFor
    <3>3. Returned(t, b) = r BY <2>1, <2>3, <3>2 DEF CallsAre, Returned
    <3> QED BY <2>2, <3>3
  <2>4. CASE t \notin Range(wait_queue[b])
    <3>1. Returned(t, b) \in {r, r - 1} BY <2>1, <2>4 DEF CallsAre, Returned
    <3> QED BY <2>2, <3>1
  <2> QED BY <2>3, <2>4
<1>2. IInv /\ QInv => BarrierSeparatesRounds BY <1>1 DEF BarrierSeparatesRounds
<1> QED BY <1>2, ReasonsHold, PTL
-----------------------------------------------------------------------------
(***************************************************************************)
(* The order in which a lock is granted.  A step of t that unblocks W of the  *)
(* queue of o makes no task but those of W an owner, if t takes no lock for   *)
(* which others wait.                                                       *)
(***************************************************************************)
FirstOnly == \A l \in Locks : \A u \in Tasks :
  Owns(u, l)' /\ ~ Owns(u, l) /\ wait_queue[l] # <<>> => u = Head(wait_queue[l])

Wakes(t, o, W) ==
  /\ W \in SUBSET Range(wait_queue[o])
  /\ \A u \in Tasks \ {t} :
       /\ status'[u] = "BLOCKED" <=> status[u] = "BLOCKED" /\ u \notin W
       /\ call'[u] = call[u]
       /\ holds'[u] = holds[u]

TakesNoQueued(t) ==
  \A l \in Locks : Owns(t, l)' /\ wait_queue[l] # <<>> => Owns(t, l)

LEMMA FirstByWakes ==
  ASSUME IInv, NEW t \in Tasks, NEW o \in WaitQueues, NEW W, Wakes(t, o, W),
         o \in Locks => W \subseteq Successor(o), TakesNoQueued(t)
  PROVE  FirstOnly
<1> SUFFICES ASSUME NEW l \in Locks, NEW u \in Tasks,
                    Owns(u, l)', ~ Owns(u, l), wait_queue[l] # <<>>
             PROVE  u = Head(wait_queue[l])
  BY DEF FirstOnly
<1>1. u # t BY DEF TakesNoQueued
<1>2. /\ call'[u] = call[u] /\ holds'[u] = holds[u]
      /\ status'[u] = "BLOCKED" <=> status[u] = "BLOCKED" /\ u \notin W
  BY <1>1 DEF Wakes
<1>3. call[u] = <<"lock_acquire", l>> /\ u \in W
  BY <1>2 DEF Owns, Granted
<1>4. CallFor(o, call[u]) BY <1>3 DEF IInv, WaitersCalls, Wakes
<1>5. o = l BY <1>3, <1>4, OneObject
<1> QED BY <1>3, <1>5 DEF Successor

(* The runner ends outside every lock_acquire, or blocked, and with no other locks. *)
LEMMA TakesNothing ==
  ASSUME NEW t \in Tasks, holds'[t] \subseteq holds[t],
         NoGrant(call'[t]) \/ status'[t] = "BLOCKED"
  PROVE  TakesNoQueued(t)
BY DEF TakesNoQueued, Owns, Granted, NoGrant

LEMMA AcquireFirst ==
  ASSUME IInv, QInv, NEW t \in Tasks, NEW l \in Locks, Running(t), lock_acquire_helper(t, l)
  PROVE  FirstOnly
<1>1. Types /\ TaskPlacement /\ l \in WaitQueues BY ObjectQueues DEF IInv
<1>2. Handler(t, l, {}, Queues) BY <1>1, HandlerQueues
<1>3. call \in [Tasks -> Calls] /\ holds \in [Tasks -> SUBSET Locks] BY <1>1 DEF Types
<1>4. CASE /\ lock_status[l] = "UNLOCKED"
           /\ call' = [call EXCEPT ![t] = UserCode]
           /\ holds' = [holds EXCEPT ![t] = @ \cup {l}]
           /\ Continue(Queues)
  <2>1. \A u \in Tasks : status'[u] = "BLOCKED" <=> status[u] = "BLOCKED" /\ u \notin {}
    BY <1>1, <1>2, <1>4, HandlerContinues
  <2>2. Wakes(t, l, {}) BY <1>3, <1>4, <2>1 DEF Wakes
  <2>3. wait_queue[l] = <<>> BY <1>4 DEF QInv, LockReason
  <2>4. call'[t] = UserCode /\ holds'[t] = holds[t] \cup {l} BY <1>3, <1>4
  <2>5. TakesNoQueued(t) BY <2>3, <2>4 DEF TakesNoQueued, Owns, Granted, UserCode
  <2> QED BY <1>1, <2>2, <2>5, FirstByWakes
<1>5. CASE /\ call' = [call EXCEPT ![t] = <<"lock_acquire", l>>]
           /\ block(Queues, l) /\ UNCHANGED holds
  <2>1. /\ status'[t] = "BLOCKED"
        /\ \A u \in Tasks \ {t} : status'[u] = "BLOCKED" <=> status[u] = "BLOCKED" /\ u \notin {}
    BY <1>1, <1>2, <1>5, HandlerBlocks
  <2>2. Wakes(t, l, {}) BY <1>3, <1>5, <2>1 DEF Wakes
  <2>3. holds'[t] \subseteq holds[t] BY <1>5
  <2>4. TakesNoQueued(t) BY <2>1, <2>3, TakesNothing
  <2> QED BY <1>1, <2>2, <2>4, FirstByWakes
<1> QED BY <1>4, <1>5 DEF lock_acquire_helper

LEMMA ReleaseFirst ==
  ASSUME IInv, NEW t \in Tasks, NEW l \in Locks, InUserCode(t), lock_release_helper(t, l),
         \/ Continue(unblock_one(Queues, l)) /\ UNCHANGED call
         \/ \E c \in Conditions : /\ block(unblock_one(Queues, l), c)
                                  /\ call' = [call EXCEPT ![t] = <<"condition_wait", l>>]
  PROVE  FirstOnly
<1>1. Types /\ TaskPlacement /\ Running(t) /\ NoGrant(call[t])
  BY NoGrantCalls DEF IInv, InUserCode
<1>2. /\ l \in WaitQueues /\ Successor(l) \in SUBSET Range(wait_queue[l])
      /\ Handler(t, l, Successor(l), unblock_one(Queues, l))
  BY <1>1, ReleaseHandler
<1>3. call \in [Tasks -> Calls] /\ holds \in [Tasks -> SUBSET Locks] BY <1>1 DEF Types
<1>4. /\ holds'[t] \subseteq holds[t]
      /\ \A u \in Tasks \ {t} : holds'[u] = holds[u]
  BY <1>3 DEF lock_release_helper
<1>5. CASE Continue(unblock_one(Queues, l)) /\ UNCHANGED call
  <2>1. \A u \in Tasks : status'[u] = "BLOCKED" <=> status[u] = "BLOCKED" /\ u \notin Successor(l)
    BY <1>1, <1>2, <1>5, HandlerContinues
  <2>2. Wakes(t, l, Successor(l)) BY <1>2, <1>4, <1>5, <2>1 DEF Wakes
  <2>3. TakesNoQueued(t) BY <1>1, <1>4, <1>5, TakesNothing
  <2> QED BY <1>2, <2>2, <2>3, FirstByWakes
<1>6. CASE \E c \in Conditions : /\ block(unblock_one(Queues, l), c)
                                 /\ call' = [call EXCEPT ![t] = <<"condition_wait", l>>]
  <2>0. PICK c \in Conditions : /\ block(unblock_one(Queues, l), c)
                                /\ call' = [call EXCEPT ![t] = <<"condition_wait", l>>]
    BY <1>6
  <2>1. /\ status'[t] = "BLOCKED"
        /\ \A u \in Tasks \ {t} :
             status'[u] = "BLOCKED" <=> status[u] = "BLOCKED" /\ u \notin Successor(l)
    BY <1>1, <1>2, <2>0, ObjectQueues, HandlerBlocks
  <2>2. Wakes(t, l, Successor(l)) BY <1>2, <1>3, <1>4, <2>0, <2>1 DEF Wakes
  <2>3. TakesNoQueued(t) BY <1>4, <2>1, TakesNothing
  <2> QED BY <1>2, <2>2, <2>3, FirstByWakes
<1> QED BY <1>5, <1>6

(* A call that unblocks W of an object that is no lock, or nobody. *)
LEMMA OtherFirst ==
  ASSUME IInv, NEW t \in Tasks, InUserCode(t), NEW o \in WaitQueues, o \notin Locks,
         NEW W \in SUBSET Range(wait_queue[o]), NEW qs, Handler(t, o, W, qs), holds' = holds,
         \/ Continue(qs) /\ UNCHANGED call
         \/ block(qs, o) /\ \E k : call' = [call EXCEPT ![t] = k]
  PROVE  FirstOnly
<1>1. Types /\ TaskPlacement /\ Running(t) /\ NoGrant(call[t])
  BY NoGrantCalls DEF IInv, InUserCode
<1>2. call \in [Tasks -> Calls] BY <1>1 DEF Types
<1>3. CASE Continue(qs) /\ UNCHANGED call
  <2>1. \A u \in Tasks : status'[u] = "BLOCKED" <=> status[u] = "BLOCKED" /\ u \notin W
    BY <1>1, <1>3, HandlerContinues
  <2>2. Wakes(t, o, W) BY <1>3, <2>1 DEF Wakes
  <2>3. TakesNoQueued(t) BY <1>1, <1>3, TakesNothing
  <2> QED BY <2>2, <2>3, FirstByWakes
<1>4. CASE block(qs, o) /\ \E k : call' = [call EXCEPT ![t] = k]
  <2>1. /\ status'[t] = "BLOCKED"
        /\ \A u \in Tasks \ {t} : status'[u] = "BLOCKED" <=> status[u] = "BLOCKED" /\ u \notin W
    BY <1>1, <1>4, HandlerBlocks
  <2>2. \A u \in Tasks \ {t} : call'[u] = call[u] BY <1>2, <1>4
  <2>3. Wakes(t, o, W) BY <2>1, <2>2 DEF Wakes
  <2>4. TakesNoQueued(t) BY <2>1, TakesNothing
  <2> QED BY <2>3, <2>4, FirstByWakes
<1> QED BY <1>3, <1>4

(* A step after which the same tasks are blocked, and only t has returned from a call. *)
LEMMA NobodyWoken ==
  ASSUME \A u \in Tasks : status'[u] = "BLOCKED" <=> status[u] = "BLOCKED",
         \A u \in Tasks : \A l \in Locks :
           /\ l \in holds'[u] => Owns(u, l)
           /\ call'[u] = <<"lock_acquire", l>> => call[u] = <<"lock_acquire", l>>
  PROVE  FirstOnly
BY DEF FirstOnly, Owns, Granted

LEMMA FirstStep == IInv /\ QInv /\ [Next]_vars => FirstOnly
<1> SUFFICES ASSUME IInv, QInv, [Next]_vars PROVE FirstOnly
  OBVIOUS
<1>0. Types /\ SchedulerTypeOK /\ TaskPlacement BY DEF IInv, Types
<1>1. ASSUME holds' = holds, call' = call,
             \A u \in Tasks : status'[u] = "BLOCKED" <=> status[u] = "BLOCKED"
      PROVE  FirstOnly
  BY <1>1, NobodyWoken DEF Owns
<1>2. CASE Kernel
  <2>1. holds' = holds /\ call' = call BY <1>2 DEF Kernel, clientVars
  <2>2. \A u \in Tasks : status'[u] = "BLOCKED" <=> status[u] = "BLOCKED"
    BY <1>0, <1>2, OthersBlock DEF Kernel
  <2> QED BY <1>1, <2>1, <2>2
<1>3. ASSUME NEW t \in Tasks, NEW l \in Locks, lock_acquire(t, l) \/ lock_release(t, l)
      PROVE  FirstOnly
  <2>1. CASE lock_acquire(t, l)
    BY <2>1, AcquireFirst DEF lock_acquire, ThreadCode, InUserCode
  <2>2. CASE lock_release(t, l)
    <3>1. /\ InUserCode(t) /\ lock_release_helper(t, l)
          /\ Continue(unblock_one(Queues, l)) /\ UNCHANGED call
      BY <2>2 DEF lock_release, ThreadCode
    <3> QED BY <3>1, ReleaseFirst
  <2> QED BY <1>3, <2>1, <2>2
<1>4. ASSUME NEW t \in Tasks, NEW l \in Locks, NEW c \in Conditions, condition_wait(t, l, c)
      PROVE  FirstOnly
  <2>1. /\ InUserCode(t) /\ lock_release_helper(t, l)
        /\ block(unblock_one(Queues, l), c)
        /\ call' = [call EXCEPT ![t] = <<"condition_wait", l>>]
    BY <1>4 DEF condition_wait, ThreadCode
  <2> QED BY <2>1, ReleaseFirst
<1>5. ASSUME NEW t \in Tasks, NEW c \in Conditions,
             condition_signal(t, c) \/ condition_broadcast(t, c)
      PROVE  FirstOnly
  <2>1. /\ c \in WaitQueues /\ c \notin Locks /\ InUserCode(t) /\ Running(t)
        /\ UNCHANGED call /\ holds' = holds /\ {} \in SUBSET Range(wait_queue[c])
    BY <1>5, ObjectQueues, SyncAssumption
    DEF condition_signal, condition_broadcast, ThreadCode, InUserCode, clientVars
  <2>2. CASE condition_broadcast(t, c)
    <3>1. /\ Handler(t, c, Range(wait_queue[c]), unblock_all(Queues, c))
          /\ Range(wait_queue[c]) \in SUBSET Range(wait_queue[c])
      BY <1>0, <2>1, HandlerQueues
    <3>2. Continue(unblock_all(Queues, c)) BY <2>2 DEF condition_broadcast
    <3> QED BY <2>1, <3>1, <3>2, OtherFirst
  <2>3. CASE condition_signal(t, c) /\ wait_queue[c] = <<>>
    <3>1. Handler(t, c, {}, Queues) /\ unblock_one(Queues, c) = Queues
      BY <1>0, <2>1, <2>3, HandlerQueues
    <3>2. Continue(Queues) BY <2>3, <3>1 DEF condition_signal
    <3> QED BY <2>1, <3>1, <3>2, OtherFirst
  <2>4. CASE condition_signal(t, c) /\ wait_queue[c] # <<>>
    <3>1. /\ Handler(t, c, {Head(wait_queue[c])}, unblock_one(Queues, c))
          /\ {Head(wait_queue[c])} \in SUBSET Range(wait_queue[c])
      BY <1>0, <2>1, <2>4, HandlerQueues
    <3>2. Continue(unblock_one(Queues, c)) BY <2>4 DEF condition_signal
    <3> QED BY <2>1, <3>1, <3>2, OtherFirst
  <2> QED BY <1>5, <2>2, <2>3, <2>4
<1>6. ASSUME NEW t \in Tasks, NEW s \in Semaphores, semaphore_up(t, s) \/ semaphore_down(t, s)
      PROVE  FirstOnly
  <2>1. /\ s \in WaitQueues /\ s \notin Locks /\ InUserCode(t) /\ Running(t)
        /\ holds' = holds /\ {} \in SUBSET Range(wait_queue[s])
    BY <1>6, ObjectQueues, SyncAssumption
    DEF semaphore_up, semaphore_down, ThreadCode, InUserCode
  <2>2. CASE UNCHANGED <<schedulerVars, call>>
    <3>1. status' = status /\ call' = call BY <2>2 DEF schedulerVars
    <3> QED BY <1>1, <2>1, <3>1
  <2>3. CASE wait_queue[s] # <<>> /\ Continue(unblock_one(Queues, s)) /\ UNCHANGED call
    <3>1. /\ Handler(t, s, {Head(wait_queue[s])}, unblock_one(Queues, s))
          /\ {Head(wait_queue[s])} \in SUBSET Range(wait_queue[s])
      BY <1>0, <2>1, <2>3, HandlerQueues
    <3> QED BY <2>1, <2>3, <3>1, OtherFirst
  <2>4. CASE block(Queues, s) /\ \E k : call' = [call EXCEPT ![t] = k]
    <3>1. Handler(t, s, {}, Queues) BY <1>0, <2>1, HandlerQueues
    <3> QED BY <2>1, <2>4, <3>1, OtherFirst
  <2> QED BY <1>6, <2>2, <2>3, <2>4 DEF semaphore_up, semaphore_down
<1>7. ASSUME NEW t \in Tasks, NEW b \in Barriers, barrier_wait(t, b) PROVE FirstOnly
  <2>1. /\ b \in WaitQueues /\ b \notin Locks /\ InUserCode(t) /\ Running(t)
        /\ holds' = holds /\ {} \in SUBSET Range(wait_queue[b])
    BY <1>7, ObjectQueues, SyncAssumption DEF barrier_wait, ThreadCode, InUserCode
  <2>2. CASE Continue(unblock_all(Queues, b)) /\ UNCHANGED call
    <3>1. /\ Handler(t, b, Range(wait_queue[b]), unblock_all(Queues, b))
          /\ Range(wait_queue[b]) \in SUBSET Range(wait_queue[b])
      BY <1>0, <2>1, HandlerQueues
    <3> QED BY <2>1, <2>2, <3>1, OtherFirst
  <2>3. CASE block(Queues, b) /\ \E k : call' = [call EXCEPT ![t] = k]
    <3>1. Handler(t, b, {}, Queues) BY <1>0, <2>1, HandlerQueues
    <3> QED BY <2>1, <2>3, <3>1, OtherFirst
  <2> QED BY <1>7, <2>2, <2>3 DEF barrier_wait
<1>8. ASSUME NEW t \in Tasks, NEW l \in Locks, resume_condition_wait(t, l) PROVE FirstOnly
  BY <1>8, AcquireFirst DEF resume_condition_wait
<1>9. ASSUME NEW t \in Tasks, NEW l \in Locks, resume_lock_acquire(t, l) PROVE FirstOnly
  <2>1. /\ ReturnTo(t) /\ call[t] = <<"lock_acquire", l>>
        /\ holds' = [holds EXCEPT ![t] = @ \cup {l}]
    BY <1>9 DEF resume_lock_acquire
  <2>2. /\ status[t] # "BLOCKED" /\ status' = status /\ NoGrant(call'[t])
        /\ \A u \in Tasks \ {t} : call'[u] = call[u]
    BY <2>1, ReturnFrame
  <2>3. Owns(t, l) BY <2>1, <2>2 DEF Owns, Granted
  <2>4. \A u \in Tasks : holds'[u] = IF u = t THEN holds[u] \cup {l} ELSE holds[u]
    BY <1>0, <2>1 DEF Types
  <2>5. \A u \in Tasks : \A k \in Locks : k \in holds'[u] => Owns(u, k)
    BY <2>3, <2>4 DEF Owns
  <2> QED BY <2>2, <2>5, NobodyWoken DEF NoGrant
<1>10. ASSUME NEW t \in Tasks,
              \/ \E s \in Semaphores : resume_semaphore_down(t, s)
              \/ \E b \in Barriers : resume_barrier_wait(t, b)
       PROVE  FirstOnly
  <2>1. ReturnTo(t) /\ holds' = holds
    BY <1>10 DEF resume_semaphore_down, resume_barrier_wait
  <2>2. /\ status' = status /\ NoGrant(call'[t])
        /\ \A u \in Tasks \ {t} : call'[u] = call[u]
    BY <2>1, ReturnFrame
  <2> QED BY <2>1, <2>2, NobodyWoken DEF NoGrant, Owns
<1>11. ASSUME NEW t \in Tasks, yield(t) \/ sleep(t) \/ exit(t) PROVE FirstOnly
  <2>1. /\ ~idle /\ UNCHANGED <<objectVars, clientVars>>
        /\ do_yield \/ (\E ticks \in 1 .. MaxSleep : do_sleep(ticks)) \/ do_exit
    BY <1>11 DEF yield, sleep, exit, InUserCode, Running
  <2>2. \A u \in Tasks : status'[u] = "BLOCKED" <=> status[u] = "BLOCKED"
    BY <1>0, <2>1, OthersBlock
  <2>3. holds' = holds /\ call' = call BY <2>1 DEF clientVars
  <2> QED BY <1>1, <2>2, <2>3
<1>12. CASE UNCHANGED vars
  <2>1. holds' = holds /\ call' = call /\ status' = status
    BY <1>12 DEF vars, schedulerVars, clientVars
  <2> QED BY <1>1, <2>1
<1> QED BY <1>2, <1>3, <1>4, <1>5, <1>6, <1>7, <1>8, <1>9, <1>10, <1>11, <1>12
        DEF Next, LockCall, ConditionCall, SemaphoreCall, BarrierCall, Resume

(***************************************************************************)
(* First come, first served: whoever gets a lock for which others wait is the *)
(* one that has waited longest (sync.c:42-110).                              *)
(***************************************************************************)
THEOREM FirstComeFirstServed == Spec => NoBarging
<1>1. ASSUME FirstOnly
      PROVE  \A l \in Locks : \A t \in Owners(l)' \ Owners(l) :
               wait_queue[l] # <<>> => t = Head(wait_queue[l])
  BY <1>1 DEF FirstOnly, Owners, Owns
<1>2. IInv /\ QInv /\ [Next]_vars =>
        [\A l \in Locks : \A t \in Owners(l)' \ Owners(l) :
           wait_queue[l] # <<>> => t = Head(wait_queue[l])]_vars
  BY <1>1, FirstStep
<1> QED BY <1>2, ReasonsHold, PTL DEF Spec, NoBarging
=============================================================================

------------------------------ MODULE IpcProofs ------------------------------
(***************************************************************************)
(* Type correctness, the placement of tasks, the waiting for processes and   *)
(* the ids of boxes, for every set of programs, boxes and messages; and, when  *)
(* every box has one program that sends and one that receives, that no wakeup *)
(* is lost and that the boxes implement the bounded channel.                  *)
(***************************************************************************)
EXTENDS Ipc, SchedulerProofs, ListProofs

-----------------------------------------------------------------------------
(* Slots and queues.                                                        *)

LEMMA QueuesExist ==
  /\ \A t \in Tasks : Waiting(t) \in WaitQueues
  /\ \A b \in Boxes : Senders(b) \in WaitQueues /\ Receivers(b) \in WaitQueues
BY MboxAssumption

LEMMA QueuesDiffer ==
  /\ \A t, u \in Tasks : Waiting(t) = Waiting(u) => t = u
  /\ \A b, c \in Boxes : Senders(b) = Senders(c) => b = c
  /\ \A b, c \in Boxes : Receivers(b) = Receivers(c) => b = c
  /\ \A t \in Tasks : \A b \in Boxes : Waiting(t) # Senders(b) /\ Waiting(t) # Receivers(b)
  /\ \A b, c \in Boxes : Senders(b) # Receivers(c)
BY DEF Waiting, Senders, Receivers

(***************************************************************************)
(* do_spawn takes a slot that is free.                                       *)
(***************************************************************************)
LEMMA FreeSlotFree ==
  ASSUME Live # Tasks
  PROVE  FreeSlot \in Tasks \ Live
<1> DEFINE free == Tasks \ Live
<1>1. Cardinality(Tasks) \in Nat BY SchedulerAssumption, FS_CardinalityType
<1>2. Tasks = 0 .. Cardinality(Tasks) - 1 BY ProcessesAssumption
<1>3. Tasks \subseteq Nat
  <2> DEFINE n == Cardinality(Tasks)
  <2>1. n \in Nat /\ Tasks = 0 .. n - 1 BY <1>1, <1>2
  <2> HIDE DEF n
  <2> QED BY <2>1
<1>4. free \in SUBSET Nat /\ free # {} BY <1>3 DEF Live
<1> HIDE DEF free
<1>5. \E t \in free : \A u \in free : t <= u BY <1>4, LeastNumber
<1>6. (CHOOSE t \in free : \A u \in free : t <= u) \in free BY <1>5
<1> QED BY <1>6 DEF FreeSlot, free

(***************************************************************************)
(* do_mbox_open takes a box with the name, or one without a name.             *)
(***************************************************************************)
LEMMA FirstOf ==
  ASSUME NEW bs \in SUBSET Nat, bs # {}
  PROVE  First(bs) \in bs
<1>1. \E b \in bs : \A c \in bs : b <= c BY LeastNumber
<1> QED BY <1>1 DEF First

LEMMA FoundNamed ==
  ASSUME NEW nm, Named(nm) \cup Named(EMPTY) # {}
  PROVE  /\ Found(nm) \in Boxes
         /\ name[Found(nm)] = nm \/ (Named(nm) = {} /\ name[Found(nm)] = EMPTY)
<1>1. Named(nm) \in SUBSET Nat /\ Named(EMPTY) \in SUBSET Nat
  BY ProcessesAssumption DEF Named, Boxes
<1>2. CASE Named(nm) # {}
  <2>1. Found(nm) \in Named(nm) BY <1>1, <1>2, FirstOf DEF Found
  <2> QED BY <2>1 DEF Named
<1>3. CASE Named(nm) = {}
  <2>1. Found(nm) \in Named(EMPTY) BY <1>1, <1>3, FirstOf DEF Found
  <2> QED BY <2>1, <1>3 DEF Named
<1> QED BY <1>2, <1>3

(***************************************************************************)
(* do_kill unlinks its victim from the queue that holds it.                  *)
(***************************************************************************)
LEMMA WithoutRange ==
  ASSUME NEW S, NEW q \in Seq(S), NEW t, IsInjective(q)
  PROVE  /\ Without(q, t) \in Seq(S)
         /\ Range(Without(q, t)) = Range(q) \ {t}
         /\ IsInjective(Without(q, t))
<1>1. CASE t \notin Range(q) BY <1>1 DEF Without
<1>2. CASE t \in Range(q)
  <2>1. Len(q) \in Nat /\ DOMAIN q = 1 .. Len(q) BY LenProperties
  <2> DEFINE i == CHOOSE i \in DOMAIN q : q[i] = t
  <2>2. i \in 1 .. Len(q) /\ q[i] = t BY <1>2, <2>1 DEF Range
  <2> HIDE DEF i
  <2> DEFINE front == SubSeq(q, 1, i - 1)
             rest == SubSeq(q, i + 1, Len(q))
             upto == SubSeq(q, 1, i)
             from == SubSeq(q, i, Len(q))
  <2>3. Without(q, t) = front \o rest BY <1>2 DEF Without, i
  <2>4. i \in 0 .. Len(q) /\ i - 1 \in 0 .. Len(q) /\ (i - 1) + 1 = i BY <2>1, <2>2
  <2>5. /\ upto \in Seq(S) /\ rest \in Seq(S) /\ IsInjective(rest)
        /\ Range(q) = Range(upto) \cup Range(rest) /\ Range(upto) \cap Range(rest) = {}
    BY <2>4, SplitRange
  <2>6. /\ front \in Seq(S) /\ from \in Seq(S) /\ IsInjective(front)
        /\ Range(q) = Range(front) \cup Range(from) /\ Range(front) \cap Range(from) = {}
    <3> DEFINE k == i - 1
    <3>1. k \in 0 .. Len(q) /\ k + 1 = i BY <2>4
    <3> HIDE DEF k
    <3>2. /\ SubSeq(q, 1, k) \in Seq(S) /\ SubSeq(q, k + 1, Len(q)) \in Seq(S)
          /\ IsInjective(SubSeq(q, 1, k))
          /\ Range(q) = Range(SubSeq(q, 1, k)) \cup Range(SubSeq(q, k + 1, Len(q)))
          /\ Range(SubSeq(q, 1, k)) \cap Range(SubSeq(q, k + 1, Len(q))) = {}
      BY <3>1, SplitRange
    <3> QED BY <3>1, <3>2 DEF k
  <2>7. \A j \in 1 .. Len(q) : q[j] \in S BY ElementOfSeq
  <2>8. /\ Len(upto) = i /\ \A j \in 1 .. i : upto[j] = q[j]
    <3>1. \A j \in 1 .. i : q[j] \in S BY <2>1, <2>2, <2>7
    <3>2. /\ Len(upto) = IF 1 <= i THEN i - 1 + 1 ELSE 0
          /\ \A j \in 1 .. i - 1 + 1 : upto[j] = q[1 + j - 1]
      BY <3>1, <2>1, <2>2, SubSeqProperties
    <3> HIDE DEF upto
    <3> QED BY <3>2, <2>1, <2>2
  <2>9. /\ Len(front) = i - 1 /\ \A j \in 1 .. i - 1 : front[j] = q[j]
    <3>1. \A j \in 1 .. i - 1 : q[j] \in S BY <2>1, <2>2, <2>7
    <3>2. /\ Len(front) = IF 1 <= i - 1 THEN (i - 1) - 1 + 1 ELSE 0
          /\ \A j \in 1 .. (i - 1) - 1 + 1 : front[j] = q[1 + j - 1]
      BY <3>1, <2>1, <2>2, SubSeqProperties
    <3> HIDE DEF front
    <3> QED BY <3>2, <2>1, <2>2
  <2>10. DOMAIN upto = 1 .. i /\ DOMAIN front = 1 .. i - 1
    BY <2>5, <2>6, <2>8, <2>9, LenProperties
  <2> HIDE DEF front, rest, upto, from
  <2>11. Range(upto) = Range(front) \cup {t}
    <3>1. Range(upto) = {q[j] : j \in 1 .. i} BY <2>8, <2>10 DEF Range
    <3>2. Range(front) = {q[j] : j \in 1 .. i - 1} BY <2>9, <2>10 DEF Range
    <3>3. 1 .. i = (1 .. i - 1) \cup {i} BY <2>2, <2>1
    <3> QED BY <3>1, <3>2, <3>3, <2>2
  <2>12. t \notin Range(front)
    <3> SUFFICES ASSUME NEW j \in 1 .. i - 1, q[j] = t PROVE FALSE
      BY <2>9, <2>10 DEF Range
    <3>1. j \in DOMAIN q /\ i \in DOMAIN q /\ j # i BY <2>1, <2>2
    <3> QED BY <3>1, <2>2 DEF IsInjective
  <2>13. Range(front) \cap Range(rest) = {} /\ t \notin Range(rest) BY <2>5, <2>11
  <2>14. /\ front \o rest \in Seq(S) /\ Range(front \o rest) = Range(front) \cup Range(rest)
         /\ IsInjective(front \o rest)
    BY <2>5, <2>6, <2>13, ConcatRange
  <2> QED BY <2>3, <2>5, <2>11, <2>12, <2>13, <2>14
<1> QED BY <1>1, <1>2

LEMMA UnlinkedPlaced ==
  ASSUME SchedulerTypeOK, TaskPlacement, NEW t \in Tasks
  PROVE  /\ Unlinked(t) \in QueuesType
         /\ Without(sleep_wait_queue, t) \in Seq(Tasks)
         /\ Placed(OnCPU \ {t}, Unlinked(t).ready, Without(sleep_wait_queue, t),
                   Unlinked(t).waiting, Unlinked(t).st)
<1> DEFINE r  == Without(ready_queue, t)
           s  == Without(sleep_wait_queue, t)
           w  == [q \in WaitQueues |-> Without(wait_queue[q], t)]
           st == [status EXCEPT ![t] = "EXITED"]
<1>1. /\ ready_queue \in Seq(Tasks) /\ sleep_wait_queue \in Seq(Tasks)
      /\ wait_queue \in [WaitQueues -> Seq(Tasks)] /\ status \in [Tasks -> Status]
      /\ OnCPU \in SUBSET Tasks
  BY DEF SchedulerTypeOK, OnCPU
<1>2. Placed(OnCPU, ready_queue, sleep_wait_queue, wait_queue, status) BY DEF TaskPlacement
<1>3. /\ IsInjective(ready_queue) /\ IsInjective(sleep_wait_queue)
      /\ \A q \in WaitQueues : IsInjective(wait_queue[q])
  BY <1>2 DEF Placed
<1>4. r \in Seq(Tasks) /\ Range(r) = Range(ready_queue) \ {t} /\ IsInjective(r)
  BY <1>1, <1>3, WithoutRange
<1>5. s \in Seq(Tasks) /\ Range(s) = Range(sleep_wait_queue) \ {t} /\ IsInjective(s)
  BY <1>1, <1>3, WithoutRange
<1>6. ASSUME NEW q \in WaitQueues
      PROVE  w[q] \in Seq(Tasks) /\ Range(w[q]) = Range(wait_queue[q]) \ {t} /\ IsInjective(w[q])
  BY <1>1, <1>3, WithoutRange
<1>7. w \in [WaitQueues -> Seq(Tasks)] BY <1>6
<1>8. /\ st \in [Tasks -> Status] /\ st[t] = "EXITED"
      /\ \A x \in Tasks : x # t => st[x] = status[x]
  BY <1>1 DEF Status
<1>9. /\ Range(ready_queue) \subseteq Tasks /\ Range(sleep_wait_queue) \subseteq Tasks
      /\ \A q \in WaitQueues : Range(wait_queue[q]) \subseteq Tasks
  BY <1>1, RangeOfSeq
<1>10. Unlinked(t) = [waiting |-> w, ready |-> r, st |-> st] BY DEF Unlinked
<1> HIDE DEF r, s, w, st
<1>11. Placed(OnCPU \ {t}, r, s, w, st)
  <2>1. \A x \in OnCPU \ {t} : st[x] \in Runnable /\ x \notin Range(r)
    BY <1>1, <1>2, <1>4, <1>8 DEF Placed
  <2>2. \A x \in Range(r) : st[x] \in Runnable BY <1>2, <1>4, <1>8, <1>9 DEF Placed
  <2>3. \A x \in Range(s) : st[x] = "SLEEPING" BY <1>2, <1>5, <1>8, <1>9 DEF Placed
  <2>4. ASSUME NEW q \in WaitQueues
        PROVE  /\ IsInjective(w[q])
               /\ \A x \in Range(w[q]) : st[x] = "BLOCKED"
               /\ \A p \in WaitQueues : q # p => Range(w[q]) \cap Range(w[p]) = {}
    <3>1. ASSUME NEW x \in Range(w[q]) PROVE st[x] = "BLOCKED"
      <4>1. x \in Range(wait_queue[q]) /\ x # t /\ x \in Tasks BY <1>6, <1>9
      <4>2. status[x] = "BLOCKED" BY <4>1, <1>2 DEF Placed
      <4> QED BY <4>1, <4>2, <1>8
    <3>2. \A p \in WaitQueues : q # p => Range(w[q]) \cap Range(w[p]) = {}
      BY <1>2, <1>6 DEF Placed
    <3> QED BY <3>1, <3>2, <1>6
  <2>5. ASSUME NEW x \in Tasks
        PROVE  /\ st[x] \in Runnable => x \in (OnCPU \ {t}) \cup Range(r)
               /\ st[x] = "SLEEPING" => x \in Range(s)
               /\ st[x] = "BLOCKED" => \E q \in WaitQueues : x \in Range(w[q])
    <3>1. CASE x = t BY <3>1, <1>8 DEF Runnable
    <3>2. CASE x # t
      <4>1. st[x] \in Runnable => x \in (OnCPU \ {t}) \cup Range(r)
        BY <3>2, <1>2, <1>4, <1>8 DEF Placed
      <4>2. st[x] = "SLEEPING" => x \in Range(s) BY <3>2, <1>2, <1>5, <1>8 DEF Placed
      <4>3. st[x] = "BLOCKED" => \E q \in WaitQueues : x \in Range(w[q])
        BY <3>2, <1>2, <1>6, <1>8 DEF Placed
      <4> QED BY <4>1, <4>2, <4>3
    <3> QED BY <3>1, <3>2
  <2> QED BY <2>1, <2>2, <2>3, <2>4, <2>5, <1>4, <1>5 DEF Placed
<1>12. Unlinked(t) \in QueuesType BY <1>4, <1>7, <1>8, <1>10 DEF QueuesType
<1> QED BY <1>5, <1>10, <1>11, <1>12 DEF s

-----------------------------------------------------------------------------
(* What the handlers do to the processes that live and that are blocked.     *)

Blocked == {t \in Tasks : status[t] = "BLOCKED"}

\* Who waits where after a step that concerns the queue o only.
Waiters(o, ts) ==
  /\ Range(wait_queue'[o]) = ts
  /\ \A p \in WaitQueues : p # o => wait_queue'[p] = wait_queue[p]

LEMMA SchedulerKeeps ==
  ASSUME NEW ready, NEW sleepq \in Seq(Tasks), NEW st, NEW left,
         \A t \in Range(sleepq) : st[t] = "SLEEPING",
         scheduler(ready, sleepq, st, left)
  PROVE  /\ Blocked' = {t \in Tasks : st[t] = "BLOCKED"}
         /\ Live' = {t \in Tasks : st[t] # "EXITED"}
<1>1. PICK k \in 0 .. Len(sleepq) :
        status' = [t \in Tasks |-> IF t \in Range(SubSeq(sleepq, 1, k)) THEN "READY" ELSE st[t]]
  BY DEF scheduler
<1>2. Range(SubSeq(sleepq, 1, k)) \subseteq Range(sleepq)
  BY SplitRange
<1> QED BY <1>1, <1>2 DEF Blocked, Live

LEMMA RunningLives ==
  ASSUME SchedulerTypeOK, TaskPlacement, ~idle
  PROVE  /\ current_running \in Live \ Blocked
         /\ current_running \notin Range(ready_queue)
         /\ current_running \notin Range(sleep_wait_queue)
         /\ \A q \in WaitQueues : current_running \notin Range(wait_queue[q])
         /\ Placed({current_running}, ready_queue, sleep_wait_queue, wait_queue, status)
<1>1. Placed({current_running}, ready_queue, sleep_wait_queue, wait_queue, status)
  BY DEF TaskPlacement, OnCPU
<1>2. current_running \in Tasks /\ status[current_running] \in Runnable
  BY <1>1 DEF SchedulerTypeOK, Placed
<1>3. current_running \in Live \ Blocked BY <1>2 DEF Live, Blocked, Runnable
<1> QED BY <1>1, <1>2, <1>3, RunningOnNoQueue

LEMMA BlockEffect ==
  ASSUME SchedulerTypeOK, TaskPlacement, ~idle, NEW o \in WaitQueues, block(Queues, o)
  PROVE  /\ SchedulerTypeOK' /\ TaskPlacement'
         /\ Live' = Live /\ Blocked' = Blocked \cup {current_running}
         /\ Waiters(o, Range(wait_queue[o]) \cup {current_running})
<1>1. Queues \in QueuesType
      /\ Placed({current_running}, Queues.ready, sleep_wait_queue, Queues.waiting, Queues.st)
  BY QueuesPlaced, RunningLives DEF Queues
<1>2. SchedulerTypeOK' /\ TaskPlacement' BY <1>1, BlockPlaced
<1> DEFINE st == [status EXCEPT ![current_running] = "BLOCKED"]
<1>3. /\ current_running \in Tasks /\ sleep_wait_queue \in Seq(Tasks)
      /\ status \in [Tasks -> Status] /\ wait_queue \in [WaitQueues -> Seq(Tasks)]
      /\ Range(sleep_wait_queue) \subseteq Tasks
  BY RangeOfSeq DEF SchedulerTypeOK
<1>4. /\ scheduler(ready_queue, sleep_wait_queue, st, deadline)
      /\ wait_queue' = [wait_queue EXCEPT ![o] = Append(@, current_running)]
  BY DEF block, Queues
<1>5. \A t \in Tasks : st[t] = IF t = current_running THEN "BLOCKED" ELSE status[t] BY <1>3
<1>6. \A t \in Range(sleep_wait_queue) : st[t] = "SLEEPING"
  BY <1>3, <1>5, RunningLives DEF TaskPlacement, Placed
<1> HIDE DEF st
<1>7. /\ Blocked' = {t \in Tasks : st[t] = "BLOCKED"}
      /\ Live' = {t \in Tasks : st[t] # "EXITED"}
  BY <1>3, <1>4, <1>6, SchedulerKeeps
<1>8. current_running \in Live BY RunningLives
<1>9. Live' = Live /\ Blocked' = Blocked \cup {current_running}
  BY <1>3, <1>5, <1>7, <1>8 DEF Live, Blocked
<1>10. Range(Append(wait_queue[o], current_running)) = Range(wait_queue[o]) \cup {current_running}
  <2>1. wait_queue[o] \in Seq(Tasks) BY <1>3
  <2> QED BY <2>1, <1>3, EnqueueRange
<1>11. Waiters(o, Range(wait_queue[o]) \cup {current_running})
  BY <1>3, <1>4, <1>10 DEF Waiters
<1> QED BY <1>2, <1>9, <1>11

LEMMA WakeEffect ==
  ASSUME SchedulerTypeOK, TaskPlacement, NEW o \in WaitQueues,
         Continue(unblock_one(Queues, o))
  PROVE  /\ SchedulerTypeOK' /\ TaskPlacement'
         /\ Live' = Live
         /\ \E W \in SUBSET Range(wait_queue[o]) :
              /\ wait_queue[o] # <<>> => W # {}
              /\ Blocked' = Blocked \ W
              /\ Waiters(o, Range(wait_queue[o]) \ W)
<1>1. /\ Queues \in QueuesType /\ OnCPU \in SUBSET Tasks
      /\ Placed(OnCPU, Queues.ready, sleep_wait_queue, Queues.waiting, Queues.st)
  BY QueuesPlaced
<1>2. /\ ready_queue \in Seq(Tasks) /\ sleep_wait_queue \in Seq(Tasks)
      /\ status \in [Tasks -> Status] /\ wait_queue \in [WaitQueues -> Seq(Tasks)]
  BY DEF SchedulerTypeOK
<1>3. /\ unblock_one(Queues, o) \in QueuesType
      /\ Placed(OnCPU, unblock_one(Queues, o).ready, sleep_wait_queue,
                unblock_one(Queues, o).waiting, unblock_one(Queues, o).st)
  BY <1>1, <1>2, UnblockOnePlaced
<1>4. SchedulerTypeOK' /\ TaskPlacement' BY <1>3, ContinuePlaced
<1>5. CASE wait_queue[o] = <<>>
  <2>1. wait_queue' = wait_queue /\ status' = status
    BY <1>5 DEF Continue, unblock_one, Queues
  <2>2. Live' = Live /\ Blocked' = Blocked BY <2>1 DEF Live, Blocked
  <2>3. Waiters(o, Range(wait_queue[o])) BY <2>1 DEF Waiters
  <2>4. Blocked \ {} = Blocked /\ Range(wait_queue[o]) \ {} = Range(wait_queue[o]) OBVIOUS
  <2>5. /\ wait_queue[o] # <<>> => {} # {}
        /\ Blocked' = Blocked \ {}
        /\ Waiters(o, Range(wait_queue[o]) \ {})
    BY <1>5, <2>2, <2>3, <2>4
  <2> QED BY <2>2, <2>5, <1>4
<1>6. CASE wait_queue[o] # <<>>
  <2> DEFINE h == Head(wait_queue[o])
  <2>1. /\ wait_queue' = [wait_queue EXCEPT ![o] = Tail(@)]
        /\ status' = [status EXCEPT ![h] = "READY"]
    BY <1>6 DEF Continue, unblock_one, Queues
  <2>2. /\ h \in Tasks /\ Range(wait_queue[o]) = Range(Tail(wait_queue[o])) \cup {h}
        /\ h \notin Range(Tail(wait_queue[o]))
    <3>1. wait_queue[o] \in Seq(Tasks) BY <1>2
    <3>2. IsInjective(wait_queue[o]) BY <1>1 DEF Placed, Queues
    <3> QED BY <3>1, <3>2, <1>6, DequeueRange
  <2>3. status[h] = "BLOCKED" BY <2>2, <1>1 DEF Placed, Queues
  <2> HIDE DEF h
  <2>4. Live' = Live /\ Blocked' = Blocked \ {h}
    BY <2>1, <2>2, <2>3, <1>2 DEF Live, Blocked
  <2>5. Waiters(o, Range(wait_queue[o]) \ {h}) BY <2>1, <2>2, <1>2 DEF Waiters
  <2>6. {h} \in SUBSET Range(wait_queue[o]) BY <2>2
  <2> QED BY <2>4, <2>5, <2>6, <1>4
<1> QED BY <1>5, <1>6


(***************************************************************************)
(* do_kill: the victim leaves its queue and those that wait for it, theirs.   *)
(***************************************************************************)
LEMMA KillEffect ==
  ASSUME SchedulerTypeOK, TaskPlacement, ~idle, NEW u \in Tasks, do_kill(u)
  PROVE  /\ SchedulerTypeOK' /\ TaskPlacement'
         /\ Live' = Live \ {u}
         /\ Blocked' = Blocked \ ({u} \cup Range(wait_queue[Waiting(u)]))
         /\ Range(wait_queue'[Waiting(u)]) = {}
         /\ \A p \in WaitQueues :
              p # Waiting(u) => Range(wait_queue'[p]) = Range(wait_queue[p]) \ {u}
<1> DEFINE o  == Waiting(u)
           ul == Unlinked(u)
           s  == Without(sleep_wait_queue, u)
           qs == unblock_all(ul, o)
<1>0. o \in WaitQueues BY QueuesExist
<1>1. /\ ul \in QueuesType /\ s \in Seq(Tasks)
      /\ Placed(OnCPU \ {u}, ul.ready, s, ul.waiting, ul.st)
  BY UnlinkedPlaced
<1>2. /\ current_running \in Tasks /\ sleep_wait_queue \in Seq(Tasks)
      /\ deadline \in [Tasks -> 0 .. MaxSleep] /\ idle = FALSE
      /\ status \in [Tasks -> Status] /\ wait_queue \in [WaitQueues -> Seq(Tasks)]
  BY DEF SchedulerTypeOK
<1>3. OnCPU = {current_running} BY <1>2 DEF OnCPU
<1>4. OnCPU \ {u} \in SUBSET Tasks BY <1>2, <1>3
<1>5. /\ qs \in QueuesType
      /\ Placed(OnCPU \ {u}, qs.ready, s, qs.waiting, qs.st)
  <2> HIDE DEF ul, s, o
  <2> QED BY <1>0, <1>1, <1>4, UnblockAllPlaced
<1>6. /\ qs.waiting = [ul.waiting EXCEPT ![o] = <<>>]
      /\ qs.st = [t \in Tasks |-> IF t \in Range(ul.waiting[o]) THEN "READY" ELSE ul.st[t]]
  <2> HIDE DEF ul, o
  <2> QED BY DEF unblock_all
<1>7. /\ ul.waiting = [q \in WaitQueues |-> Without(wait_queue[q], u)]
      /\ ul.st = [status EXCEPT ![u] = "EXITED"]
  BY DEF Unlinked
<1>8. \/ /\ u = current_running
         /\ scheduler(qs.ready, sleep_wait_queue, qs.st, deadline)
         /\ wait_queue' = qs.waiting
      \/ /\ u # current_running
         /\ wait_queue' = qs.waiting /\ ready_queue' = qs.ready /\ status' = qs.st
         /\ sleep_wait_queue' = s
         /\ current_running' = current_running /\ idle' = idle /\ deadline' = deadline
  BY DEF do_kill
<1> HIDE DEF ul, s, qs, o
<1>9. qs.ready \in Seq(Tasks) /\ qs.waiting \in [WaitQueues -> Seq(Tasks)]
      /\ qs.st \in [Tasks -> Status]
  BY <1>5 DEF QueuesType
<1>10. wait_queue' = qs.waiting BY <1>8
<1>11. u = current_running => s = sleep_wait_queue
  BY RunningLives DEF s, Without
<1>12. SchedulerTypeOK' /\ TaskPlacement'
  <2>1. CASE u = current_running
    <3>1. OnCPU \ {u} = {} BY <2>1, <1>3
    <3>2. Placed({}, qs.ready, sleep_wait_queue, wait_queue', qs.st)
      BY <3>1, <2>1, <1>5, <1>10, <1>11
    <3>3. scheduler(qs.ready, sleep_wait_queue, qs.st, deadline) BY <2>1, <1>8
    <3>4. wait_queue' \in [WaitQueues -> Seq(Tasks)] BY <1>9, <1>10
    <3> QED BY <3>2, <3>3, <3>4, <1>2, <1>9, SchedulerPlaced
  <2>2. CASE u # current_running
    <3>1. OnCPU \ {u} = {current_running} BY <2>2, <1>3
    <3>2. /\ wait_queue' = qs.waiting /\ ready_queue' = qs.ready /\ status' = qs.st
          /\ sleep_wait_queue' = s
          /\ current_running' = current_running /\ idle' = FALSE /\ deadline' = deadline
      BY <2>2, <1>2, <1>8
    <3>3. SchedulerTypeOK' BY <3>2, <1>1, <1>2, <1>9 DEF SchedulerTypeOK
    <3>4. OnCPU' = {current_running} BY <3>2 DEF OnCPU
    <3>5. TaskPlacement' BY <3>1, <3>2, <3>4, <1>5 DEF TaskPlacement
    <3> QED BY <3>3, <3>5
  <2> QED BY <2>1, <2>2
<1>13. /\ Blocked' = {t \in Tasks : qs.st[t] = "BLOCKED"}
       /\ Live' = {t \in Tasks : qs.st[t] # "EXITED"}
  <2>1. CASE u = current_running
    <3>1. scheduler(qs.ready, sleep_wait_queue, qs.st, deadline) BY <2>1, <1>8
    <3>2. \A t \in Range(sleep_wait_queue) : qs.st[t] = "SLEEPING"
      BY <2>1, <1>5, <1>11 DEF Placed
    <3> DEFINE r  == qs.ready
               st == qs.st
    <3>3. /\ scheduler(r, sleep_wait_queue, st, deadline)
          /\ \A t \in Range(sleep_wait_queue) : st[t] = "SLEEPING"
      BY <3>1, <3>2
    <3> HIDE DEF r, st
    <3>4. /\ Blocked' = {t \in Tasks : st[t] = "BLOCKED"}
          /\ Live' = {t \in Tasks : st[t] # "EXITED"}
      BY <3>3, <1>2, SchedulerKeeps
    <3> QED BY <3>4 DEF st
  <2>2. CASE u # current_running
    <3>1. status' = qs.st BY <2>2, <1>8
    <3> QED BY <3>1 DEF Blocked, Live
  <2> QED BY <2>1, <2>2
<1>14. ASSUME NEW q \in WaitQueues
       PROVE  Range(ul.waiting[q]) = Range(wait_queue[q]) \ {u}
  <2>1. wait_queue[q] \in Seq(Tasks) BY <1>2
  <2>2. IsInjective(wait_queue[q]) BY DEF TaskPlacement, Placed
  <2>3. ul.waiting[q] = Without(wait_queue[q], u) BY <1>7
  <2> QED BY <2>1, <2>2, <2>3, WithoutRange
<1>15. ASSUME NEW t \in Tasks
       PROVE  qs.st[t] = IF t \in Range(wait_queue[o]) \ {u} THEN "READY"
                         ELSE IF t = u THEN "EXITED" ELSE status[t]
  BY <1>0, <1>2, <1>6, <1>7, <1>14
<1>16. \A t \in Range(wait_queue[o]) : status[t] = "BLOCKED"
  BY <1>0 DEF TaskPlacement, Placed
<1>17. Live' = Live \ {u} BY <1>13, <1>15, <1>16 DEF Live
<1>18. Blocked' = Blocked \ ({u} \cup Range(wait_queue[o])) BY <1>13, <1>15 DEF Blocked
<1>19. Range(wait_queue'[o]) = {}
  <2>1. wait_queue'[o] = <<>> BY <1>0, <1>6, <1>7, <1>10
  <2> QED BY <2>1 DEF Range
<1>20. ASSUME NEW p \in WaitQueues, p # o
       PROVE  Range(wait_queue'[p]) = Range(wait_queue[p]) \ {u}
  <2>1. wait_queue'[p] = ul.waiting[p] BY <1>0, <1>6, <1>7, <1>10, <1>20
  <2> QED BY <2>1, <1>14
<1> QED BY <1>12, <1>17, <1>18, <1>19, <1>20 DEF o

(***************************************************************************)
(* do_exit, do_spawn, and the handlers of the scheduler alone.                *)
(***************************************************************************)
LEMMA ExitEffect ==
  ASSUME SchedulerTypeOK, TaskPlacement, ~idle, do_exit
  PROVE  /\ SchedulerTypeOK' /\ TaskPlacement'
         /\ Live' = Live \ {current_running} /\ Blocked' = Blocked
         /\ wait_queue' = wait_queue
<1> DEFINE st == [status EXCEPT ![current_running] = "EXITED"]
<1>1. SchedulerTypeOK' /\ TaskPlacement' BY ExitPlaced
<1>2. /\ scheduler(ready_queue, sleep_wait_queue, st, deadline) /\ wait_queue' = wait_queue
      /\ sleep_wait_queue \in Seq(Tasks) /\ status \in [Tasks -> Status]
      /\ current_running \in Tasks /\ Range(sleep_wait_queue) \subseteq Tasks
  BY RangeOfSeq DEF do_exit, SchedulerTypeOK
<1>3. \A t \in Tasks : st[t] = IF t = current_running THEN "EXITED" ELSE status[t] BY <1>2
<1>4. \A t \in Range(sleep_wait_queue) : st[t] = "SLEEPING"
  BY <1>2, <1>3, RunningLives DEF TaskPlacement, Placed
<1> HIDE DEF st
<1>5. /\ Blocked' = {t \in Tasks : st[t] = "BLOCKED"}
      /\ Live' = {t \in Tasks : st[t] # "EXITED"}
  BY <1>2, <1>4, SchedulerKeeps
<1>6. current_running \notin Blocked BY RunningLives
<1>7. Live' = Live \ {current_running} /\ Blocked' = Blocked
  BY <1>2, <1>3, <1>5, <1>6 DEF Live, Blocked
<1> QED BY <1>1, <1>2, <1>7

LEMMA RequeueEffect ==
  ASSUME SchedulerTypeOK, TaskPlacement, ~idle,
         NEW left \in [Tasks -> 0 .. MaxSleep], Requeue(left)
  PROVE  /\ SchedulerTypeOK' /\ TaskPlacement'
         /\ Live' = Live /\ Blocked' = Blocked /\ wait_queue' = wait_queue
<1> DEFINE st == [status EXCEPT ![current_running] = "READY"]
           r == Append(ready_queue, current_running)
<1>1. SchedulerTypeOK' /\ TaskPlacement' BY RequeuePlaced
<1>2. /\ scheduler(r, sleep_wait_queue, st, left) /\ wait_queue' = wait_queue
      /\ sleep_wait_queue \in Seq(Tasks) /\ status \in [Tasks -> Status]
      /\ current_running \in Tasks /\ Range(sleep_wait_queue) \subseteq Tasks
  BY RangeOfSeq DEF Requeue, SchedulerTypeOK
<1>3. \A t \in Tasks : st[t] = IF t = current_running THEN "READY" ELSE status[t] BY <1>2
<1>4. \A t \in Range(sleep_wait_queue) : st[t] = "SLEEPING"
  BY <1>2, <1>3, RunningLives DEF TaskPlacement, Placed
<1> HIDE DEF st, r
<1>5. /\ Blocked' = {t \in Tasks : st[t] = "BLOCKED"}
      /\ Live' = {t \in Tasks : st[t] # "EXITED"}
  BY <1>2, <1>4, SchedulerKeeps
<1>6. current_running \in Live \ Blocked BY RunningLives
<1>7. Live' = Live /\ Blocked' = Blocked
  BY <1>2, <1>3, <1>5, <1>6 DEF Live, Blocked
<1> QED BY <1>1, <1>2, <1>7

LEMMA SleepEffect ==
  ASSUME SchedulerTypeOK, TaskPlacement, ~idle, NEW ticks \in 1 .. MaxSleep, do_sleep(ticks)
  PROVE  /\ SchedulerTypeOK' /\ TaskPlacement'
         /\ Live' = Live /\ Blocked' = Blocked /\ wait_queue' = wait_queue
<1> DEFINE st == [status EXCEPT ![current_running] = "SLEEPING"]
           s == Append(sleep_wait_queue, current_running)
           left == [deadline EXCEPT ![current_running] = ticks]
<1>1. SchedulerTypeOK' /\ TaskPlacement' BY SleepPlaced
<1>2. /\ scheduler(ready_queue, s, st, left) /\ wait_queue' = wait_queue
      /\ sleep_wait_queue \in Seq(Tasks) /\ status \in [Tasks -> Status]
      /\ current_running \in Tasks /\ Range(sleep_wait_queue) \subseteq Tasks
  BY RangeOfSeq DEF do_sleep, SchedulerTypeOK
<1>3. \A t \in Tasks : st[t] = IF t = current_running THEN "SLEEPING" ELSE status[t] BY <1>2
<1>4. s \in Seq(Tasks) /\ Range(s) = Range(sleep_wait_queue) \cup {current_running}
  BY <1>2, EnqueueRange
<1>5. \A t \in Range(s) : st[t] = "SLEEPING"
  BY <1>2, <1>3, <1>4 DEF TaskPlacement, Placed
<1> HIDE DEF st, s, left
<1>6. /\ Blocked' = {t \in Tasks : st[t] = "BLOCKED"}
      /\ Live' = {t \in Tasks : st[t] # "EXITED"}
  BY <1>2, <1>4, <1>5, SchedulerKeeps
<1>7. current_running \in Live \ Blocked BY RunningLives
<1>8. Live' = Live /\ Blocked' = Blocked
  BY <1>2, <1>3, <1>6, <1>7 DEF Live, Blocked
<1> QED BY <1>1, <1>2, <1>8


LEMMA EmptyRange ==
  ASSUME NEW S, NEW q \in Seq(S), Range(q) = {}
  PROVE  q = <<>>
<1>1. Len(q) \in Nat /\ DOMAIN q = 1 .. Len(q) BY LenProperties
<1>2. CASE Len(q) = 0 BY <1>2, EmptySeq
<1>3. CASE Len(q) > 0
  <2>1. 1 \in DOMAIN q BY <1>1, <1>3
  <2>2. q[1] \in Range(q) BY <2>1 DEF Range
  <2> QED BY <2>2
<1> QED BY <1>1, <1>2, <1>3

LEMMA SpawnEffect ==
  ASSUME SchedulerTypeOK, TaskPlacement, ~idle, NEW p, do_spawn(p),
         NEW f, f = FreeSlot, f \in Tasks \ Live, Range(wait_queue[Waiting(f)]) = {}
  PROVE  /\ SchedulerTypeOK' /\ TaskPlacement'
         /\ Live' = Live \cup {f} /\ Blocked' = Blocked
         /\ wait_queue' = wait_queue
<1>1. /\ current_running \in Tasks /\ ready_queue \in Seq(Tasks)
      /\ sleep_wait_queue \in Seq(Tasks) /\ wait_queue \in [WaitQueues -> Seq(Tasks)]
      /\ status \in [Tasks -> Status] /\ deadline \in [Tasks -> 0 .. MaxSleep]
      /\ Range(ready_queue) \subseteq Tasks /\ Range(sleep_wait_queue) \subseteq Tasks
  BY RangeOfSeq DEF SchedulerTypeOK
<1>2. /\ status' = [status EXCEPT ![f] = "FIRST_TIME"]
      /\ ready_queue' = Append(ready_queue, f)
      /\ wait_queue' = [wait_queue EXCEPT ![Waiting(f)] = <<>>]
      /\ current_running' = current_running /\ idle' = idle
      /\ sleep_wait_queue' = sleep_wait_queue /\ deadline' = deadline
  BY DEF do_spawn
<1>3. Waiting(f) \in WaitQueues BY QueuesExist
<1>4. wait_queue[Waiting(f)] = <<>>
  <2>1. wait_queue[Waiting(f)] \in Seq(Tasks) BY <1>1, <1>3
  <2> QED BY <2>1, EmptyRange
<1>5. wait_queue' = wait_queue BY <1>1, <1>2, <1>3, <1>4
<1>6. Placed({current_running}, ready_queue, sleep_wait_queue, wait_queue, status)
  BY RunningLives
<1>7. status[f] = "EXITED" BY DEF Live
<1>8. f \notin Range(ready_queue) BY <1>6, <1>7 DEF Placed, Runnable
<1>9. /\ ready_queue' \in Seq(Tasks) /\ Range(ready_queue') = Range(ready_queue) \cup {f}
      /\ IsInjective(ready_queue')
  <2>1. IsInjective(ready_queue) BY <1>6 DEF Placed
  <2> QED BY <2>1, <1>1, <1>2, <1>8, EnqueueRange
<1>10. /\ status' \in [Tasks -> Status] /\ status'[f] = "FIRST_TIME"
       /\ \A t \in Tasks : t # f => status'[t] = status[t]
  BY <1>1, <1>2 DEF Status
<1>11. SchedulerTypeOK' BY <1>1, <1>2, <1>5, <1>9, <1>10 DEF SchedulerTypeOK
<1>12. OnCPU' = {current_running} BY <1>2 DEF OnCPU
<1>13. Live' = Live \cup {f} BY <1>10 DEF Live
<1>14. Blocked' = Blocked BY <1>7, <1>10 DEF Blocked
<1>15. Placed({current_running}, ready_queue', sleep_wait_queue, wait_queue, status')
  <2>1. current_running # f /\ status'[current_running] \in Runnable
    <3>1. status[current_running] \in Runnable BY <1>6 DEF Placed
    <3> QED BY <3>1, <1>1, <1>7, <1>10 DEF Runnable
  <2>2. current_running \notin Range(ready_queue') BY <2>1, <1>6, <1>9 DEF Placed
  <2>3. \A t \in Range(ready_queue') : status'[t] \in Runnable
    BY <1>1, <1>6, <1>9, <1>10 DEF Placed, Runnable
  <2>4. \A t \in Range(sleep_wait_queue) : status'[t] = "SLEEPING"
    BY <1>1, <1>6, <1>7, <1>10 DEF Placed
  <2>5. ASSUME NEW o \in WaitQueues
        PROVE  /\ IsInjective(wait_queue[o])
               /\ \A t \in Range(wait_queue[o]) : status'[t] = "BLOCKED"
               /\ \A q \in WaitQueues : o # q => Range(wait_queue[o]) \cap Range(wait_queue[q]) = {}
    <3>1. Range(wait_queue[o]) \subseteq Tasks BY <1>1, RangeOfSeq
    <3>2. \A t \in Range(wait_queue[o]) : status'[t] = "BLOCKED"
      BY <3>1, <1>6, <1>7, <1>10 DEF Placed
    <3> QED BY <3>2, <1>6 DEF Placed
  <2>6. ASSUME NEW t \in Tasks
        PROVE  /\ status'[t] \in Runnable => t \in {current_running} \cup Range(ready_queue')
               /\ status'[t] = "SLEEPING" => t \in Range(sleep_wait_queue)
               /\ status'[t] = "BLOCKED" => \E o \in WaitQueues : t \in Range(wait_queue[o])
    <3>1. CASE t = f BY <3>1, <1>9, <1>10
    <3>2. CASE t # f
      <4>1. status'[t] = status[t] BY <3>2, <1>10
      <4> QED BY <4>1, <1>6, <1>9 DEF Placed
    <3> QED BY <3>1, <3>2
  <2>7. IsInjective(sleep_wait_queue) BY <1>6 DEF Placed
  <2> QED BY <2>1, <2>2, <2>3, <2>4, <2>5, <2>6, <2>7, <1>9 DEF Placed
<1>16. TaskPlacement' BY <1>2, <1>5, <1>12, <1>15 DEF TaskPlacement
<1> QED BY <1>5, <1>11, <1>13, <1>14, <1>16


-----------------------------------------------------------------------------
(***************************************************************************)
(* The inductive invariant.  A process on a queue is inside the call that    *)
(* the queue is for; pids are given out once; and no close ever wipes a box,  *)
(* for mbox_open does not count its callers: the users of a box are never     *)
(* more than zero.                                                           *)
(***************************************************************************)
SenderOf(b, t) == \E msg \in Messages : call[t] = <<"send", b, msg>>
ReceiverOf(b, t) == call[t] = <<"recv", b>>
WaiterFor(u, t) == call[t] = <<"wait", pid[u]>>

WaitersCalls ==
  /\ \A u \in Tasks : \A t \in Range(wait_queue[Waiting(u)]) : u \in Live /\ WaiterFor(u, t)
  /\ \A b \in Boxes : \A t \in Range(wait_queue[Senders(b)]) : SenderOf(b, t)
  /\ \A b \in Boxes : \A t \in Range(wait_queue[Receivers(b)]) : ReceiverOf(b, t)

PidsFresh ==
  /\ \A t \in Tasks : pid[t] < spawn_times /\ pid[t] <= MaxSpawn
  /\ \A t, u \in Live : pid[t] = pid[u] => t = u
  /\ \A t \in Tasks : \A q \in Nat : call[t] = <<"wait", q>> => q < spawn_times

Released == \A t \in Live \ Blocked : \A u \in Live : ~ WaiterFor(u, t)

Handles ==
  /\ \A b \in Boxes : user_num[b] <= 0
  /\ \A b, c \in Boxes : name[b] = name[c] /\ name[b] # EMPTY => b = c
  /\ \A t \in Tasks : \A nm \in Names : id[t][nm] # EMPTY => name[id[t][nm]] = nm
  /\ \A t \in Tasks : \A b \in Boxes : mbox_use[t][b] = 1 <=> \E nm \in Names : id[t][nm] = b

ProcessTypes ==
  /\ pid \in [Tasks -> Nat]
  /\ program \in [Tasks -> Programs]
  /\ mbox_use \in [Tasks -> [Boxes -> {0, 1}]]
  /\ spawn_times \in Nat

BoxTypes ==
  /\ name \in [Boxes -> Names \cup {EMPTY}]
  /\ user_num \in [Boxes -> Int]
  /\ msg_queue \in [Boxes -> [Positions -> Messages \cup {EMPTY}]]
  /\ msg_num \in [Boxes -> Int]
  /\ send_pos \in [Boxes -> Positions]
  /\ recv_pos \in [Boxes -> Positions]

ClientTypes ==
  /\ call \in [Tasks -> Calls]
  /\ id \in [Tasks -> [Names -> Boxes \cup {EMPTY}]]
  /\ last \in [Boxes -> Messages \cup {EMPTY}]

Waits == SchedulerTypeOK /\ TaskPlacement /\ WaitersCalls /\ PidsFresh /\ Released

IInv == Waits /\ ProcessTypes /\ BoxTypes /\ ClientTypes /\ Handles

(***************************************************************************)
(* What the invariant says of the runs' properties.                          *)
(***************************************************************************)
LEMMA InvariantTyped ==
  ASSUME IInv
  PROVE  IpcTypeOK
BY DEF IInv, Waits, ProcessTypes, BoxTypes, ClientTypes, IpcTypeOK, MboxTypeOK, ProcessesTypeOK

LEMMA InvariantWaits ==
  ASSUME IInv
  PROVE  WaitSound
<1> SUFFICES ASSUME NEW t \in Live, NEW q \in 0 .. MaxSpawn, call[t] = <<"wait", q>>
             PROVE  IF status[t] = "BLOCKED"
                    THEN \E u \in Live : pid[u] = q /\ t \in Range(wait_queue[Waiting(u)])
                    ELSE \A u \in Live : pid[u] # q
  BY DEF WaitSound
<1>1. t \in Tasks BY DEF Live
<1>2. CASE status[t] = "BLOCKED"
  <2>1. PICK o \in WaitQueues : t \in Range(wait_queue[o])
    BY <1>1, <1>2 DEF IInv, Waits, TaskPlacement, Placed
  <2>2. CASE \E b \in Boxes : o = Senders(b) \/ o = Receivers(b)
    <3>1. PICK b \in Boxes : o = Senders(b) \/ o = Receivers(b) BY <2>2
    <3>2. SenderOf(b, t) \/ ReceiverOf(b, t) BY <2>1, <3>1 DEF IInv, Waits, WaitersCalls
    <3>3. FALSE BY <3>2 DEF SenderOf, ReceiverOf
    <3> QED BY <3>3
  <2>3. CASE \E u \in Tasks : o = Waiting(u)
    <3>1. PICK u \in Tasks : o = Waiting(u) BY <2>3
    <3>2. u \in Live /\ WaiterFor(u, t) BY <2>1, <3>1 DEF IInv, Waits, WaitersCalls
    <3>3. pid[u] = q BY <3>2 DEF WaiterFor
    <3> QED BY <1>2, <2>1, <3>1, <3>2, <3>3
  <2> QED BY <2>2, <2>3, MboxAssumption
<1>3. CASE status[t] # "BLOCKED"
  <2>1. t \in Live \ Blocked BY <1>3 DEF Blocked
  <2> QED BY <2>1, <1>3 DEF IInv, Waits, Released, WaiterFor
<1> QED BY <1>2, <1>3

LEMMA InvariantHandles ==
  ASSUME IInv
  PROVE  HandlesValid
<1>1. \A b, c \in Boxes : name[b] = name[c] /\ name[b] # EMPTY => b = c BY DEF IInv, Handles
<1>2. ASSUME NEW t \in Live, NEW b \in Boxes
      PROVE  (mbox_use[t][b] = 1) <=> (\E nm \in Names : id[t][nm] = b /\ name[b] = nm)
  <2>1. t \in Tasks BY DEF Live
  <2>2. mbox_use[t][b] = 1 <=> \E nm \in Names : id[t][nm] = b BY <2>1 DEF IInv, Handles
  <2>3. ASSUME NEW nm \in Names, id[t][nm] = b PROVE name[b] = nm
    <3>1. b # EMPTY BY MboxAssumption
    <3> QED BY <3>1, <2>1, <2>3 DEF IInv, Handles
  <2> QED BY <2>2, <2>3
<1> QED BY <1>1, <1>2 DEF HandlesValid

LEMMA InitInvariant ==
  ASSUME Init
  PROVE  IInv
<1>1. /\ current_running = 0 /\ idle = FALSE /\ ready_queue = <<>> /\ sleep_wait_queue = <<>>
      /\ wait_queue = [q \in WaitQueues |-> <<>>]
      /\ status = [t \in Tasks |-> IF t = 0 THEN "FIRST_TIME" ELSE "EXITED"]
      /\ deadline = [t \in Tasks |-> 0]
      /\ pid = [t \in Tasks |-> 0]
      /\ program = [t \in Tasks |-> init]
      /\ mbox_use = [t \in Tasks |-> [i \in Boxes |-> 0]]
      /\ spawn_times = 1
  BY DEF Init, ProcessesInit
<1>2. /\ name = [b \in Boxes |-> EMPTY] /\ user_num = [b \in Boxes |-> 0]
      /\ msg_queue = [b \in Boxes |-> [i \in Positions |-> EMPTY]]
      /\ msg_num = [b \in Boxes |-> 0]
      /\ send_pos = [b \in Boxes |-> 0] /\ recv_pos = [b \in Boxes |-> 0]
      /\ call = [t \in Tasks |-> UserCode]
      /\ id = [t \in Tasks |-> [nm \in Names |-> EMPTY]]
      /\ last = [b \in Boxes |-> EMPTY]
  BY DEF Init, init_mbox
<1>3. 0 \in Tasks
  <2> DEFINE n == Cardinality(Tasks)
  <2>1. n \in Nat /\ n # 0 /\ Tasks = 0 .. n - 1
    BY SchedulerAssumption, ProcessesAssumption, FS_CardinalityType, FS_EmptySet
  <2> HIDE DEF n
  <2> QED BY <2>1
<1>4. SchedulerTypeOK
  <2>1. <<>> \in Seq(Tasks) BY EmptySeq
  <2>2. status \in [Tasks -> Status] BY <1>1 DEF Status
  <2>3. deadline \in [Tasks -> 0 .. MaxSleep] BY <1>1, SchedulerAssumption
  <2>4. wait_queue \in [WaitQueues -> Seq(Tasks)] BY <1>1, <2>1
  <2> QED BY <1>1, <1>3, <2>1, <2>2, <2>3, <2>4 DEF SchedulerTypeOK
<1>5. Range(<<>>) = {} /\ IsInjective(<<>>) BY DEF Range, IsInjective
<1>6. TaskPlacement
  <2>1. OnCPU = {0} BY <1>1 DEF OnCPU
  <2>2. \A t \in Tasks : status[t] = IF t = 0 THEN "FIRST_TIME" ELSE "EXITED" BY <1>1
  <2>3. \A q \in WaitQueues : wait_queue[q] = <<>> BY <1>1
  <2>4. Placed({0}, <<>>, <<>>, wait_queue, status)
    BY <1>3, <1>5, <2>2, <2>3 DEF Placed, Runnable
  <2> QED BY <1>1, <2>1, <2>4 DEF TaskPlacement
<1>7. Live = {0} BY <1>1, <1>3 DEF Live
<1>8. WaitersCalls BY <1>1, <1>5, QueuesExist DEF WaitersCalls
<1>9. \A t \in Tasks : call[t] = <<"user">> BY <1>2 DEF UserCode
<1>10. PidsFresh BY <1>1, <1>7, <1>9, IpcAssumption DEF PidsFresh
<1>11. Released BY <1>3, <1>7, <1>9 DEF Released, WaiterFor
<1>12. ProcessTypes BY <1>1, ProcessesAssumption DEF ProcessTypes
<1>13. BoxTypes
  <2>1. 0 \in Positions BY MboxAssumption DEF Positions
  <2> QED BY <1>2, <2>1 DEF BoxTypes
<1>14. ClientTypes BY <1>2 DEF ClientTypes, Calls
<1>15. Handles
  <2>1. \A b \in Boxes : b # EMPTY BY MboxAssumption
  <2> QED BY <1>1, <1>2, <2>1 DEF Handles
<1> QED BY <1>4, <1>6, <1>8, <1>10, <1>11, <1>12, <1>13, <1>14, <1>15 DEF IInv, Waits


-----------------------------------------------------------------------------
(***************************************************************************)
(* How the waits change: by a step that unblocks senders and receivers W, or  *)
(* nobody; that blocks the caller; that kills or ends a process; that spawns   *)
(* one.                                                                      *)
(***************************************************************************)
OnlyReturns == call' = call \/ call' = [call EXCEPT ![current_running] = UserCode]

LEMMA OnlyReturnsCalls ==
  ASSUME call \in [Tasks -> Calls], OnlyReturns
  PROVE  /\ call' \in [Tasks -> Calls]
         /\ \A t \in Tasks : t # current_running => call'[t] = call[t]
         /\ \A t \in Tasks : call'[t] = call[t] \/ call'[t] = <<"user">>
<1>1. UserCode \in Calls /\ UserCode = <<"user">> BY DEF Calls, UserCode
<1> QED BY <1>1 DEF OnlyReturns

LEMMA WakeWaits ==
  ASSUME Waits, ProcessTypes, ~idle, call \in [Tasks -> Calls],
         SchedulerTypeOK', TaskPlacement', Live' = Live,
         NEW W, \A t \in W : \A u \in Tasks : ~ WaiterFor(u, t),
         Blocked' = Blocked \ W,
         \A p \in WaitQueues : Range(wait_queue'[p]) \subseteq Range(wait_queue[p]),
         pid' = pid, spawn_times' = spawn_times, OnlyReturns
  PROVE  Waits'
<1>1. /\ \A t \in Tasks : t # current_running => call'[t] = call[t]
      /\ \A t \in Tasks : call'[t] = call[t] \/ call'[t] = <<"user">>
  BY OnlyReturnsCalls
<1>2. ASSUME NEW p \in WaitQueues, NEW t \in Range(wait_queue'[p])
      PROVE  t \in Range(wait_queue[p]) /\ t \in Tasks /\ call'[t] = call[t]
  <2>1. t \in Range(wait_queue[p]) BY <1>2
  <2>2. SchedulerTypeOK /\ TaskPlacement BY DEF Waits
  <2>3. t # current_running BY <2>1, <2>2, RunningLives
  <2>4. wait_queue[p] \in Seq(Tasks) BY <2>2 DEF SchedulerTypeOK
  <2>5. t \in Tasks BY <2>1, <2>4, RangeOfSeq
  <2> QED BY <2>1, <2>3, <2>5, <1>1
<1>3. WaitersCalls'
  <2>1. ASSUME NEW u \in Tasks, NEW t \in Range(wait_queue'[Waiting(u)])
        PROVE  u \in Live' /\ WaiterFor(u, t)'
    <3>1. t \in Range(wait_queue[Waiting(u)]) /\ call'[t] = call[t] BY <1>2, QueuesExist
    <3> QED BY <3>1 DEF Waits, WaitersCalls, WaiterFor
  <2>2. ASSUME NEW b \in Boxes, NEW t \in Range(wait_queue'[Senders(b)])
        PROVE  SenderOf(b, t)'
    <3>1. t \in Range(wait_queue[Senders(b)]) /\ call'[t] = call[t] BY <1>2, QueuesExist
    <3> QED BY <3>1 DEF Waits, WaitersCalls, SenderOf
  <2>3. ASSUME NEW b \in Boxes, NEW t \in Range(wait_queue'[Receivers(b)])
        PROVE  ReceiverOf(b, t)'
    <3>1. t \in Range(wait_queue[Receivers(b)]) /\ call'[t] = call[t] BY <1>2, QueuesExist
    <3> QED BY <3>1 DEF Waits, WaitersCalls, ReceiverOf
  <2> QED BY <2>1, <2>2, <2>3 DEF WaitersCalls
<1>4. PidsFresh'
  <2>1. \A t \in Tasks : \A q \in Nat : call'[t] = <<"wait", q>> => call[t] = <<"wait", q>>
    BY <1>1
  <2> QED BY <2>1 DEF Waits, PidsFresh
<1>5. Released'
  <2> SUFFICES ASSUME NEW t \in Live \ Blocked', NEW u \in Live, WaiterFor(u, t)'
               PROVE  FALSE
    BY DEF Released
  <2>1. t \in Tasks /\ u \in Tasks BY DEF Live
  <2>2. WaiterFor(u, t) BY <2>1, <1>1 DEF WaiterFor
  <2>3. t \notin W BY <2>1, <2>2
  <2>4. t \in Live \ Blocked BY <2>3
  <2> QED BY <2>2, <2>4 DEF Waits, Released
<1> QED BY <1>3, <1>4, <1>5 DEF Waits

LEMMA CalmWaits ==
  ASSUME Waits, ProcessTypes, ~idle, call \in [Tasks -> Calls],
         SchedulerTypeOK', TaskPlacement', Live' = Live, Blocked' = Blocked,
         wait_queue' = wait_queue, pid' = pid, spawn_times' = spawn_times, OnlyReturns
  PROVE  Waits'
<1> DEFINE W == {}
<1>1. Blocked' = Blocked \ W OBVIOUS
<1>2. \A t \in W : \A u \in Tasks : ~ WaiterFor(u, t) OBVIOUS
<1>3. \A p \in WaitQueues : Range(wait_queue'[p]) \subseteq Range(wait_queue[p]) OBVIOUS
<1> HIDE DEF W
<1> QED BY <1>1, <1>2, <1>3, WakeWaits

\* The call k of a process that blocks on the queue o.
Fits(o, k) ==
  \/ \E u \in Live : o = Waiting(u) /\ k = <<"wait", pid[u]>>
  \/ \E b \in Boxes : \E msg \in Messages : o = Senders(b) /\ k = <<"send", b, msg>>
  \/ \E b \in Boxes : o = Receivers(b) /\ k = <<"recv", b>>

LEMMA BlockWaits ==
  ASSUME Waits, ProcessTypes, ~idle, call \in [Tasks -> Calls],
         NEW o \in WaitQueues, block(Queues, o),
         NEW k \in Calls, Fits(o, k), call' = [call EXCEPT ![current_running] = k],
         pid' = pid, spawn_times' = spawn_times
  PROVE  Waits'
<1> DEFINE c == current_running
<1>1. SchedulerTypeOK /\ TaskPlacement BY DEF Waits
<1>2. /\ SchedulerTypeOK' /\ TaskPlacement'
      /\ Live' = Live /\ Blocked' = Blocked \cup {c}
      /\ Range(wait_queue'[o]) = Range(wait_queue[o]) \cup {c}
      /\ \A p \in WaitQueues : p # o => wait_queue'[p] = wait_queue[p]
  BY <1>1, BlockEffect DEF Waiters
<1>3. /\ c \in Tasks /\ \A q \in WaitQueues : c \notin Range(wait_queue[q])
      /\ \A q \in WaitQueues : Range(wait_queue[q]) \subseteq Tasks
  <2>1. \A q \in WaitQueues : wait_queue[q] \in Seq(Tasks) BY <1>1 DEF SchedulerTypeOK
  <2> QED BY <1>1, <2>1, RunningLives, RangeOfSeq DEF SchedulerTypeOK
<1> HIDE DEF c
<1>4. call'[c] = k /\ \A t \in Tasks : t # c => call'[t] = call[t] BY <1>3 DEF c
<1>5. ASSUME NEW p \in WaitQueues, NEW t \in Range(wait_queue'[p])
      PROVE  \/ p = o /\ t = c /\ call'[t] = k
             \/ t \in Range(wait_queue[p]) /\ call'[t] = call[t]
  BY <1>2, <1>3, <1>4
<1>6. WaitersCalls'
  <2>1. ASSUME NEW u \in Tasks, NEW t \in Range(wait_queue'[Waiting(u)])
        PROVE  u \in Live' /\ WaiterFor(u, t)'
    <3>1. CASE Waiting(u) = o /\ t = c /\ call'[t] = k
      <4>1. \A v \in Live : v \in Tasks BY DEF Live
      <4>2. u \in Live /\ k = <<"wait", pid[u]>> BY <3>1, <4>1, QueuesDiffer DEF Fits
      <4> QED BY <3>1, <4>2, <1>2 DEF WaiterFor
    <3>2. CASE t \in Range(wait_queue[Waiting(u)]) /\ call'[t] = call[t]
      BY <3>2, <1>2 DEF Waits, WaitersCalls, WaiterFor
    <3> QED BY <3>1, <3>2, <1>5, QueuesExist
  <2>2. ASSUME NEW b \in Boxes, NEW t \in Range(wait_queue'[Senders(b)])
        PROVE  SenderOf(b, t)'
    <3>1. CASE Senders(b) = o /\ t = c /\ call'[t] = k
      <4>1. \A v \in Live : v \in Tasks BY DEF Live
      <4>2. \E msg \in Messages : k = <<"send", b, msg>> BY <3>1, <4>1, QueuesDiffer DEF Fits
      <4> QED BY <3>1, <4>2 DEF SenderOf
    <3>2. CASE t \in Range(wait_queue[Senders(b)]) /\ call'[t] = call[t]
      BY <3>2 DEF Waits, WaitersCalls, SenderOf
    <3> QED BY <3>1, <3>2, <1>5, QueuesExist
  <2>3. ASSUME NEW b \in Boxes, NEW t \in Range(wait_queue'[Receivers(b)])
        PROVE  ReceiverOf(b, t)'
    <3>1. CASE Receivers(b) = o /\ t = c /\ call'[t] = k
      <4>1. \A v \in Live : v \in Tasks BY DEF Live
      <4>2. k = <<"recv", b>> BY <3>1, <4>1, QueuesDiffer DEF Fits
      <4> QED BY <3>1, <4>2 DEF ReceiverOf
    <3>2. CASE t \in Range(wait_queue[Receivers(b)]) /\ call'[t] = call[t]
      BY <3>2 DEF Waits, WaitersCalls, ReceiverOf
    <3> QED BY <3>1, <3>2, <1>5, QueuesExist
  <2> QED BY <2>1, <2>2, <2>3 DEF WaitersCalls
<1>7. PidsFresh'
  <2>1. ASSUME NEW t \in Tasks, NEW q \in Nat, call'[t] = <<"wait", q>>
        PROVE  q < spawn_times
    <3>1. CASE t # c
      <4>1. call[t] = <<"wait", q>> BY <2>1, <3>1, <1>4
      <4> QED BY <4>1 DEF Waits, PidsFresh
    <3>2. CASE t = c
      <4>1. k = <<"wait", q>> BY <2>1, <3>2, <1>4
      <4>2. PICK u \in Live : k = <<"wait", pid[u]>> BY <4>1 DEF Fits
      <4>3. q = pid[u] /\ u \in Tasks BY <4>1, <4>2 DEF Live
      <4> QED BY <4>3 DEF Waits, PidsFresh
    <3> QED BY <3>1, <3>2
  <2> QED BY <2>1, <1>2 DEF Waits, PidsFresh
<1>8. Released'
  <2> SUFFICES ASSUME NEW t \in Live \ Blocked', NEW u \in Live, WaiterFor(u, t)'
               PROVE  FALSE
    BY <1>2 DEF Released
  <2>1. t \in Tasks /\ t # c /\ t \in Live \ Blocked BY <1>2 DEF Live
  <2>2. WaiterFor(u, t) BY <2>1, <1>4 DEF WaiterFor
  <2> QED BY <2>1, <2>2 DEF Waits, Released
<1> QED BY <1>2, <1>6, <1>7, <1>8 DEF Waits


\* The victim is not counted among those that live, whatever its call.
LEMMA KillWaits ==
  ASSUME Waits, ProcessTypes, ~idle, NEW u \in Live, do_kill(u),
         pid' = pid, spawn_times' = spawn_times, call' = call
  PROVE  Waits'
<1> DEFINE o == Waiting(u)
<1>1. SchedulerTypeOK /\ TaskPlacement /\ u \in Tasks BY DEF Waits, Live
<1>2. /\ SchedulerTypeOK' /\ TaskPlacement'
      /\ Live' = Live \ {u}
      /\ Blocked' = Blocked \ ({u} \cup Range(wait_queue[o]))
      /\ Range(wait_queue'[o]) = {}
      /\ \A p \in WaitQueues : p # o => Range(wait_queue'[p]) = Range(wait_queue[p]) \ {u}
  BY <1>1, KillEffect
<1>3. \A p \in WaitQueues : Range(wait_queue'[p]) \subseteq Range(wait_queue[p]) BY <1>2
<1> HIDE DEF o
<1>4. WaitersCalls'
  <2>1. ASSUME NEW v \in Tasks, NEW t \in Range(wait_queue'[Waiting(v)])
        PROVE  v \in Live' /\ WaiterFor(v, t)'
    <3>1. v # u BY <1>2 DEF o
    <3>2. t \in Range(wait_queue[Waiting(v)]) BY <1>3, QueuesExist
    <3>3. v \in Live /\ WaiterFor(v, t) BY <3>2 DEF Waits, WaitersCalls
    <3> QED BY <3>1, <3>3, <1>2 DEF WaiterFor
  <2>2. ASSUME NEW b \in Boxes, NEW t \in Range(wait_queue'[Senders(b)])
        PROVE  SenderOf(b, t)'
    <3>1. t \in Range(wait_queue[Senders(b)]) BY <1>3, QueuesExist
    <3> QED BY <3>1 DEF Waits, WaitersCalls, SenderOf
  <2>3. ASSUME NEW b \in Boxes, NEW t \in Range(wait_queue'[Receivers(b)])
        PROVE  ReceiverOf(b, t)'
    <3>1. t \in Range(wait_queue[Receivers(b)]) BY <1>3, QueuesExist
    <3> QED BY <3>1 DEF Waits, WaitersCalls, ReceiverOf
  <2> QED BY <2>1, <2>2, <2>3 DEF WaitersCalls
<1>5. PidsFresh' BY <1>2 DEF Waits, PidsFresh
<1>6. Released'
  <2> SUFFICES ASSUME NEW t \in Live \ {u}, t \notin Blocked', NEW v \in Live \ {u},
                      WaiterFor(v, t)
               PROVE  FALSE
    BY <1>2 DEF Released, WaiterFor
  <2>1. CASE t \in Range(wait_queue[o])
    <3>1. WaiterFor(u, t) BY <2>1, <1>1 DEF Waits, WaitersCalls, o
    <3>2. pid[u] = pid[v] BY <3>1 DEF WaiterFor
    <3> QED BY <3>2 DEF Waits, PidsFresh
  <2>2. CASE t \notin Range(wait_queue[o])
    <3>1. t \in Live \ Blocked BY <2>2, <1>2
    <3> QED BY <3>1 DEF Waits, Released
  <2> QED BY <2>1, <2>2
<1> QED BY <1>2, <1>4, <1>5, <1>6 DEF Waits

LEMMA ExitWaits ==
  ASSUME Waits, ProcessTypes, ~idle, do_exit, wait_queue[Waiting(current_running)] = <<>>,
         pid' = pid, spawn_times' = spawn_times, call' = call
  PROVE  Waits'
<1> DEFINE c == current_running
<1>1. SchedulerTypeOK /\ TaskPlacement BY DEF Waits
<1>2. /\ SchedulerTypeOK' /\ TaskPlacement'
      /\ Live' = Live \ {c} /\ Blocked' = Blocked /\ wait_queue' = wait_queue
  BY <1>1, ExitEffect
<1>3. Range(wait_queue[Waiting(c)]) = {} BY DEF Range
<1> HIDE DEF c
<1>4. WaitersCalls'
  <2>1. ASSUME NEW v \in Tasks, NEW t \in Range(wait_queue'[Waiting(v)])
        PROVE  v \in Live' /\ WaiterFor(v, t)'
    <3>1. t \in Range(wait_queue[Waiting(v)]) /\ v # c BY <1>2, <1>3
    <3>2. v \in Live /\ WaiterFor(v, t) BY <3>1 DEF Waits, WaitersCalls
    <3> QED BY <3>1, <3>2, <1>2 DEF WaiterFor
  <2>2. /\ \A b \in Boxes : \A t \in Range(wait_queue'[Senders(b)]) : SenderOf(b, t)'
        /\ \A b \in Boxes : \A t \in Range(wait_queue'[Receivers(b)]) : ReceiverOf(b, t)'
    BY <1>2 DEF Waits, WaitersCalls, SenderOf, ReceiverOf
  <2> QED BY <2>1, <2>2 DEF WaitersCalls
<1>5. PidsFresh' BY <1>2 DEF Waits, PidsFresh
<1>6. Released' BY <1>2 DEF Waits, Released, WaiterFor
<1> QED BY <1>2, <1>4, <1>5, <1>6 DEF Waits

LEMMA FreeSlotUnwaited ==
  ASSUME Waits, NEW f \in Tasks \ Live
  PROVE  Range(wait_queue[Waiting(f)]) = {}
BY DEF Waits, WaitersCalls

LEMMA SpawnWaits ==
  ASSUME Waits, ProcessTypes, ~idle, call \in [Tasks -> Calls],
         NEW p \in Programs, NEW f, f = FreeSlot, f \in Tasks \ Live,
         do_spawn(p), spawn_times < MaxSpawn,
         call' = [call EXCEPT ![f] = UserCode]
  PROVE  Waits'
<1>1. SchedulerTypeOK /\ TaskPlacement BY DEF Waits
<1>2. /\ SchedulerTypeOK' /\ TaskPlacement'
      /\ Live' = Live \cup {f} /\ Blocked' = Blocked /\ wait_queue' = wait_queue
  BY <1>1, FreeSlotUnwaited, SpawnEffect
<1>3. /\ pid' = [pid EXCEPT ![f] = spawn_times] /\ spawn_times' = spawn_times + 1
      /\ spawn_times \in Nat /\ pid \in [Tasks -> Nat]
  BY DEF do_spawn, ProcessTypes
<1>4. pid'[f] = spawn_times /\ \A t \in Tasks : t # f => pid'[t] = pid[t] BY <1>3
<1>5. call'[f] = <<"user">> /\ \A t \in Tasks : t # f => call'[t] = call[t] BY DEF UserCode
<1>6. f \notin Live /\ f \notin Blocked /\ \A v \in Live : v # f /\ v \in Tasks
  BY DEF Live, Blocked
<1>7. ASSUME NEW q \in WaitQueues, NEW t \in Range(wait_queue[q])
      PROVE  t \in Tasks /\ t # f
  <2>1. wait_queue[q] \in Seq(Tasks) BY <1>1 DEF SchedulerTypeOK
  <2>2. t \in Tasks BY <2>1, RangeOfSeq
  <2>3. status[t] = "BLOCKED" BY <1>1 DEF TaskPlacement, Placed
  <2> QED BY <2>2, <2>3, <1>6 DEF Blocked
<1>8. WaitersCalls'
  <2>1. ASSUME NEW v \in Tasks, NEW t \in Range(wait_queue'[Waiting(v)])
        PROVE  v \in Live' /\ WaiterFor(v, t)'
    <3>1. t \in Range(wait_queue[Waiting(v)]) BY <1>2
    <3>2. v \in Live /\ WaiterFor(v, t) BY <3>1 DEF Waits, WaitersCalls
    <3>3. t \in Tasks /\ t # f BY <3>1, <1>7, QueuesExist
    <3> QED BY <3>2, <3>3, <1>2, <1>4, <1>5, <1>6 DEF WaiterFor
  <2>2. ASSUME NEW b \in Boxes, NEW t \in Range(wait_queue'[Senders(b)])
        PROVE  SenderOf(b, t)'
    <3>1. t \in Range(wait_queue[Senders(b)]) BY <1>2
    <3>2. t \in Tasks /\ t # f BY <3>1, <1>7, QueuesExist
    <3> QED BY <3>1, <3>2, <1>5 DEF Waits, WaitersCalls, SenderOf
  <2>3. ASSUME NEW b \in Boxes, NEW t \in Range(wait_queue'[Receivers(b)])
        PROVE  ReceiverOf(b, t)'
    <3>1. t \in Range(wait_queue[Receivers(b)]) BY <1>2
    <3>2. t \in Tasks /\ t # f BY <3>1, <1>7, QueuesExist
    <3> QED BY <3>1, <3>2, <1>5 DEF Waits, WaitersCalls, ReceiverOf
  <2> QED BY <2>1, <2>2, <2>3 DEF WaitersCalls
<1>9. PidsFresh'
  <2>1. \A t \in Tasks : pid[t] < spawn_times /\ pid[t] <= MaxSpawn BY DEF Waits, PidsFresh
  <2>2. \A t \in Tasks : pid'[t] < spawn_times' /\ pid'[t] <= MaxSpawn
    BY <2>1, <1>3, <1>4, IpcAssumption
  <2>3. \A t, u \in Live' : pid'[t] = pid'[u] => t = u
    <3> SUFFICES ASSUME NEW t \in Live', NEW u \in Live', pid'[t] = pid'[u] PROVE t = u
      OBVIOUS
    <3>1. CASE t # f /\ u # f
      <4>1. t \in Live /\ u \in Live /\ pid[t] = pid[u] BY <3>1, <1>2, <1>4, <1>6
      <4> QED BY <4>1 DEF Waits, PidsFresh
    <3>2. ASSUME NEW v \in Live, pid'[v] = pid'[f] PROVE FALSE
      BY <3>2, <2>1, <1>3, <1>4, <1>6
    <3> QED BY <3>1, <3>2, <1>2
  <2>4. ASSUME NEW t \in Tasks, NEW q \in Nat, call'[t] = <<"wait", q>>
        PROVE  q < spawn_times'
    <3>1. t # f BY <2>4, <1>5
    <3>2. call[t] = <<"wait", q>> BY <3>1, <2>4, <1>5
    <3>3. q < spawn_times BY <3>2 DEF Waits, PidsFresh
    <3> QED BY <3>3, <1>3
  <2> QED BY <2>2, <2>3, <2>4 DEF PidsFresh
<1>10. Released'
  <2> SUFFICES ASSUME NEW t \in Live', t \notin Blocked', NEW u \in Live', WaiterFor(u, t)'
               PROVE  FALSE
    BY DEF Released
  <2>1. t # f BY <1>5 DEF WaiterFor
  <2>2. t \in Live \ Blocked /\ t \in Tasks /\ call'[t] = call[t] BY <2>1, <1>2, <1>5, <1>6
  <2>3. CASE u = f
    <3>1. call[t] = <<"wait", spawn_times>> BY <2>2, <2>3, <1>4 DEF WaiterFor
    <3>2. spawn_times < spawn_times BY <3>1, <2>2, <1>3 DEF Waits, PidsFresh
    <3> QED BY <3>2, <1>3
  <2>4. CASE u # f
    <3>1. u \in Live /\ WaiterFor(u, t) BY <2>2, <2>4, <1>2, <1>4, <1>6 DEF WaiterFor
    <3> QED BY <3>1, <2>2 DEF Waits, Released
  <2> QED BY <2>3, <2>4
<1> QED BY <1>2, <1>8, <1>9, <1>10 DEF Waits


-----------------------------------------------------------------------------
(* The calls of kernel.c and scheduler.c.                                    *)

LEMMA CallerRuns ==
  ASSUME NEW t, InUserCode(t)
  PROVE  ~idle /\ t = current_running
BY DEF InUserCode, Running

LEMMA ProcessTypesKept ==
  ASSUME ProcessTypes, UNCHANGED processVars
  PROVE  ProcessTypes' /\ pid' = pid /\ spawn_times' = spawn_times
BY DEF ProcessTypes, processVars

LEMMA BoxTypesKept ==
  ASSUME BoxTypes, UNCHANGED boxVars
  PROVE  BoxTypes'
BY DEF BoxTypes, boxVars, bufferVars

LEMMA HandlesKept ==
  ASSUME Handles, UNCHANGED <<name, user_num, mbox_use, id>>
  PROVE  Handles'
BY DEF Handles

LEMMA ClientTypesKept ==
  ASSUME ClientTypes, OnlyReturns, UNCHANGED <<id, last>>
  PROVE  ClientTypes'
BY OnlyReturnsCalls DEF ClientTypes

\* The steps that leave the process table and the boxes as they are.
LEMMA OutsideKept ==
  ASSUME IInv, Waits', UNCHANGED <<processVars, boxVars, id, last>>, call' \in [Tasks -> Calls]
  PROVE  IInv'
<1>1. ProcessTypes' BY ProcessTypesKept DEF IInv
<1>2. BoxTypes' BY BoxTypesKept DEF IInv
<1>3. ClientTypes' BY DEF IInv, ClientTypes
<1>4. Handles' BY HandlesKept DEF IInv, processVars, boxVars
<1> QED BY <1>1, <1>2, <1>3, <1>4 DEF IInv

LEMMA RequeueKeeps ==
  ASSUME IInv, ~idle, NEW left \in [Tasks -> 0 .. MaxSleep], Requeue(left),
         UNCHANGED <<processVars, boxVars, clientVars>>
  PROVE  IInv'
<1>1. /\ SchedulerTypeOK' /\ TaskPlacement'
      /\ Live' = Live /\ Blocked' = Blocked /\ wait_queue' = wait_queue
  BY RequeueEffect DEF IInv, Waits
<1>2. OnlyReturns /\ UNCHANGED <<processVars, boxVars, id, last>> /\ call' = call
  BY DEF OnlyReturns, clientVars
<1>3. Waits' BY <1>1, <1>2, CalmWaits, ProcessTypesKept DEF IInv, ClientTypes
<1> QED BY <1>2, <1>3, OutsideKept DEF IInv, ClientTypes

LEMMA KernelKeeps ==
  ASSUME IInv, Kernel
  PROVE  IInv'
<1>1. ~idle /\ Requeue(Elapse) /\ UNCHANGED <<processVars, boxVars, clientVars>>
  BY DEF Kernel, timer_preempt
<1>2. Elapse \in [Tasks -> 0 .. MaxSleep] BY ElapseType DEF IInv, Waits
<1> QED BY <1>1, <1>2, RequeueKeeps

LEMMA YieldKeeps ==
  ASSUME IInv, NEW t \in Tasks, yield(t)
  PROVE  IInv'
<1>1. ~idle /\ Requeue(deadline) /\ UNCHANGED <<processVars, boxVars, clientVars>>
  BY CallerRuns DEF yield, do_yield
<1>2. deadline \in [Tasks -> 0 .. MaxSleep] BY DEF IInv, Waits, SchedulerTypeOK
<1> QED BY <1>1, <1>2, RequeueKeeps

LEMMA SleepKeeps ==
  ASSUME IInv, NEW t \in Tasks, sleep(t)
  PROVE  IInv'
<1>1. ~idle /\ UNCHANGED <<processVars, boxVars, clientVars>>
  BY CallerRuns DEF sleep, Makes
<1>2. PICK ticks \in 1 .. MaxSleep : do_sleep(ticks) BY DEF sleep
<1>3. /\ SchedulerTypeOK' /\ TaskPlacement'
      /\ Live' = Live /\ Blocked' = Blocked /\ wait_queue' = wait_queue
  BY <1>1, <1>2, SleepEffect DEF IInv, Waits
<1>4. OnlyReturns /\ UNCHANGED <<processVars, boxVars, id, last>> /\ call' = call
  BY <1>1 DEF OnlyReturns, clientVars
<1>5. Waits' BY <1>1, <1>3, <1>4, CalmWaits, ProcessTypesKept DEF IInv, ClientTypes
<1> QED BY <1>4, <1>5, OutsideKept DEF IInv, ClientTypes

LEMMA ExitKeeps ==
  ASSUME IInv, NEW t \in Tasks, exit(t)
  PROVE  IInv'
<1>1. /\ ~idle /\ do_exit /\ wait_queue[Waiting(current_running)] = <<>>
      /\ UNCHANGED <<processVars, boxVars, clientVars>>
  BY CallerRuns DEF exit, Makes
<1>2. UNCHANGED <<processVars, boxVars, id, last>> /\ call' = call BY <1>1 DEF clientVars
<1>3. Waits' BY <1>1, <1>2, ExitWaits, ProcessTypesKept DEF IInv
<1> QED BY <1>2, <1>3, OutsideKept DEF IInv, ClientTypes

LEMMA KillKeeps ==
  ASSUME IInv, NEW t \in Tasks, NEW u \in Tasks, kill(t, u)
  PROVE  IInv'
<1>1. /\ ~idle /\ u \in Live /\ do_kill(u)
      /\ UNCHANGED <<processVars, boxVars, clientVars>>
  BY CallerRuns DEF kill, Makes
<1>2. UNCHANGED <<processVars, boxVars, id, last>> /\ call' = call BY <1>1 DEF clientVars
<1>3. Waits' BY <1>1, <1>2, KillWaits, ProcessTypesKept DEF IInv
<1> QED BY <1>2, <1>3, OutsideKept DEF IInv, ClientTypes

LEMMA WaitKeeps ==
  ASSUME IInv, NEW t \in Tasks, NEW u \in Tasks, wait(t, u)
  PROVE  IInv'
<1> DEFINE k == <<"wait", pid[u]>>
           o == Waiting(u)
<1>1. /\ ~idle /\ t = current_running /\ u \in Live /\ block(Queues, o)
      /\ call' = [call EXCEPT ![current_running] = k]
      /\ UNCHANGED <<processVars, boxVars, id, last>>
  BY CallerRuns DEF wait, Makes, do_wait, Enter
<1>2. k \in Calls
  <2>1. pid[u] \in Nat /\ pid[u] <= MaxSpawn
    BY DEF IInv, Waits, PidsFresh, ProcessTypes
  <2>2. pid[u] \in 0 .. MaxSpawn BY <2>1, IpcAssumption
  <2> QED BY <2>2 DEF Calls
<1>3. Fits(o, k) BY <1>1 DEF Fits
<1>4. o \in WaitQueues BY QueuesExist
<1> HIDE DEF k, o
<1>5. Waits' BY <1>1, <1>2, <1>3, <1>4, BlockWaits, ProcessTypesKept DEF IInv, ClientTypes
<1>6. call' \in [Tasks -> Calls] BY <1>1, <1>2 DEF IInv, ClientTypes
<1> QED BY <1>1, <1>5, <1>6, OutsideKept

LEMMA SchedulerKept ==
  ASSUME SchedulerTypeOK, TaskPlacement, UNCHANGED schedulerVars
  PROVE  /\ SchedulerTypeOK' /\ TaskPlacement'
         /\ Live' = Live /\ Blocked' = Blocked /\ wait_queue' = wait_queue
<1>1. /\ current_running' = current_running /\ idle' = idle /\ ready_queue' = ready_queue
      /\ sleep_wait_queue' = sleep_wait_queue /\ wait_queue' = wait_queue
      /\ status' = status /\ deadline' = deadline
  BY DEF schedulerVars
<1>2. SchedulerTypeOK' BY <1>1 DEF SchedulerTypeOK
<1>3. OnCPU' = OnCPU BY <1>1 DEF OnCPU
<1>4. TaskPlacement' BY <1>1, <1>3 DEF TaskPlacement
<1>5. Live' = Live /\ Blocked' = Blocked BY <1>1 DEF Live, Blocked
<1> QED BY <1>1, <1>2, <1>4, <1>5

LEMMA ResumeWaitKeeps ==
  ASSUME IInv, NEW t \in Tasks, resume_wait(t)
  PROVE  IInv'
<1>1. /\ ~idle /\ OnlyReturns /\ UNCHANGED <<schedulerVars, processVars, boxVars, id, last>>
  BY DEF resume_wait, Return, Enter, OnlyReturns, Running
<1>2. /\ SchedulerTypeOK' /\ TaskPlacement'
      /\ Live' = Live /\ Blocked' = Blocked /\ wait_queue' = wait_queue
  BY <1>1, SchedulerKept DEF IInv, Waits
<1>3. Waits' BY <1>1, <1>2, CalmWaits, ProcessTypesKept DEF IInv, ClientTypes
<1>4. call' \in [Tasks -> Calls] BY <1>1, OnlyReturnsCalls DEF IInv, ClientTypes
<1> QED BY <1>1, <1>3, <1>4, OutsideKept

LEMMA SpawnKeeps ==
  ASSUME IInv, NEW t \in Tasks, NEW p \in Programs, spawn(t, p)
  PROVE  IInv'
<1>1. PICK f : f = FreeSlot OBVIOUS
<1>2. /\ ~idle /\ spawn_times < MaxSpawn /\ Live # Tasks /\ do_spawn(p)
      /\ call' = [call EXCEPT ![f] = UserCode]
      /\ id' = [id EXCEPT ![f] = [nm \in Names |-> EMPTY]]
      /\ UNCHANGED <<boxVars, last>>
  BY <1>1, CallerRuns DEF spawn, Makes
<1>3. f \in Tasks \ Live BY <1>1, <1>2, FreeSlotFree
<1>4. Waits' BY <1>1, <1>2, <1>3, SpawnWaits DEF IInv, ClientTypes
<1>5. /\ pid' = [pid EXCEPT ![f] = spawn_times] /\ spawn_times' = spawn_times + 1
      /\ program' = [program EXCEPT ![f] = p]
      /\ mbox_use' = [mbox_use EXCEPT ![f] = [i \in Boxes |-> 0]]
  BY <1>1, <1>2 DEF do_spawn
<1>6. ProcessTypes'
  <2>1. [i \in Boxes |-> 0] \in [Boxes -> {0, 1}] OBVIOUS
  <2>2. ProcessTypes BY DEF IInv
  <2>3. mbox_use' \in [Tasks -> [Boxes -> {0, 1}]] BY <2>1, <2>2, <1>5 DEF ProcessTypes
  <2>4. pid' \in [Tasks -> Nat] /\ spawn_times' \in Nat
    <3>1. pid \in [Tasks -> Nat] /\ spawn_times \in Nat BY <2>2 DEF ProcessTypes
    <3>2. pid' = [pid EXCEPT ![f] = spawn_times] /\ spawn_times' = spawn_times + 1 BY <1>5
    <3>3. \A t2 \in Tasks : [pid EXCEPT ![f] = spawn_times][t2] \in Nat BY <3>1
    <3>4. pid' \in [Tasks -> Nat] BY <3>1, <3>2, <3>3
    <3>5. spawn_times' \in Nat BY <3>1, <3>2
    <3> QED BY <3>4, <3>5
  <2>5. program' \in [Tasks -> Programs] BY <2>2, <1>5 DEF ProcessTypes
  <2> QED BY <2>3, <2>4, <2>5 DEF ProcessTypes
<1>7. BoxTypes' BY <1>2, BoxTypesKept DEF IInv
<1>8. ClientTypes'
  <2>1. UserCode \in Calls BY DEF Calls
  <2>2. call' \in [Tasks -> Calls] BY <2>1, <1>2 DEF IInv, ClientTypes
  <2>3. id' \in [Tasks -> [Names -> Boxes \cup {EMPTY}]] BY <1>2 DEF IInv, ClientTypes
  <2> QED BY <2>2, <2>3, <1>2 DEF IInv, ClientTypes
<1>9. Handles'
  <2>1. /\ mbox_use'[f] = [i \in Boxes |-> 0] /\ id'[f] = [nm \in Names |-> EMPTY]
        /\ \A u \in Tasks : u # f => mbox_use'[u] = mbox_use[u] /\ id'[u] = id[u]
    BY <1>2, <1>3, <1>5 DEF IInv, ProcessTypes, ClientTypes
  <2>2. name' = name /\ user_num' = user_num BY <1>2 DEF boxVars
  <2>3. ASSUME NEW u \in Tasks
        PROVE  /\ \A nm \in Names : id'[u][nm] # EMPTY => name'[id'[u][nm]] = nm
               /\ \A b \in Boxes : mbox_use'[u][b] = 1 <=> \E nm \in Names : id'[u][nm] = b
    <3>1. CASE u = f
      <4>1. \A b \in Boxes : b # EMPTY BY MboxAssumption
      <4> QED BY <3>1, <4>1, <2>1
    <3>2. CASE u # f BY <3>2, <2>1, <2>2 DEF IInv, Handles
    <3> QED BY <3>1, <3>2
  <2> QED BY <2>2, <2>3 DEF IInv, Handles
<1> QED BY <1>4, <1>6, <1>7, <1>8, <1>9 DEF IInv


-----------------------------------------------------------------------------
(* The calls of mbox.c.                                                      *)

LEMMA FollowingPosition ==
  ASSUME NEW i \in Positions
  PROVE  following(i) \in Positions
BY MboxAssumption DEF following, Positions

LEMMA OpenKeeps ==
  ASSUME IInv, NEW t \in Tasks, NEW nm \in Names, mbox_open(t, nm)
  PROVE  IInv'
<1>1. PICK f : f = Found(nm) OBVIOUS
<1>2. /\ ~idle /\ t = current_running /\ id[t][nm] = EMPTY
      /\ Named(nm) \cup Named(EMPTY) # {}
      /\ name' = [name EXCEPT ![f] = nm]
      /\ mbox_use' = [mbox_use EXCEPT ![t][f] = 1]
      /\ id' = [id EXCEPT ![t][nm] = f]
      /\ UNCHANGED <<schedulerVars, pid, program, spawn_times, user_num, bufferVars>>
      /\ call' = call /\ last' = last
  BY <1>1, CallerRuns DEF mbox_open, do_mbox_open
<1>3. f \in Boxes /\ (name[f] = nm \/ (Named(nm) = {} /\ name[f] = EMPTY))
  BY <1>1, <1>2, FoundNamed
<1>4. /\ name \in [Boxes -> Names \cup {EMPTY}] /\ mbox_use \in [Tasks -> [Boxes -> {0, 1}]]
      /\ id \in [Tasks -> [Names -> Boxes \cup {EMPTY}]]
  BY DEF IInv, BoxTypes, ProcessTypes, ClientTypes
<1>5. /\ SchedulerTypeOK' /\ TaskPlacement'
      /\ Live' = Live /\ Blocked' = Blocked /\ wait_queue' = wait_queue
  BY <1>2, SchedulerKept DEF IInv, Waits
<1>6. Waits' BY <1>2, <1>5, CalmWaits DEF IInv, ClientTypes, OnlyReturns
<1>7. ProcessTypes' BY <1>2, <1>4 DEF IInv, ProcessTypes
<1>8. BoxTypes' BY <1>2, <1>3, <1>4 DEF IInv, BoxTypes, bufferVars
<1>9. ClientTypes' BY <1>2, <1>3, <1>4 DEF IInv, ClientTypes
<1>10. EMPTY \notin Names /\ EMPTY \notin Boxes BY MboxAssumption
<1>11. name'[f] = nm /\ \A b \in Boxes : b # f => name'[b] = name[b] BY <1>2, <1>3, <1>4
<1>12. /\ \A b, c \in Boxes : name[b] = name[c] /\ name[b] # EMPTY => b = c
       /\ \A u \in Tasks : \A n2 \in Names : id[u][n2] # EMPTY => name[id[u][n2]] = n2
       /\ \A u \in Tasks : \A b \in Boxes : mbox_use[u][b] = 1 <=> \E n2 \in Names : id[u][n2] = b
       /\ \A b \in Boxes : user_num[b] <= 0
  BY DEF IInv, Handles
<1>13. \A b \in Boxes : b # f => name[b] # nm
  <2>1. CASE name[f] = nm BY <2>1, <1>3, <1>10, <1>12
  <2>2. CASE Named(nm) = {} BY <2>2 DEF Named
  <2> QED BY <2>1, <2>2, <1>3
<1>14. \A b, c \in Boxes : name'[b] = name'[c] /\ name'[b] # EMPTY => b = c
  BY <1>11, <1>12, <1>13
<1>15. ASSUME NEW u \in Tasks, NEW n2 \in Names, id'[u][n2] # EMPTY
       PROVE  name'[id'[u][n2]] = n2
  <2>1. CASE u = t /\ n2 = nm
    <3>1. id'[u][n2] = f BY <2>1, <1>2, <1>4
    <3> QED BY <3>1, <2>1, <1>11
  <2>2. CASE ~(u = t /\ n2 = nm)
    <3>1. id'[u][n2] = id[u][n2] BY <2>2, <1>2, <1>4
    <3>2. id[u][n2] \in Boxes /\ name[id[u][n2]] = n2 BY <3>1, <1>4, <1>12, <1>15
    <3>3. CASE id[u][n2] = f
      <4>1. n2 = nm BY <3>2, <3>3, <1>3, <1>10
      <4> QED BY <4>1, <3>1, <3>3, <1>11
    <3>4. CASE id[u][n2] # f BY <3>1, <3>2, <3>4, <1>11
    <3> QED BY <3>3, <3>4
  <2> QED BY <2>1, <2>2
<1>16. ASSUME NEW u \in Tasks, NEW b \in Boxes
       PROVE  mbox_use'[u][b] = 1 <=> \E n2 \in Names : id'[u][n2] = b
  <2>1. CASE u = t /\ b = f
    <3>1. mbox_use'[u][b] = 1 BY <2>1, <1>2, <1>4
    <3>2. id'[u][nm] = b BY <2>1, <1>2, <1>4
    <3> QED BY <3>1, <3>2
  <2>2. CASE u = t /\ b # f
    <3>1. mbox_use'[u][b] = mbox_use[u][b] BY <2>2, <1>2, <1>4
    <3>2. \A n2 \in Names : id'[u][n2] = b <=> id[u][n2] = b
      BY <2>2, <1>2, <1>4, <1>10
    <3> QED BY <3>1, <3>2, <1>12
  <2>3. CASE u # t
    <3>1. mbox_use'[u] = mbox_use[u] /\ id'[u] = id[u] BY <2>3, <1>2, <1>4
    <3> QED BY <3>1, <1>12
  <2> QED BY <2>1, <2>2, <2>3
<1>17. user_num' = user_num BY <1>2
<1>18. Handles' BY <1>12, <1>14, <1>15, <1>16, <1>17 DEF Handles
<1> QED BY <1>6, <1>7, <1>8, <1>9, <1>18 DEF IInv


LEMMA CloseKeeps ==
  ASSUME IInv, NEW t \in Tasks, NEW nm \in Names, mbox_close(t, nm)
  PROVE  IInv'
<1>1. PICK f : f = id[t][nm] OBVIOUS
<1>2. /\ ~idle /\ t = current_running /\ f # EMPTY
      /\ user_num' = [user_num EXCEPT ![f] = @ - 1]
      /\ mbox_use' = [mbox_use EXCEPT ![t][f] = 0]
      /\ IF user_num[f] - 1 = 0 THEN Wipe(f) ELSE UNCHANGED <<schedulerVars, name, bufferVars>>
      /\ id' = [id EXCEPT ![t][nm] = EMPTY]
      /\ UNCHANGED <<pid, program, spawn_times>>
      /\ call' = call /\ last' = last
  BY <1>1, CallerRuns DEF mbox_close, do_mbox_close
<1>3. /\ name \in [Boxes -> Names \cup {EMPTY}] /\ mbox_use \in [Tasks -> [Boxes -> {0, 1}]]
      /\ id \in [Tasks -> [Names -> Boxes \cup {EMPTY}]] /\ user_num \in [Boxes -> Int]
  BY DEF IInv, BoxTypes, ProcessTypes, ClientTypes
<1>4. f \in Boxes BY <1>1, <1>2, <1>3
<1>5. /\ \A b, c \in Boxes : name[b] = name[c] /\ name[b] # EMPTY => b = c
      /\ \A u \in Tasks : \A n2 \in Names : id[u][n2] # EMPTY => name[id[u][n2]] = n2
      /\ \A u \in Tasks : \A b \in Boxes : mbox_use[u][b] = 1 <=> \E n2 \in Names : id[u][n2] = b
      /\ \A b \in Boxes : user_num[b] <= 0
  BY DEF IInv, Handles
<1>6. UNCHANGED <<schedulerVars, name, bufferVars>>
  <2>1. user_num[f] - 1 # 0
    <3>1. user_num[f] \in Int /\ user_num[f] <= 0 BY <1>3, <1>4, <1>5
    <3> QED BY <3>1
  <2> QED BY <2>1, <1>2
<1>7. /\ SchedulerTypeOK' /\ TaskPlacement'
      /\ Live' = Live /\ Blocked' = Blocked /\ wait_queue' = wait_queue
  BY <1>6, SchedulerKept DEF IInv, Waits
<1>8. Waits' BY <1>2, <1>7, CalmWaits DEF IInv, ClientTypes, OnlyReturns
<1>9. ProcessTypes' BY <1>2, <1>3 DEF IInv, ProcessTypes
<1>10. user_num' \in [Boxes -> Int]
  <2>1. user_num \in [Boxes -> Int] BY <1>3
  <2>2. user_num' = [user_num EXCEPT ![f] = user_num[f] - 1] BY <1>2
  <2>3. user_num[f] - 1 \in Int BY <2>1, <1>4
  <2> QED BY <2>1, <2>2, <2>3
<1>11. BoxTypes' BY <1>6, <1>10 DEF IInv, BoxTypes, bufferVars
<1>12. ClientTypes' BY <1>2, <1>3 DEF IInv, ClientTypes
<1>13. EMPTY \notin Names /\ EMPTY \notin Boxes BY MboxAssumption
<1>14. name' = name BY <1>6
<1>15. \A b \in Boxes : user_num'[b] <= 0
  <2> SUFFICES ASSUME NEW b \in Boxes PROVE user_num'[b] <= 0
    OBVIOUS
  <2>1. user_num[b] \in Int /\ user_num[b] <= 0 BY <1>3, <1>5
  <2>2. user_num'[b] = IF b = f THEN user_num[b] - 1 ELSE user_num[b] BY <1>2, <1>3
  <2> QED BY <2>1, <2>2
<1>16. ASSUME NEW u \in Tasks, NEW n2 \in Names
       PROVE  id'[u][n2] = IF u = t /\ n2 = nm THEN EMPTY ELSE id[u][n2]
  BY <1>2, <1>3
<1>17. ASSUME NEW u \in Tasks, NEW b \in Boxes
       PROVE  mbox_use'[u][b] = 1 <=> \E n2 \in Names : id'[u][n2] = b
  <2>1. CASE u = t /\ b = f
    <3>1. mbox_use'[u][b] = 0 BY <2>1, <1>2, <1>3
    <3>2. ASSUME NEW n2 \in Names, id'[u][n2] = b PROVE FALSE
      <4>1. n2 # nm /\ id[u][n2] = b BY <2>1, <3>2, <1>4, <1>13, <1>16
      <4>2. name[b] = n2 /\ name[b] = nm BY <2>1, <4>1, <1>1, <1>2, <1>5
      <4> QED BY <4>1, <4>2
    <3> QED BY <3>1, <3>2
  <2>2. CASE u = t /\ b # f
    <3>1. mbox_use'[u][b] = mbox_use[u][b] BY <2>2, <1>2, <1>3
    <3>2. \A n2 \in Names : id'[u][n2] = b <=> id[u][n2] = b
      BY <2>2, <1>1, <1>13, <1>16
    <3> QED BY <3>1, <3>2, <1>5
  <2>3. CASE u # t
    <3>1. mbox_use'[u] = mbox_use[u] /\ id'[u] = id[u] BY <2>3, <1>2, <1>3
    <3> QED BY <3>1, <1>5
  <2> QED BY <2>1, <2>2, <2>3
<1>18. Handles' BY <1>5, <1>14, <1>15, <1>16, <1>17 DEF Handles
<1> QED BY <1>8, <1>9, <1>11, <1>12, <1>18 DEF IInv

(***************************************************************************)
(* The part of a send or a receive that unblocks on the other queue.          *)
(***************************************************************************)
LEMMA BufferWaits ==
  ASSUME IInv, ~idle, NEW b \in Boxes, NEW o \in {Senders(b), Receivers(b)},
         Continue(unblock_one(Queues, o)), UNCHANGED processVars, OnlyReturns
  PROVE  Waits'
<1>1. SchedulerTypeOK /\ TaskPlacement /\ o \in WaitQueues BY QueuesExist DEF IInv, Waits
<1>2. SchedulerTypeOK' /\ TaskPlacement' /\ Live' = Live BY <1>1, WakeEffect
<1>3. PICK W \in SUBSET Range(wait_queue[o]) :
        /\ Blocked' = Blocked \ W
        /\ Waiters(o, Range(wait_queue[o]) \ W)
  BY <1>1, WakeEffect
<1>4. \A t \in W : \A u \in Tasks : ~ WaiterFor(u, t)
  <2> SUFFICES ASSUME NEW t \in Range(wait_queue[o]), NEW u \in Tasks, WaiterFor(u, t) PROVE FALSE
    OBVIOUS
  <2>1. SenderOf(b, t) \/ ReceiverOf(b, t) BY DEF IInv, Waits, WaitersCalls
  <2> QED BY <2>1 DEF SenderOf, ReceiverOf, WaiterFor
<1>5. \A p \in WaitQueues : Range(wait_queue'[p]) \subseteq Range(wait_queue[p])
  BY <1>3 DEF Waiters
<1> QED BY <1>2, <1>3, <1>4, <1>5, WakeWaits, ProcessTypesKept DEF IInv, ClientTypes

LEMMA DepositKeeps ==
  ASSUME IInv, ~idle, NEW b \in Boxes, NEW msg \in Messages, Deposit(b, msg),
         OnlyReturns, UNCHANGED <<id, last>>
  PROVE  IInv'
<1>1. /\ msg_queue' = [msg_queue EXCEPT ![b][send_pos[b]] = msg]
      /\ send_pos' = [send_pos EXCEPT ![b] = following(@)]
      /\ msg_num' = [msg_num EXCEPT ![b] = @ + 1]
      /\ Continue(unblock_one(Queues, Receivers(b)))
      /\ UNCHANGED <<processVars, name, user_num, recv_pos>>
  BY DEF Deposit
<1>2. Waits' BY <1>1, BufferWaits
<1>3. ProcessTypes' BY <1>1, ProcessTypesKept DEF IInv
<1>4. BoxTypes'
  <2>1. /\ msg_queue \in [Boxes -> [Positions -> Messages \cup {EMPTY}]]
        /\ send_pos \in [Boxes -> Positions] /\ msg_num \in [Boxes -> Int]
    BY DEF IInv, BoxTypes
  <2>2. msg_queue' \in [Boxes -> [Positions -> Messages \cup {EMPTY}]] BY <2>1, <1>1
  <2>3. send_pos' \in [Boxes -> Positions] BY <2>1, <1>1, FollowingPosition
  <2>4. msg_num' \in [Boxes -> Int] BY <2>1, <1>1
  <2> QED BY <2>2, <2>3, <2>4, <1>1 DEF IInv, BoxTypes
<1>5. ClientTypes' BY ClientTypesKept DEF IInv
<1>6. Handles' BY <1>1, HandlesKept DEF IInv, processVars
<1> QED BY <1>2, <1>3, <1>4, <1>5, <1>6 DEF IInv

LEMMA RemoveKeeps ==
  ASSUME IInv, ~idle, NEW b \in Boxes, Remove(b),
         last' = [last EXCEPT ![b] = Delivered(b)],
         OnlyReturns, UNCHANGED id
  PROVE  IInv'
<1>1. /\ recv_pos' = [recv_pos EXCEPT ![b] = following(@)]
      /\ msg_num' = [msg_num EXCEPT ![b] = @ - 1]
      /\ Continue(unblock_one(Queues, Senders(b)))
      /\ UNCHANGED <<processVars, name, user_num, msg_queue, send_pos>>
  BY DEF Remove
<1>2. Waits' BY <1>1, BufferWaits
<1>3. ProcessTypes' BY <1>1, ProcessTypesKept DEF IInv
<1>4. /\ msg_queue \in [Boxes -> [Positions -> Messages \cup {EMPTY}]]
      /\ recv_pos \in [Boxes -> Positions] /\ msg_num \in [Boxes -> Int]
  BY DEF IInv, BoxTypes
<1>5. BoxTypes'
  <2>1. recv_pos' \in [Boxes -> Positions] BY <1>1, <1>4, FollowingPosition
  <2>2. msg_num' \in [Boxes -> Int] BY <1>1, <1>4
  <2> QED BY <2>1, <2>2, <1>1 DEF IInv, BoxTypes
<1>6. ClientTypes'
  <2>1. Delivered(b) \in Messages \cup {EMPTY} BY <1>4 DEF Delivered
  <2>2. last' \in [Boxes -> Messages \cup {EMPTY}] BY <2>1 DEF IInv, ClientTypes
  <2>3. call' \in [Tasks -> Calls] BY OnlyReturnsCalls DEF IInv, ClientTypes
  <2> QED BY <2>2, <2>3 DEF IInv, ClientTypes
<1>7. Handles' BY <1>1, HandlesKept DEF IInv, processVars
<1> QED BY <1>2, <1>3, <1>5, <1>6, <1>7 DEF IInv

LEMMA BlockOnKeeps ==
  ASSUME IInv, ~idle, NEW o \in WaitQueues, BlockOn(o),
         NEW k \in Calls, Fits(o, k), call' = [call EXCEPT ![current_running] = k],
         UNCHANGED <<id, last>>
  PROVE  IInv'
<1>1. block(Queues, o) /\ UNCHANGED <<processVars, boxVars>> BY DEF BlockOn
<1>2. Waits' BY <1>1, BlockWaits, ProcessTypesKept DEF IInv, ClientTypes
<1>3. call' \in [Tasks -> Calls] BY DEF IInv, ClientTypes
<1> QED BY <1>1, <1>2, <1>3, OutsideKept


\* The calls inside a process that blocks on a box, or that resumes one.
LEMMA SendKeeps ==
  ASSUME IInv, NEW t \in Tasks, NEW nm \in Names, NEW b \in Boxes, NEW msg \in Messages,
         mbox_send(t, nm, b, msg)
  PROVE  IInv'
<1>1. /\ ~idle /\ t = current_running /\ UNCHANGED <<id, last>>
  BY CallerRuns DEF mbox_send, Uses
<1>2. CASE BlockOn(Senders(b)) /\ Enter(t, <<"send", b, msg>>)
  <2> DEFINE k == <<"send", b, msg>>
             o == Senders(b)
  <2>1. k \in Calls /\ o \in WaitQueues BY QueuesExist DEF Calls
  <2>2. Fits(o, k) BY DEF Fits
  <2>3. call' = [call EXCEPT ![current_running] = k] BY <1>1, <1>2 DEF Enter
  <2>4. BlockOn(o) BY <1>2
  <2> HIDE DEF k, o
  <2> QED BY <2>1, <2>2, <2>3, <2>4, <1>1, BlockOnKeeps
<1>3. CASE Deposit(b, msg) /\ UNCHANGED call
  <2>1. OnlyReturns BY <1>3 DEF OnlyReturns
  <2> QED BY <2>1, <1>1, <1>3, DepositKeeps
<1> QED BY <1>2, <1>3 DEF mbox_send

LEMMA ReceiveKeeps ==
  ASSUME IInv, NEW t \in Tasks, NEW nm \in Names, NEW b \in Boxes, mbox_recv(t, nm, b)
  PROVE  IInv'
<1>1. /\ ~idle /\ t = current_running /\ UNCHANGED id
  BY CallerRuns DEF mbox_recv, Uses
<1>2. CASE BlockOn(Receivers(b)) /\ Enter(t, <<"recv", b>>) /\ UNCHANGED last
  <2> DEFINE k == <<"recv", b>>
             o == Receivers(b)
  <2>1. k \in Calls /\ o \in WaitQueues BY QueuesExist DEF Calls
  <2>2. Fits(o, k) BY DEF Fits
  <2>3. call' = [call EXCEPT ![current_running] = k] BY <1>1, <1>2 DEF Enter
  <2>4. BlockOn(o) BY <1>2
  <2> HIDE DEF k, o
  <2> QED BY <2>1, <2>2, <2>3, <2>4, <1>1, <1>2, BlockOnKeeps
<1>3. CASE Remove(b) /\ last' = [last EXCEPT ![b] = Delivered(b)] /\ UNCHANGED call
  <2>1. OnlyReturns BY <1>3 DEF OnlyReturns
  <2> QED BY <2>1, <1>1, <1>3, RemoveKeeps
<1> QED BY <1>2, <1>3 DEF mbox_recv

LEMMA ResumeSendKeeps ==
  ASSUME IInv, NEW t \in Tasks, NEW b \in Boxes, NEW msg \in Messages,
         resume_mbox_send(t, b, msg)
  PROVE  IInv'
<1>1. ~idle /\ Deposit(b, msg) /\ OnlyReturns /\ UNCHANGED <<id, last>>
  BY DEF resume_mbox_send, Return, Enter, OnlyReturns, Running
<1> QED BY <1>1, DepositKeeps

LEMMA ResumeReceiveKeeps ==
  ASSUME IInv, NEW t \in Tasks, NEW b \in Boxes, resume_mbox_recv(t, b)
  PROVE  IInv'
<1>1. /\ ~idle /\ Remove(b) /\ OnlyReturns /\ UNCHANGED id
      /\ last' = [last EXCEPT ![b] = Delivered(b)]
  BY DEF resume_mbox_recv, Return, Enter, OnlyReturns, Running
<1> QED BY <1>1, RemoveKeeps

LEMMA IdleSteps ==
  ASSUME IInv, UNCHANGED vars
  PROVE  IInv'
<1>1. /\ UNCHANGED schedulerVars /\ UNCHANGED processVars /\ UNCHANGED boxVars
      /\ UNCHANGED <<call, id, last>>
  BY DEF vars, clientVars
<1>2. /\ SchedulerTypeOK' /\ TaskPlacement'
      /\ Live' = Live /\ Blocked' = Blocked /\ wait_queue' = wait_queue
  BY <1>1, SchedulerKept DEF IInv, Waits
<1>3. pid' = pid /\ spawn_times' = spawn_times BY <1>1 DEF processVars
<1>4. WaitersCalls' /\ PidsFresh' /\ Released'
  BY <1>1, <1>2, <1>3
  DEF IInv, Waits, WaitersCalls, PidsFresh, Released, WaiterFor, SenderOf, ReceiverOf
<1>5. Waits' BY <1>2, <1>4 DEF Waits
<1> QED BY <1>1, <1>5, OutsideKept DEF IInv, ClientTypes

-----------------------------------------------------------------------------
(***************************************************************************)
(* The invariant holds in every state.                                      *)
(***************************************************************************)
THEOREM IpcInvariant == Spec => []IInv
<1>1. Init => IInv BY InitInvariant
<1>2. IInv /\ [Next]_vars => IInv'
  <2> SUFFICES ASSUME IInv, [Next]_vars PROVE IInv'
    OBVIOUS
  <2>1. CASE Kernel BY <2>1, KernelKeeps
  <2>2. ASSUME NEW t \in Tasks, ProcessCall(t) PROVE IInv'
    <3>1. ASSUME NEW p \in Programs, spawn(t, p) PROVE IInv' BY <3>1, SpawnKeeps
    <3>2. ASSUME NEW u \in Tasks, kill(t, u) PROVE IInv' BY <3>2, KillKeeps
    <3>3. ASSUME NEW u \in Tasks, wait(t, u) PROVE IInv' BY <3>3, WaitKeeps
    <3>4. CASE exit(t) BY <3>4, ExitKeeps
    <3>5. CASE yield(t) BY <3>5, YieldKeeps
    <3>6. CASE sleep(t) BY <3>6, SleepKeeps
    <3>7. CASE resume_wait(t) BY <3>7, ResumeWaitKeeps
    <3> QED BY <2>2, <3>1, <3>2, <3>3, <3>4, <3>5, <3>6, <3>7 DEF ProcessCall
  <2>3. ASSUME NEW t \in Tasks, MboxCall(t) PROVE IInv'
    <3>1. ASSUME NEW nm \in Names, mbox_open(t, nm) PROVE IInv' BY <3>1, OpenKeeps
    <3>2. ASSUME NEW nm \in Names, mbox_close(t, nm) PROVE IInv' BY <3>2, CloseKeeps
    <3>3. ASSUME NEW b \in Boxes, NEW nm \in Names, mbox_recv(t, nm, b) PROVE IInv'
      BY <3>3, ReceiveKeeps
    <3>4. ASSUME NEW b \in Boxes, NEW nm \in Names, NEW msg \in Messages,
                 mbox_send(t, nm, b, msg)
          PROVE  IInv'
      BY <3>4, SendKeeps
    <3>5. ASSUME NEW b \in Boxes, resume_mbox_recv(t, b) PROVE IInv'
      BY <3>5, ResumeReceiveKeeps
    <3>6. ASSUME NEW b \in Boxes, NEW msg \in Messages, resume_mbox_send(t, b, msg) PROVE IInv'
      BY <3>6, ResumeSendKeeps
    <3> QED BY <2>3, <3>1, <3>2, <3>3, <3>4, <3>5, <3>6 DEF MboxCall
  <2>4. CASE UNCHANGED vars BY <2>4, IdleSteps
  <2> QED BY <2>1, <2>2, <2>3, <2>4 DEF Next
<1> QED BY <1>1, <1>2, PTL DEF Spec

(***************************************************************************)
(* Every variable of the kernel's processes and boxes has its type.           *)
(***************************************************************************)
THEOREM IpcTyped == Spec => []IpcTypeOK
<1>1. IInv => IpcTypeOK BY InvariantTyped
<1> QED BY <1>1, IpcInvariant, PTL

(***************************************************************************)
(* A process is on exactly one queue, through kills and spawns (kernel.c).    *)
(***************************************************************************)
THEOREM ProcessesPlaced == Spec => []TaskPlacement
<1>1. IInv => TaskPlacement BY DEF IInv, Waits
<1> QED BY <1>1, IpcInvariant, PTL

(***************************************************************************)
(* wait returns when, and only when, the process it waits for has ended.      *)
(***************************************************************************)
THEOREM WaitsSound == Spec => []WaitSound
<1>1. IInv => WaitSound BY InvariantWaits
<1> QED BY <1>1, IpcInvariant, PTL

(***************************************************************************)
(* The ids that a process holds name the boxes it has opened.                 *)
(***************************************************************************)
THEOREM HandlesStayValid == Spec => []HandlesValid
<1>1. IInv => HandlesValid BY InvariantHandles
<1> QED BY <1>1, IpcInvariant, PTL

-----------------------------------------------------------------------------
(***************************************************************************)
(* The boxes, when each has one program that sends and one that receives.     *)
(* do_mbox_send and do_mbox_recv do not look at the box again when they        *)
(* resume, so what the buffer may hold depends on who is inside which call: a *)
(* sender that is blocked means a full box, and one that has been unblocked    *)
(* has room; a program runs in one process, so nobody else takes the room.    *)
(***************************************************************************)
SendsTo(b, t) == name[b] \in Sends[program[t]]
TakesFrom(b, t) == name[b] \in Recvs[program[t]]

OneProcess == \A t, u \in Live : program[t] = program[u] => t = u

SendersFit ==
  \A t \in Live : \A b \in Boxes : SenderOf(b, t) =>
    /\ SendsTo(b, t)
    /\ t \in Blocked => msg_num[b] = MAX_MBOX_LENGTH
    /\ t \notin Blocked => msg_num[b] < MAX_MBOX_LENGTH

ReceiversFit ==
  \A t \in Live : \A b \in Boxes : ReceiverOf(b, t) =>
    /\ TakesFrom(b, t)
    /\ t \in Blocked => msg_num[b] = 0
    /\ t \notin Blocked => msg_num[b] > 0

RingFits ==
  \A b \in Boxes :
    /\ msg_num[b] \in 0 .. MAX_MBOX_LENGTH
    /\ recv_pos[b] + msg_num[b] \in {send_pos[b], send_pos[b] + MAX_MBOX_LENGTH}

BInv == OneProcess /\ SendersFit /\ ReceiversFit /\ RingFits

-----------------------------------------------------------------------------
(* Who may be inside a call of a box.                                        *)

LEMMA OneSender ==
  ASSUME OneToOne, IInv, OneProcess, NEW t \in Live, NEW u \in Live, NEW b \in Boxes,
         SendsTo(b, t), SendsTo(b, u)
  PROVE  t = u
<1>1. t \in Tasks /\ u \in Tasks BY DEF Live
<1>2. program[t] \in Programs /\ program[u] \in Programs BY <1>1 DEF IInv, ProcessTypes
<1>3. program[t] = program[u] BY <1>2 DEF OneToOne, SendsTo
<1> QED BY <1>3 DEF OneProcess

LEMMA OneReceiver ==
  ASSUME OneToOne, IInv, OneProcess, NEW t \in Live, NEW u \in Live, NEW b \in Boxes,
         TakesFrom(b, t), TakesFrom(b, u)
  PROVE  t = u
<1>1. t \in Tasks /\ u \in Tasks BY DEF Live
<1>2. program[t] \in Programs /\ program[u] \in Programs BY <1>1 DEF IInv, ProcessTypes
<1>3. program[t] = program[u] BY <1>2 DEF OneToOne, TakesFrom
<1> QED BY <1>3 DEF OneProcess

LEMMA QueuedBlocked ==
  ASSUME IInv, NEW q \in WaitQueues, NEW t \in Range(wait_queue[q])
  PROVE  t \in Live /\ t \in Blocked
<1>1. SchedulerTypeOK /\ TaskPlacement BY DEF IInv, Waits
<1>2. wait_queue[q] \in Seq(Tasks) BY <1>1 DEF SchedulerTypeOK
<1>3. t \in Tasks BY <1>2, RangeOfSeq
<1>4. status[t] = "BLOCKED" BY <1>1 DEF TaskPlacement, Placed
<1> QED BY <1>3, <1>4 DEF Live, Blocked

LEMMA BlockedQueued ==
  ASSUME IInv, NEW t \in Blocked, NEW b \in Boxes
  PROVE  /\ SenderOf(b, t) => t \in Range(wait_queue[Senders(b)])
         /\ ReceiverOf(b, t) => t \in Range(wait_queue[Receivers(b)])
<1>1. PICK q \in WaitQueues : t \in Range(wait_queue[q])
  BY DEF Blocked, IInv, Waits, TaskPlacement, Placed
<1>2. CASE \E u \in Tasks : q = Waiting(u)
  <2>1. PICK u \in Tasks : q = Waiting(u) BY <1>2
  <2>2. WaiterFor(u, t) BY <1>1, <2>1 DEF IInv, Waits, WaitersCalls
  <2> QED BY <2>2 DEF WaiterFor, SenderOf, ReceiverOf
<1>3. CASE \E c \in Boxes : q = Senders(c)
  <2>1. PICK c \in Boxes : q = Senders(c) BY <1>3
  <2>2. SenderOf(c, t) BY <1>1, <2>1 DEF IInv, Waits, WaitersCalls
  <2>3. SenderOf(b, t) => b = c BY <2>2 DEF SenderOf
  <2>4. ~ ReceiverOf(b, t) BY <2>2 DEF SenderOf, ReceiverOf
  <2> QED BY <1>1, <2>1, <2>3, <2>4
<1>4. CASE \E c \in Boxes : q = Receivers(c)
  <2>1. PICK c \in Boxes : q = Receivers(c) BY <1>4
  <2>2. ReceiverOf(c, t) BY <1>1, <2>1 DEF IInv, Waits, WaitersCalls
  <2>3. ReceiverOf(b, t) => b = c BY <2>2 DEF ReceiverOf
  <2>4. ~ SenderOf(b, t) BY <2>2 DEF SenderOf, ReceiverOf
  <2> QED BY <1>1, <2>1, <2>3, <2>4
<1> QED BY <1>2, <1>3, <1>4, MboxAssumption

(***************************************************************************)
(* A process that is past the test of do_mbox_send has room, and one past     *)
(* that of do_mbox_recv has a message.                                       *)
(***************************************************************************)
LEMMA HandleNames ==
  ASSUME IInv, NEW t \in Tasks, NEW nm \in Names, NEW b \in Boxes, id[t][nm] = b
  PROVE  name[b] = nm
<1>1. b # EMPTY BY MboxAssumption
<1> QED BY <1>1 DEF IInv, Handles

LEMMA RunnerLives ==
  ASSUME IInv, NEW t, Running(t)
  PROVE  t \in Live /\ t \in Tasks /\ t \notin Blocked /\ ~idle /\ t = current_running
<1>1. ~idle /\ t = current_running BY DEF Running
<1>2. t \in Live \ Blocked BY <1>1, RunningLives DEF IInv, Waits
<1> QED BY <1>1, <1>2 DEF Live

LEMMA SenderHasRoom ==
  ASSUME IInv, BInv, NEW t \in Tasks, NEW b \in Boxes, NEW msg \in Messages,
         \/ \E nm \in Names : mbox_send(t, nm, b, msg) /\ ~do_mbox_is_full(b)
         \/ resume_mbox_send(t, b, msg)
  PROVE  /\ t \in Live /\ t = current_running /\ ~idle /\ SendsTo(b, t)
         /\ msg_num[b] < MAX_MBOX_LENGTH
<1>1. CASE \E nm \in Names : mbox_send(t, nm, b, msg) /\ ~do_mbox_is_full(b)
  <2>1. PICK nm \in Names : /\ nm \in Sends[program[t]] /\ id[t][nm] = b /\ InUserCode(t)
                            /\ msg_num[b] # MAX_MBOX_LENGTH
    BY <1>1 DEF mbox_send, Uses, do_mbox_is_full
  <2>2. t \in Live /\ t = current_running /\ ~idle BY <2>1, RunnerLives DEF InUserCode
  <2>3. SendsTo(b, t) BY <2>1, HandleNames DEF SendsTo
  <2>4. msg_num[b] \in 0 .. MAX_MBOX_LENGTH /\ MAX_MBOX_LENGTH \in Nat
    BY MboxAssumption DEF BInv, RingFits
  <2> QED BY <2>1, <2>2, <2>3, <2>4
<1>2. CASE resume_mbox_send(t, b, msg)
  <2>1. Running(t) /\ SenderOf(b, t) BY <1>2 DEF resume_mbox_send, SenderOf
  <2>2. t \in Live /\ t \notin Blocked /\ t = current_running /\ ~idle BY <2>1, RunnerLives
  <2> QED BY <2>1, <2>2 DEF BInv, SendersFit
<1> QED BY <1>1, <1>2

LEMMA ReceiverHasMessage ==
  ASSUME IInv, BInv, NEW t \in Tasks, NEW b \in Boxes,
         \/ \E nm \in Names : mbox_recv(t, nm, b) /\ ~do_mbox_is_empty(b)
         \/ resume_mbox_recv(t, b)
  PROVE  /\ t \in Live /\ t = current_running /\ ~idle /\ TakesFrom(b, t)
         /\ msg_num[b] > 0
<1>1. CASE \E nm \in Names : mbox_recv(t, nm, b) /\ ~do_mbox_is_empty(b)
  <2>1. PICK nm \in Names : /\ nm \in Recvs[program[t]] /\ id[t][nm] = b /\ InUserCode(t)
                            /\ msg_num[b] # 0
    BY <1>1 DEF mbox_recv, Uses, do_mbox_is_empty
  <2>2. t \in Live /\ t = current_running /\ ~idle BY <2>1, RunnerLives DEF InUserCode
  <2>3. TakesFrom(b, t) BY <2>1, HandleNames DEF TakesFrom
  <2>4. msg_num[b] \in 0 .. MAX_MBOX_LENGTH /\ MAX_MBOX_LENGTH \in Nat
    BY MboxAssumption DEF BInv, RingFits
  <2> QED BY <2>1, <2>2, <2>3, <2>4
<1>2. CASE resume_mbox_recv(t, b)
  <2>1. Running(t) /\ ReceiverOf(b, t) BY <1>2 DEF resume_mbox_recv, ReceiverOf
  <2>2. t \in Live /\ t \notin Blocked /\ t = current_running /\ ~idle BY <2>1, RunnerLives
  <2> QED BY <2>1, <2>2 DEF BInv, ReceiversFit
<1> QED BY <1>1, <1>2

-----------------------------------------------------------------------------
(***************************************************************************)
(* A step that touches no buffer: whoever is inside a call of a box was, with *)
(* the same program, and blocked as before.                                  *)
(***************************************************************************)
SameCallers ==
  \A t \in Live' : \A b \in Boxes :
    SenderOf(b, t)' \/ ReceiverOf(b, t)' =>
      /\ t \in Live /\ call'[t] = call[t] /\ program'[t] = program[t]
      /\ t \in Blocked' <=> t \in Blocked

LEMMA OutsideFits ==
  ASSUME IInv, BInv, OneProcess', SameCallers,
         \A b \in Boxes : name[b] # EMPTY => name'[b] = name[b],
         UNCHANGED <<msg_num, send_pos, recv_pos>>
  PROVE  BInv'
<1>1. EMPTY \notin Names BY MboxAssumption
<1>2. ASSUME NEW t \in Live, NEW b \in Boxes
      PROVE  /\ SendsTo(b, t) => name'[b] = name[b]
             /\ TakesFrom(b, t) => name'[b] = name[b]
  <2>1. t \in Tasks /\ program[t] \in Programs BY DEF Live, IInv, ProcessTypes
  <2>2. Sends[program[t]] \subseteq Names /\ Recvs[program[t]] \subseteq Names
    BY <2>1, IpcAssumption
  <2> QED BY <2>2, <1>1 DEF SendsTo, TakesFrom
<1>3. SendersFit'
  <2> SUFFICES ASSUME NEW t \in Live', NEW b \in Boxes, SenderOf(b, t)'
               PROVE  /\ SendsTo(b, t)'
                      /\ t \in Blocked' => msg_num[b] = MAX_MBOX_LENGTH
                      /\ t \notin Blocked' => msg_num[b] < MAX_MBOX_LENGTH
    BY DEF SendersFit
  <2>1. /\ t \in Live /\ call'[t] = call[t] /\ program'[t] = program[t]
        /\ t \in Blocked' <=> t \in Blocked
    BY DEF SameCallers
  <2>2. SenderOf(b, t) BY <2>1 DEF SenderOf
  <2>3. /\ SendsTo(b, t)
        /\ t \in Blocked => msg_num[b] = MAX_MBOX_LENGTH
        /\ t \notin Blocked => msg_num[b] < MAX_MBOX_LENGTH
    BY <2>1, <2>2 DEF BInv, SendersFit
  <2>4. SendsTo(b, t)' BY <2>1, <2>3, <1>2 DEF SendsTo
  <2> QED BY <2>1, <2>3, <2>4
<1>4. ReceiversFit'
  <2> SUFFICES ASSUME NEW t \in Live', NEW b \in Boxes, ReceiverOf(b, t)'
               PROVE  /\ TakesFrom(b, t)'
                      /\ t \in Blocked' => msg_num[b] = 0
                      /\ t \notin Blocked' => msg_num[b] > 0
    BY DEF ReceiversFit
  <2>1. /\ t \in Live /\ call'[t] = call[t] /\ program'[t] = program[t]
        /\ t \in Blocked' <=> t \in Blocked
    BY DEF SameCallers
  <2>2. ReceiverOf(b, t) BY <2>1 DEF ReceiverOf
  <2>3. /\ TakesFrom(b, t)
        /\ t \in Blocked => msg_num[b] = 0
        /\ t \notin Blocked => msg_num[b] > 0
    BY <2>1, <2>2 DEF BInv, ReceiversFit
  <2>4. TakesFrom(b, t)' BY <2>1, <2>3, <1>2 DEF TakesFrom
  <2> QED BY <2>1, <2>3, <2>4
<1>5. RingFits' BY DEF BInv, RingFits
<1> QED BY <1>3, <1>4, <1>5 DEF BInv

\* The same, when the processes and the names stay.
LEMMA QuietFits ==
  ASSUME IInv, BInv, Live' \subseteq Live, program' = program, SameCallers,
         \A b \in Boxes : name[b] # EMPTY => name'[b] = name[b],
         UNCHANGED <<msg_num, send_pos, recv_pos>>
  PROVE  BInv'
<1>1. OneProcess' BY DEF BInv, OneProcess
<1> QED BY <1>1, OutsideFits

(***************************************************************************)
(* A process that blocks on a full or an empty box.                          *)
(***************************************************************************)
LEMMA BlockFits ==
  ASSUME IInv, BInv, ~idle, NEW b \in Boxes, NEW o \in {Senders(b), Receivers(b)}, BlockOn(o),
         NEW k, call' = [call EXCEPT ![current_running] = k],
         \/ /\ \E msg \in Messages : k = <<"send", b, msg>>
            /\ SendsTo(b, current_running) /\ msg_num[b] = MAX_MBOX_LENGTH
         \/ /\ k = <<"recv", b>>
            /\ TakesFrom(b, current_running) /\ msg_num[b] = 0
  PROVE  BInv'
<1> DEFINE c == current_running
<1>1. block(Queues, o) /\ UNCHANGED <<processVars, boxVars>> BY DEF BlockOn
<1>2. SchedulerTypeOK /\ TaskPlacement /\ o \in WaitQueues BY QueuesExist DEF IInv, Waits
<1>3. Live' = Live /\ Blocked' = Blocked \cup {c} BY <1>1, <1>2, BlockEffect
<1>4. c \in Tasks BY <1>2 DEF SchedulerTypeOK
<1>5. call \in [Tasks -> Calls] BY DEF IInv, ClientTypes
<1>6. call'[c] = k /\ \A t \in Tasks : t # c => call'[t] = call[t] BY <1>4, <1>5
<1>7. /\ name' = name /\ program' = program /\ msg_num' = msg_num
      /\ send_pos' = send_pos /\ recv_pos' = recv_pos
  BY <1>1 DEF processVars, boxVars, bufferVars
<1> HIDE DEF c
<1>8. OneProcess' BY <1>3, <1>7 DEF BInv, OneProcess
<1>9. \A t \in Live : t \in Tasks BY DEF Live
<1>10. SendersFit'
  <2> SUFFICES ASSUME NEW t \in Live, NEW d \in Boxes, SenderOf(d, t)'
               PROVE  /\ SendsTo(d, t)
                      /\ t \in Blocked' => msg_num[d] = MAX_MBOX_LENGTH
                      /\ t \notin Blocked' => msg_num[d] < MAX_MBOX_LENGTH
    BY <1>3, <1>7 DEF SendersFit, SendsTo
  <2>1. CASE t = c
    <3>1. \E msg \in Messages : k = <<"send", d, msg>> BY <2>1, <1>6 DEF SenderOf
    <3>2. d = b /\ SendsTo(b, c) /\ msg_num[b] = MAX_MBOX_LENGTH BY <3>1 DEF c
    <3> QED BY <2>1, <3>2, <1>3
  <2>2. CASE t # c
    <3>1. SenderOf(d, t) BY <2>2, <1>6, <1>9 DEF SenderOf
    <3>2. t \in Blocked' <=> t \in Blocked BY <2>2, <1>3
    <3> QED BY <3>1, <3>2 DEF BInv, SendersFit
  <2> QED BY <2>1, <2>2
<1>11. ReceiversFit'
  <2> SUFFICES ASSUME NEW t \in Live, NEW d \in Boxes, ReceiverOf(d, t)'
               PROVE  /\ TakesFrom(d, t)
                      /\ t \in Blocked' => msg_num[d] = 0
                      /\ t \notin Blocked' => msg_num[d] > 0
    BY <1>3, <1>7 DEF ReceiversFit, TakesFrom
  <2>1. CASE t = c
    <3>1. k = <<"recv", d>> BY <2>1, <1>6 DEF ReceiverOf
    <3>2. d = b /\ TakesFrom(b, c) /\ msg_num[b] = 0 BY <3>1 DEF c
    <3> QED BY <2>1, <3>2, <1>3
  <2>2. CASE t # c
    <3>1. ReceiverOf(d, t) BY <2>2, <1>6, <1>9 DEF ReceiverOf
    <3>2. t \in Blocked' <=> t \in Blocked BY <2>2, <1>3
    <3> QED BY <3>1, <3>2 DEF BInv, ReceiversFit
  <2> QED BY <2>1, <2>2
<1>12. RingFits' BY <1>7 DEF BInv, RingFits
<1> QED BY <1>8, <1>10, <1>11, <1>12 DEF BInv

(***************************************************************************)
(* A message goes into the box: no other process may be about to send one,    *)
(* and the receiver, if it was blocked, is unblocked.                         *)
(***************************************************************************)
LEMMA DepositFits ==
  ASSUME OneToOne, IInv, BInv, NEW b \in Boxes, NEW msg \in Messages,
         ~idle, current_running \in Live, SendsTo(b, current_running),
         msg_num[b] < MAX_MBOX_LENGTH, Deposit(b, msg),
         OnlyReturns, call'[current_running] = <<"user">>
  PROVE  BInv'
<1> DEFINE c == current_running
           o == Receivers(b)
<1>1. /\ send_pos' = [send_pos EXCEPT ![b] = following(@)]
      /\ msg_num' = [msg_num EXCEPT ![b] = @ + 1]
      /\ Continue(unblock_one(Queues, o))
      /\ recv_pos' = recv_pos /\ name' = name /\ program' = program
  BY DEF Deposit, processVars
<1>2. SchedulerTypeOK /\ TaskPlacement /\ o \in WaitQueues BY QueuesExist DEF IInv, Waits
<1>3. Live' = Live BY <1>1, <1>2, WakeEffect
<1>4. PICK W \in SUBSET Range(wait_queue[o]) :
        (wait_queue[o] # <<>> => W # {}) /\ Blocked' = Blocked \ W
  BY <1>1, <1>2, WakeEffect
<1>5. ASSUME NEW t \in Range(wait_queue[o])
      PROVE  t \in Live /\ t \in Blocked /\ ReceiverOf(b, t)
  BY <1>2, QueuedBlocked DEF IInv, Waits, WaitersCalls
<1>6. /\ msg_num \in [Boxes -> Int] /\ send_pos \in [Boxes -> Positions]
      /\ recv_pos \in [Boxes -> Positions]
  BY DEF IInv, BoxTypes
<1>7. msg_num'[b] = msg_num[b] + 1 /\ \A d \in Boxes : d # b => msg_num'[d] = msg_num[d]
  BY <1>1, <1>6
<1>8. /\ \A t \in Tasks : t # c => call'[t] = call[t]
      /\ \A t \in Tasks : call'[t] = call[t] \/ call'[t] = <<"user">>
  BY OnlyReturnsCalls DEF IInv, ClientTypes
<1>9. \A t \in Live : t \in Tasks BY DEF Live
<1>10. \A d \in Boxes : msg_num[d] \in 0 .. MAX_MBOX_LENGTH
  BY DEF BInv, RingFits
<1>11. MAX_MBOX_LENGTH \in Nat \ {0} BY MboxAssumption
<1> HIDE DEF c, o
<1>12. OneProcess' BY <1>1, <1>3 DEF BInv, OneProcess
<1>13. SendersFit'
  <2> SUFFICES ASSUME NEW t \in Live, NEW d \in Boxes, SenderOf(d, t)'
               PROVE  /\ SendsTo(d, t)
                      /\ t \in Blocked' => msg_num'[d] = MAX_MBOX_LENGTH
                      /\ t \notin Blocked' => msg_num'[d] < MAX_MBOX_LENGTH
    BY <1>1, <1>3 DEF SendersFit, SendsTo
  <2>1. SenderOf(d, t) BY <1>8, <1>9 DEF SenderOf
  <2>2. d # b
    <3> SUFFICES ASSUME d = b PROVE FALSE
      OBVIOUS
    <3>1. SendsTo(b, t) BY <2>1 DEF BInv, SendersFit
    <3>2. t = current_running BY <3>1, OneSender DEF BInv
    <3>3. call'[t] = <<"user">> BY <3>2
    <3> QED BY <3>3 DEF SenderOf
  <2>3. t \notin W BY <2>1, <1>5 DEF SenderOf, ReceiverOf
  <2>4. t \in Blocked' <=> t \in Blocked BY <2>3, <1>4
  <2> QED BY <2>1, <2>2, <2>4, <1>7 DEF BInv, SendersFit
<1>14. ReceiversFit'
  <2> SUFFICES ASSUME NEW t \in Live, NEW d \in Boxes, ReceiverOf(d, t)'
               PROVE  /\ TakesFrom(d, t)
                      /\ t \in Blocked' => msg_num'[d] = 0
                      /\ t \notin Blocked' => msg_num'[d] > 0
    BY <1>1, <1>3 DEF ReceiversFit, TakesFrom
  <2>1. ReceiverOf(d, t) BY <1>8, <1>9 DEF ReceiverOf
  <2>2. /\ TakesFrom(d, t)
        /\ t \in Blocked => msg_num[d] = 0
        /\ t \notin Blocked => msg_num[d] > 0
    BY <2>1 DEF BInv, ReceiversFit
  <2>3. CASE d = b
    <3>1. msg_num'[d] > 0 BY <2>3, <1>7, <1>10
    <3>2. t \notin Blocked'
      <4> SUFFICES ASSUME t \in Blocked' PROVE FALSE
        OBVIOUS
      <4>1. t \in Blocked /\ t \notin W BY <1>4
      <4>2. t \in Range(wait_queue[o]) BY <4>1, <2>1, <2>3, BlockedQueued DEF o
      <4>3. wait_queue[o] # <<>> BY <4>2 DEF Range
      <4>4. PICK w \in W : w \in Range(wait_queue[o]) BY <4>3, <1>4
      <4>5. w \in Live /\ ReceiverOf(b, w) BY <4>4, <1>5
      <4>6. TakesFrom(b, w) /\ TakesFrom(b, t) BY <4>5, <2>2, <2>3 DEF BInv, ReceiversFit
      <4>7. w = t BY <4>5, <4>6, OneReceiver DEF BInv
      <4> QED BY <4>1, <4>4, <4>7
    <3> QED BY <3>1, <3>2, <2>2
  <2>4. CASE d # b
    <3>1. t \notin W
      <4> SUFFICES ASSUME t \in W PROVE FALSE
        OBVIOUS
      <4>1. ReceiverOf(b, t) BY <1>5
      <4> QED BY <4>1, <2>1, <2>4 DEF ReceiverOf
    <3>2. t \in Blocked' <=> t \in Blocked BY <3>1, <1>4
    <3> QED BY <3>2, <2>2, <2>4, <1>7
  <2> QED BY <2>3, <2>4
<1>15. RingFits'
  <2> SUFFICES ASSUME NEW d \in Boxes
               PROVE  /\ msg_num'[d] \in 0 .. MAX_MBOX_LENGTH
                      /\ recv_pos[d] + msg_num'[d] \in {send_pos'[d], send_pos'[d] + MAX_MBOX_LENGTH}
    BY <1>1 DEF RingFits
  <2>1. recv_pos[d] + msg_num[d] \in {send_pos[d], send_pos[d] + MAX_MBOX_LENGTH}
    BY DEF BInv, RingFits
  <2>2. recv_pos[d] \in Positions /\ send_pos[d] \in Positions BY <1>6
  <2>3. CASE d = b
    <3>1. send_pos'[d] = following(send_pos[d]) BY <2>3, <1>1, <1>6
    <3> QED BY <2>1, <2>2, <2>3, <3>1, <1>7, <1>10, <1>11 DEF following, Positions
  <2>4. CASE d # b
    <3>1. send_pos'[d] = send_pos[d] BY <2>4, <1>1, <1>6
    <3> QED BY <2>1, <2>4, <3>1, <1>7, <1>10
  <2> QED BY <2>3, <2>4
<1> QED BY <1>12, <1>13, <1>14, <1>15 DEF BInv

(***************************************************************************)
(* A message leaves the box: the same with the parts exchanged.               *)
(***************************************************************************)
LEMMA RemoveFits ==
  ASSUME OneToOne, IInv, BInv, NEW b \in Boxes,
         ~idle, current_running \in Live, TakesFrom(b, current_running),
         msg_num[b] > 0, Remove(b),
         OnlyReturns, call'[current_running] = <<"user">>
  PROVE  BInv'
<1> DEFINE c == current_running
           o == Senders(b)
<1>1. /\ recv_pos' = [recv_pos EXCEPT ![b] = following(@)]
      /\ msg_num' = [msg_num EXCEPT ![b] = @ - 1]
      /\ Continue(unblock_one(Queues, o))
      /\ send_pos' = send_pos /\ name' = name /\ program' = program
  BY DEF Remove, processVars
<1>2. SchedulerTypeOK /\ TaskPlacement /\ o \in WaitQueues BY QueuesExist DEF IInv, Waits
<1>3. Live' = Live BY <1>1, <1>2, WakeEffect
<1>4. PICK W \in SUBSET Range(wait_queue[o]) :
        (wait_queue[o] # <<>> => W # {}) /\ Blocked' = Blocked \ W
  BY <1>1, <1>2, WakeEffect
<1>5. ASSUME NEW t \in Range(wait_queue[o])
      PROVE  t \in Live /\ t \in Blocked /\ SenderOf(b, t)
  BY <1>2, QueuedBlocked DEF IInv, Waits, WaitersCalls
<1>6. /\ msg_num \in [Boxes -> Int] /\ send_pos \in [Boxes -> Positions]
      /\ recv_pos \in [Boxes -> Positions]
  BY DEF IInv, BoxTypes
<1>7. msg_num'[b] = msg_num[b] - 1 /\ \A d \in Boxes : d # b => msg_num'[d] = msg_num[d]
  BY <1>1, <1>6
<1>8. /\ \A t \in Tasks : t # c => call'[t] = call[t]
      /\ \A t \in Tasks : call'[t] = call[t] \/ call'[t] = <<"user">>
  BY OnlyReturnsCalls DEF IInv, ClientTypes
<1>9. \A t \in Live : t \in Tasks BY DEF Live
<1>10. \A d \in Boxes : msg_num[d] \in 0 .. MAX_MBOX_LENGTH
  BY DEF BInv, RingFits
<1>11. MAX_MBOX_LENGTH \in Nat \ {0} BY MboxAssumption
<1> HIDE DEF c, o
<1>12. OneProcess' BY <1>1, <1>3 DEF BInv, OneProcess
<1>13. ReceiversFit'
  <2> SUFFICES ASSUME NEW t \in Live, NEW d \in Boxes, ReceiverOf(d, t)'
               PROVE  /\ TakesFrom(d, t)
                      /\ t \in Blocked' => msg_num'[d] = 0
                      /\ t \notin Blocked' => msg_num'[d] > 0
    BY <1>1, <1>3 DEF ReceiversFit, TakesFrom
  <2>1. ReceiverOf(d, t) BY <1>8, <1>9 DEF ReceiverOf
  <2>2. d # b
    <3> SUFFICES ASSUME d = b PROVE FALSE
      OBVIOUS
    <3>1. TakesFrom(b, t) BY <2>1 DEF BInv, ReceiversFit
    <3>2. t = current_running BY <3>1, OneReceiver DEF BInv
    <3>3. call'[t] = <<"user">> BY <3>2
    <3> QED BY <3>3 DEF ReceiverOf
  <2>3. t \notin W BY <2>1, <1>5 DEF SenderOf, ReceiverOf
  <2>4. t \in Blocked' <=> t \in Blocked BY <2>3, <1>4
  <2> QED BY <2>1, <2>2, <2>4, <1>7 DEF BInv, ReceiversFit
<1>14. SendersFit'
  <2> SUFFICES ASSUME NEW t \in Live, NEW d \in Boxes, SenderOf(d, t)'
               PROVE  /\ SendsTo(d, t)
                      /\ t \in Blocked' => msg_num'[d] = MAX_MBOX_LENGTH
                      /\ t \notin Blocked' => msg_num'[d] < MAX_MBOX_LENGTH
    BY <1>1, <1>3 DEF SendersFit, SendsTo
  <2>1. SenderOf(d, t) BY <1>8, <1>9 DEF SenderOf
  <2>2. /\ SendsTo(d, t)
        /\ t \in Blocked => msg_num[d] = MAX_MBOX_LENGTH
        /\ t \notin Blocked => msg_num[d] < MAX_MBOX_LENGTH
    BY <2>1 DEF BInv, SendersFit
  <2>3. CASE d = b
    <3>1. msg_num'[d] < MAX_MBOX_LENGTH BY <2>3, <1>7, <1>10, <1>11
    <3>2. t \notin Blocked'
      <4> SUFFICES ASSUME t \in Blocked' PROVE FALSE
        OBVIOUS
      <4>1. t \in Blocked /\ t \notin W BY <1>4
      <4>2. t \in Range(wait_queue[o]) BY <4>1, <2>1, <2>3, BlockedQueued DEF o
      <4>3. wait_queue[o] # <<>> BY <4>2 DEF Range
      <4>4. PICK w \in W : w \in Range(wait_queue[o]) BY <4>3, <1>4
      <4>5. w \in Live /\ SenderOf(b, w) BY <4>4, <1>5
      <4>6. SendsTo(b, w) /\ SendsTo(b, t) BY <4>5, <2>2, <2>3 DEF BInv, SendersFit
      <4>7. w = t BY <4>5, <4>6, OneSender DEF BInv
      <4> QED BY <4>1, <4>4, <4>7
    <3> QED BY <3>1, <3>2, <2>2
  <2>4. CASE d # b
    <3>1. t \notin W
      <4> SUFFICES ASSUME t \in W PROVE FALSE
        OBVIOUS
      <4>1. SenderOf(b, t) BY <1>5
      <4> QED BY <4>1, <2>1, <2>4 DEF SenderOf
    <3>2. t \in Blocked' <=> t \in Blocked BY <3>1, <1>4
    <3> QED BY <3>2, <2>2, <2>4, <1>7
  <2> QED BY <2>3, <2>4
<1>15. RingFits'
  <2> SUFFICES ASSUME NEW d \in Boxes
               PROVE  /\ msg_num'[d] \in 0 .. MAX_MBOX_LENGTH
                      /\ recv_pos'[d] + msg_num'[d] \in {send_pos[d], send_pos[d] + MAX_MBOX_LENGTH}
    BY <1>1 DEF RingFits
  <2>1. recv_pos[d] + msg_num[d] \in {send_pos[d], send_pos[d] + MAX_MBOX_LENGTH}
    BY DEF BInv, RingFits
  <2>2. recv_pos[d] \in Positions /\ send_pos[d] \in Positions BY <1>6
  <2>3. CASE d = b
    <3>1. recv_pos'[d] = following(recv_pos[d]) BY <2>3, <1>1, <1>6
    <3> QED BY <2>1, <2>2, <2>3, <3>1, <1>7, <1>10, <1>11 DEF following, Positions
  <2>4. CASE d # b
    <3>1. recv_pos'[d] = recv_pos[d] BY <2>4, <1>1, <1>6
    <3> QED BY <2>1, <2>4, <3>1, <1>7, <1>10
  <2> QED BY <2>3, <2>4
<1> QED BY <1>12, <1>13, <1>14, <1>15 DEF BInv

-----------------------------------------------------------------------------
(* Every action keeps BInv.                                                  *)

LEMMA CallersKept ==
  ASSUME IInv, Live' \subseteq Live, program' = program, OnlyReturns,
         \A t \in Live' : (t \in Blocked' <=> t \in Blocked) \/ \E u \in Tasks : WaiterFor(u, t)
  PROVE  SameCallers
<1> SUFFICES ASSUME NEW t \in Live', NEW b \in Boxes, SenderOf(b, t)' \/ ReceiverOf(b, t)'
             PROVE  /\ t \in Live /\ call'[t] = call[t] /\ program'[t] = program[t]
                    /\ t \in Blocked' <=> t \in Blocked
  BY DEF SameCallers
<1>1. t \in Live /\ t \in Tasks BY DEF Live
<1>2. call'[t] = call[t] \/ call'[t] = <<"user">>
  BY <1>1, OnlyReturnsCalls DEF IInv, ClientTypes
<1>3. call'[t] = call[t] BY <1>2 DEF SenderOf, ReceiverOf
<1>4. ~ \E u \in Tasks : WaiterFor(u, t) BY <1>3 DEF SenderOf, ReceiverOf, WaiterFor
<1> QED BY <1>1, <1>3, <1>4

\* A step that concerns neither the boxes nor the process table.
LEMMA ElsewhereFits ==
  ASSUME IInv, BInv, Live' \subseteq Live, OnlyReturns, UNCHANGED <<processVars, boxVars>>,
         \A t \in Live' : (t \in Blocked' <=> t \in Blocked) \/ \E u \in Tasks : WaiterFor(u, t)
  PROVE  BInv'
<1>1. /\ program' = program /\ name' = name
      /\ UNCHANGED <<msg_num, send_pos, recv_pos>>
  BY DEF processVars, boxVars, bufferVars
<1> QED BY <1>1, CallersKept, QuietFits

LEMMA ProcessCallFits ==
  ASSUME IInv, BInv, NEW t \in Tasks, ProcessCall(t), \A p \in Programs : ~ spawn(t, p)
  PROVE  BInv'
<1>0. SchedulerTypeOK /\ TaskPlacement BY DEF IInv, Waits
<1>1. ASSUME NEW u \in Tasks, kill(t, u) PROVE BInv'
  <2>1. /\ ~idle /\ do_kill(u) /\ call' = call /\ UNCHANGED <<processVars, boxVars>>
    BY <1>1, CallerRuns DEF kill, Makes, clientVars
  <2>2. /\ Live' = Live \ {u}
        /\ Blocked' = Blocked \ ({u} \cup Range(wait_queue[Waiting(u)]))
    BY <1>0, <2>1, KillEffect
  <2>3. \A x \in Range(wait_queue[Waiting(u)]) : WaiterFor(u, x)
    BY DEF IInv, Waits, WaitersCalls
  <2>4. \A x \in Live' : (x \in Blocked' <=> x \in Blocked) \/ \E v \in Tasks : WaiterFor(v, x)
    BY <2>2, <2>3
  <2> QED BY <2>1, <2>2, <2>4, ElsewhereFits DEF OnlyReturns
<1>2. ASSUME NEW u \in Tasks, wait(t, u) PROVE BInv'
  <2>1. /\ ~idle /\ t = current_running /\ block(Queues, Waiting(u))
        /\ call' = [call EXCEPT ![t] = <<"wait", pid[u]>>]
        /\ UNCHANGED <<processVars, boxVars>>
    BY <1>2, CallerRuns DEF wait, Makes, do_wait, Enter
  <2>2. Live' = Live /\ Blocked' = Blocked \cup {t} BY <1>0, <2>1, BlockEffect, QueuesExist
  <2>3. program' = program /\ name' = name /\ UNCHANGED <<msg_num, send_pos, recv_pos>>
    BY <2>1 DEF processVars, boxVars, bufferVars
  <2>4. SameCallers
    <3> SUFFICES ASSUME NEW x \in Live, NEW b \in Boxes, SenderOf(b, x)' \/ ReceiverOf(b, x)'
                 PROVE  call'[x] = call[x] /\ (x \in Blocked' <=> x \in Blocked)
      BY <2>2, <2>3 DEF SameCallers
    <3>1. x \in Tasks /\ call \in [Tasks -> Calls] BY DEF Live, IInv, ClientTypes
    <3>2. x # t BY <2>1, <3>1 DEF SenderOf, ReceiverOf
    <3> QED BY <3>1, <3>2, <2>1, <2>2
  <2> QED BY <2>2, <2>3, <2>4, QuietFits
<1>3. CASE exit(t)
  <2>1. /\ ~idle /\ do_exit /\ call' = call /\ UNCHANGED <<processVars, boxVars>>
    BY <1>3, CallerRuns DEF exit, Makes, clientVars
  <2>2. Live' = Live \ {current_running} /\ Blocked' = Blocked BY <1>0, <2>1, ExitEffect
  <2> QED BY <2>1, <2>2, ElsewhereFits DEF OnlyReturns
<1>4. CASE yield(t)
  <2>1. /\ ~idle /\ Requeue(deadline) /\ call' = call /\ UNCHANGED <<processVars, boxVars>>
    BY <1>4, CallerRuns DEF yield, do_yield, clientVars
  <2>2. deadline \in [Tasks -> 0 .. MaxSleep] BY <1>0 DEF SchedulerTypeOK
  <2>3. Live' = Live /\ Blocked' = Blocked BY <1>0, <2>1, <2>2, RequeueEffect
  <2> QED BY <2>1, <2>3, ElsewhereFits DEF OnlyReturns
<1>5. CASE sleep(t)
  <2>1. ~idle /\ call' = call /\ UNCHANGED <<processVars, boxVars>>
    BY <1>5, CallerRuns DEF sleep, Makes, clientVars
  <2>2. PICK ticks \in 1 .. MaxSleep : do_sleep(ticks) BY <1>5 DEF sleep
  <2>3. Live' = Live /\ Blocked' = Blocked BY <1>0, <2>1, <2>2, SleepEffect
  <2> QED BY <2>1, <2>3, ElsewhereFits DEF OnlyReturns
<1>6. CASE resume_wait(t)
  <2>1. OnlyReturns /\ UNCHANGED <<schedulerVars, processVars, boxVars>>
    BY <1>6 DEF resume_wait, Return, Enter, OnlyReturns, Running
  <2>2. Live' = Live /\ Blocked' = Blocked BY <1>0, <2>1, SchedulerKept
  <2> QED BY <2>1, <2>2, ElsewhereFits
<1> QED BY <1>1, <1>2, <1>3, <1>4, <1>5, <1>6 DEF ProcessCall

LEMMA SpawnFits ==
  ASSUME IInv, BInv, NEW t \in Tasks, NEW p \in Programs, spawn(t, p)
  PROVE  BInv'
<1>1. PICK f : f = FreeSlot OBVIOUS
<1>2. /\ ~idle /\ Live # Tasks /\ do_spawn(p)
      /\ call' = [call EXCEPT ![f] = UserCode]
      /\ UNCHANGED boxVars
      /\ \A u \in Live : program[u] # p
  BY <1>1, CallerRuns DEF spawn, Makes
<1>3. f \in Tasks \ Live BY <1>1, <1>2, FreeSlotFree
<1>4. Live' = Live \cup {f} /\ Blocked' = Blocked
  BY <1>1, <1>2, <1>3, FreeSlotUnwaited, SpawnEffect DEF IInv, Waits
<1>5. program' = [program EXCEPT ![f] = p] BY <1>1, <1>2 DEF do_spawn
<1>6. program \in [Tasks -> Programs] /\ call \in [Tasks -> Calls]
  BY DEF IInv, ProcessTypes, ClientTypes
<1>7. /\ program'[f] = p /\ call'[f] = <<"user">>
      /\ \A u \in Live : program'[u] = program[u] /\ call'[u] = call[u]
  BY <1>2, <1>3, <1>5, <1>6 DEF Live, UserCode
<1>8. OneProcess' BY <1>2, <1>4, <1>7 DEF BInv, OneProcess
<1>9. SameCallers BY <1>4, <1>7 DEF SameCallers, SenderOf, ReceiverOf
<1>10. name' = name /\ UNCHANGED <<msg_num, send_pos, recv_pos>>
  BY <1>2 DEF boxVars, bufferVars
<1> QED BY <1>8, <1>9, <1>10, OutsideFits

\* mbox_close never wipes a box.
LEMMA NeverWiped ==
  ASSUME IInv, NEW t \in Tasks, NEW nm \in Names, mbox_close(t, nm)
  PROVE  UNCHANGED <<schedulerVars, name, bufferVars>> /\ call' = call /\ program' = program
<1>1. PICK f : f = id[t][nm] OBVIOUS
<1>2. /\ f # EMPTY
      /\ IF user_num[f] - 1 = 0 THEN Wipe(f) ELSE UNCHANGED <<schedulerVars, name, bufferVars>>
      /\ call' = call /\ program' = program
  BY <1>1 DEF mbox_close, do_mbox_close
<1>3. /\ id \in [Tasks -> [Names -> Boxes \cup {EMPTY}]] /\ user_num \in [Boxes -> Int]
      /\ \A b \in Boxes : user_num[b] <= 0
  BY DEF IInv, BoxTypes, ClientTypes, Handles
<1>4. f \in Boxes BY <1>1, <1>2, <1>3
<1>5. user_num[f] \in Int /\ user_num[f] <= 0 BY <1>3, <1>4
<1>6. user_num[f] - 1 # 0 BY <1>5
<1> QED BY <1>2, <1>6

LEMMA OpenCloseFits ==
  ASSUME IInv, BInv, NEW t \in Tasks, NEW nm \in Names, mbox_open(t, nm) \/ mbox_close(t, nm)
  PROVE  BInv'
<1>0. SchedulerTypeOK /\ TaskPlacement BY DEF IInv, Waits
<1>1. CASE mbox_open(t, nm)
  <2>1. PICK f : f = Found(nm) OBVIOUS
  <2>2. /\ Named(nm) \cup Named(EMPTY) # {} /\ name' = [name EXCEPT ![f] = nm]
        /\ UNCHANGED schedulerVars /\ program' = program /\ UNCHANGED bufferVars /\ call' = call
    BY <1>1, <2>1 DEF mbox_open, do_mbox_open
  <2>3. f \in Boxes /\ (name[f] = nm \/ name[f] = EMPTY) BY <2>1, <2>2, FoundNamed
  <2>4. name \in [Boxes -> Names \cup {EMPTY}] BY DEF IInv, BoxTypes
  <2>5. \A b \in Boxes : name[b] # EMPTY => name'[b] = name[b] BY <2>2, <2>3, <2>4
  <2>6. Live' = Live /\ Blocked' = Blocked BY <1>0, <2>2, SchedulerKept
  <2>7. SameCallers BY <2>2, <2>6, CallersKept DEF OnlyReturns
  <2> QED BY <2>2, <2>5, <2>6, <2>7, QuietFits DEF bufferVars
<1>2. CASE mbox_close(t, nm)
  <2>1. /\ UNCHANGED schedulerVars /\ name' = name /\ UNCHANGED bufferVars
        /\ call' = call /\ program' = program
    BY <1>2, NeverWiped
  <2>2. Live' = Live /\ Blocked' = Blocked BY <1>0, <2>1, SchedulerKept
  <2>3. SameCallers BY <2>1, <2>2, CallersKept DEF OnlyReturns
  <2> QED BY <2>1, <2>2, <2>3, QuietFits DEF bufferVars
<1> QED BY <1>1, <1>2

LEMMA SendFits ==
  ASSUME OneToOne, IInv, BInv, NEW t \in Tasks, NEW b \in Boxes, NEW msg \in Messages,
         (\E nm \in Names : mbox_send(t, nm, b, msg)) \/ resume_mbox_send(t, b, msg)
  PROVE  BInv'
<1>1. CASE \E nm \in Names : mbox_send(t, nm, b, msg) /\ do_mbox_is_full(b)
  <2>1. PICK nm \in Names : /\ nm \in Sends[program[t]] /\ id[t][nm] = b /\ InUserCode(t)
                            /\ msg_num[b] = MAX_MBOX_LENGTH
                            /\ BlockOn(Senders(b)) /\ Enter(t, <<"send", b, msg>>)
    BY <1>1 DEF mbox_send, Uses, do_mbox_is_full
  <2>2. t = current_running /\ ~idle BY <2>1, CallerRuns
  <2>3. SendsTo(b, t) BY <2>1, HandleNames DEF SendsTo
  <2> DEFINE k == <<"send", b, msg>>
             o == Senders(b)
  <2>4. /\ call' = [call EXCEPT ![current_running] = k] /\ BlockOn(o) /\ o \in {Senders(b), Receivers(b)}
        /\ \E m2 \in Messages : k = <<"send", b, m2>>
        /\ SendsTo(b, current_running) /\ msg_num[b] = MAX_MBOX_LENGTH
    BY <2>1, <2>2, <2>3 DEF Enter
  <2> HIDE DEF k, o
  <2> QED BY <2>2, <2>4, BlockFits
<1>2. CASE \/ \E nm \in Names : mbox_send(t, nm, b, msg) /\ ~do_mbox_is_full(b)
           \/ resume_mbox_send(t, b, msg)
  <2>1. /\ t \in Live /\ t = current_running /\ ~idle /\ SendsTo(b, t)
        /\ msg_num[b] < MAX_MBOX_LENGTH
    BY <1>2, SenderHasRoom
  <2>2. Deposit(b, msg) /\ OnlyReturns /\ call'[t] = <<"user">>
    <3>1. CASE resume_mbox_send(t, b, msg)
      <4>1. call \in [Tasks -> Calls] BY DEF IInv, ClientTypes
      <4> QED BY <3>1, <2>1, <4>1 DEF resume_mbox_send, Return, Enter, OnlyReturns, UserCode
    <3>2. CASE \E nm \in Names : mbox_send(t, nm, b, msg) /\ ~do_mbox_is_full(b)
      BY <3>2 DEF mbox_send, Uses, InUserCode, UserCode, OnlyReturns
    <3> QED BY <1>2, <3>1, <3>2
  <2> QED BY <2>1, <2>2, DepositFits
<1> QED BY <1>1, <1>2

LEMMA ReceiveFits ==
  ASSUME OneToOne, IInv, BInv, NEW t \in Tasks, NEW b \in Boxes,
         (\E nm \in Names : mbox_recv(t, nm, b)) \/ resume_mbox_recv(t, b)
  PROVE  BInv'
<1>1. CASE \E nm \in Names : mbox_recv(t, nm, b) /\ do_mbox_is_empty(b)
  <2>1. PICK nm \in Names : /\ nm \in Recvs[program[t]] /\ id[t][nm] = b /\ InUserCode(t)
                            /\ msg_num[b] = 0
                            /\ BlockOn(Receivers(b)) /\ Enter(t, <<"recv", b>>)
    BY <1>1 DEF mbox_recv, Uses, do_mbox_is_empty
  <2>2. t = current_running /\ ~idle BY <2>1, CallerRuns
  <2>3. TakesFrom(b, t) BY <2>1, HandleNames DEF TakesFrom
  <2> DEFINE k == <<"recv", b>>
             o == Receivers(b)
  <2>4. /\ call' = [call EXCEPT ![current_running] = k] /\ BlockOn(o) /\ o \in {Senders(b), Receivers(b)}
        /\ k = <<"recv", b>>
        /\ TakesFrom(b, current_running) /\ msg_num[b] = 0
    BY <2>1, <2>2, <2>3 DEF Enter
  <2> HIDE DEF k, o
  <2> QED BY <2>2, <2>4, BlockFits
<1>2. CASE \/ \E nm \in Names : mbox_recv(t, nm, b) /\ ~do_mbox_is_empty(b)
           \/ resume_mbox_recv(t, b)
  <2>1. /\ t \in Live /\ t = current_running /\ ~idle /\ TakesFrom(b, t)
        /\ msg_num[b] > 0
    BY <1>2, ReceiverHasMessage
  <2>2. Remove(b) /\ OnlyReturns /\ call'[t] = <<"user">>
    <3>1. CASE resume_mbox_recv(t, b)
      <4>1. call \in [Tasks -> Calls] BY DEF IInv, ClientTypes
      <4> QED BY <3>1, <2>1, <4>1 DEF resume_mbox_recv, Return, Enter, OnlyReturns, UserCode
    <3>2. CASE \E nm \in Names : mbox_recv(t, nm, b) /\ ~do_mbox_is_empty(b)
      BY <3>2 DEF mbox_recv, Uses, InUserCode, UserCode, OnlyReturns
    <3> QED BY <1>2, <3>1, <3>2
  <2> QED BY <2>1, <2>2, RemoveFits
<1> QED BY <1>1, <1>2

LEMMA InitFits ==
  ASSUME Init
  PROVE  BInv
<1>1. /\ \A t \in Tasks : status[t] = IF t = 0 THEN "FIRST_TIME" ELSE "EXITED"
      /\ \A t \in Tasks : call[t] = <<"user">>
      /\ \A b \in Boxes : msg_num[b] = 0 /\ send_pos[b] = 0 /\ recv_pos[b] = 0
  BY DEF Init, ProcessesInit, init_mbox, UserCode
<1>2. \A t, u \in Live : t = u BY <1>1 DEF Live
<1>3. \A t \in Live : t \in Tasks BY DEF Live
<1>4. OneProcess BY <1>2 DEF OneProcess
<1>5. SendersFit BY <1>1, <1>3 DEF SendersFit, SenderOf
<1>6. ReceiversFit BY <1>1, <1>3 DEF ReceiversFit, ReceiverOf
<1>7. RingFits BY <1>1, MboxAssumption DEF RingFits
<1> QED BY <1>4, <1>5, <1>6, <1>7 DEF BInv

LEMMA NextFits ==
  ASSUME OneToOne, IInv, BInv, [Next]_vars
  PROVE  BInv'
<1>1. CASE Kernel
  <2>1. ~idle /\ Requeue(Elapse) /\ call' = call /\ UNCHANGED <<processVars, boxVars>>
    BY <1>1 DEF Kernel, timer_preempt, clientVars
  <2>2. SchedulerTypeOK /\ TaskPlacement BY DEF IInv, Waits
  <2>3. Elapse \in [Tasks -> 0 .. MaxSleep] BY <2>2, ElapseType
  <2>4. Live' = Live /\ Blocked' = Blocked BY <2>1, <2>2, <2>3, RequeueEffect
  <2> QED BY <2>1, <2>4, ElsewhereFits DEF OnlyReturns
<1>2. ASSUME NEW t \in Tasks, ProcessCall(t) PROVE BInv'
  <2>1. CASE \E p \in Programs : spawn(t, p) BY <2>1, SpawnFits
  <2>2. CASE \A p \in Programs : ~ spawn(t, p) BY <1>2, <2>2, ProcessCallFits
  <2> QED BY <2>1, <2>2
<1>3. ASSUME NEW t \in Tasks, MboxCall(t) PROVE BInv'
  <2>1. ASSUME NEW nm \in Names, mbox_open(t, nm) \/ mbox_close(t, nm) PROVE BInv'
    BY <2>1, OpenCloseFits
  <2>2. ASSUME NEW b \in Boxes, (\E nm \in Names : mbox_recv(t, nm, b)) \/ resume_mbox_recv(t, b)
        PROVE  BInv'
    BY <2>2, ReceiveFits
  <2>3. ASSUME NEW b \in Boxes, NEW msg \in Messages,
               (\E nm \in Names : mbox_send(t, nm, b, msg)) \/ resume_mbox_send(t, b, msg)
        PROVE  BInv'
    BY <2>3, SendFits
  <2> QED BY <1>3, <2>1, <2>2, <2>3 DEF MboxCall
<1>4. CASE UNCHANGED vars
  <2>1. UNCHANGED <<schedulerVars, processVars, boxVars>> /\ call' = call
    BY <1>4 DEF vars, clientVars
  <2>2. Live' = Live /\ Blocked' = Blocked BY <2>1, SchedulerKept DEF IInv, Waits
  <2> QED BY <2>1, <2>2, ElsewhereFits DEF OnlyReturns
<1> QED BY <1>1, <1>2, <1>3, <1>4 DEF Next

THEOREM BoxInvariant ==
  ASSUME OneToOne
  PROVE  Spec => [](IInv /\ BInv)
<1>1. Init => BInv BY InitFits
<1>2. IInv /\ BInv /\ [Next]_vars => BInv' BY NextFits
<1> QED BY <1>1, <1>2, IpcInvariant, PTL DEF Spec

(***************************************************************************)
(* What BInv says of the queues and of the ring.                             *)
(***************************************************************************)
LEMMA InvariantWakes ==
  ASSUME IInv, BInv
  PROVE  NoLostWakeup
<1> SUFFICES ASSUME NEW b \in Boxes
             PROVE  /\ wait_queue[Senders(b)] # <<>> => msg_num[b] = MAX_MBOX_LENGTH
                    /\ wait_queue[Receivers(b)] # <<>> => msg_num[b] = 0
  BY DEF NoLostWakeup, do_mbox_is_full, do_mbox_is_empty
<1>1. \A q \in WaitQueues : wait_queue[q] \in Seq(Tasks) BY DEF IInv, Waits, SchedulerTypeOK
<1>2. ASSUME NEW q \in WaitQueues, wait_queue[q] # <<>>
      PROVE  \E t \in Range(wait_queue[q]) : t \in Live /\ t \in Blocked
  <2>1. PICK t : t \in Range(wait_queue[q])
    <3> DEFINE w == wait_queue[q]
    <3>1. w \in Seq(Tasks) /\ w # <<>> BY <1>1, <1>2
    <3> HIDE DEF w
    <3>2. Range(w) # {} BY <3>1, EmptyRange
    <3> QED BY <3>2 DEF w
  <2> QED BY <2>1, QueuedBlocked
<1>3. ASSUME wait_queue[Senders(b)] # <<>> PROVE msg_num[b] = MAX_MBOX_LENGTH
  <2>1. PICK t \in Range(wait_queue[Senders(b)]) : t \in Live /\ t \in Blocked
    BY <1>2, <1>3, QueuesExist
  <2>2. SenderOf(b, t) BY <2>1 DEF IInv, Waits, WaitersCalls
  <2> QED BY <2>1, <2>2 DEF BInv, SendersFit
<1>4. ASSUME wait_queue[Receivers(b)] # <<>> PROVE msg_num[b] = 0
  <2>1. PICK t \in Range(wait_queue[Receivers(b)]) : t \in Live /\ t \in Blocked
    BY <1>2, <1>4, QueuesExist
  <2>2. ReceiverOf(b, t) BY <2>1 DEF IInv, Waits, WaitersCalls
  <2> QED BY <2>1, <2>2 DEF BInv, ReceiversFit
<1> QED BY <1>3, <1>4

LEMMA Wraps ==
  ASSUME NEW n \in Nat \ {0}, NEW x \in 0 .. n - 1
  PROVE  x % n = x /\ (x + n) % n = x
OBVIOUS

LEMMA InvariantBounds ==
  ASSUME IInv, BInv
  PROVE  BoxBounded
<1> SUFFICES ASSUME NEW b \in Boxes
             PROVE  /\ msg_num[b] \in 0 .. MAX_MBOX_LENGTH
                    /\ (recv_pos[b] + msg_num[b]) % MAX_MBOX_LENGTH = send_pos[b]
  BY DEF BoxBounded
<1>1. /\ msg_num[b] \in 0 .. MAX_MBOX_LENGTH
      /\ recv_pos[b] + msg_num[b] \in {send_pos[b], send_pos[b] + MAX_MBOX_LENGTH}
  BY DEF BInv, RingFits
<1>2. MAX_MBOX_LENGTH \in Nat \ {0} BY MboxAssumption
<1>3. send_pos[b] \in 0 .. MAX_MBOX_LENGTH - 1 BY DEF IInv, BoxTypes, Positions
<1>4. /\ send_pos[b] % MAX_MBOX_LENGTH = send_pos[b]
      /\ (send_pos[b] + MAX_MBOX_LENGTH) % MAX_MBOX_LENGTH = send_pos[b]
  BY <1>2, <1>3, Wraps
<1> QED BY <1>1, <1>4

(***************************************************************************)
(* A process is blocked on a full box or on an empty one only: no wakeup is   *)
(* lost, kills included.                                                     *)
(***************************************************************************)
THEOREM NoWakeupLost ==
  ASSUME OneToOne
  PROVE  Spec => []NoLostWakeup
<1>1. IInv /\ BInv => NoLostWakeup BY InvariantWakes
<1> QED BY <1>1, BoxInvariant, PTL

(***************************************************************************)
(* msg_num stays within the bounds of the buffer and agrees with its          *)
(* positions.                                                                *)
(***************************************************************************)
THEOREM BoxesBounded ==
  ASSUME OneToOne
  PROVE  Spec => []BoxBounded
<1>1. IInv /\ BInv => BoxBounded BY InvariantBounds
<1> QED BY <1>1, BoxInvariant, PTL

-----------------------------------------------------------------------------
(* The ring of a box, read as a sequence.                                    *)

Slots(ring, first, n) == [i \in 1 .. n |-> ring[(first + i - 1) % MAX_MBOX_LENGTH]]

Rings == [Positions -> Messages \cup {EMPTY}]

LEMMA SlotPlace ==
  ASSUME NEW r \in Positions, NEW i \in 1 .. MAX_MBOX_LENGTH
  PROVE  /\ (r + i - 1) % MAX_MBOX_LENGTH
              = IF r + i - 1 < MAX_MBOX_LENGTH THEN r + i - 1 ELSE r + i - 1 - MAX_MBOX_LENGTH
         /\ (r + i - 1) % MAX_MBOX_LENGTH \in Positions
<1>1. MAX_MBOX_LENGTH \in Nat \ {0} BY MboxAssumption
<1>2. r \in 0 .. MAX_MBOX_LENGTH - 1 BY DEF Positions
<1>3. CASE r + i - 1 < MAX_MBOX_LENGTH
  <2> DEFINE x == r + i - 1
  <2>1. x \in 0 .. MAX_MBOX_LENGTH - 1 BY <1>1, <1>2, <1>3
  <2> HIDE DEF x
  <2>2. x % MAX_MBOX_LENGTH = x BY <1>1, <2>1, Wraps
  <2> QED BY <2>1, <2>2, <1>3 DEF x, Positions
<1>4. CASE ~ (r + i - 1 < MAX_MBOX_LENGTH)
  <2> DEFINE x == r + i - 1 - MAX_MBOX_LENGTH
  <2>1. x \in 0 .. MAX_MBOX_LENGTH - 1 /\ r + i - 1 = x + MAX_MBOX_LENGTH BY <1>1, <1>2, <1>4
  <2> HIDE DEF x
  <2>2. (x + MAX_MBOX_LENGTH) % MAX_MBOX_LENGTH = x BY <1>1, <2>1, Wraps
  <2>3. (r + i - 1) % MAX_MBOX_LENGTH = x BY <2>1, <2>2
  <2> QED BY <2>1, <2>3, <1>4 DEF x, Positions
<1> QED BY <1>3, <1>4

LEMMA SlotsSequence ==
  ASSUME NEW ring \in Rings, NEW r \in Positions, NEW n \in 0 .. MAX_MBOX_LENGTH
  PROVE  /\ Slots(ring, r, n) \in Seq(Messages \cup {EMPTY})
         /\ Len(Slots(ring, r, n)) = n
         /\ \A i \in 1 .. n : Slots(ring, r, n)[i] = ring[(r + i - 1) % MAX_MBOX_LENGTH]
<1> DEFINE s == Slots(ring, r, n)
           S == Messages \cup {EMPTY}
<1>1. MAX_MBOX_LENGTH \in Nat \ {0} /\ n \in Nat BY MboxAssumption
<1>2. \A i \in 1 .. n : ring[(r + i - 1) % MAX_MBOX_LENGTH] \in S
  <2> SUFFICES ASSUME NEW i \in 1 .. n PROVE ring[(r + i - 1) % MAX_MBOX_LENGTH] \in S
    OBVIOUS
  <2>1. i \in 1 .. MAX_MBOX_LENGTH BY <1>1
  <2>2. (r + i - 1) % MAX_MBOX_LENGTH \in Positions BY <2>1, SlotPlace
  <2> QED BY <2>2 DEF Rings
<1>3. s \in [1 .. n -> S] BY <1>2 DEF Slots
<1>4. \A i \in 1 .. n : s[i] = ring[(r + i - 1) % MAX_MBOX_LENGTH] BY DEF Slots
<1> HIDE DEF s, S
<1>5. s \in Seq(S) BY <1>1, <1>3, SeqDef
<1>6. Len(s) \in Nat /\ DOMAIN s = 1 .. Len(s) BY <1>5, LenProperties
<1>7. 1 .. n = 1 .. Len(s) BY <1>3, <1>6
<1>8. Len(s) = n BY <1>1, <1>6, <1>7, SameLength
<1> QED BY <1>4, <1>5, <1>8 DEF s, S

RoomAt(first, n, end) ==
  n \in 0 .. MAX_MBOX_LENGTH - 1 /\ first + n \in {end, end + MAX_MBOX_LENGTH}

Stored(new, ring, p, msg) == new = [ring EXCEPT ![p] = msg]

\* What do_mbox_send adds at send_pos comes last.
LEMMA SlotsAppend ==
  ASSUME NEW ring \in Rings, NEW r \in Positions, NEW n, NEW s \in Positions, RoomAt(r, n, s),
         NEW msg \in Messages, NEW new, Stored(new, ring, s, msg)
  PROVE  Slots(new, r, n + 1) = Append(Slots(ring, r, n), msg)
<1> DEFINE S == Messages \cup {EMPTY}
           u == Slots(ring, r, n)
           v == Slots(new, r, n + 1)
           w == Append(u, msg)
<1>0. n \in 0 .. MAX_MBOX_LENGTH - 1 /\ r + n \in {s, s + MAX_MBOX_LENGTH} BY DEF RoomAt
<1>1. MAX_MBOX_LENGTH \in Nat \ {0} /\ n \in Nat BY <1>0, MboxAssumption
<1>2. /\ new \in Rings /\ new[s] = msg
      /\ \A p \in Positions : p # s => new[p] = ring[p]
  BY DEF Rings, Stored
<1>3. n \in 0 .. MAX_MBOX_LENGTH /\ n + 1 \in 0 .. MAX_MBOX_LENGTH BY <1>0, <1>1
<1>4. /\ u \in Seq(S) /\ Len(u) = n
      /\ \A i \in 1 .. n : u[i] = ring[(r + i - 1) % MAX_MBOX_LENGTH]
  BY <1>3, SlotsSequence
<1>5. /\ v \in Seq(S) /\ Len(v) = n + 1
      /\ \A i \in 1 .. n + 1 : v[i] = new[(r + i - 1) % MAX_MBOX_LENGTH]
  <2> DEFINE k == n + 1
  <2>1. new \in Rings /\ k \in 0 .. MAX_MBOX_LENGTH BY <1>2, <1>3
  <2> HIDE DEF k, v, S
  <2>2. /\ Slots(new, r, k) \in Seq(Messages \cup {EMPTY}) /\ Len(Slots(new, r, k)) = k
        /\ \A i \in 1 .. k : Slots(new, r, k)[i] = new[(r + i - 1) % MAX_MBOX_LENGTH]
    BY <2>1, SlotsSequence
  <2> QED BY <2>2 DEF k, v, S
<1>6. msg \in S OBVIOUS
<1> HIDE DEF u, v, S
<1>7. /\ w \in Seq(S) /\ Len(w) = n + 1 /\ w[n + 1] = msg
      /\ \A i \in 1 .. n : w[i] = u[i]
  BY <1>4, <1>6, AppendProperties
<1> HIDE DEF w
<1>8. ASSUME NEW i \in 1 .. n + 1 PROVE v[i] = w[i]
  <2> DEFINE p == (r + i - 1) % MAX_MBOX_LENGTH
  <2>1. i \in 1 .. MAX_MBOX_LENGTH BY <1>0, <1>1
  <2>2. /\ p = IF r + i - 1 < MAX_MBOX_LENGTH THEN r + i - 1 ELSE r + i - 1 - MAX_MBOX_LENGTH
        /\ p \in Positions
    BY <2>1, SlotPlace
  <2>3. v[i] = new[p] BY <1>5
  <2>4. i \in 1 .. n => u[i] = ring[p] BY <1>4
  <2> HIDE DEF p
  <2>5. CASE i = n + 1
    <3>1. p = s BY <1>0, <1>1, <2>2, <2>5 DEF Positions
    <3> QED BY <3>1, <2>3, <2>5, <1>2, <1>7
  <2>6. CASE i # n + 1
    <3>1. i \in 1 .. n BY <1>1, <2>6
    <3>2. p # s BY <1>0, <1>1, <2>2, <3>1 DEF Positions
    <3> QED BY <3>1, <3>2, <2>2, <2>3, <2>4, <1>2, <1>7
  <2> QED BY <2>5, <2>6
<1>9. v = w BY <1>5, <1>7, <1>8, SeqEqual
<1> QED BY <1>9 DEF v, w, u

\* What do_mbox_recv takes from recv_pos is the head.
LEMMA SlotsTail ==
  ASSUME NEW ring \in Rings, NEW r \in Positions, NEW n \in 1 .. MAX_MBOX_LENGTH
  PROVE  /\ Slots(ring, r, n) # <<>>
         /\ Head(Slots(ring, r, n)) = ring[r]
         /\ Slots(ring, following(r), n - 1) = Tail(Slots(ring, r, n))
<1> DEFINE S == Messages \cup {EMPTY}
           u == Slots(ring, r, n)
           v == Slots(ring, following(r), n - 1)
           w == Tail(u)
<1>1. MAX_MBOX_LENGTH \in Nat \ {0} /\ n \in Nat /\ n - 1 \in Nat BY MboxAssumption
<1>2. /\ following(r) \in Positions
      /\ following(r) = IF r = MAX_MBOX_LENGTH - 1 THEN 0 ELSE r + 1
  BY <1>1 DEF Positions, following
<1>3. n \in 0 .. MAX_MBOX_LENGTH /\ n - 1 \in 0 .. MAX_MBOX_LENGTH BY <1>1
<1>4. /\ u \in Seq(S) /\ Len(u) = n
      /\ \A i \in 1 .. n : u[i] = ring[(r + i - 1) % MAX_MBOX_LENGTH]
  BY <1>3, SlotsSequence
<1>5. /\ v \in Seq(S) /\ Len(v) = n - 1
      /\ \A i \in 1 .. n - 1 : v[i] = ring[(following(r) + i - 1) % MAX_MBOX_LENGTH]
  BY <1>2, <1>3, SlotsSequence
<1>6. u[1] = ring[r]
  <2>1. 1 \in 1 .. MAX_MBOX_LENGTH /\ 1 \in 1 .. n BY <1>1
  <2>2. (r + 1 - 1) % MAX_MBOX_LENGTH = r BY <1>1, <2>1, SlotPlace DEF Positions
  <2> QED BY <2>1, <2>2, <1>4
<1> HIDE DEF u, v, S
<1>7. u # <<>> BY <1>1, <1>4, EmptySeq
<1>8. /\ w \in Seq(S) /\ Len(w) = n - 1
      /\ \A i \in 1 .. n - 1 : w[i] = u[i + 1]
  BY <1>4, <1>7, HeadTailProperties
<1>9. Head(u) = u[1] OBVIOUS
<1> HIDE DEF w
<1>10. ASSUME NEW i \in 1 .. n - 1 PROVE v[i] = w[i]
  <2> DEFINE f == following(r)
             p == (f + i - 1) % MAX_MBOX_LENGTH
             q == (r + (i + 1) - 1) % MAX_MBOX_LENGTH
  <2>1. i \in 1 .. MAX_MBOX_LENGTH /\ i + 1 \in 1 .. MAX_MBOX_LENGTH /\ i + 1 \in 1 .. n BY <1>1
  <2>2. p = IF f + i - 1 < MAX_MBOX_LENGTH THEN f + i - 1 ELSE f + i - 1 - MAX_MBOX_LENGTH
    BY <2>1, <1>2, SlotPlace
  <2>3. q = IF r + (i + 1) - 1 < MAX_MBOX_LENGTH THEN r + (i + 1) - 1
            ELSE r + (i + 1) - 1 - MAX_MBOX_LENGTH
    BY <2>1, SlotPlace
  <2>4. v[i] = ring[p] /\ w[i] = ring[q] BY <1>4, <1>5, <1>8, <2>1
  <2>5. f = IF r = MAX_MBOX_LENGTH - 1 THEN 0 ELSE r + 1 BY <1>2
  <2> HIDE DEF p, q, f
  <2>6. p = q BY <2>1, <2>2, <2>3, <2>5, <1>1 DEF Positions
  <2> QED BY <2>4, <2>6
<1>11. v = w BY <1>5, <1>8, <1>10, SeqEqual
<1> QED BY <1>6, <1>7, <1>9, <1>11 DEF u, v, w

-----------------------------------------------------------------------------
(* Every step of the boxes is a step of the channel, or leaves it alone.       *)

Channels == [b \in Boxes |-> Contents(b)]

LEMMA ContentsSlots ==
  /\ Channels = [b \in Boxes |-> Slots(msg_queue[b], recv_pos[b], msg_num[b])]
  /\ Channels' = [b \in Boxes |-> Slots(msg_queue'[b], recv_pos'[b], msg_num'[b])]
BY DEF Channels, Contents, Slots

LEMMA ChannelsKept ==
  ASSUME UNCHANGED <<bufferVars, last>>
  PROVE  UNCHANGED <<Channels, last>>
BY ContentsSlots DEF bufferVars

LEMMA RingTyped ==
  ASSUME IInv, BInv, NEW b \in Boxes
  PROVE  /\ msg_queue[b] \in Rings /\ recv_pos[b] \in Positions /\ send_pos[b] \in Positions
         /\ msg_num[b] \in 0 .. MAX_MBOX_LENGTH
         /\ recv_pos[b] + msg_num[b] \in {send_pos[b], send_pos[b] + MAX_MBOX_LENGTH}
<1>1. msg_queue[b] \in Rings /\ recv_pos[b] \in Positions /\ send_pos[b] \in Positions
  BY DEF IInv, BoxTypes, Rings
<1>2. /\ msg_num[b] \in 0 .. MAX_MBOX_LENGTH
      /\ recv_pos[b] + msg_num[b] \in {send_pos[b], send_pos[b] + MAX_MBOX_LENGTH}
  BY DEF BInv, RingFits
<1> QED BY <1>1, <1>2

LEMMA DepositSends ==
  ASSUME IInv, BInv, NEW b \in Boxes, NEW msg \in Messages,
         Deposit(b, msg), msg_num[b] < MAX_MBOX_LENGTH
  PROVE  /\ Len(Channels[b]) < MAX_MBOX_LENGTH
         /\ Channels' = [Channels EXCEPT ![b] = Append(@, msg)]
<1>1. /\ msg_queue' = [msg_queue EXCEPT ![b][send_pos[b]] = msg]
      /\ msg_num' = [msg_num EXCEPT ![b] = @ + 1]
      /\ recv_pos' = recv_pos
  BY DEF Deposit
<1>2. /\ msg_queue[b] \in Rings /\ recv_pos[b] \in Positions /\ send_pos[b] \in Positions
      /\ msg_num[b] \in 0 .. MAX_MBOX_LENGTH
      /\ recv_pos[b] + msg_num[b] \in {send_pos[b], send_pos[b] + MAX_MBOX_LENGTH}
  BY RingTyped
<1>3. /\ DOMAIN msg_queue = Boxes /\ DOMAIN msg_num = Boxes
  BY DEF IInv, BoxTypes
<1>4. /\ msg_queue'[b] = [msg_queue[b] EXCEPT ![send_pos[b]] = msg]
      /\ \A d \in Boxes : d # b => msg_queue'[d] = msg_queue[d]
  BY <1>1, <1>3
<1>5. /\ msg_num'[b] = msg_num[b] + 1
      /\ \A d \in Boxes : d # b => msg_num'[d] = msg_num[d]
  BY <1>1, <1>3
<1>6. msg_num[b] \in 0 .. MAX_MBOX_LENGTH - 1 BY <1>2, MboxAssumption
<1> DEFINE old(d) == Slots(msg_queue[d], recv_pos[d], msg_num[d])
           new(d) == Slots(msg_queue'[d], recv_pos'[d], msg_num'[d])
<1>7. Len(old(b)) = msg_num[b] BY <1>2, SlotsSequence
<1>8. new(b) = Append(old(b), msg)
  <2> DEFINE ring == msg_queue'[b]
  <2>1. ring = [msg_queue[b] EXCEPT ![send_pos[b]] = msg] BY <1>4
  <2> HIDE DEF ring
  <2> DEFINE q == msg_queue[b]
             r == recv_pos[b]
             n == msg_num[b]
             p == send_pos[b]
  <2>2. /\ q \in Rings /\ r \in Positions /\ p \in Positions
        /\ RoomAt(r, n, p) /\ Stored(ring, q, p, msg)
    BY <2>1, <1>2, <1>6 DEF RoomAt, Stored
  <2> HIDE DEF q, r, n, p
  <2>3. Slots(ring, r, n + 1) = Append(Slots(q, r, n), msg) BY <2>2, SlotsAppend
  <2> QED BY <2>3, <1>1, <1>5 DEF ring, q, r, n
<1>9. \A d \in Boxes : d # b => new(d) = old(d) BY <1>1, <1>4, <1>5
<1>10. /\ Channels = [d \in Boxes |-> old(d)] /\ Channels' = [d \in Boxes |-> new(d)]
  BY ContentsSlots
<1> HIDE DEF old, new
<1> QED BY <1>6, <1>7, <1>8, <1>9, <1>10

LEMMA RemoveReceives ==
  ASSUME IInv, BInv, NEW b \in Boxes, Remove(b), msg_num[b] > 0
  PROVE  /\ Channels[b] # <<>>
         /\ Delivered(b) = Head(Channels[b])
         /\ Channels' = [Channels EXCEPT ![b] = Tail(@)]
<1>1. /\ recv_pos' = [recv_pos EXCEPT ![b] = following(@)]
      /\ msg_num' = [msg_num EXCEPT ![b] = @ - 1]
      /\ msg_queue' = msg_queue
  BY DEF Remove
<1>2. /\ msg_queue[b] \in Rings /\ recv_pos[b] \in Positions
      /\ msg_num[b] \in 0 .. MAX_MBOX_LENGTH
  BY RingTyped
<1>3. DOMAIN recv_pos = Boxes /\ DOMAIN msg_num = Boxes BY DEF IInv, BoxTypes
<1>4. /\ recv_pos'[b] = following(recv_pos[b])
      /\ \A d \in Boxes : d # b => recv_pos'[d] = recv_pos[d]
  BY <1>1, <1>3
<1>5. /\ msg_num'[b] = msg_num[b] - 1
      /\ \A d \in Boxes : d # b => msg_num'[d] = msg_num[d]
  BY <1>1, <1>3
<1>6. msg_num[b] \in 1 .. MAX_MBOX_LENGTH BY <1>2, MboxAssumption
<1> DEFINE old(d) == Slots(msg_queue[d], recv_pos[d], msg_num[d])
           new(d) == Slots(msg_queue'[d], recv_pos'[d], msg_num'[d])
<1>7. /\ old(b) # <<>> /\ Head(old(b)) = msg_queue[b][recv_pos[b]]
      /\ Slots(msg_queue[b], following(recv_pos[b]), msg_num[b] - 1) = Tail(old(b))
  BY <1>2, <1>6, SlotsTail
<1>8. new(b) = Tail(old(b)) BY <1>1, <1>4, <1>5, <1>7
<1>9. \A d \in Boxes : d # b => new(d) = old(d) BY <1>1, <1>4, <1>5
<1>10. /\ Channels = [d \in Boxes |-> old(d)] /\ Channels' = [d \in Boxes |-> new(d)]
  BY ContentsSlots
<1> HIDE DEF old, new
<1> QED BY <1>7, <1>8, <1>9, <1>10 DEF Delivered

LEMMA StepsRefine ==
  ASSUME IInv, BInv, [Next]_vars
  PROVE  [Abstract!Next]_<<Channels, last>>
<1>1. CASE Kernel
  <2>1. UNCHANGED <<bufferVars, last>> BY <1>1 DEF Kernel, boxVars, clientVars
  <2> QED BY <2>1, ChannelsKept
<1>2. ASSUME NEW t \in Tasks, ProcessCall(t) PROVE UNCHANGED <<Channels, last>>
  <2>1. UNCHANGED <<bufferVars, last>>
    <3>1. ASSUME NEW p \in Programs, spawn(t, p) PROVE UNCHANGED <<bufferVars, last>>
      BY <3>1 DEF spawn, boxVars
    <3>2. ASSUME NEW u \in Tasks, kill(t, u) \/ wait(t, u) PROVE UNCHANGED <<bufferVars, last>>
      BY <3>2 DEF kill, wait, boxVars, clientVars
    <3>3. ASSUME exit(t) \/ yield(t) \/ sleep(t) \/ resume_wait(t)
          PROVE  UNCHANGED <<bufferVars, last>>
      BY <3>3 DEF exit, yield, sleep, resume_wait, boxVars, clientVars
    <3> QED BY <1>2, <3>1, <3>2, <3>3 DEF ProcessCall
  <2> QED BY <2>1, ChannelsKept
<1>3. ASSUME NEW t \in Tasks, MboxCall(t) PROVE [Abstract!Next]_<<Channels, last>>
  <2>1. ASSUME NEW nm \in Names, mbox_open(t, nm) \/ mbox_close(t, nm)
        PROVE  UNCHANGED <<Channels, last>>
    <3>1. CASE mbox_open(t, nm)
      <4>1. UNCHANGED <<bufferVars, last>> BY <3>1 DEF mbox_open, do_mbox_open
      <4> QED BY <4>1, ChannelsKept
    <3>2. CASE mbox_close(t, nm)
      <4>1. UNCHANGED bufferVars BY <3>2, NeverWiped
      <4>2. last' = last BY <3>2 DEF mbox_close
      <4> QED BY <4>1, <4>2, ChannelsKept
    <3> QED BY <2>1, <3>1, <3>2
  <2>2. ASSUME NEW b \in Boxes, (\E nm \in Names : mbox_recv(t, nm, b)) \/ resume_mbox_recv(t, b)
        PROVE  [Abstract!Receive(b)]_<<Channels, last>>
    <3>1. CASE \E nm \in Names : mbox_recv(t, nm, b) /\ do_mbox_is_empty(b)
      <4>1. UNCHANGED <<bufferVars, last>>
        BY <3>1 DEF mbox_recv, do_mbox_is_empty, BlockOn, boxVars
      <4> QED BY <4>1, ChannelsKept
    <3>2. CASE \/ \E nm \in Names : mbox_recv(t, nm, b) /\ ~do_mbox_is_empty(b)
               \/ resume_mbox_recv(t, b)
      <4>1. msg_num[b] > 0 BY <3>2, ReceiverHasMessage
      <4>2. Remove(b) /\ last' = [last EXCEPT ![b] = Delivered(b)]
        BY <3>2 DEF mbox_recv, resume_mbox_recv
      <4>3. /\ Channels[b] # <<>> /\ Delivered(b) = Head(Channels[b])
            /\ Channels' = [Channels EXCEPT ![b] = Tail(@)]
        BY <4>1, <4>2, RemoveReceives
      <4> QED BY <4>2, <4>3 DEF Abstract!Receive, Channels
    <3> QED BY <2>2, <3>1, <3>2
  <2>3. ASSUME NEW b \in Boxes, NEW msg \in Messages,
               (\E nm \in Names : mbox_send(t, nm, b, msg)) \/ resume_mbox_send(t, b, msg)
        PROVE  [Abstract!Send(b, msg)]_<<Channels, last>>
    <3>1. CASE \E nm \in Names : mbox_send(t, nm, b, msg) /\ do_mbox_is_full(b)
      <4>1. UNCHANGED <<bufferVars, last>>
        BY <3>1 DEF mbox_send, do_mbox_is_full, BlockOn, boxVars
      <4> QED BY <4>1, ChannelsKept
    <3>2. CASE \/ \E nm \in Names : mbox_send(t, nm, b, msg) /\ ~do_mbox_is_full(b)
               \/ resume_mbox_send(t, b, msg)
      <4>1. msg_num[b] < MAX_MBOX_LENGTH BY <3>2, SenderHasRoom
      <4>2. Deposit(b, msg) /\ last' = last BY <3>2 DEF mbox_send, resume_mbox_send
      <4>3. /\ Len(Channels[b]) < MAX_MBOX_LENGTH
            /\ Channels' = [Channels EXCEPT ![b] = Append(@, msg)]
        BY <4>1, <4>2, DepositSends
      <4> QED BY <4>2, <4>3 DEF Abstract!Send, Channels
    <3> QED BY <2>3, <3>1, <3>2
  <2> QED BY <1>3, <2>1, <2>2, <2>3 DEF MboxCall, Abstract!Next
<1>4. CASE UNCHANGED vars
  <2>1. UNCHANGED <<bufferVars, last>> BY <1>4 DEF vars, boxVars, clientVars
  <2> QED BY <2>1, ChannelsKept
<1> QED BY <1>1, <1>2, <1>3, <1>4 DEF Next

LEMMA InitRefines ==
  ASSUME Init
  PROVE  Abstract!Init
<1>1. /\ last = [b \in Boxes |-> EMPTY]
      /\ \A b \in Boxes : msg_num[b] = 0
  BY DEF Init, init_mbox
<1>2. IInv /\ BInv BY InitInvariant, InitFits
<1>3. \A b \in Boxes : Slots(msg_queue[b], recv_pos[b], msg_num[b]) = <<>>
  <2> SUFFICES ASSUME NEW b \in Boxes PROVE Slots(msg_queue[b], recv_pos[b], msg_num[b]) = <<>>
    OBVIOUS
  <2>1. /\ msg_queue[b] \in Rings /\ recv_pos[b] \in Positions
        /\ msg_num[b] \in 0 .. MAX_MBOX_LENGTH
    BY <1>2, RingTyped
  <2> DEFINE s == Slots(msg_queue[b], recv_pos[b], msg_num[b])
  <2>2. s \in Seq(Messages \cup {EMPTY}) /\ Len(s) = 0 BY <2>1, <1>1, SlotsSequence
  <2> HIDE DEF s
  <2>3. s = <<>> BY <2>2, EmptySeq
  <2> QED BY <2>3 DEF s
<1>4. Channels = [b \in Boxes |-> <<>>] BY <1>3, ContentsSlots
<1> QED BY <1>1, <1>4 DEF Abstract!Init, Channels

(***************************************************************************)
(* The boxes implement the bounded channel: every message that is sent is     *)
(* received once, in the order of the sends, and the buffer never overflows    *)
(* or underflows, whoever blocks, is killed or restarted in between           *)
(* (mbox.c:154-205).                                                         *)
(***************************************************************************)
THEOREM BoxesDeliver ==
  ASSUME OneToOne
  PROVE  Spec => DeliversInOrder
<1>1. Init => Abstract!Init BY InitRefines
<1>2. IInv /\ BInv /\ [Next]_vars => [Abstract!Next]_<<Channels, last>> BY StepsRefine
<1>3. IInv /\ BInv /\ [Next]_vars
        => [Abstract!Next]_<<[b \in Boxes |-> Contents(b)], last>>
  BY <1>2 DEF Channels
<1> QED BY <1>1, <1>3, BoxInvariant, PTL DEF Spec, DeliversInOrder, Abstract!Spec
=============================================================================

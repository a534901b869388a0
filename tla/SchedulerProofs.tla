--------------------------- MODULE SchedulerProofs ---------------------------
(***************************************************************************)
(* Facts about the kernel's queues and about the helpers of Scheduler, for   *)
(* every set of tasks and wait queues.  The components that are built on     *)
(* the scheduler cite the lemmas unblock_one, unblock_all, scheduler and     *)
(* block of this module for each of their handlers.                          *)
(***************************************************************************)
EXTENDS Scheduler, SequenceTheorems, FiniteSetTheorems, TLAPS

-----------------------------------------------------------------------------
(* Queues: what enqueue and dequeue do to their tasks.                      *)

LEMMA EnqueueRange ==
  ASSUME NEW S, NEW q \in Seq(S), NEW x \in S
  PROVE  /\ Append(q, x) \in Seq(S)
         /\ Range(Append(q, x)) = Range(q) \cup {x}
         /\ IsInjective(q) /\ x \notin Range(q) => IsInjective(Append(q, x))
<1>1. /\ Append(q, x) \in Seq(S)
      /\ Len(Append(q, x)) = Len(q) + 1
      /\ \A i \in 1 .. Len(q) : Append(q, x)[i] = q[i]
      /\ Append(q, x)[Len(q) + 1] = x
  BY AppendProperties
<1>2. Len(q) \in Nat /\ DOMAIN q = 1 .. Len(q) /\ DOMAIN Append(q, x) = 1 .. Len(q) + 1
  BY <1>1, LenProperties
<1>3. Range(Append(q, x)) = Range(q) \cup {x}
  BY <1>1, <1>2 DEF Range
<1>4. IsInjective(q) /\ x \notin Range(q) => IsInjective(Append(q, x))
  BY <1>1, <1>2 DEF IsInjective, Range
<1> QED BY <1>1, <1>3, <1>4

LEMMA DequeueRange ==
  ASSUME NEW S, NEW q \in Seq(S), q # <<>>
  PROVE  /\ Head(q) \in S /\ Tail(q) \in Seq(S)
         /\ Range(q) = Range(Tail(q)) \cup {Head(q)}
         /\ IsInjective(q) => IsInjective(Tail(q)) /\ Head(q) \notin Range(Tail(q))
<1>1. /\ Head(q) \in S /\ Tail(q) \in Seq(S) /\ Len(Tail(q)) = Len(q) - 1
      /\ \A i \in 1 .. Len(q) - 1 : Tail(q)[i] = q[i + 1]
      /\ Len(q) \in Nat \ {0} /\ Head(q) = q[1]
  BY HeadTailProperties, EmptySeq
<1>2. DOMAIN q = 1 .. Len(q) /\ DOMAIN Tail(q) = 1 .. Len(q) - 1
  BY <1>1, LenProperties
<1>3. ASSUME NEW i \in 1 .. Len(q) PROVE i = 1 \/ (i - 1 \in DOMAIN Tail(q) /\ q[i] = Tail(q)[i - 1])
  BY <1>1, <1>2
<1>4. Range(q) = Range(Tail(q)) \cup {Head(q)}
  <2>1. Range(q) \subseteq Range(Tail(q)) \cup {Head(q)}
    <3> SUFFICES ASSUME NEW i \in 1 .. Len(q) PROVE q[i] \in Range(Tail(q)) \cup {Head(q)}
      BY <1>2 DEF Range
    <3> QED BY <1>1, <1>3 DEF Range
  <2>2. Range(Tail(q)) \cup {Head(q)} \subseteq Range(q)
    BY <1>1, <1>2 DEF Range
  <2> QED BY <2>1, <2>2
<1>5. IsInjective(q) => IsInjective(Tail(q)) /\ Head(q) \notin Range(Tail(q))
  BY <1>1, <1>2 DEF IsInjective, Range
<1> QED BY <1>1, <1>4, <1>5

LEMMA ConcatRange ==
  ASSUME NEW S, NEW q \in Seq(S), NEW r \in Seq(S)
  PROVE  /\ q \o r \in Seq(S)
         /\ Range(q \o r) = Range(q) \cup Range(r)
         /\ IsInjective(q) /\ IsInjective(r) /\ Range(q) \cap Range(r) = {}
              => IsInjective(q \o r)
<1>1. /\ q \o r \in Seq(S) /\ Len(q \o r) = Len(q) + Len(r)
      /\ \A i \in 1 .. Len(q) + Len(r) :
           (q \o r)[i] = IF i <= Len(q) THEN q[i] ELSE r[i - Len(q)]
  BY ConcatProperties
<1>2. /\ Len(q) \in Nat /\ Len(r) \in Nat
      /\ DOMAIN q = 1 .. Len(q) /\ DOMAIN r = 1 .. Len(r)
      /\ DOMAIN (q \o r) = 1 .. Len(q) + Len(r)
  BY <1>1, LenProperties
<1>3. Range(q \o r) = Range(q) \cup Range(r)
  BY RangeConcatenation
<1>4. ASSUME IsInjective(q), IsInjective(r), Range(q) \cap Range(r) = {}
      PROVE  IsInjective(q \o r)
  <2> SUFFICES ASSUME NEW i \in 1 .. Len(q) + Len(r), NEW j \in 1 .. Len(q) + Len(r),
                      (q \o r)[i] = (q \o r)[j]
               PROVE  i = j
    BY <1>2 DEF IsInjective
  <2>1. CASE i <= Len(q) /\ j <= Len(q)
    BY <2>1, <1>1, <1>2, <1>4 DEF IsInjective
  <2>2. CASE i > Len(q) /\ j > Len(q)
    <3>1. i - Len(q) \in DOMAIN r /\ j - Len(q) \in DOMAIN r
      BY <2>2, <1>2
    <3>2. r[i - Len(q)] = r[j - Len(q)]
      BY <2>2, <1>1, <1>2
    <3> QED BY <3>1, <3>2, <1>2, <1>4 DEF IsInjective
  <2>3. ASSUME NEW x \in 1 .. Len(q), NEW y \in 1 .. Len(q) + Len(r), y > Len(q)
        PROVE  (q \o r)[x] # (q \o r)[y]
    <3>1. (q \o r)[x] \in Range(q)
      BY <1>1, <1>2 DEF Range
    <3>2. (q \o r)[y] \in Range(r)
      <4>1. y - Len(q) \in DOMAIN r BY <2>3, <1>2
      <4>2. (q \o r)[y] = r[y - Len(q)] BY <2>3, <1>1, <1>2
      <4> QED BY <4>1, <4>2 DEF Range
    <3> QED BY <3>1, <3>2, <1>4
  <2> QED BY <2>1, <2>2, <2>3, <1>2
<1> QED BY <1>1, <1>3, <1>4

LEMMA SplitRange ==
  ASSUME NEW S, NEW q \in Seq(S), NEW k \in 0 .. Len(q)
  PROVE  LET front == SubSeq(q, 1, k)
             rest  == SubSeq(q, k + 1, Len(q))
         IN  /\ front \in Seq(S) /\ rest \in Seq(S)
             /\ Range(q) = Range(front) \cup Range(rest)
             /\ IsInjective(q) => /\ IsInjective(front) /\ IsInjective(rest)
                                  /\ Range(front) \cap Range(rest) = {}
<1> DEFINE front == SubSeq(q, 1, k)
           rest  == SubSeq(q, k + 1, Len(q))
<1>1. Len(q) \in Nat /\ DOMAIN q = 1 .. Len(q) /\ \A i \in 1 .. Len(q) : q[i] \in S
  BY LenProperties, ElementOfSeq
<1>2. /\ front \in Seq(S) /\ Len(front) = k
      /\ \A i \in 1 .. k : front[i] = q[i]
  <2>1. \A i \in 1 .. k : q[i] \in S BY <1>1
  <2>2. /\ front \in Seq(S) /\ Len(front) = IF 1 <= k THEN k - 1 + 1 ELSE 0
        /\ \A i \in 1 .. k - 1 + 1 : front[i] = q[1 + i - 1]
    BY <2>1, <1>1, SubSeqProperties
  <2> QED BY <2>2, <1>1
<1>3. /\ rest \in Seq(S) /\ Len(rest) = Len(q) - k
      /\ \A i \in 1 .. Len(q) - k : rest[i] = q[k + i]
  <2>1. \A i \in k + 1 .. Len(q) : q[i] \in S BY <1>1
  <2>2. /\ rest \in Seq(S) /\ Len(rest) = IF k + 1 <= Len(q) THEN Len(q) - (k + 1) + 1 ELSE 0
        /\ \A i \in 1 .. Len(q) - (k + 1) + 1 : rest[i] = q[(k + 1) + i - 1]
    BY <2>1, <1>1, SubSeqProperties
  <2>3. Len(rest) = Len(q) - k
    <3> HIDE DEF rest
    <3>1. CASE k + 1 <= Len(q) BY <3>1, <2>2, <1>1
    <3>2. CASE k = Len(q) BY <3>2, <2>2, <1>1
    <3>3. k + 1 <= Len(q) \/ k = Len(q)
      <4>1. Len(q) \in Nat /\ k \in 0 .. Len(q) BY <1>1
      <4> QED BY <4>1
    <3> QED BY <3>1, <3>2, <3>3
  <2>4. ASSUME NEW i \in 1 .. Len(q) - k PROVE rest[i] = q[k + i]
    <3>1. i \in 1 .. Len(q) - (k + 1) + 1 /\ (k + 1) + i - 1 = k + i BY <1>1
    <3> QED BY <3>1, <2>2
  <2> QED BY <2>2, <2>3, <2>4
<1>4. DOMAIN front = 1 .. k /\ DOMAIN rest = 1 .. Len(q) - k
  BY <1>1, <1>2, <1>3, LenProperties
<1> HIDE DEF front, rest
<1>5. Range(front) \subseteq Range(q) /\ Range(rest) \subseteq Range(q)
  <2>1. \A i \in 1 .. Len(q) - k : k + i \in 1 .. Len(q) BY <1>1
  <2> QED BY <2>1, <1>1, <1>2, <1>3, <1>4 DEF Range
<1>6. Range(q) \subseteq Range(front) \cup Range(rest)
  <2> SUFFICES ASSUME NEW i \in 1 .. Len(q)
               PROVE  q[i] \in Range(front) \cup Range(rest)
    BY <1>1 DEF Range
  <2>1. CASE i <= k
    BY <2>1, <1>1, <1>2, <1>4 DEF Range
  <2>2. CASE i > k
    <3>1. i - k \in 1 .. Len(q) - k /\ k + (i - k) = i BY <2>2, <1>1
    <3>2. rest[i - k] = q[i] BY <3>1, <1>3
    <3> QED BY <3>1, <3>2, <1>4 DEF Range
  <2> QED BY <2>1, <2>2, <1>1
<1>7. ASSUME IsInjective(q)
      PROVE  IsInjective(front) /\ IsInjective(rest) /\ Range(front) \cap Range(rest) = {}
  <2>1. IsInjective(front)
    BY <1>7, <1>1, <1>2, <1>4 DEF IsInjective
  <2>2. IsInjective(rest)
    <3> SUFFICES ASSUME NEW i \in 1 .. Len(q) - k, NEW j \in 1 .. Len(q) - k, rest[i] = rest[j]
                 PROVE  i = j
      BY <1>4 DEF IsInjective
    <3>1. k + i \in DOMAIN q /\ k + j \in DOMAIN q /\ q[k + i] = q[k + j]
      BY <1>1, <1>3
    <3>2. k + i = k + j BY <3>1, <1>7 DEF IsInjective
    <3> QED BY <3>2
  <2>3. ASSUME NEW i \in 1 .. k, NEW j \in 1 .. Len(q) - k PROVE front[i] # rest[j]
    <3>1. i \in DOMAIN q /\ k + j \in DOMAIN q /\ i # k + j BY <1>1
    <3> QED BY <3>1, <1>2, <1>3, <1>7 DEF IsInjective
  <2> QED BY <2>1, <2>2, <2>3, <1>4 DEF Range
<1> QED BY <1>2, <1>3, <1>5, <1>6, <1>7 DEF front, rest

-----------------------------------------------------------------------------
(* The helpers of a handler keep every task in its place.                   *)

QueuesType ==
  [waiting : [WaitQueues -> Seq(Tasks)], ready : Seq(Tasks), st : [Tasks -> Status]]

(***************************************************************************)
(* unblock_one moves the first waiter to the ready queue.                   *)
(***************************************************************************)
LEMMA UnblockOnePlaced ==
  ASSUME NEW cpu \in SUBSET Tasks, NEW sleepq \in Seq(Tasks), NEW qs \in QueuesType,
         NEW o \in WaitQueues,
         Placed(cpu, qs.ready, sleepq, qs.waiting, qs.st)
  PROVE  /\ unblock_one(qs, o) \in QueuesType
         /\ Placed(cpu, unblock_one(qs, o).ready, sleepq,
                   unblock_one(qs, o).waiting, unblock_one(qs, o).st)
<1> DEFINE w == qs.waiting
           r == qs.ready
           st == qs.st
<1>0. w \in [WaitQueues -> Seq(Tasks)] /\ r \in Seq(Tasks) /\ st \in [Tasks -> Status]
  BY DEF QueuesType
<1>1. CASE w[o] = <<>>
  BY <1>1 DEF unblock_one
<1>2. CASE w[o] # <<>>
  <2> DEFINE t == Head(w[o])
             r2 == Append(r, t)
             w2 == [w EXCEPT ![o] = Tail(@)]
             st2 == [st EXCEPT ![t] = "READY"]
  <2>1. unblock_one(qs, o) = [waiting |-> w2, ready |-> r2, st |-> st2]
    BY <1>2 DEF unblock_one
  <2>2. /\ t \in Tasks /\ Tail(w[o]) \in Seq(Tasks)
        /\ Range(w[o]) = Range(Tail(w[o])) \cup {t}
        /\ IsInjective(Tail(w[o])) /\ t \notin Range(Tail(w[o]))
    <3>1. w[o] \in Seq(Tasks) BY <1>0
    <3>2. IsInjective(w[o]) BY DEF Placed
    <3> HIDE DEF w
    <3> QED BY <3>1, <3>2, <1>2, DequeueRange
  <2>3. /\ st[t] = "BLOCKED" /\ t \notin cpu
        /\ t \notin Range(r) /\ t \notin Range(sleepq)
        /\ \A p \in WaitQueues : p # o => t \notin Range(w[p])
    <3>1. Placed(cpu, r, sleepq, w, st) /\ t \in Range(w[o])
      BY <2>2
    <3> HIDE DEF w, r, st, t
    <3>2. st[t] = "BLOCKED"
      BY <3>1 DEF Placed
    <3>3. t \notin cpu /\ t \notin Range(r) /\ t \notin Range(sleepq)
      BY <3>1, <3>2 DEF Placed, Runnable
    <3>4. \A p \in WaitQueues : p # o => Range(w[o]) \cap Range(w[p]) = {}
      BY <3>1 DEF Placed
    <3> QED BY <3>1, <3>2, <3>3, <3>4
  <2>4. /\ r2 \in Seq(Tasks) /\ Range(r2) = Range(r) \cup {t} /\ IsInjective(r2)
    <3>1. IsInjective(r) BY DEF Placed
    <3> HIDE DEF r, t
    <3> QED BY <3>1, <2>2, <2>3, <1>0, EnqueueRange
  <2>5. w2 \in [WaitQueues -> Seq(Tasks)] /\ st2 \in [Tasks -> Status]
    BY <1>0, <2>2 DEF Status
  <2>6. /\ w2[o] = Tail(w[o]) /\ \A p \in WaitQueues : p # o => w2[p] = w[p]
        /\ \A p \in WaitQueues : Range(w2[p]) \subseteq Range(w[p]) /\ IsInjective(w2[p])
    <3>1. w2[o] = Tail(w[o]) /\ \A p \in WaitQueues : p # o => w2[p] = w[p]
      BY <1>0
    <3>2. \A p \in WaitQueues : IsInjective(w[p]) BY DEF Placed
    <3> QED BY <3>1, <3>2, <2>2
  <2>7. /\ st2[t] = "READY" /\ \A x \in Tasks : x # t => st2[x] = st[x]
    BY <1>0, <2>2
  <2>8. Placed(cpu, r, sleepq, w, st) OBVIOUS
  <2> HIDE DEF w, r, st, t, r2, w2, st2
  <2>9. Range(r) \subseteq Tasks /\ Range(sleepq) \subseteq Tasks
        /\ \A p \in WaitQueues : Range(w[p]) \subseteq Tasks
    BY <1>0, RangeOfSeq
  <2>10. Placed(cpu, r2, sleepq, w2, st2)
    <3>1. /\ \A x \in cpu : st2[x] \in Runnable /\ x \notin Range(r2)
          /\ IsInjective(r2) /\ IsInjective(sleepq)
          /\ \A x \in Range(r2) : st2[x] \in Runnable
          /\ \A x \in Range(sleepq) : st2[x] = "SLEEPING"
      BY <2>2, <2>3, <2>4, <2>7, <2>8, <2>9 DEF Placed, Runnable
    <3>2. ASSUME NEW p \in WaitQueues
          PROVE  /\ IsInjective(w2[p])
                 /\ \A x \in Range(w2[p]) : st2[x] = "BLOCKED"
                 /\ \A q \in WaitQueues : p # q => Range(w2[p]) \cap Range(w2[q]) = {}
      <4>1. t \notin Range(w2[p]) BY <2>2, <2>3, <2>6
      <4>2. \A x \in Range(w2[p]) : st2[x] = "BLOCKED"
        BY <4>1, <2>6, <2>7, <2>8, <2>9 DEF Placed
      <4>3. \A q \in WaitQueues : p # q => Range(w2[p]) \cap Range(w2[q]) = {}
        BY <2>6, <2>8 DEF Placed
      <4> QED BY <4>2, <4>3, <2>6
    <3>3. ASSUME NEW x \in Tasks
          PROVE  /\ st2[x] \in Runnable => x \in cpu \cup Range(r2)
                 /\ st2[x] = "SLEEPING" => x \in Range(sleepq)
                 /\ st2[x] = "BLOCKED" => \E p \in WaitQueues : x \in Range(w2[p])
      <4>1. CASE x = t BY <4>1, <2>4, <2>7 DEF Runnable
      <4>2. CASE x # t
        <5>1. st2[x] = st[x] BY <4>2, <2>7
        <5>2. ASSUME NEW p \in WaitQueues, x \in Range(w[p]) PROVE x \in Range(w2[p])
          BY <5>2, <4>2, <2>2, <2>6
        <5> QED BY <5>1, <5>2, <2>4, <2>8 DEF Placed
      <4> QED BY <4>1, <4>2
    <3> QED BY <3>1, <3>2, <3>3 DEF Placed
  <2> QED BY <2>1, <2>4, <2>5, <2>10 DEF QueuesType
<1> QED BY <1>1, <1>2

(***************************************************************************)
(* unblock_all moves every waiter, in order, to the ready queue.            *)
(***************************************************************************)
LEMMA UnblockAllPlaced ==
  ASSUME NEW cpu \in SUBSET Tasks, NEW sleepq \in Seq(Tasks), NEW qs \in QueuesType,
         NEW o \in WaitQueues,
         Placed(cpu, qs.ready, sleepq, qs.waiting, qs.st)
  PROVE  /\ unblock_all(qs, o) \in QueuesType
         /\ Placed(cpu, unblock_all(qs, o).ready, sleepq,
                   unblock_all(qs, o).waiting, unblock_all(qs, o).st)
<1> DEFINE w == qs.waiting
           r == qs.ready
           st == qs.st
           r2 == r \o w[o]
           w2 == [w EXCEPT ![o] = <<>>]
           st2 == [x \in Tasks |-> IF x \in Range(w[o]) THEN "READY" ELSE st[x]]
<1>1. w \in [WaitQueues -> Seq(Tasks)] /\ r \in Seq(Tasks) /\ st \in [Tasks -> Status]
  BY DEF QueuesType
<1>2. unblock_all(qs, o) = [waiting |-> w2, ready |-> r2, st |-> st2]
  BY DEF unblock_all
<1>3. Placed(cpu, r, sleepq, w, st)
  OBVIOUS
<1>4. w2 \in [WaitQueues -> Seq(Tasks)] /\ st2 \in [Tasks -> Status]
  BY <1>1 DEF Status
<1>5. /\ w2[o] = <<>> /\ \A p \in WaitQueues : p # o => w2[p] = w[p]
      /\ \A x \in Tasks : st2[x] = IF x \in Range(w[o]) THEN "READY" ELSE st[x]
  BY <1>1
<1>6. Range(<<>>) = {} /\ IsInjective(<<>>)
  BY DEF Range, IsInjective
<1>7. /\ \A x \in Range(w[o]) : st[x] = "BLOCKED"
      /\ Range(r) \cap Range(w[o]) = {} /\ Range(sleepq) \cap Range(w[o]) = {}
      /\ cpu \cap Range(w[o]) = {}
      /\ \A p \in WaitQueues : p # o => Range(w[p]) \cap Range(w[o]) = {}
  <2> HIDE DEF w, r, st
  <2>1. \A x \in Range(w[o]) : st[x] = "BLOCKED" BY <1>3 DEF Placed
  <2>2. Range(r) \cap Range(w[o]) = {} BY <2>1, <1>3 DEF Placed, Runnable
  <2>3. Range(sleepq) \cap Range(w[o]) = {} BY <2>1, <1>3 DEF Placed
  <2>4. cpu \cap Range(w[o]) = {} BY <2>1, <1>3 DEF Placed, Runnable
  <2>5. \A p \in WaitQueues : p # o => Range(w[p]) \cap Range(w[o]) = {}
    BY <1>3 DEF Placed
  <2> QED BY <2>1, <2>2, <2>3, <2>4, <2>5
<1>8. r2 \in Seq(Tasks) /\ Range(r2) = Range(r) \cup Range(w[o]) /\ IsInjective(r2)
  <2>1. w[o] \in Seq(Tasks) /\ IsInjective(w[o]) /\ IsInjective(r)
    BY <1>1, <1>3 DEF Placed
  <2> HIDE DEF w, r
  <2> QED BY <2>1, <1>1, <1>7, ConcatRange
<1> HIDE DEF w, r, st, r2, w2, st2
<1>9. /\ Range(r) \subseteq Tasks /\ Range(sleepq) \subseteq Tasks
      /\ \A p \in WaitQueues : Range(w[p]) \subseteq Tasks
  BY <1>1, RangeOfSeq
<1>10. Placed(cpu, r2, sleepq, w2, st2)
  <2>1. /\ \A x \in cpu : st2[x] \in Runnable /\ x \notin Range(r2)
        /\ IsInjective(r2) /\ IsInjective(sleepq)
        /\ \A x \in Range(r2) : st2[x] \in Runnable
        /\ \A x \in Range(sleepq) : st2[x] = "SLEEPING"
    BY <1>3, <1>5, <1>7, <1>8, <1>9 DEF Placed, Runnable
  <2>2. ASSUME NEW p \in WaitQueues
        PROVE  /\ IsInjective(w2[p])
               /\ \A x \in Range(w2[p]) : st2[x] = "BLOCKED"
               /\ \A q \in WaitQueues : p # q => Range(w2[p]) \cap Range(w2[q]) = {}
    <3>1. CASE p = o BY <3>1, <1>5, <1>6
    <3>2. CASE p # o
      <4>1. w2[p] = w[p] BY <3>2, <1>5
      <4>2. \A x \in Range(w2[p]) : st2[x] = "BLOCKED"
        BY <4>1, <3>2, <1>3, <1>5, <1>7, <1>9 DEF Placed
      <4>3. ASSUME NEW q \in WaitQueues, p # q
            PROVE  Range(w2[p]) \cap Range(w2[q]) = {}
        <5>1. CASE q = o
          <6>1. Range(w2[q]) = {} BY <5>1, <1>5, <1>6
          <6> QED BY <6>1
        <5>2. CASE q # o
          <6>1. w2[q] = w[q] BY <5>2, <1>5
          <6>2. Range(w[p]) \cap Range(w[q]) = {} BY <4>3, <1>3 DEF Placed
          <6> QED BY <6>1, <6>2, <4>1
        <5> QED BY <5>1, <5>2
      <4> QED BY <4>1, <4>2, <4>3, <1>3 DEF Placed
    <3> QED BY <3>1, <3>2
  <2>3. ASSUME NEW x \in Tasks
        PROVE  /\ st2[x] \in Runnable => x \in cpu \cup Range(r2)
               /\ st2[x] = "SLEEPING" => x \in Range(sleepq)
               /\ st2[x] = "BLOCKED" => \E p \in WaitQueues : x \in Range(w2[p])
    <3>1. CASE x \in Range(w[o]) BY <3>1, <1>5, <1>8 DEF Runnable
    <3>2. CASE x \notin Range(w[o])
      <4>1. st2[x] = st[x] BY <3>2, <1>5
      <4>2. ASSUME NEW p \in WaitQueues, x \in Range(w[p]) PROVE x \in Range(w2[p])
        BY <4>2, <3>2, <1>5
      <4> QED BY <4>1, <4>2, <1>3, <1>8 DEF Placed
    <3> QED BY <3>1, <3>2
  <2> QED BY <2>1, <2>2, <2>3 DEF Placed
<1> QED BY <1>2, <1>4, <1>8, <1>10 DEF QueuesType

-----------------------------------------------------------------------------
(* What scheduler() makes of queues on which every task is parked.          *)

(***************************************************************************)
(* check_sleeping moves a prefix of the sleep queue to the ready queue.     *)
(***************************************************************************)
LEMMA WakePlaced ==
  ASSUME NEW ready \in Seq(Tasks), NEW sleepq \in Seq(Tasks),
         NEW waiting \in [WaitQueues -> Seq(Tasks)], NEW st \in [Tasks -> Status],
         Placed({}, ready, sleepq, waiting, st),
         NEW k \in 0 .. Len(sleepq), NEW woken, NEW rest, NEW st2,
         woken = SubSeq(sleepq, 1, k), rest = SubSeq(sleepq, k + 1, Len(sleepq)),
         st2 = [t \in Tasks |-> IF t \in Range(woken) THEN "READY" ELSE st[t]]
  PROVE  /\ ready \o woken \in Seq(Tasks) /\ rest \in Seq(Tasks)
         /\ st2 \in [Tasks -> Status]
         /\ Placed({}, ready \o woken, rest, waiting, st2)
<1> DEFINE r2 == ready \o woken
<1>1. /\ woken \in Seq(Tasks) /\ rest \in Seq(Tasks)
      /\ Range(sleepq) = Range(woken) \cup Range(rest)
      /\ IsInjective(woken) /\ IsInjective(rest) /\ Range(woken) \cap Range(rest) = {}
  <2>1. IsInjective(sleepq) BY DEF Placed
  <2> QED BY <2>1, SplitRange
<1>2. st2 \in [Tasks -> Status] /\ \A t \in Tasks : st2[t] = IF t \in Range(woken) THEN "READY" ELSE st[t]
  BY DEF Status
<1>3. \A t \in Range(woken) : st[t] = "SLEEPING"
  BY <1>1 DEF Placed
<1>4. /\ Range(ready) \cap Range(woken) = {}
      /\ \A p \in WaitQueues : Range(waiting[p]) \cap Range(woken) = {}
  BY <1>3 DEF Placed, Runnable
<1>5. r2 \in Seq(Tasks) /\ Range(r2) = Range(ready) \cup Range(woken) /\ IsInjective(r2)
  <2>1. IsInjective(ready) BY DEF Placed
  <2>2. woken \in Seq(Tasks) /\ IsInjective(woken) BY <1>1
  <2>3. /\ r2 \in Seq(Tasks) /\ Range(r2) = Range(ready) \cup Range(woken)
        /\ IsInjective(ready) /\ IsInjective(woken) /\ Range(ready) \cap Range(woken) = {}
             => IsInjective(r2)
    <3>1. ready \in Seq(Tasks) /\ woken \in Seq(Tasks) BY <2>2
    <3>2. ready \o woken \in Seq(Tasks) BY <3>1, ConcatRange
    <3>3. Range(ready \o woken) = Range(ready) \cup Range(woken) BY <3>1, ConcatRange, ZenonT(30)
    <3>4. /\ IsInjective(ready) /\ IsInjective(woken) /\ Range(ready) \cap Range(woken) = {}
             => IsInjective(ready \o woken) BY <3>1, ConcatRange
    <3> QED BY <3>2, <3>3, <3>4
  <2> QED BY <2>1, <2>2, <2>3, <1>4
<1> HIDE DEF r2
<1>6. /\ Range(ready) \subseteq Tasks /\ Range(sleepq) \subseteq Tasks
      /\ \A p \in WaitQueues : Range(waiting[p]) \subseteq Tasks
  BY RangeOfSeq
<1>7. Placed({}, r2, rest, waiting, st2)
  <2>1. /\ IsInjective(r2) /\ IsInjective(rest)
        /\ \A t \in Range(r2) : st2[t] \in Runnable
        /\ \A t \in Range(rest) : st2[t] = "SLEEPING"
    BY <1>1, <1>2, <1>5, <1>6 DEF Placed, Runnable
  <2>2. ASSUME NEW p \in WaitQueues
        PROVE  \A t \in Range(waiting[p]) : st2[t] = "BLOCKED"
    BY <1>2, <1>4, <1>6 DEF Placed
  <2>3. ASSUME NEW t \in Tasks
        PROVE  /\ st2[t] \in Runnable => t \in Range(r2)
               /\ st2[t] = "SLEEPING" => t \in Range(rest)
               /\ st2[t] = "BLOCKED" => \E p \in WaitQueues : t \in Range(waiting[p])
    <3>1. CASE t \in Range(woken) BY <3>1, <1>2, <1>5 DEF Runnable
    <3>2. CASE t \notin Range(woken)
      <4>1. st2[t] = st[t] BY <3>2, <1>2
      <4> QED BY <4>1, <3>2, <1>1, <1>5 DEF Placed
    <3> QED BY <3>1, <3>2
  <2> QED BY <2>1, <2>2, <2>3 DEF Placed
<1> QED BY <1>1, <1>2, <1>5, <1>7 DEF r2

(***************************************************************************)
(* Taking the head of the ready queue makes it the running task.            *)
(***************************************************************************)
LEMMA DispatchPlaced ==
  ASSUME NEW ready \in Seq(Tasks), NEW sleepq \in Seq(Tasks),
         NEW waiting \in [WaitQueues -> Seq(Tasks)], NEW st \in [Tasks -> Status],
         Placed({}, ready, sleepq, waiting, st), ready # <<>>
  PROVE  Placed({Head(ready)}, Tail(ready), sleepq, waiting, st)
<1>1. /\ Head(ready) \in Tasks /\ Tail(ready) \in Seq(Tasks)
      /\ Range(ready) = Range(Tail(ready)) \cup {Head(ready)}
      /\ IsInjective(Tail(ready)) /\ Head(ready) \notin Range(Tail(ready))
  <2>1. IsInjective(ready) BY DEF Placed
  <2> QED BY <2>1, DequeueRange
<1> QED BY <1>1 DEF Placed

(***************************************************************************)
(* A handler that has parked the current task leaves every task in place    *)
(* when scheduler() returns.                                                *)
(***************************************************************************)
LEMMA SchedulerPlaced ==
  ASSUME NEW ready \in Seq(Tasks), NEW sleepq \in Seq(Tasks),
         NEW st \in [Tasks -> Status], NEW left \in [Tasks -> 0 .. MaxSleep],
         current_running \in Tasks,
         wait_queue' \in [WaitQueues -> Seq(Tasks)],
         Placed({}, ready, sleepq, wait_queue', st),
         scheduler(ready, sleepq, st, left)
  PROVE  SchedulerTypeOK' /\ TaskPlacement'
<1>1. PICK k \in 0 .. Len(sleepq) :
        LET woken    == SubSeq(sleepq, 1, k)
            runnable == ready \o woken
        IN  /\ sleep_wait_queue' = SubSeq(sleepq, k + 1, Len(sleepq))
            /\ status' = [t \in Tasks |-> IF t \in Range(woken) THEN "READY" ELSE st[t]]
            /\ idle' = (runnable = <<>>)
            /\ current_running' = IF runnable = <<>> THEN current_running ELSE Head(runnable)
            /\ ready_queue' = IF runnable = <<>> THEN <<>> ELSE Tail(runnable)
  BY DEF scheduler
<1>2. deadline' = left
  BY DEF scheduler
<1> DEFINE woken    == SubSeq(sleepq, 1, k)
           rest     == SubSeq(sleepq, k + 1, Len(sleepq))
           st2      == [t \in Tasks |-> IF t \in Range(woken) THEN "READY" ELSE st[t]]
           runnable == ready \o woken
<1>3. /\ runnable \in Seq(Tasks) /\ sleep_wait_queue' \in Seq(Tasks)
      /\ status' \in [Tasks -> Status]
      /\ Placed({}, runnable, sleep_wait_queue', wait_queue', status')
  <2>1. /\ runnable \in Seq(Tasks) /\ rest \in Seq(Tasks)
        /\ st2 \in [Tasks -> Status]
        /\ Placed({}, runnable, rest, wait_queue', st2)
    BY WakePlaced
  <2>2. sleep_wait_queue' = rest /\ status' = st2
    BY <1>1
  <2> HIDE DEF rest, st2, runnable
  <2> QED BY <2>1, <2>2
<1>4. /\ idle' = (runnable = <<>>)
      /\ current_running' = IF runnable = <<>> THEN current_running ELSE Head(runnable)
      /\ ready_queue' = IF runnable = <<>> THEN <<>> ELSE Tail(runnable)
  BY <1>1
<1> HIDE DEF runnable
<1>5. CASE runnable = <<>>
  <2>1. idle' = TRUE /\ current_running' \in Tasks /\ ready_queue' = <<>>
    BY <1>4, <1>5
  <2>2. OnCPU' = {} BY <2>1 DEF OnCPU
  <2>3. TaskPlacement' BY <1>3, <1>5, <2>1, <2>2 DEF TaskPlacement
  <2>4. ready_queue' \in Seq(Tasks) BY <2>1, EmptySeq
  <2> QED BY <2>1, <2>3, <2>4, <1>2, <1>3 DEF SchedulerTypeOK
<1>6. CASE runnable # <<>>
  <2>1. idle' = FALSE /\ current_running' = Head(runnable) /\ ready_queue' = Tail(runnable)
    BY <1>4, <1>6
  <2>2. OnCPU' = {Head(runnable)} BY <2>1 DEF OnCPU
  <2>3. TaskPlacement' BY <1>3, <1>6, <2>1, <2>2, DispatchPlaced DEF TaskPlacement
  <2>4. Head(runnable) \in Tasks /\ Tail(runnable) \in Seq(Tasks)
    BY <1>3, <1>6, HeadTailProperties
  <2> QED BY <2>1, <2>3, <2>4, <1>2, <1>3 DEF SchedulerTypeOK
<1> QED BY <1>5, <1>6

-----------------------------------------------------------------------------
(* Parking the running task on a queue of its choice.                       *)

(***************************************************************************)
(* The running task is on no queue.                                         *)
(***************************************************************************)
LEMMA RunningOnNoQueue ==
  ASSUME NEW c \in Tasks, NEW r, NEW s, NEW w, NEW st, Placed({c}, r, s, w, st)
  PROVE  /\ c \notin Range(r) /\ c \notin Range(s)
         /\ \A p \in WaitQueues : c \notin Range(w[p])
<1>1. st[c] \in Runnable /\ c \notin Range(r) BY DEF Placed
<1>2. c \notin Range(s) BY <1>1 DEF Placed, Runnable
<1>3. \A p \in WaitQueues : c \notin Range(w[p]) BY <1>1 DEF Placed, Runnable
<1> QED BY <1>1, <1>2, <1>3

(***************************************************************************)
(* The four ways in which the running task gives up the CPU.                *)
(***************************************************************************)
LEMMA ParkReady ==
  ASSUME NEW c \in Tasks, NEW r \in Seq(Tasks), NEW s \in Seq(Tasks),
         NEW w \in [WaitQueues -> Seq(Tasks)], NEW st \in [Tasks -> Status],
         Placed({c}, r, s, w, st)
  PROVE  /\ Append(r, c) \in Seq(Tasks) /\ [st EXCEPT ![c] = "READY"] \in [Tasks -> Status]
         /\ Placed({}, Append(r, c), s, w, [st EXCEPT ![c] = "READY"])
<1> DEFINE r2  == Append(r, c)
           st2 == [st EXCEPT ![c] = "READY"]
<1>1. /\ c \notin Range(r) /\ c \notin Range(s)
      /\ \A p \in WaitQueues : c \notin Range(w[p])
  BY RunningOnNoQueue
<1>2. r2 \in Seq(Tasks) /\ Range(r2) = Range(r) \cup {c} /\ IsInjective(r2)
  <2>1. IsInjective(r) BY DEF Placed
  <2> QED BY <2>1, <1>1, EnqueueRange
<1>3. /\ st2 \in [Tasks -> Status] /\ st2[c] = "READY"
      /\ \A t \in Tasks : t # c => st2[t] = st[t]
  BY DEF Status
<1>4. /\ Range(r) \subseteq Tasks /\ Range(s) \subseteq Tasks
      /\ \A p \in WaitQueues : Range(w[p]) \subseteq Tasks
  BY RangeOfSeq
<1> HIDE DEF r2, st2
<1>5. Placed({}, r2, s, w, st2)
  <2>1. /\ IsInjective(r2) /\ IsInjective(s)
        /\ \A t \in Range(r2) : st2[t] \in Runnable
        /\ \A t \in Range(s) : st2[t] = "SLEEPING"
    BY <1>1, <1>2, <1>3, <1>4 DEF Placed, Runnable
  <2>2. \A p \in WaitQueues : \A t \in Range(w[p]) : st2[t] = "BLOCKED"
    BY <1>1, <1>3, <1>4 DEF Placed
  <2>3. ASSUME NEW t \in Tasks
        PROVE  /\ st2[t] \in Runnable => t \in Range(r2)
               /\ st2[t] = "SLEEPING" => t \in Range(s)
               /\ st2[t] = "BLOCKED" => \E p \in WaitQueues : t \in Range(w[p])
    BY <1>2, <1>3 DEF Placed
  <2> QED BY <2>1, <2>2, <2>3 DEF Placed
<1> QED BY <1>2, <1>3, <1>5 DEF r2, st2

LEMMA ParkSleeping ==
  ASSUME NEW c \in Tasks, NEW r \in Seq(Tasks), NEW s \in Seq(Tasks),
         NEW w \in [WaitQueues -> Seq(Tasks)], NEW st \in [Tasks -> Status],
         Placed({c}, r, s, w, st)
  PROVE  /\ Append(s, c) \in Seq(Tasks) /\ [st EXCEPT ![c] = "SLEEPING"] \in [Tasks -> Status]
         /\ Placed({}, r, Append(s, c), w, [st EXCEPT ![c] = "SLEEPING"])
<1> DEFINE s2  == Append(s, c)
           st2 == [st EXCEPT ![c] = "SLEEPING"]
<1>1. /\ c \notin Range(r) /\ c \notin Range(s)
      /\ \A p \in WaitQueues : c \notin Range(w[p])
  BY RunningOnNoQueue
<1>2. s2 \in Seq(Tasks) /\ Range(s2) = Range(s) \cup {c} /\ IsInjective(s2)
  <2>1. IsInjective(s) BY DEF Placed
  <2> QED BY <2>1, <1>1, EnqueueRange
<1>3. /\ st2 \in [Tasks -> Status] /\ st2[c] = "SLEEPING"
      /\ \A t \in Tasks : t # c => st2[t] = st[t]
  BY DEF Status
<1>4. /\ Range(r) \subseteq Tasks /\ Range(s) \subseteq Tasks
      /\ \A p \in WaitQueues : Range(w[p]) \subseteq Tasks
  BY RangeOfSeq
<1> HIDE DEF s2, st2
<1>5. Placed({}, r, s2, w, st2)
  <2>1. /\ IsInjective(r) /\ IsInjective(s2)
        /\ \A t \in Range(r) : st2[t] \in Runnable
        /\ \A t \in Range(s2) : st2[t] = "SLEEPING"
    BY <1>1, <1>2, <1>3, <1>4 DEF Placed
  <2>2. \A p \in WaitQueues : \A t \in Range(w[p]) : st2[t] = "BLOCKED"
    BY <1>1, <1>3, <1>4 DEF Placed
  <2>3. ASSUME NEW t \in Tasks
        PROVE  /\ st2[t] \in Runnable => t \in Range(r)
               /\ st2[t] = "SLEEPING" => t \in Range(s2)
               /\ st2[t] = "BLOCKED" => \E p \in WaitQueues : t \in Range(w[p])
    BY <1>2, <1>3 DEF Placed, Runnable
  <2> QED BY <2>1, <2>2, <2>3 DEF Placed
<1> QED BY <1>2, <1>3, <1>5 DEF s2, st2

LEMMA ParkExited ==
  ASSUME NEW c \in Tasks, NEW r \in Seq(Tasks), NEW s \in Seq(Tasks),
         NEW w \in [WaitQueues -> Seq(Tasks)], NEW st \in [Tasks -> Status],
         Placed({c}, r, s, w, st)
  PROVE  /\ [st EXCEPT ![c] = "EXITED"] \in [Tasks -> Status]
         /\ Placed({}, r, s, w, [st EXCEPT ![c] = "EXITED"])
<1> DEFINE st2 == [st EXCEPT ![c] = "EXITED"]
<1>1. /\ c \notin Range(r) /\ c \notin Range(s)
      /\ \A p \in WaitQueues : c \notin Range(w[p])
  BY RunningOnNoQueue
<1>2. /\ st2 \in [Tasks -> Status] /\ st2[c] = "EXITED"
      /\ \A t \in Tasks : t # c => st2[t] = st[t]
  BY DEF Status
<1>3. /\ Range(r) \subseteq Tasks /\ Range(s) \subseteq Tasks
      /\ \A p \in WaitQueues : Range(w[p]) \subseteq Tasks
  BY RangeOfSeq
<1> HIDE DEF st2
<1>4. Placed({}, r, s, w, st2)
  <2>1. /\ \A t \in Range(r) : st2[t] \in Runnable
        /\ \A t \in Range(s) : st2[t] = "SLEEPING"
        /\ \A p \in WaitQueues : \A t \in Range(w[p]) : st2[t] = "BLOCKED"
    BY <1>1, <1>2, <1>3 DEF Placed
  <2>2. ASSUME NEW t \in Tasks
        PROVE  /\ st2[t] \in Runnable => t \in Range(r)
               /\ st2[t] = "SLEEPING" => t \in Range(s)
               /\ st2[t] = "BLOCKED" => \E p \in WaitQueues : t \in Range(w[p])
    BY <1>2 DEF Placed, Runnable
  <2> QED BY <2>1, <2>2 DEF Placed
<1> QED BY <1>2, <1>4 DEF st2

LEMMA ParkBlocked ==
  ASSUME NEW c \in Tasks, NEW r \in Seq(Tasks), NEW s \in Seq(Tasks),
         NEW w \in [WaitQueues -> Seq(Tasks)], NEW st \in [Tasks -> Status],
         NEW o \in WaitQueues,
         Placed({c}, r, s, w, st)
  PROVE  /\ [w EXCEPT ![o] = Append(@, c)] \in [WaitQueues -> Seq(Tasks)]
         /\ [st EXCEPT ![c] = "BLOCKED"] \in [Tasks -> Status]
         /\ Placed({}, r, s, [w EXCEPT ![o] = Append(@, c)], [st EXCEPT ![c] = "BLOCKED"])
<1> DEFINE w2  == [w EXCEPT ![o] = Append(@, c)]
           st2 == [st EXCEPT ![c] = "BLOCKED"]
<1>1. /\ c \notin Range(r) /\ c \notin Range(s)
      /\ \A p \in WaitQueues : c \notin Range(w[p])
  BY RunningOnNoQueue
<1>2. /\ Append(w[o], c) \in Seq(Tasks) /\ Range(Append(w[o], c)) = Range(w[o]) \cup {c}
      /\ IsInjective(Append(w[o], c))
  <2>1. w[o] \in Seq(Tasks) /\ IsInjective(w[o]) BY DEF Placed
  <2> QED BY <2>1, <1>1, EnqueueRange
<1>3. /\ w2 \in [WaitQueues -> Seq(Tasks)]
      /\ Range(w2[o]) = Range(w[o]) \cup {c} /\ IsInjective(w2[o])
      /\ \A p \in WaitQueues : p # o => w2[p] = w[p]
  BY <1>2
<1>4. /\ st2 \in [Tasks -> Status] /\ st2[c] = "BLOCKED"
      /\ \A t \in Tasks : t # c => st2[t] = st[t]
  BY DEF Status
<1>5. /\ Range(r) \subseteq Tasks /\ Range(s) \subseteq Tasks
      /\ \A p \in WaitQueues : Range(w[p]) \subseteq Tasks
  BY RangeOfSeq
<1> HIDE DEF w2, st2
<1>6. Placed({}, r, s, w2, st2)
  <2>1. /\ \A t \in Range(r) : st2[t] \in Runnable
        /\ \A t \in Range(s) : st2[t] = "SLEEPING"
    BY <1>1, <1>4, <1>5 DEF Placed
  <2>2. ASSUME NEW p \in WaitQueues
        PROVE  /\ IsInjective(w2[p])
               /\ \A t \in Range(w2[p]) : st2[t] = "BLOCKED"
    <3>1. CASE p = o BY <3>1, <1>3, <1>4, <1>5 DEF Placed
    <3>2. CASE p # o BY <3>2, <1>1, <1>3, <1>4, <1>5 DEF Placed
    <3> QED BY <3>1, <3>2
  <2>3. ASSUME NEW p \in WaitQueues, NEW q \in WaitQueues, p # q
        PROVE  Range(w2[p]) \cap Range(w2[q]) = {}
    <3>1. Range(w[p]) \cap Range(w[q]) = {} BY <2>3 DEF Placed
    <3>2. /\ Range(w2[p]) = IF p = o THEN Range(w[p]) \cup {c} ELSE Range(w[p])
          /\ Range(w2[q]) = IF q = o THEN Range(w[q]) \cup {c} ELSE Range(w[q])
      BY <1>3
    <3> QED BY <3>1, <3>2, <2>3, <1>1
  <2>4. ASSUME NEW t \in Tasks
        PROVE  /\ st2[t] \in Runnable => t \in Range(r)
               /\ st2[t] = "SLEEPING" => t \in Range(s)
               /\ st2[t] = "BLOCKED" => \E p \in WaitQueues : t \in Range(w2[p])
    <3>1. CASE t = c BY <3>1, <1>3, <1>4 DEF Runnable
    <3>2. CASE t # c
      <4>1. \A p \in WaitQueues : t \in Range(w[p]) => t \in Range(w2[p]) BY <1>3
      <4> QED BY <3>2, <4>1, <1>4 DEF Placed
    <3> QED BY <3>1, <3>2
  <2>5. IsInjective(r) /\ IsInjective(s) BY DEF Placed
  <2> QED BY <2>1, <2>2, <2>3, <2>4, <2>5 DEF Placed
<1> QED BY <1>3, <1>4, <1>6 DEF w2, st2

-----------------------------------------------------------------------------
(* The handlers.                                                            *)

LEMMA QueuesPlaced ==
  ASSUME SchedulerTypeOK, TaskPlacement
  PROVE  /\ Queues \in QueuesType
         /\ Placed(OnCPU, Queues.ready, sleep_wait_queue, Queues.waiting, Queues.st)
         /\ OnCPU \in SUBSET Tasks
<1>1. Queues \in QueuesType BY DEF SchedulerTypeOK, QueuesType, Queues
<1>2. OnCPU \in SUBSET Tasks BY DEF SchedulerTypeOK, OnCPU
<1> QED BY <1>1, <1>2 DEF Queues, TaskPlacement

LEMMA ContinuePlaced ==
  ASSUME SchedulerTypeOK, NEW qs \in QueuesType,
         Placed(OnCPU, qs.ready, sleep_wait_queue, qs.waiting, qs.st),
         Continue(qs)
  PROVE  SchedulerTypeOK' /\ TaskPlacement'
<1>1. /\ wait_queue' = qs.waiting /\ ready_queue' = qs.ready /\ status' = qs.st
      /\ current_running' = current_running /\ idle' = idle
      /\ sleep_wait_queue' = sleep_wait_queue /\ deadline' = deadline
  BY DEF Continue
<1>2. SchedulerTypeOK' BY <1>1 DEF SchedulerTypeOK, QueuesType
<1>3. OnCPU' = OnCPU BY <1>1 DEF OnCPU
<1>4. TaskPlacement' BY <1>1, <1>3 DEF TaskPlacement
<1> QED BY <1>2, <1>4

LEMMA BlockPlaced ==
  ASSUME SchedulerTypeOK, ~idle, NEW qs \in QueuesType, NEW o \in WaitQueues,
         Placed({current_running}, qs.ready, sleep_wait_queue, qs.waiting, qs.st),
         block(qs, o)
  PROVE  SchedulerTypeOK' /\ TaskPlacement'
<1> DEFINE r  == qs.ready
           w2 == [qs.waiting EXCEPT ![o] = Append(@, current_running)]
           st2 == [qs.st EXCEPT ![current_running] = "BLOCKED"]
<1>1. /\ r \in Seq(Tasks) /\ qs.waiting \in [WaitQueues -> Seq(Tasks)]
      /\ qs.st \in [Tasks -> Status]
  BY DEF QueuesType
<1>2. /\ current_running \in Tasks /\ sleep_wait_queue \in Seq(Tasks)
      /\ deadline \in [Tasks -> 0 .. MaxSleep]
  BY DEF SchedulerTypeOK
<1>3. /\ w2 \in [WaitQueues -> Seq(Tasks)] /\ st2 \in [Tasks -> Status]
      /\ Placed({}, r, sleep_wait_queue, w2, st2)
  BY <1>1, <1>2, ParkBlocked
<1>4. wait_queue' = w2 /\ scheduler(r, sleep_wait_queue, st2, deadline)
  BY DEF block
<1> HIDE DEF r, w2, st2
<1>5. wait_queue' \in [WaitQueues -> Seq(Tasks)] /\ Placed({}, r, sleep_wait_queue, wait_queue', st2)
  BY <1>3, <1>4
<1> QED BY <1>1, <1>2, <1>3, <1>4, <1>5, SchedulerPlaced

LEMMA RequeuePlaced ==
  ASSUME SchedulerTypeOK, TaskPlacement, ~idle,
         NEW left \in [Tasks -> 0 .. MaxSleep], Requeue(left)
  PROVE  SchedulerTypeOK' /\ TaskPlacement'
<1> DEFINE r2  == Append(ready_queue, current_running)
           st2 == [status EXCEPT ![current_running] = "READY"]
<1>1. Placed({current_running}, ready_queue, sleep_wait_queue, wait_queue, status)
  BY DEF TaskPlacement, OnCPU
<1>2. r2 \in Seq(Tasks) /\ st2 \in [Tasks -> Status]
      /\ Placed({}, r2, sleep_wait_queue, wait_queue, st2)
  BY <1>1, ParkReady DEF SchedulerTypeOK
<1>3. wait_queue' = wait_queue /\ scheduler(r2, sleep_wait_queue, st2, left)
  BY DEF Requeue
<1> HIDE DEF r2, st2
<1>4. wait_queue' \in [WaitQueues -> Seq(Tasks)] /\ Placed({}, r2, sleep_wait_queue, wait_queue', st2)
  BY <1>2, <1>3 DEF SchedulerTypeOK
<1>5. current_running \in Tasks /\ sleep_wait_queue \in Seq(Tasks) BY DEF SchedulerTypeOK
<1> QED BY <1>2, <1>3, <1>4, <1>5, SchedulerPlaced

LEMMA SleepPlaced ==
  ASSUME SchedulerTypeOK, TaskPlacement, ~idle,
         NEW ticks \in 1 .. MaxSleep, do_sleep(ticks)
  PROVE  SchedulerTypeOK' /\ TaskPlacement'
<1> DEFINE s2   == Append(sleep_wait_queue, current_running)
           st2  == [status EXCEPT ![current_running] = "SLEEPING"]
           left == [deadline EXCEPT ![current_running] = ticks]
<1>1. Placed({current_running}, ready_queue, sleep_wait_queue, wait_queue, status)
  BY DEF TaskPlacement, OnCPU
<1>2. s2 \in Seq(Tasks) /\ st2 \in [Tasks -> Status]
      /\ Placed({}, ready_queue, s2, wait_queue, st2)
  BY <1>1, ParkSleeping DEF SchedulerTypeOK
<1>3. left \in [Tasks -> 0 .. MaxSleep]
  BY SchedulerAssumption DEF SchedulerTypeOK
<1>4. wait_queue' = wait_queue /\ scheduler(ready_queue, s2, st2, left)
  BY DEF do_sleep
<1> HIDE DEF s2, st2, left
<1>5. wait_queue' \in [WaitQueues -> Seq(Tasks)] /\ Placed({}, ready_queue, s2, wait_queue', st2)
  BY <1>2, <1>4 DEF SchedulerTypeOK
<1>6. current_running \in Tasks /\ ready_queue \in Seq(Tasks) BY DEF SchedulerTypeOK
<1> QED BY <1>2, <1>3, <1>4, <1>5, <1>6, SchedulerPlaced

LEMMA ExitPlaced ==
  ASSUME SchedulerTypeOK, TaskPlacement, ~idle, do_exit
  PROVE  SchedulerTypeOK' /\ TaskPlacement'
<1> DEFINE st2 == [status EXCEPT ![current_running] = "EXITED"]
<1>1. Placed({current_running}, ready_queue, sleep_wait_queue, wait_queue, status)
  BY DEF TaskPlacement, OnCPU
<1>2. st2 \in [Tasks -> Status] /\ Placed({}, ready_queue, sleep_wait_queue, wait_queue, st2)
  BY <1>1, ParkExited DEF SchedulerTypeOK
<1>3. wait_queue' = wait_queue /\ scheduler(ready_queue, sleep_wait_queue, st2, deadline)
  BY DEF do_exit
<1> HIDE DEF st2
<1>4. wait_queue' \in [WaitQueues -> Seq(Tasks)]
      /\ Placed({}, ready_queue, sleep_wait_queue, wait_queue', st2)
  BY <1>2, <1>3 DEF SchedulerTypeOK
<1>5. /\ current_running \in Tasks /\ ready_queue \in Seq(Tasks)
      /\ sleep_wait_queue \in Seq(Tasks) /\ deadline \in [Tasks -> 0 .. MaxSleep]
  BY DEF SchedulerTypeOK
<1> QED BY <1>2, <1>3, <1>4, <1>5, SchedulerPlaced

LEMMA ElapseType ==
  ASSUME SchedulerTypeOK
  PROVE  Elapse \in [Tasks -> 0 .. MaxSleep]
BY SchedulerAssumption DEF SchedulerTypeOK, Elapse

LEMMA KernelPlaced ==
  ASSUME SchedulerTypeOK, TaskPlacement, timer_irq \/ idle_loop
  PROVE  SchedulerTypeOK' /\ TaskPlacement'
<1>1. CASE timer_preempt
  BY <1>1, ElapseType, RequeuePlaced DEF timer_preempt
<1>2. CASE timer_tick
  <2>1. /\ deadline' = Elapse
        /\ current_running' = current_running /\ idle' = idle
        /\ ready_queue' = ready_queue /\ sleep_wait_queue' = sleep_wait_queue
        /\ wait_queue' = wait_queue /\ status' = status
    BY <1>2 DEF timer_tick
  <2>2. SchedulerTypeOK' BY <2>1, ElapseType DEF SchedulerTypeOK
  <2>3. TaskPlacement' BY <2>1 DEF TaskPlacement, OnCPU, Placed
  <2> QED BY <2>2, <2>3
<1>3. CASE idle_loop
  <2>1. /\ wait_queue' = wait_queue
        /\ scheduler(ready_queue, sleep_wait_queue, status, deadline)
    BY <1>3 DEF idle_loop
  <2>2. Placed({}, ready_queue, sleep_wait_queue, wait_queue, status)
    BY <1>3 DEF idle_loop, TaskPlacement, OnCPU
  <2>3. wait_queue' \in [WaitQueues -> Seq(Tasks)]
        /\ Placed({}, ready_queue, sleep_wait_queue, wait_queue', status)
    BY <2>1, <2>2 DEF SchedulerTypeOK
  <2>4. /\ current_running \in Tasks /\ ready_queue \in Seq(Tasks)
        /\ sleep_wait_queue \in Seq(Tasks) /\ deadline \in [Tasks -> 0 .. MaxSleep]
        /\ status \in [Tasks -> Status]
    BY DEF SchedulerTypeOK
  <2> QED BY <2>1, <2>3, <2>4, SchedulerPlaced
<1> QED BY <1>1, <1>2, <1>3 DEF timer_irq

(***************************************************************************)
(* Once kernel.c has spawned the tasks, the first runs and the others are   *)
(* on the ready queue.                                                      *)
(***************************************************************************)
LEMMA SchedulerInitPlaced ==
  ASSUME SchedulerInit
  PROVE  SchedulerTypeOK /\ TaskPlacement
<1>1. PICK q \in SpawnOrders : current_running = Head(q) /\ ready_queue = Tail(q)
  BY DEF SchedulerInit
<1>2. /\ q \in [1 .. Cardinality(Tasks) -> Tasks] /\ IsInjective(q) /\ Range(q) = Tasks
  BY DEF SpawnOrders
<1>3. Cardinality(Tasks) \in Nat /\ Cardinality(Tasks) # 0
  BY SchedulerAssumption, FS_CardinalityType, FS_EmptySet
<1>4. q \in Seq(Tasks) /\ Len(q) = Cardinality(Tasks)
  BY <1>2, <1>3, SeqDef, LenProperties
<1>5. q # <<>>
  BY <1>3, <1>4, EmptySeq
<1>6. /\ Head(q) \in Tasks /\ Tail(q) \in Seq(Tasks)
      /\ Tasks = Range(Tail(q)) \cup {Head(q)}
      /\ IsInjective(Tail(q)) /\ Head(q) \notin Range(Tail(q))
  BY <1>2, <1>4, <1>5, DequeueRange
<1>7. /\ idle = FALSE /\ sleep_wait_queue = <<>>
      /\ wait_queue = [o \in WaitQueues |-> <<>>]
      /\ status = [t \in Tasks |-> "FIRST_TIME"]
      /\ deadline = [t \in Tasks |-> 0]
  BY DEF SchedulerInit
<1>8. SchedulerTypeOK
  <2>1. current_running \in Tasks /\ ready_queue \in Seq(Tasks) BY <1>1, <1>6
  <2>2. sleep_wait_queue \in Seq(Tasks) BY <1>7, EmptySeq
  <2>3. wait_queue \in [WaitQueues -> Seq(Tasks)] BY <1>7, EmptySeq
  <2>4. status \in [Tasks -> Status] BY <1>7 DEF Status
  <2>5. deadline \in [Tasks -> 0 .. MaxSleep] BY <1>7, SchedulerAssumption
  <2> QED BY <2>1, <2>2, <2>3, <2>4, <2>5, <1>7 DEF SchedulerTypeOK
<1>9. Range(<<>>) = {} /\ IsInjective(<<>>)
  BY DEF Range, IsInjective
<1>10. Placed({Head(q)}, Tail(q), <<>>, [o \in WaitQueues |-> <<>>], [t \in Tasks |-> "FIRST_TIME"])
  BY <1>6, <1>9 DEF Placed, Runnable
<1>11. OnCPU = {Head(q)}
  BY <1>1, <1>7 DEF OnCPU
<1>12. TaskPlacement
  BY <1>1, <1>7, <1>10, <1>11 DEF TaskPlacement
<1> QED BY <1>8, <1>12

-----------------------------------------------------------------------------
(* Who is blocked after a handler: scheduler() itself blocks and unblocks   *)
(* nobody.                                                                  *)

LEMMA SchedulerBlocks ==
  ASSUME NEW ready, NEW sleepq \in Seq(Tasks), NEW st, NEW left,
         \A t \in Range(sleepq) : st[t] = "SLEEPING",
         scheduler(ready, sleepq, st, left)
  PROVE  \A t \in Tasks : status'[t] = "BLOCKED" <=> st[t] = "BLOCKED"
<1>1. PICK k \in 0 .. Len(sleepq) :
        status' = [t \in Tasks |-> IF t \in Range(SubSeq(sleepq, 1, k)) THEN "READY" ELSE st[t]]
  BY DEF scheduler
<1>2. Range(SubSeq(sleepq, 1, k)) \subseteq Range(sleepq)
  BY SplitRange
<1> QED BY <1>1, <1>2

LEMMA BlockBlocks ==
  ASSUME SchedulerTypeOK, ~idle, NEW qs \in QueuesType, NEW o \in WaitQueues,
         Placed({current_running}, qs.ready, sleep_wait_queue, qs.waiting, qs.st),
         block(qs, o)
  PROVE  \A t \in Tasks :
           status'[t] = "BLOCKED" <=> t = current_running \/ qs.st[t] = "BLOCKED"
<1> DEFINE st2 == [qs.st EXCEPT ![current_running] = "BLOCKED"]
<1>1. \A t \in Tasks : st2[t] = IF t = current_running THEN "BLOCKED" ELSE qs.st[t]
  BY DEF QueuesType
<1>2. scheduler(qs.ready, sleep_wait_queue, st2, deadline) BY DEF block
<1>3. sleep_wait_queue \in Seq(Tasks) /\ current_running \in Tasks BY DEF SchedulerTypeOK
<1>4. \A t \in Range(sleep_wait_queue) : t \in Tasks /\ st2[t] = "SLEEPING"
  <2>1. current_running \notin Range(sleep_wait_queue) BY <1>3, RunningOnNoQueue
  <2>2. Range(sleep_wait_queue) \subseteq Tasks BY <1>3, RangeOfSeq
  <2> QED BY <2>1, <2>2, <1>1 DEF Placed
<1> HIDE DEF st2
<1>5. \A t \in Tasks : status'[t] = "BLOCKED" <=> st2[t] = "BLOCKED"
  BY <1>2, <1>3, <1>4, SchedulerBlocks
<1> QED BY <1>1, <1>5

(***************************************************************************)
(* The handlers of the scheduler itself block nobody and leave the wait      *)
(* queues alone.                                                            *)
(***************************************************************************)
LEMMA OthersBlock ==
  ASSUME SchedulerTypeOK, TaskPlacement,
         \/ ~idle /\ do_yield
         \/ ~idle /\ \E ticks \in 1 .. MaxSleep : do_sleep(ticks)
         \/ ~idle /\ do_exit
         \/ timer_irq
         \/ idle_loop
  PROVE  /\ wait_queue' = wait_queue
         /\ \A t \in Tasks : status'[t] = "BLOCKED" <=> status[t] = "BLOCKED"
<1> DEFINE c == current_running
<1>1. /\ c \in Tasks /\ sleep_wait_queue \in Seq(Tasks) /\ status \in [Tasks -> Status]
      /\ Range(sleep_wait_queue) \subseteq Tasks
  BY RangeOfSeq DEF SchedulerTypeOK
<1>2. \A t \in Range(sleep_wait_queue) : status[t] = "SLEEPING"
  BY DEF TaskPlacement, Placed
<1>3. ASSUME ~idle
      PROVE  status[c] \in Runnable /\ c \notin Range(sleep_wait_queue)
  BY <1>1, <1>3, RunningOnNoQueue DEF TaskPlacement, OnCPU, Placed
<1>4. ASSUME ~idle, NEW left, Requeue(left)
      PROVE  /\ wait_queue' = wait_queue
             /\ \A t \in Tasks : status'[t] = "BLOCKED" <=> status[t] = "BLOCKED"
  <2> DEFINE st2 == [status EXCEPT ![c] = "READY"]
  <2>1. \A t \in Tasks : st2[t] = IF t = c THEN "READY" ELSE status[t] BY <1>1
  <2>2. \A t \in Range(sleep_wait_queue) : st2[t] = "SLEEPING" BY <1>1, <1>2, <1>3, <1>4, <2>1
  <2>3. /\ scheduler(Append(ready_queue, c), sleep_wait_queue, st2, left)
        /\ wait_queue' = wait_queue
    BY <1>4 DEF Requeue
  <2> HIDE DEF st2
  <2>4. \A t \in Tasks : status'[t] = "BLOCKED" <=> st2[t] = "BLOCKED"
    BY <1>1, <2>2, <2>3, SchedulerBlocks
  <2> QED BY <2>1, <2>3, <2>4, <1>3, <1>4 DEF Runnable
<1>5. CASE ~idle /\ do_yield BY <1>4, <1>5 DEF do_yield
<1>6. CASE ~idle /\ \E ticks \in 1 .. MaxSleep : do_sleep(ticks)
  <2>1. PICK ticks \in 1 .. MaxSleep : do_sleep(ticks) BY <1>6
  <2> DEFINE st2  == [status EXCEPT ![c] = "SLEEPING"]
             left == [deadline EXCEPT ![c] = ticks]
             s2   == Append(sleep_wait_queue, c)
  <2>2. \A t \in Tasks : st2[t] = IF t = c THEN "SLEEPING" ELSE status[t] BY <1>1
  <2>3. s2 \in Seq(Tasks) /\ Range(s2) = Range(sleep_wait_queue) \cup {c}
    BY <1>1, EnqueueRange
  <2>4. \A t \in Range(s2) : st2[t] = "SLEEPING" BY <1>1, <1>2, <2>2, <2>3
  <2>5. scheduler(ready_queue, s2, st2, left) /\ wait_queue' = wait_queue
    BY <2>1 DEF do_sleep
  <2> HIDE DEF st2, left, s2
  <2>6. \A t \in Tasks : status'[t] = "BLOCKED" <=> st2[t] = "BLOCKED"
    BY <2>3, <2>4, <2>5, SchedulerBlocks
  <2> QED BY <2>2, <2>5, <2>6, <1>3, <1>6 DEF Runnable
<1>7. CASE ~idle /\ do_exit
  <2> DEFINE st2 == [status EXCEPT ![c] = "EXITED"]
  <2>1. \A t \in Tasks : st2[t] = IF t = c THEN "EXITED" ELSE status[t] BY <1>1
  <2>2. \A t \in Range(sleep_wait_queue) : st2[t] = "SLEEPING" BY <1>1, <1>2, <1>3, <1>7, <2>1
  <2>3. scheduler(ready_queue, sleep_wait_queue, st2, deadline) /\ wait_queue' = wait_queue
    BY <1>7 DEF do_exit
  <2> HIDE DEF st2
  <2>4. \A t \in Tasks : status'[t] = "BLOCKED" <=> st2[t] = "BLOCKED"
    BY <1>1, <2>2, <2>3, SchedulerBlocks
  <2> QED BY <2>1, <2>3, <2>4, <1>3, <1>7 DEF Runnable
<1>8. CASE timer_irq
  <2>1. CASE timer_preempt BY <2>1, <1>4 DEF timer_preempt
  <2>2. CASE timer_tick BY <2>2 DEF timer_tick
  <2> QED BY <1>8, <2>1, <2>2 DEF timer_irq
<1>9. CASE idle_loop
  <2>1. /\ scheduler(ready_queue, sleep_wait_queue, status, deadline)
        /\ wait_queue' = wait_queue
    BY <1>9 DEF idle_loop
  <2> QED BY <2>1, <1>1, <1>2, SchedulerBlocks
<1> QED BY <1>5, <1>6, <1>7, <1>8, <1>9
=============================================================================

# Verification of UCAS-Coursework

TLA+ models, TLC runs and TLAPS proofs kept beside the coursework repository: an
operating system kernel for a MIPS board, a user-level network stack, and a MIPS CPU.
`PROJECT.json` lists the runs, the source lines of every definition, the hazards,
the findings and the theorems; this file explains them.

## 1. Inventory

| Part | State | Operations | What is hard |
|---|---|---|---|
| Scheduler (`p4/scheduler.c, queue.c, interrupt.c, entry.S`) | current task, ready queue, sleep queue, statuses, deadlines | yield, sleep, exit, block, unblock, timer interrupt, idle loop | preemption, an unsorted sleep queue, an idle loop at exception level |
| Primitives (`p4/sync.c`) | lock status and waiters, semaphore value, barrier count | acquire, release, wait, signal, broadcast, up, down, barrier | hand-off to a waiter that has yet to run, re-acquisition, rounds of a barrier, deadlock |
| Process table (`p4/kernel.c`) | slots, pids, waiters for a termination | spawn, kill, wait | reuse of slots, a kill of a task on any queue, stale pids |
| Message boxes (`p4/mbox.c`) | rings, counts, blocked senders and receivers, names | open, close, send, recv | a test before blocking that is not repeated, wakeups, kills |
| Test programs (`p4/process*.c, th*.c, philosophers.c, barrier_test.c`) | program counters | calls of the above | two receivers of one box, a wait for a pid that is dead by then |
| Virtual memory (`p5/memory.c`) | page frames, page tables, TLB | page_alloc, set-up, TLB refill | exhaustion, refill of a page that is not there |
| TCP (`pr11/tcp_*.c`) | sockets, tables, send and receive buffers, timers | connect, listen, accept, read, write, close, segment arrival, retransmission | loss, reordering, duplicates, sleep and wakeup between threads, time-wait |
| Spanning tree (`pr3/stp.c, stp_timer.c`) | root, cost and root port of a bridge; designated root, cost, bridge and port of every port | hello, config message | convergence, loops, old messages under way |
| Switch (`pr2/mac.c, main.c`) | MAC table in buckets | look-up, insert, sweep | an entry read after the unlock; a sweep that walks what it frees |
| ARP cache and IP forwarding (`pr6/arpcache.c, arp.c, ip.c, icmp.c`) | entries, requests with their packets and retries | look up, append, insert, sweep, forward, answer with an error | an answer between look-up and append, errors that cause requests, a full table |
| NAT (`pr4/nat.c`) | mappings per server, port pool | translate, reset, time out | used and changed without the lock, freed twice, exhaustion and leak of ports |
| Link state routing (`pr6/mospf_daemon.c`) | neighbours, sequence number, database, routes | hello, update, flood, ageing, shortest paths | three threads that number updates, copies that overtake, links that fail |
| IP lookup (`pr8/node.c`) | compressed trie | insert, leaf push, look up | loops that do not end, reads past arrays |
| CPU (`mips_core`) | PC, registers, latches between the clocks | one state of the control machine per clock | a reset in mid-instruction, signed comparison |
| Platform (`mips_core_top`, `mips_cpu_elf_loader.c`) | memory, AXI-Lite handshakes, reset register | load, start, poll, reset | one read port and one write port for host and core |

`p1` to `p3` are earlier stages of the kernel, `pr5`, `pr9` and `pr10` of the network
stack; `pr1` and `pr7` are small socket programs.  What makes each part correct: no
task is lost and none is in two places; locks exclude, semaphores conserve units,
barriers separate rounds; a wait ends with the process it names; a box and a
connection deliver every message once and in order; bridges agree on one tree;
a cache keeps every packet until its fate is known; two connections never share a
port; a frame reaches its host; news spreads to every router and never goes back; routes
lead nearer; the core does in several clocks what its instructions promise.

How the parts interact.  The primitives, the process table and the boxes share the
scheduler's queues: a task has one node, and it is on one list at a time.  Processes
enter the kernel by system calls and interrupts, kernel threads call it directly.
The network programs run a receiving thread, timer threads and the application, which
share tables under locks.

## 2. Modules

| Module | Models | Role |
|---|---|---|
| `Scheduler` | scheduler.c, queue.c, interrupt.c | operators for one handler each, shared by the modules below |
| `Sync` | sync.c | primitives and their client threads; extends `Scheduler` |
| `Processes` | kernel.c | spawn, kill, wait; extends `Scheduler` |
| `Mbox` | mbox.c | message boxes; extends `Processes` |
| `Ipc` | the two above | any sequence of system calls of processes |
| `Channel` | the promise of mbox.h | abstract bounded channel that `Ipc` implements |
| `SynchWait` | include/synch_wait.h | operators of a wait object |
| `TcpSock` | tcp_sock.h, tcp_out.c, the lists of tcp_in.c | operators on one socket; extended by `Tcp` |
| `Tcp` | tcp_in.c, tcp_sock.c, tcp_timer.c, tcp_apps.c of pr11 | one connection, its programs and threads, and the network |
| `Stp` | stp.c, stp_timer.c of pr3 | bridges that exchange configurations |
| `Mospf` | mospf_daemon.c of pr6 | neighbours, updates, flooding, databases |
| `Routes` | rtable_update of mospf_daemon.c | the route computation, as operators and recursive functions |
| `ArpCache` | arpcache.c, arp.c, ip.c, icmp.c of pr6 | the way of a packet through a router |
| `Nat` | nat.c of pr4 | mappings and ports |
| `MacTable` | mac.c, main.c of pr2 | the table of a switch |
| `Isa` | what each instruction does, one step each | abstract processor that `MipsCpu` implements |
| `MipsCpu` | mips_cpu.v, alu.v, reg_file.v | the core, clock by clock |
| `MipsTop` | mips_cpu_top.v, axi_lite_if.v, ideal_mem.v, the loader | the core with its memory and host |
| `ListProofs` | | lemmas on sequences that the proofs share |
| `SchedulerProofs`, `SyncProofs`, `IpcProofs` | | theorems of the kernel |
| `TcpProofs` | | theorems of `Tcp` |
| `StpProofs` | | theorems of `Stp` |
| `NetworkProofs` | | theorems of `MacTable`, `ArpCache`, `Nat`, `Mospf` and `Routes` |
| `MipsProofs` | | theorems of `MipsCpu` and `MipsTop` |
| `MCSync`, `MCIpc`, `MCTcp`, `MCStp`, `MCDevices`, `MCRoutes` | | instances for TLC |

### Scheduler and Sync

Kernel code is not preempted.  A kernel thread has `nested_count` 1 for all its life
and a process during a system call, and `timer_irq` returns early for both; so a
handler is atomic up to its calls of `scheduler_entry`.  One action of `Sync` is one
call of a primitive, from its entry to its return or to the `block` it ends in, and a
`resume_` action is the rest of the call.  `scheduler(ready, sleepq, st, left)`
describes `scheduler()` after a handler has changed the queues: it moves the expired
prefix of the sleep queue to the ready queue and takes the head, or idles.

Time is the number of ticks left until a deadline.  The timer preempts a process in
user mode; a kernel thread, and the idle loop of one, only see time pass.  The idle
loop of a process sees no interrupt: it runs in the exception the process entered the
kernel with, and `leave_critical` sets IE but does not clear EXL (entry.S:26-39).

`held_task` is never given a task in the code.  The walk of the deadlock check is
modelled all the same, so that a change that assigns it changes the model's answer.
`call`, `holds`, `units` and `calls` are the clients' side: what a thread is blocked in
and what it has obtained.  Clients release only locks they hold, as in th2.c and
philosophers.c.  `disable_count` is not modelled: on the paths of `Sync` it is
balanced, so the assertions on it hold.

### Processes, Mbox, Ipc

Tasks are the slots of `pcb[]`; a spawn takes the first EXITED slot and a new pid.
`do_kill` removes the victim's node from whatever queue it is on, and wakes those on
the victim's own wait queue.  `do_mbox_send` tests `msg_num` once, blocks, and when it
resumes stores its message without a test: `mbox_send` and `resume_mbox_send` are the
two halves.  The lock of a box is taken and released between two calls of
`scheduler_entry`, so it never has a waiter and is left out.  `user_num` is modelled as
the code changes it: `if (mbox_use[i] = 0)` never counts a user up, so a box is never
wiped.

`Ipc` lets processes make any calls, within rules its header states: they name live
pids, leave a slot free to spawn into, and do not exit while waited for.  All tasks are
processes there, so an idle kernel has stopped, and the runs do not check deadlock.

### SynchWait, TcpSock, Tcp

`sock[Client]` is the socket of `tcp_client`, `sock[Server]` the child that the listener
of `tcp_server` makes for it.  Each end has three threads: the program, the thread that
receives packets and the timer.  A packet handler is one step: nothing it reads is
changed by the other threads between its statements, with one exception, `snd_wnd`,
which the writer and `remove_from_send_list` change without a lock.  The writer's update
is therefore split (`advance`, `store`), and an acknowledgement between the halves may be
the one that is lost (`Acknowledged`).  Before it, `tcp_sock_write` looks at `snd_wnd` three
times (tcp_sock.c:404, 409, 410), each a step: whether the window is closed (`tcp_sock_write`),
whether it is the smaller of the two (`compare`), and how long the segment is (`fetch`).  An
acknowledgement between the last two makes the segment longer than what is left to
write: `todo`, the `len_to_go` of the code, goes below zero, and the units behind the caller's
buffer are sent (`Units + 1` and up).  When `snd_wnd` has gone over its 16 bits in between, the
segment is empty.  The calls are split where a sleep or a change of
state is separate from the look that led to it.

`net` only grows: a packet in it may arrive at once, late, again and again or never, so
loss, repetition and reordering need no action of their own.  The numbers nobody reads,
those of a reset and the sequence number of a plain acknowledgement, are 0.  A timer may
run out at any time.  A stack may end: `exit(1)` after the last retransmission, the
assertion of the ring buffer, or a fault (a reset for the child, whose
`bind_hash_list` is not initialised; a packet for a socket that is in no table; the use of
a socket that a reset and the 2 MSL timer have both released).  `halt` records which.

`send_list` is a set: its order is that of the sequence numbers, so `Oldest` is the first
entry of the list, the one that is sent again.

Two places take data or a FIN that is not the next: `tcp_state_syn_recv` and the FIN branch of
`tcp_process`.  `skipped` remembers that it happened, and the properties of the data say
"unless it happened": they show that nothing else can corrupt, lose or cut it.

External to `Tcp`: the network (IP, ARP, Ethernet below `ip_send_packet`), seen from how tcp_out.c
and tcp.c use it.  Not modelled: port allocation and hash collisions, more than one
connection, a close of the listener, wrapping sequence numbers, spurious wakeups of
`pthread_cond_wait`, and a wakeup delayed past the return it was meant for (which only makes a later
sleep return early).  Nor is the deadlock of two locks: the timer thread takes `timer_lock` and
then `send_lock` (tcp_timer.c:32-36), an acknowledgement and the queueing of a segment take
`send_lock` and then `timer_lock` (tcp_in.c:39-48, tcp_out.c:26-27).  An end whose threads meet
so does nothing more, which no safety property forbids; the one liveness property, `CallsReturn`, is
refuted already without this deadlock.

### Stp

A bridge handles a message, or the end of its hello timer, under one lock: one step
each.  Messages stay in order on a link.  `accept_config` is a message that is better
than what the port holds, and contains the whole of `stp_handle_config_packet`: the new
root port, the costs, the ports that become designated and the message to each of
them.  `answer_config` is any other.  Two facts of the code shape the property of the
tree: the comparison of stp.c:233 puts the costs side by side without the roots they
lead to, so a link may be left without a designated end, and only the root's timer
goes on, so that nothing repairs it.  A port at such an end forwards for neither side, and
`AgreeOnOneTree` says what remains true: from some time on all agree on the root, the
least bridge, and the links that forward at both ends are a shortest-path tree.  It is not a
property of quiet states, for there may be none: two ends that hold the same
configuration answer each other for ever.  Its fairness is that of `FairSpec`: a
bridge takes its packets off the wire and its timer thread runs.

### Mospf and Routes

`lsu_update` is three steps, because only the first holds the lock: `build` lists the
neighbours, `number` increments `sequence_num`, `emit` sends.  The three threads that
call it may be between these steps at once (`overlapped`), and then the greater number
may carry the older list; the properties of order are stated for routers where this
did not happen.  `handle_mospf_lsu` compares, stores and forwards on all interfaces but the
one the update came by, with the TTL one less.  A link may fail with what it
carries.  `built` and `version` are history: the number of lists built so far, in place of
the list's time.  A behaviour begins in one of `Starts`: a network that boots, or one at rest
(`Resting`: what the databases hold is older than each router's next number and in the order of the
numbers).  An update crosses at most `MaxTtl` links, so `FloodReachesAll` speaks of the routers that
`Ways` of at most so many links lead to (`Joined`).

`Routes` translates `rtable_update` for a network at rest: the graph, the visits in the
order of distance, the places that `nbr_update` fills, and the entries of the table.  A
router's array lists its own subnets and its neighbours in either order (`hosts_first`).  The loops of
the code are recursive functions: `nbr_update` over the entries of an array, `Computed` over the visits.
`Hops`, the reference, is the number of steps in which `Within` comes from a subnet to a router.

### ArpCache

A packet is forwarded, answered by an error or by a reply, consumed, or dropped.  What is
sent goes through `SendByArp`: the look-up locks the cache, and so does the append that
follows a miss, but not both together; a sender stands between them (`hand`).  The sweep takes
the requests that have waited and been repeated often enough out of the list, and then, without
the lock, answers their packets one by one (`report`); each of these errors is a new packet.
`gone` collects the packets that are done with.

### Nat

The main thread's `do_translation` is split where it meets the timeout thread: search, use or
assignment, insertion, reset.  The lists are their pointers: `next` and `prev` of the heads and of
the places in memory.  `Walk` follows them; `Listed` is what the timeout thread comes to, `Search`
where a search stops.  `insert_meets_free` gives every outcome of the four stores of
`list_insert` (list.h:42-45) among the two of `list_delete_entry` (64-65) for the last
mapping: the new mapping is linked, or lost with its port, or linked with a `prev` that leads to the
freed one.  The last is the bad one (`torn`): when the new mapping's turn comes, unlinking it
writes into freed memory and leaves it in the list, freed and with its port given back.  `NatTypeOK`
and `PortsUnique` say what holds as long as that has not happened.  A search is one step; one that
stands on a mapping as it is freed, and a walk of the timeout thread over a mapping whose `next` is
not stored yet, are `lose_way`, after which nothing is claimed.  The program also ends when it frees
twice, or frees the list head, which is what `nat_entry` is after a search that found nothing.

### MacTable

Each look-up, insertion and sweep is a step under the lock; the entry that was found
is read in the step after.  The sweep is `Survives`: a bucket with one entry is
left alone, one with several is walked by a loop that follows a freed entry and ends the
program unless the old entries are all but the last.

### Isa, MipsCpu, MipsTop

A step is a clock edge.  Blocking assignments in clocked blocks are read as the flip-flops
that a synthesis tool makes of them.  `MipsCpu` keeps the state numbers, control signals
and ALU codes of the source as operators of the same names; `decode` gives the fields of a
word and is total, so that words may be small and each is some instruction (in `devices`, eight bits);
`BitOr` stands for the bitwise operator, which only the instance for TLC brings in.  A jump keeps
PC[31:28] of the PC, which is past the jump already (`Next_PC_J`): `JumpRegion` is the size of the
region that these bits choose, 2^28 in the code and any divisor of the address space here.  `Isa` executes an instruction at once, and
`CpuImplementsIsa` is the refinement: PC, registers and memory at the end of each
instruction, with a stutter for the clocks between.

In `MipsTop` the host runs the loader's program: hold the core in reset, write the words,
release it, poll for the result, reset again.  Its accesses are one at a time; VALID and READY
may rise in any order and as late as they like.  A script is any list of `Accesses` whose writes of
words come before all else (`LoadsFirst`).  A host's read in a clock in which the core
reads returns all ones, and so does the wait of a core that has not finished.  Nothing keeps two writes apart
(`WritesCollide`): `TopTypeOK` shows that the loader's order does.

External: the AXI master, the wires of the routers.

## 3. Runs

| Run | Instance | Shows |
|---|---|---|
| `sync_safety` | 3 threads, 1 process, one object of each kind | placement of tasks, exclusion, conservation, rounds of a barrier, order of grants |
| `sync_fair` | 3 threads, a lock, a condition, sleeps of 1 or 2 ticks | ready tasks run, sleepers wake, locks are granted |
| `sync_deadlock` | 2 threads, 2 locks | the deadlock that sync.c:71 says is reported (finding) |
| `sync_sleep` | 1 process | a sleeper that never wakes (finding) |
| `ipc` | 3 slots, 3 programs, 4 spawns, a box of 2 messages | waits, handles, wakeups, and that a box implements `Channel` |
| `mbox_receivers` | 4 slots, two receivers | an empty box that is received from (finding) |
| `tcp` | 5 units in segments of up to 2, window 3, 1 retransmission | what is queued arrives whole, nothing acknowledged is lost, set-up and tear-down agree |
| `tcp_stream` | 2 segments | data in the wrong place after a handshake completed by the second segment (finding) |
| `tcp_sleep` | 1 segment, fair threads | an accept that never returns (finding) |
| `stp` | 4 bridges in the ring of four_node_ring.py, 1 hello each | costs are those of a path, ports only improve, one root and one tree |
| `devices` | one of six programs, chosen in the first state | see below |
| `routes` | all networks of 4 routers | a subnet without a route (finding) |

Bounds.  Three threads are the least for a lock with an owner, a waiter and a newcomer,
and for a barrier in which a fast thread meets a slow one; `MaxCalls = 2` lets rounds
overlap.  `MaxUnits = 2` lets a semaphore be above, at and below what is asked.  Sleeps of
1 and 2 ticks put a long sleep in front of a short one.  In `ipc`, four spawns in three
slots reuse a slot while an older pid is remembered, two messages fill and wrap the
ring, and one close per box covers `do_mbox_close`.  `May` splits the calls among the
programs so that each is made by one that interacts with the others.
  In `tcp`, a window of three makes a
ring buffer of two: the window closes before the data ends, a slow reader overruns
the buffer, and segments can wait for the one before them.  Segments of up to two units let one
be longer than the rest of the data, which five units leave odd.

`devices` holds six small instances, of which a behaviour runs one (`device`); the others
stay where they begin, so that the states add up and do not multiply:

- `mospf`: three routers that boot on a chain, or at rest in a triangle in which a
  neighbour is missed once, two routers send periodic updates, or one does while a link fails.
  In a triangle copies of an update take two ways and overtake; `MaxTtl = 3` brings them back to
  where they came from.
- `routes`: every graph of four routers, with hosts before or after the neighbours.
- `arp`: a host that answers, one that does not, one without a route, the router itself;
  packets that are forwarded, answered, consumed and dropped, and an update of the router's
  own; two retries, so that a request is repeated and given up.
- `nat`: one port, two places in memory, two connections to each of two servers: the
  pool runs out at once, memory that was freed is used again, and an insertion meets the
  unlinking of the mapping before it.
- `mac`: three hosts in one bucket and one in another.
- `mips`: each instruction on each pair of seven values of eight bits, extremes included; jumps in
  the regions of 64 bytes that registers lead to; and a program that is loaded, run, awaited and reset by the host with every delay of the
  handshakes.

Deadlock is not checked there: the programs stop when their bounds are used up.  In `stp`, a
ring of four is the least in which a bridge hears of the root by two ways of different
length; messages of the first hellos meet those of the last.

Fairness (`FairSpec`).  The timer ticks and the idle loop spins: hardware and a loop.
A running thread takes its next step (weak fairness of `Resume` and `yield`).  Nothing
preempts a kernel thread, so progress rests on the clients: all test threads yield again
and again and release the lock they hold, th2.c also after yielding inside the monitor;
hence strong fairness of `Release`, which is disabled whenever the thread is not
running.  In `Tcp` every thread of a host is scheduled (weak fairness of the programs, the timers
and the receivers); nothing is assumed of the network.
`ArpFairness` is weak fairness of the three threads of a router, which are threads of
a fair scheduler; whether a host answers is left open.  The one exception that
`EveryPacketLeaves` states is real: an error about a packet of the router's own, for an
address that does not answer, is itself sent there, and so on for ever.

## 4. Proofs

Every theorem is about the specification that the runs check, for all values of the constants
that satisfy the module's assumptions.  Each rests on an inductive invariant, shown to hold
initially and kept by a lemma per action; the theorem joins these lemmas with PTL.

| Module | Theorems | Inductive invariant |
|---|---|---|
| `SyncProofs` | `TypeCorrect`, `TasksPlaced`, `LocksExclude`, `UnitsConserved` | `IInv` |
| | `NobodyWaitsForNothing`, `RoundsSeparate`, `FirstComeFirstServed` | `IInv`, `QInv` |
| `IpcProofs` | `IpcTyped`, `ProcessesPlaced`, `WaitsSound`, `HandlesStayValid` | `IInv` |
| | `NoWakeupLost`, `BoxesBounded`, `BoxesDeliver` | `IInv`, `BInv` |
| `TcpProofs` | `TcpTyped`, `DataInOrder`, `AcknowledgedArrived`, `NothingMissingAtEnd`, `NoHalfOpenAccept`, `TeardownAgreed` | `TInv` |
| `StpProofs` | `StpTyped`, `CostsReal`, `StpOnlyImproves` | `StpInv` |
| `NetworkProofs` | `FramesArrive`; `PacketsKept`; `NatListsSound`, `PortsNeverShared` | `MacInv`; `ArpInv`; `NatInv` |
| | `MospfTyped`, `NumbersInOrder`, `NewsOnlyYounger`; `NewsReachesAll` | `MospfInv`; `FloodInv` |
| | `RoutesLeadNearer` | `RoutesInv` |
| `MipsProofs` | `TypeOKAlways`, `CoreIsProcessor`; `ResultAlwaysTrue` | `TopInv`; `ResultInv` |
| | `SignedOrder` | none: a fact about `alu.v` |

`SchedulerProofs` proves, for each helper of a handler (`scheduler`, `unblock_one`,
`unblock_all`, `block`, ...), that it keeps types and the placement of tasks; `SyncProofs` and
`IpcProofs` both build on it.

**Sync.** `IInv` is types, `TaskPlacement`, `MutualExclusion`, `SemaphoreConservation`, and
`WaitersCalls`, which says that a task on the queue of an object is inside a blocking call of that
object.  Exclusion is not inductive alone: when a release hands a lock over, the new owner is the head
of the queue, and only `WaitersCalls` says that this task is in `lock_acquire` of that lock, and
only `TaskPlacement` that it was not an owner already.  Conservation needs in addition that the
counted set of granted threads is finite and changes by exactly the head of the queue.  `QInv` adds why
somebody waits: a lock with waiters is taken, a semaphore with waiters is at 0, and of the parties of
a barrier exactly those in the queue have made one call more than the others.  The last
makes the rounds separate: when the barrier opens, all have made the same number of calls.

**Ipc.** `IInv` is the placement of the processes, types, who is on which wait queue
(`WaitersCalls`), and which handles a process holds.  `do_kill` and `do_spawn` are the steps to worry about: a
victim is unlinked from a queue of any kind, those that wait for it move to the ready queue, and the
slot gets a new pid while others still remember the old one.
`BInv` is about the boxes: one process of each program at a time (`OneProcess`), how far a sender or
receiver inside a call has come against what `msg_num` says (`SendersFit`, `ReceiversFit`), and the ring
(`RingFits`).  A sender that resumes does not look at the box again, so `SendersFit` has to say that there
is room for it.  This is true only with one sender and one receiver of a box, which the
theorems on boxes assume as `OneToOne`; the programs of the run `ipc` satisfy it, and
`mbox_receivers` shows what happens without it.
`BoxesDeliver` is the refinement: under `Channels`, the content of the rings read as sequences, each
step is a step of `Channel` or leaves it unchanged.

**Tcp.** `TInv` ties the numbers of the two ends together: `PacketsTrue` says of every packet
ever sent (the network may still deliver any) which part of the stream it carries and what it acknowledges;
`ClientInv`, `ServerInv` and `AcceptInv` give `snd_nxt`, `rcv_nxt` and the queues for every place in
the two programs; and `DataInv` says that what has been received is the beginning of the data up to
`rcv_nxt`, and that every unit that was written and not received is still in the send list.  The last is
the reason why an acknowledgement, late, repeated or lost, removes nothing too early: it names a
number that the receiver had reached when it was sent, and `rcv_nxt` never goes back.  The exceptions are
those of the properties (`skipped`); they are part of `DataInv`.  So is the write that read beyond the
caller's buffer: what counts as the data is what was queued, `Units - todo`, more than `Units` when
`todo` has gone below 0.

**Stp.** `StpInv` says that what a bridge believes, what its ports hold and what is on the way are claims of
ways that exist (`Way`), and that a root port holds the best of the configurations of its bridge, which the
comparison keeps.  The cost of a bridge is then that of its root port and one link more.

**Mospf.** `MospfInv` orders what is told of one router, as long as its threads did not overlap: the numbers in
packets and databases are below `sequence_num` and their lists no later than `built`, and the one
thread that may be between its list and its last packet works with the latest list and the next number.  A step in which they do overlap sets
`overlapped`, and nothing is claimed of that router from then on.

`NewsReachesAll` adds `FloodInv` for each router that sent its list when all its neighbours were known.
Whatever carries the latest list carries the right one (`ToldRight`), and along every way of at most
`MaxTtl` links something is left to bring it to the end (`AllReach`): the router has yet to send to the
first of the way (`ToLeave`), or a copy with enough TTL is on one of its links (`UnderWay`), or the last
of the way has it (`Informed`).  The step that matters is a copy that arrives (`UpdateSpreads`).  The code sends it on whether or not it
was news (mospf_daemon.c:484), so the copy for the next link of the way takes its place; at
the end of the way it is stored, or something no older was there before, which `MospfInv` shows to be
the same list.  In a quiet state only `Informed` is left.  A link or a neighbour that changes makes
`current` false: the claim is about what was sent since.

**Routes.** The theorem is about what a computation with two nested loops returns for every graph.
`Iterates` shows that a list of steps, each a function on a set, has a run, and what each step keeps, the run
keeps (`Induct` is induction on numbers, stated with a set in place of a predicate and proved from
the least element).  `PlacesTrue` is kept by the inner loop: the first places of the graph are the
neighbours, at distance 1, and the others are all free or all hold one router beyond a neighbour, at
distance 2 (the code gives every free place to the first router it meets, mospf_daemon.c:57).
`Graph` is kept by the outer loop: also, the table is true so far (`TableTrue`), and lists the subnets of
every neighbour that was visited (`SeenListed`).  When a router at distance 2 is visited, all neighbours
have been, as `Nearest` takes the least distance; so a subnet that is new then touches no neighbour of
the computing router, and lies two links away.  Each visit closes one place (`VisitKeeps`), so there is an
open one for each.

**MipsCpu, MipsTop.** `CpuInv` says what the registers between the clocks hold in each state of the control machine
(`Computed`): the word that was fetched is still in memory and its fields in `TempofIns`, the
registers read are the operands (`Holds`), and `ALUOut` is the result `Isa` gives.  The states that end
an instruction then are its step of `Isa`, and all others a stutter, because PC is mapped back to
`fetched` in mid-instruction; a reset is the reset of `Isa`, and a write of the host before the release
is its load.  Signed comparison goes through `SignedOrder`: the ALU forms overflow, exclusive or the sign of the
difference.  `TopInv` adds the order of the script (`ScriptInv`), which signals go with which access
(`Handshake`), and that while words are left to load the core is held in reset and has done nothing (`LoadInv`);
from the last it follows that the two writers of the memory never meet.
`ResultAlwaysTrue` has a hypothesis about the program that was loaded, `StoresOnce`: what it
stores at `FINISH` it stores once.  The programs are not in the repository, but the loader relies on it:
it takes the first word there that is not 0xFFFFFFFF for the result (mips_cpu_elf_loader.c:124).

**MacTable, ArpCache, Nat.** `MacInv` and `ArpInv` add to the properties what a frame or a packet between
two steps knows, and that each id is held in some place and in no two.  `NatInv` is `torn \/ NatSound`:
types; each head's list is a chain of places, each pointing to the next, the last to the head, and
each mapping back to the place before it (`Chain`, `IsList`); the head alone may point back outside
its list, to a mapping that was lost (`BackSound`); what the two threads
hold is linked, or freed since (`WorkerSound`, `TimeoutSound`); and of the mappings in use, the one
about to be linked included, no two have one port of the pool (`PortsSound`).  The lemmas say what
linking and unlinking make of a chain, for any pointers, so that they serve each half of
`insert_meets_free` in turn.

Assumptions: those of the modules (`SchedulerAssumption`, `SyncAssumption`, `IpcAssumption`,
`MboxAssumption`, `TcpAssumption`, `StpAssumption`, `MospfAssumption`, ...), which TLC evaluates in
the runs, and `OneToOne` and `StoresOnce` where a theorem names them.  `PowersOfTwo` and `OrAssumption` are facts of
arithmetic that the provers do not know: a word's modulus is twice its half, powers of 2 are numbers,
and the bitwise or of two words is a word, and of a word and 0 that word.
`CpuAssumption` asks for a `decode` of every word, `TopAssumption` for images that fit the memory and scripts that load
first, as the loader's do.  `MospfAssumption` holds the
behaviours to start at rest (`Resting`); all starts of `devices` do.

Only model-checked, and why:

- liveness (`ReadyTasksRun`, `AgreeOnOneTree`, `EveryPacketLeaves`, ...): needs ENABLED and fairness,
  out of the prover's reach.

Every invariant and every action property of a passing run is a theorem.

## 5. Plan

Done: the kernel of `p4`, TCP, the spanning tree, the six programs of `devices`, and the theorems
above.  What is left:

1. Routes computed while the network changes: `Routes` over the databases of `Mospf`.
2. The wrap of the 16 bit sequence number of an update, and restarts of a router.
3. More than one connection in `Tcp`, with the allocation of ports.

## Not modelled, and why

The map names about a tenth of the repository's lines.  More than half of them repeat:
each laboratory begins with a copy of the one before it, and a definition is mapped to one
copy, the last.

- The boot blocks, console, ramdisk and image tools: no state that other parts read.
- The test programs of `p4`: they set the clients' rules of `Sync` and `Ipc`.
- The kernels of `p2` and `p3`: earlier and smaller versions of what `p4` has; likewise
  `pr5`, `pr9` and `pr10`, of which `pr6` and `pr11` are the last versions.
- Paging (`p5`): the tables are filled before a process runs, pages are given out and never
  taken back, so no state there outlives a step that another reads.  `page_alloc` returns
  nothing, which leaves its callers with whatever is in a register.
- The trie (`pr8`): `modify_inter` never leaves its first loop (node.c:223, a 16 bit value
  whose complement as an int is never 0), and `search_inter` compares a masked bit with 1
  (node.c:359); what it computes for most tables is left to the build.
- The socket programs (`pr1`, `pr7`): no state of their own.
- In `Processes`: pids and tables out of range, which write outside arrays.
- In `Mospf`: restarts, the wrap of the 16 bit number, ages; in `Routes`: a computation while the
  network changes.
- In `ArpCache`: a full table, where an insertion writes before the array (arpcache.c:99),
  what an address maps to, the order of packets that wait.
- A routing table that changes: `Routes` computes it in one step and `ArpCache` takes it as given,
  although `rtable_update` clears and fills it (mospf_daemon.c:122-175) while the thread that
  forwards looks routes up in it, both without a lock.
- In `Nat`: a search as the steps it takes (it finds what it finds at once, or loses its way);
  addresses and checksums, FINs (the test `flags == TCP_FIN` misses FIN with ACK)
  and the statistics that only age a mapping.
- In `MacTable`: times, and hosts that move, which the code never notices.
- In `Tcp`: more than one connection, ports, wrapping sequence numbers, and the deadlock of
  `timer_lock` and `send_lock`.
- In `MipsTop`: performance counters, a host with a read and a write outstanding at once
  (axi_lite_if.v:286 would mix their addresses), a system reset later than the start.
- In `Stp`: loss, links of more than two ports, changes of the topology, to which the code has
  no answer.

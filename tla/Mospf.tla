------------------------------- MODULE Mospf -------------------------------
(***************************************************************************)
(* The link state daemons of pr6 (mospf_daemon.c): neighbours found by       *)
(* hellos, link state updates flooded to every router, databases.            *)
(*                                                                         *)
(* Three threads of a router send updates: the main thread, which handles    *)
(* the packets, when it adds a neighbour; "nbr", which ages neighbours, when  *)
(* it removes one; and "lsu", at its interval.  lsu_update lists the          *)
(* neighbours under mospf_lock but numbers and sends its packets without it:  *)
(* each is a step here, so that the threads overlap as they do there.         *)
(* The networks of an LSA follow from the neighbours it lists and are left    *)
(* out.  A link is a FIFO in each direction, empty while the link is down.    *)
(***************************************************************************)
EXTENDS Naturals, Sequences, FiniteSets

CONSTANTS
  Routers,      \* router_ids; also the order of a router's interfaces
  Links,        \* the pairs of routers with an interface on the same network
  MaxTtl,       \* bound: MOSPF_MAX_LSU_TTL, 255 in the code
  Starts        \* the states to begin with, each with its bounds

Bounds == [periods : [Routers -> Nat],   \* the updates of each router's lsu thread
           misses : [Routers -> Nat],    \* the neighbours it gives up although their link is up
           changes : [Links -> Nat]]     \* the failures and repairs of a link

DbEntries == [seq : Nat, nbrs : SUBSET Routers, version : Nat]
NONE == [version |-> 0]

(* A network between two updates: the neighbours are on links, and of the LSAs a
   router sent, all older than its next number and than its last list, the larger
   number is never the older list. *)
Resting(state) ==
  /\ state.nbr_list \in [Routers -> SUBSET Routers]
  /\ \A r \in Routers : \A b \in state.nbr_list[r] : <<r, b>> \in Links
  /\ state.sequence_num \in [Routers -> Nat]
  /\ state.built \in [Routers -> Nat]
  /\ state.mospf_db \in [Routers -> [Routers -> DbEntries \cup {NONE}]]
  /\ \A r \in Routers : state.mospf_db[r][r] = NONE
  /\ \A o \in Routers :
       LET known == {state.mospf_db[r][o] : r \in Routers} \ {NONE} IN
       /\ \A x \in known : x.seq < state.sequence_num[o] /\ x.version <= state.built[o]
       /\ \A x, y \in known : x.seq <= y.seq => x.version <= y.version

ASSUME MospfAssumption ==
  /\ Routers \subseteq Nat
  /\ Links \subseteq Routers \X Routers
  /\ \A a, b \in Routers : <<a, b>> \in Links => <<b, a>> \in Links /\ a # b
  /\ MaxTtl \in Nat \ {0}
  /\ \A s \in Starts : s.left \in Bounds /\ s.up \subseteq Links /\ Resting(s.state)

VARIABLES
  up,             \* the links in working order
  nbr_list,       \* the neighbours a router knows, one on an interface at most
  sequence_num,
  mospf_db,       \* the latest LSA of every other router, or NONE
  thread,         \* what each thread of a router does in lsu_update
  channel,        \* the updates on their way from a router to its neighbour
  left,           \* what is left of the bounds
  built,          \* history: the lists built by a router so far
  overlapped,     \* history: two threads of the router were in lsu_update at once
  current         \* history: the last list was built when all neighbours were known

mospfVars == <<up, nbr_list, sequence_num, mospf_db, thread, channel, left, built, overlapped, current>>

Threads == {"main", "nbr", "lsu"}
IDLE == [at |-> "idle"]

Lsus == [rid : Routers, seq : Nat, ttl : 1 .. MaxTtl, nbrs : SUBSET Routers, version : Nat]

(* mospf_init: nothing is known. *)
Booting == [nbr_list |-> [r \in Routers |-> {}],
            sequence_num |-> [r \in Routers |-> 0],
            mospf_db |-> [r \in Routers |-> [o \in Routers |-> NONE]],
            built |-> [r \in Routers |-> 0]]

MospfInit ==
  /\ \E s \in Starts :
       /\ up = s.up /\ left = s.left
       /\ nbr_list = s.state.nbr_list /\ sequence_num = s.state.sequence_num
       /\ mospf_db = s.state.mospf_db /\ built = s.state.built
  /\ thread = [r \in Routers |-> [t \in Threads |-> IDLE]]
  /\ channel = [l \in Links |-> <<>>]
  /\ overlapped = [r \in Routers |-> FALSE]
  /\ current = [r \in Routers |-> FALSE]

Facing(r) == {b \in Routers : <<r, b>> \in up}
Settled == \A r \in Routers : nbr_list[r] = Facing(r)

(* lsu_update is called: the list is built when mospf_lock is next taken. *)
Call(r, t) == thread' = [thread EXCEPT ![r][t] = [at |-> "called"]]

(* The list of neighbours, under mospf_lock. *)
build(r, t) ==
  /\ thread[r][t].at = "called"
  /\ built' = [built EXCEPT ![r] = @ + 1]
  /\ thread' = [thread EXCEPT ![r][t] =
                  [at |-> "send", nbrs |-> nbr_list[r], version |-> built'[r],
                   todo |-> {b \in Routers : <<r, b>> \in Links}]]
  /\ current' = [current EXCEPT ![r] = Settled]
  /\ overlapped' = [overlapped EXCEPT ![r] =
                      @ \/ \E u \in Threads : thread[r][u].at \in {"send", "numbered"}]
  /\ UNCHANGED <<up, nbr_list, sequence_num, mospf_db, channel, left>>

(* The next interface with a neighbour: its packet gets the number of the moment. *)
number(r, t) ==
  LET todo == thread[r][t].todo \cap nbr_list[r]
      next == CHOOSE b \in todo : \A c \in todo : b <= c
  IN
  /\ thread[r][t].at = "send"
  /\ thread' = [thread EXCEPT ![r][t] =
                  IF todo = {} THEN IDLE
                  ELSE [at |-> "numbered", nbrs |-> @.nbrs, version |-> @.version,
                        todo |-> {b \in todo : b > next}, to |-> next, seq |-> sequence_num[r]]]
  /\ UNCHANGED <<up, nbr_list, sequence_num, mospf_db, channel, left, built, overlapped, current>>

Passing(l) == l \in up

\* Mutant of Counted: the number is not counted up.
CountedNot(taken, now) == {now}
(* sequence_num++ after the number was taken.  It is not atomic: what it adds to
   was read then, or now, or in between. *)
Counted(taken, now) == {taken + 1, now + 1}

(* sequence_num++ and iface_send_packet_by_arp. *)
emit(r, t) ==
  LET job == thread[r][t]
      lsu == [rid |-> r, seq |-> job.seq, ttl |-> MaxTtl, nbrs |-> job.nbrs, version |-> job.version]
  IN
  /\ job.at = "numbered"
  /\ \E n \in Counted(job.seq, sequence_num[r]) : sequence_num' = [sequence_num EXCEPT ![r] = n]
  /\ channel' = [l \in Links |-> IF l = <<r, job.to>> /\ Passing(l) THEN Append(channel[l], lsu)
                                 ELSE channel[l]]
  /\ thread' = [thread EXCEPT ![r][t] =
                  [at |-> "send", nbrs |-> @.nbrs, version |-> @.version, todo |-> @.todo]]
  /\ UNCHANGED <<up, nbr_list, mospf_db, left, built, overlapped, current>>

(* A hello of a router that is not a neighbour yet arrives.  (One of a neighbour
   puts off the end of its time, which is not counted here.) *)
handle_mospf_hello(r, b) ==
  /\ thread[r]["main"] = IDLE /\ <<b, r>> \in up /\ b \notin nbr_list[r]
  /\ nbr_list' = [nbr_list EXCEPT ![r] = @ \cup {b}]
  /\ Call(r, "main")
  /\ current' = [o \in Routers |-> FALSE]
  /\ UNCHANGED <<up, sequence_num, mospf_db, channel, left, built, overlapped>>

(* checking_nbr_thread gives up the neighbours not heard of in 15 seconds: those
   whose link is down and, within the bound, others. *)
checking_nbr(r) ==
  /\ thread[r]["nbr"] = IDLE
  /\ \E late \in SUBSET nbr_list[r] \ {{}} :
       /\ nbr_list' = [nbr_list EXCEPT ![r] = @ \ late]
       /\ Cardinality(late \cap Facing(r)) <= left.misses[r]
       /\ left' = [left EXCEPT !.misses[r] = @ - Cardinality(late \cap Facing(r))]
  /\ Call(r, "nbr")
  /\ current' = [o \in Routers |-> FALSE]
  /\ UNCHANGED <<up, sequence_num, mospf_db, channel, built, overlapped>>

sending_mospf_lsu(r) ==
  /\ thread[r]["lsu"] = IDLE /\ left.periods[r] > 0
  /\ left' = [left EXCEPT !.periods[r] = @ - 1]
  /\ Call(r, "lsu")
  /\ UNCHANGED <<up, nbr_list, sequence_num, mospf_db, channel, built, overlapped, current>>

\* Mutant of Supersedes: a number that is not larger is taken too.
SupersedesAlways(lsu, entry) == TRUE
Supersedes(lsu, entry) == entry = NONE \/ entry.seq < lsu.seq

\* Mutant of Outward: the update goes back where it came from.
OutwardBack(r, from) == nbr_list[r] \cap {from}
(* The neighbours an update is passed on to. *)
Outward(r, from) == nbr_list[r] \ {from}

\* Mutant of GoesOn: the hops are tested before they are counted down.
GoesOnOnce(lsu) == lsu.ttl >= 1
(* ttl-- leaves some hops. *)
GoesOn(lsu) == lsu.ttl > 1

(* An update arrives from a neighbour: into the database, and on to the others. *)
handle_mospf_lsu(from, r) ==
  LET lsu == Head(channel[<<from, r>>])
      taken == [channel EXCEPT ![<<from, r>>] = Tail(@)]
      targets == IF GoesOn(lsu) THEN Outward(r, from) ELSE {}
  IN
  /\ thread[r]["main"] = IDLE /\ channel[<<from, r>>] # <<>>
  /\ mospf_db' = IF lsu.rid # r /\ Supersedes(lsu, mospf_db[r][lsu.rid])
                 THEN [mospf_db EXCEPT ![r][lsu.rid] =
                         [seq |-> lsu.seq, nbrs |-> lsu.nbrs, version |-> lsu.version]]
                 ELSE mospf_db
  /\ channel' = [l \in Links |->
                   IF l[1] = r /\ l[2] \in targets /\ Passing(l)
                   THEN Append(taken[l], [lsu EXCEPT !.ttl = @ - 1]) ELSE taken[l]]
  /\ UNCHANGED <<up, nbr_list, sequence_num, thread, left, built,
                 overlapped, current>>

(* The environment: a link fails, with what is on it, or comes back. *)
change(a, b) ==
  /\ left.changes[<<a, b>>] > 0
  /\ left' = [left EXCEPT !.changes[<<a, b>>] = @ - 1]
  /\ up' = (up \ {<<a, b>>, <<b, a>>}) \cup ({<<a, b>>, <<b, a>>} \ up)
  /\ channel' = [l \in Links |-> IF l \in {<<a, b>>, <<b, a>>} THEN <<>> ELSE channel[l]]
  /\ current' = [o \in Routers |-> FALSE]
  /\ UNCHANGED <<nbr_list, sequence_num, mospf_db, thread, built, overlapped>>

lsu_update(r, t) == build(r, t) \/ number(r, t) \/ emit(r, t)

MospfNext ==
  \/ \E r \in Routers, t \in Threads : lsu_update(r, t)
  \/ \E l \in Links : handle_mospf_hello(l[1], l[2]) \/ handle_mospf_lsu(l[1], l[2])
  \/ \E r \in Routers : checking_nbr(r) \/ sending_mospf_lsu(r)
  \/ \E l \in Links : change(l[1], l[2])

MospfSpec == MospfInit /\ [][MospfNext]_mospfVars
-----------------------------------------------------------------------------
InFlight(o) == UNION {{m \in {channel[l][i] : i \in 1 .. Len(channel[l])} : m.rid = o} : l \in Links}
Known(o) == {mospf_db[r][o] : r \in Routers} \ {NONE}

(* The kinds of the state: an update that came round any circle has hops left, of
   those it was sent with, and no router takes its own, when they come back, for
   another's (handle_mospf_lsu). *)
MospfTypeOK ==
  /\ up \subseteq Links
  /\ \A r \in Routers : nbr_list[r] \subseteq {b \in Routers : <<r, b>> \in Links}
  /\ sequence_num \in [Routers -> Nat]
  /\ channel \in [Links -> Seq(Lsus)]
  /\ \A r \in Routers : mospf_db[r][r] = NONE

(* While the threads of a router do not overlap in lsu_update, the larger number
   is never the older list, in any packet or database (lsu_update,
   mospf_init_lsu). *)
NumbersTellAge ==
  \A o \in Routers : ~ overlapped[o] =>
    \A x, y \in InFlight(o) \cup Known(o) : x.seq <= y.seq => x.version <= y.version

(* Nor does a database go back to an older list, although the copies of an update
   overtake those of another on other ways (handle_mospf_lsu). *)
NewsNeverOlder ==
  [][\A r, o \in Routers :
       ~ overlapped'[o] => mospf_db'[r][o].version >= mospf_db[r][o].version]_mospfVars

Quiet ==
  /\ \A r \in Routers, t \in Threads : thread[r][t] = IDLE
  /\ \A l \in Links : channel[l] = <<>>

(* The ways over working links that start at o and visit no router twice; an update
   goes over MaxTtl links at most. *)
Ways(o, links) ==
  {w \in [0 .. links -> Routers] :
     /\ w[0] = o
     /\ \A i \in 1 .. links : <<w[i - 1], w[i]>> \in up
     /\ \A i, j \in 0 .. links : w[i] = w[j] => i = j}

(* The other routers that they lead to. *)
Joined(o) == UNION {{w[links] : w \in Ways(o, links)} : links \in 1 .. MaxTtl}

(* When all is quiet, a router that sent its last list after all neighbours were
   known, and whose threads did not overlap, is known as it is to every router it
   can reach: flooding leaves nobody with older news (handle_mospf_lsu). *)
FloodReachesAll ==
  Quiet => \A o \in Routers : current[o] /\ ~ overlapped[o] =>
             \A r \in Joined(o) :
               mospf_db[r][o] # NONE /\ mospf_db[r][o].nbrs = nbr_list[o]
=============================================================================

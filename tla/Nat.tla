--------------------------------- MODULE Nat ---------------------------------
(***************************************************************************)
(* Network address translation (pr4, nat.c): the mappings of connections to   *)
(* ports of the external interface, used and made by the main thread and      *)
(* freed by it, at a RST, and by the timeout thread.                         *)
(*                                                                         *)
(* The lock is only taken to free: the main thread looks up, changes and      *)
(* adds mappings without it.  The lists are the pointers of list.h, between     *)
(* their heads and the places in memory.  A search of a list is one step; what *)
(* it found may be freed before it is used.  Memory that was freed is not used *)
(* again before the main thread allocates the next mapping, and what is written *)
(* to it is not read (its pointers lead to itself, so that they say nothing);   *)
(* to come upon it in a list, to unlink or to free it once more ends the        *)
(* program.  Addresses and the statistics of a connection that nothing reads   *)
(* are left out.                                                            *)
(***************************************************************************)
EXTENDS Naturals

CONSTANTS
  Hosts,        \* the internal ends of connections, [ip, port]
  Servers,      \* the external ends, each with a list of its own: the list heads
  NAT_PORT_MAX, \* the ports are 1 .. NAT_PORT_MAX; 0 is none
  Mappings      \* bound: the places in memory for mappings

ASSUME NatAssumption == NAT_PORT_MAX \in Nat \ {0} /\ Servers \cap Mappings = {}

VARIABLES
  next, prev,       \* the struct list_head of a list and of each place
  mapping,          \* what is in a place: [host, port], or FREED
  assigned_ports,   \* the ports the pool holds as assigned
  worker,           \* what the main thread does in do_translation
  timeout,          \* what nat_timeout does; it has the lock unless "asleep"
  torn              \* history: a mapping was linked with a prev that leads to freed memory

listVars == <<next, prev, torn>>
natVars == <<listVars, mapping, assigned_ports, worker, timeout>>

NatPorts == 1 .. NAT_PORT_MAX
WAITING == [at |-> "poll"]
ENDED == [at |-> "ended"]
ASLEEP == [at |-> "asleep"]
FREED == [host |-> 0]

Places == Servers \cup Mappings
Freed == {m \in Mappings : mapping[m] = FREED}

NatInit ==
  /\ next = [p \in Places |-> p] /\ prev = next
  /\ mapping = [m \in Mappings |-> FREED]
  /\ assigned_ports = {}
  /\ worker = WAITING
  /\ timeout = ASLEEP
  /\ torn = FALSE

(* Where one comes to who follows the pointers from p on and stops at any of stop. *)
Walk(p, stop) ==
  {q \in Places : \A visited \in SUBSET Places :
     p \in visited /\ (\A r \in visited \ stop : next[r] \in visited) => q \in visited}

Listed(s) == Walk(next[s], {s} \cup Freed) \ {s}
Linked == UNION {Listed(s) : s \in Servers}

(* Where a search of the list of s stops: at a mapping that fits, at the list head,
   or at memory that is not of the list; nowhere, when it goes round. *)
Search(s, fitting) ==
  LET stop == fitting \cup Servers \cup Freed IN Walk(next[s], stop) \cap stop

(* The packet is translated and sent; if it is a RST, nat_entry is freed then.  The time
   and the flags that are noted only put off or bring on the end of the mapping, which
   may come at any time. *)
Sent(entry) == worker' = [at |-> "reset", entry |-> entry] \/ worker' = WAITING

(* A packet from inside: its host's mapping, or a new one. *)
receive_out(s, h) ==
  LET fitting == {m \in Mappings \ Freed : mapping[m].host = h}
      found == Search(s, fitting)
  IN
  /\ worker = WAITING
  /\ \/ found = {s} /\ worker' = [at |-> "assign", server |-> s, host |-> h]
     \/ \E m \in found \cap fitting : Sent(m)
     \/ found \cap (fitting \cup {s}) = {} /\ worker' = ENDED
  /\ UNCHANGED <<listVars, mapping, assigned_ports, timeout>>

(* One from outside: the mapping of its port.  Without one it is sent on as it is. *)
receive_in(s, port) ==
  LET fitting == {m \in Mappings \ Freed : mapping[m].port = port}
      found == Search(s, fitting)
  IN
  /\ worker = WAITING
  /\ \/ found = {s} /\ Sent(s)
     \/ \E m \in found \cap fitting : Sent(m)
     \/ found \cap (fitting \cup {s}) = {} /\ worker' = ENDED
  /\ UNCHANGED <<listVars, mapping, assigned_ports, timeout>>

Free == NatPorts \ assigned_ports

\* Mutant of Marked: the pool is not told.
MarkedNot(port) == {}
Marked(port) == {port} \ {0}

(* malloc, and free_port_index_get: the first free port, or none. *)
assign ==
  /\ worker.at = "assign" /\ Freed # {}
  /\ LET place == CHOOSE m \in Freed : TRUE
         port == IF Free = {} THEN 0 ELSE CHOOSE p \in Free : \A q \in Free : p <= q
     IN
     /\ mapping' = [mapping EXCEPT ![place] = [host |-> worker.host, port |-> port]]
     /\ assigned_ports' = assigned_ports \cup Marked(port)
     /\ worker' = [at |-> "insert", entry |-> place, server |-> worker.server]
  /\ UNCHANGED <<listVars, timeout>>

(* list_add_tail: behind what the list head points back to. *)
insert ==
  /\ worker.at = "insert"
  /\ LET s == worker.server
         p == prev[s]
     IN
     /\ next' = [next EXCEPT ![p] = worker.entry, ![worker.entry] = s]
     /\ prev' = [prev EXCEPT ![s] = worker.entry, ![worker.entry] = p]
     /\ Sent(s)
  /\ UNCHANGED <<mapping, assigned_ports, timeout, torn>>

(* Without the lock its four stores fall between the two that unlink the last
   mapping of the list, before it is freed.  p was read before the unlinking stored
   there, or after; of two stores to one place either may be the last.  The new
   mapping may be lost, or linked with a prev that leads to the freed one.  (When the
   insertion lasts for two unlinkings it is the second that it meets.) *)
insert_meets_free ==
  /\ worker.at = "insert" /\ timeout.at = "unlink" /\ next[timeout.entry] = worker.server
  /\ LET s == worker.server
         new == worker.entry
         old == timeout.entry
         before == prev[old]
     IN
     /\ \E p \in {prev[s], before}, back \in {new, before}, forward \in {new, s} :
          /\ p # prev[s] => back = new
          /\ forward = new => p \in {before, old}
          /\ next' = [next EXCEPT ![p] = new, ![before] = forward, ![new] = s, ![old] = old]
          /\ prev' = [prev EXCEPT ![s] = back, ![new] = p, ![old] = old]
          /\ torn' = (torn \/ (forward = new /\ p = old))
     /\ mapping' = [mapping EXCEPT ![old] = FREED]
     /\ Sent(s)
  /\ timeout' = [at |-> "walk"]
  /\ UNCHANGED assigned_ports

\* Mutant of Unlink: the mapping before still points to it.
UnlinkBack(m) == next' = next /\ prev' = [prev EXCEPT ![next[m]] = prev[m], ![m] = m]
(* list_delete_entry, and free. *)
Unlink(m) ==
  /\ next' = [next EXCEPT ![prev[m]] = next[m], ![m] = m]
  /\ prev' = [prev EXCEPT ![next[m]] = prev[m], ![m] = m]

(* A RST frees nat_entry, under the lock: when that is the list head, or was freed
   by the timeout thread, the program ends. *)
reset ==
  /\ worker.at = "reset" /\ timeout = ASLEEP
  /\ IF worker.entry \in Servers \cup Freed
     THEN worker' = ENDED /\ UNCHANGED <<next, prev, mapping, assigned_ports>>
     ELSE /\ worker' = WAITING
          /\ assigned_ports' = assigned_ports \ {mapping[worker.entry].port}
          /\ Unlink(worker.entry)
          /\ mapping' = [mapping EXCEPT ![worker.entry] = FREED]
  /\ UNCHANGED <<timeout, torn>>

(* The timeout thread, with the lock.  A mapping is finished when both sides sent a
   FIN or nothing came for a minute, which can be said of any in some time.  What is
   finished when it is looked at gives its port back, and is then unlinked and freed. *)
nat_timeout_look(m) ==
  /\ timeout.at \in {"asleep", "walk"} /\ worker # ENDED
  /\ m \in Linked \ Freed
  /\ timeout' = [at |-> "release", entry |-> m]
  /\ UNCHANGED <<listVars, mapping, assigned_ports, worker>>

nat_timeout_release ==
  /\ timeout.at = "release" /\ worker # ENDED
  /\ assigned_ports' = assigned_ports \ {mapping[timeout.entry].port}
  /\ timeout' = [timeout EXCEPT !.at = "unlink"]
  /\ UNCHANGED <<listVars, mapping, worker>>

nat_timeout_free ==
  /\ timeout.at = "unlink" /\ worker # ENDED
  /\ Unlink(timeout.entry)
  /\ mapping' = [mapping EXCEPT ![timeout.entry] = FREED]
  /\ timeout' = [at |-> "walk"]
  /\ UNCHANGED <<assigned_ports, worker, torn>>

nat_timeout_unlock ==
  /\ timeout.at = "walk" /\ worker # ENDED
  /\ timeout' = ASLEEP
  /\ UNCHANGED <<listVars, mapping, assigned_ports, worker>>

(* A search stands on the mapping that is freed, or the timeout thread comes to one
   whose next is not yet stored, or was freed: where that leads, nobody can say. *)
lose_way ==
  /\ \/ worker = WAITING /\ timeout.at = "unlink"
     \/ timeout.at \in {"asleep", "walk"} /\ (worker.at = "insert" \/ Linked \cap Freed # {})
  /\ worker' = ENDED
  /\ UNCHANGED <<listVars, mapping, assigned_ports, timeout>>

do_translation == assign \/ insert \/ insert_meets_free \/ reset \/ lose_way
nat_timeout ==
  \/ \E m \in Mappings : nat_timeout_look(m)
  \/ nat_timeout_release \/ nat_timeout_free \/ nat_timeout_unlock

NatNext ==
  \/ \E s \in Servers, h \in Hosts : receive_out(s, h)
  \/ \E s \in Servers, p \in NatPorts : receive_in(s, p)
  \/ do_translation
  \/ nat_timeout

NatSpec == NatInit /\ [][NatNext]_natVars
-----------------------------------------------------------------------------
(* The mapping whose port was given back and which is still linked. *)
Leaving == IF timeout.at = "unlink" THEN {timeout.entry} ELSE {}

(* From every list head the pointers lead back to it, and to no memory that was freed
   and into no other list; and a connection has one mapping.  The one exception: an
   insertion met an unlinking in the way that leaves the new mapping linked with a prev
   that leads to the freed one (list.h:42-45 against 64-65); when its turn comes, it is
   freed where it is linked. *)
NatTypeOK ==
  torn \/
  /\ \A s \in Servers : s \in Walk(next[s], {s} \cup Freed) /\ Listed(s) \subseteq Mappings \ Freed
  /\ \A s \in Servers : \A m, n \in Listed(s) : mapping[m].host = mapping[n].host => m = n
  /\ \A s, t \in Servers : s # t => Listed(s) \cap Listed(t) = {}

(* Although ports are taken without the lock under which they are given back, two
   mappings have the same port only while one of them is about to be unlinked, or
   when the pool is used up; and a linked mapping's port is not free
   (free_port_index_get, nat_timeout).  The exception is that of NatTypeOK. *)
PortsUnique ==
  torn \/
  \A m \in Linked \ Leaving : mapping[m].port # 0 =>
    /\ mapping[m].port \in assigned_ports
    /\ \A n \in Linked \ Leaving : mapping[n].port = mapping[m].port => n = m
=============================================================================

------------------------------ MODULE ArpCache ------------------------------
(***************************************************************************)
(* The way of an IP packet through a router of pr6 (much the same in pr4 to  *)
(* pr11): ip.c and icmp.c forward it or answer with an error, arp.c and      *)
(* arpcache.c find the MAC address of the next hop or keep the packet until  *)
(* it is known.                                                            *)
(*                                                                         *)
(* Three threads send packets: the main thread, which handles what arrives;  *)
(* the lsu thread; and the sweeping thread, whose errors are packets too.    *)
(* The look-up of the cache and the append that follows a miss take the lock *)
(* separately, and are steps of their own.  What the cache maps to, and      *)
(* where in the table, is left out, so is the order of packets that wait     *)
(* for one address; there are fewer addresses than places in the table.      *)
(***************************************************************************)
EXTENDS Naturals, FiniteSets

CONSTANTS
  Addresses,    \* IP addresses
  Own,          \* that of the router
  Live,         \* the addresses whose hosts answer
  next_hop,     \* the address on the wire for an address, or NO_ROUTE
  NO_ROUTE,
  Arriving,     \* the packets that arrive: [id, src, dst, ttl, echo]
  Updates,      \* the packets the lsu thread sends
  ARP_REQUEST_MAX_RETRIES

Packets == Arriving \cup Updates

ASSUME ArpAssumption ==
  /\ Own \in Addresses \ Live /\ Live \subseteq Addresses /\ NO_ROUTE \notin Addresses
  /\ next_hop \in [Addresses -> Addresses \cup {NO_ROUTE}] /\ next_hop[Own] = Own
  /\ ARP_REQUEST_MAX_RETRIES \in Nat \ {0}
  /\ Packets \subseteq [id : Nat \ {0}, src : Addresses, dst : Addresses, ttl : Nat, echo : BOOLEAN]
  /\ \A p, q \in Packets : p.id = q.id => p = q

VARIABLES
  coming,       \* the packets that have not been handled yet
  arp_entries,  \* the addresses in the cache
  req_list,     \* the requests: for an address the retries, the age and the packets
  hand,         \* the packet a thread will append, after it missed the cache
  pkt_list,     \* the packets the sweeping thread gave up
  gone          \* the packets put on the wire, or dropped

arpVars == <<coming, arp_entries, req_list, hand, pkt_list, gone>>

Senders == {"main", "lsu", "sweep"}
NOTHING == [id |-> 0]

ArpInit ==
  /\ coming = Packets
  /\ arp_entries = {}
  /\ req_list = <<>>
  /\ hand = [t \in Senders |-> NOTHING]
  /\ pkt_list = {}
  /\ gone = {}

(* icmp_send_packet: the reply to, or the error about, a packet. *)
Answer(p) == [id |-> p.id, src |-> Own, dst |-> p.src, ttl |-> 64, echo |-> FALSE]

(* iface_send_packet_by_arp: look the next hop up. *)
SendByArp(t, p) ==
  IF next_hop[p.dst] \in arp_entries
  THEN gone' = gone \cup {p} /\ UNCHANGED hand
  ELSE hand' = [hand EXCEPT ![t] = p] /\ UNCHANGED gone

(* ip_send_packet, and the end of icmp_send_packet: without a route the packet of
   the router itself is dropped. *)
SendOwn(t, p) ==
  IF next_hop[p.dst] = NO_ROUTE
  THEN gone' = gone \cup {p} /\ UNCHANGED hand
  ELSE SendByArp(t, p)

(* ip_forward_packet: an error when there is no time to live or no route. *)
Forward(p) ==
  IF p.ttl <= 1 \/ next_hop[p.dst] = NO_ROUTE
  THEN SendOwn("main", Answer(p))
  ELSE SendByArp("main", [p EXCEPT !.ttl = @ - 1])

(* A packet for the router is answered or, when it is no echo request, consumed. *)
handle_ip_packet(p) ==
  /\ p \in coming \cap Arriving /\ hand["main"] = NOTHING
  /\ coming' = coming \ {p}
  /\ \/ p.dst # Own /\ Forward(p)
     \/ p.dst = Own /\ p.echo /\ SendOwn("main", Answer(p))
     \/ p.dst = Own /\ ~ p.echo /\ gone' = gone \cup {p} /\ UNCHANGED hand
  /\ UNCHANGED <<arp_entries, req_list, pkt_list>>

(* The lsu thread sends to its neighbour, without a look at the routes. *)
send_update(p) ==
  /\ p \in coming \cap Updates /\ hand["lsu"] = NOTHING
  /\ coming' = coming \ {p}
  /\ SendByArp("lsu", p)
  /\ UNCHANGED <<arp_entries, req_list, pkt_list>>

Pending(ip) == ip \in DOMAIN req_list
NewRequest == [retries |-> 1, young |-> TRUE, packets |-> {}]

(* The first packet for an address makes the request. *)
arpcache_append_packet(t) ==
  LET p == hand[t]
      ip == next_hop[p.dst]
      request == IF Pending(ip) THEN req_list[ip] ELSE NewRequest
  IN
  /\ p # NOTHING
  /\ hand' = [hand EXCEPT ![t] = NOTHING]
  /\ req_list' = [a \in DOMAIN req_list \cup {ip} |->
                    IF a = ip THEN [request EXCEPT !.packets = @ \cup {p}] ELSE req_list[a]]
  /\ UNCHANGED <<coming, arp_entries, pkt_list, gone>>

PacketsOf(ips) == UNION {req_list[a].packets : a \in ips \cap DOMAIN req_list}
Without(ips) == [a \in DOMAIN req_list \ ips |-> req_list[a]]

\* Mutant of Answered: the request stays in the list.
AnsweredNot(ip) == req_list
(* The requests left when one is answered. *)
Answered(ip) == Without({ip})

(* handle_arp_packet: a host asks or answers.  A new entry takes a place at
   random, which may be another's.  The packets that wait for it leave. *)
arpcache_insert(ip) ==
  /\ ip \in Live /\ hand["main"] = NOTHING
  /\ \/ ip \in arp_entries /\ UNCHANGED arp_entries
     \/ ip \notin arp_entries /\ arp_entries' = arp_entries \cup {ip}
     \/ ip \notin arp_entries /\ \E old \in arp_entries : arp_entries' = (arp_entries \ {old}) \cup {ip}
  /\ gone' = gone \cup PacketsOf({ip})
  /\ req_list' = Answered(ip)
  /\ UNCHANGED <<coming, hand, pkt_list>>

(* A request that was sent often enough. *)
GivenUp(request) == ~ request.young /\ request.retries >= ARP_REQUEST_MAX_RETRIES

\* Mutant of Retried: the retries are not counted.
RetriedFree(request) == [request EXCEPT !.young = FALSE]
(* A request made in the last second is left alone, others are sent again. *)
Retried(request) ==
  IF request.young THEN [request EXCEPT !.young = FALSE] ELSE [request EXCEPT !.retries = @ + 1]

(* The part of a sweep that holds the lock.  An entry may be old or not. *)
arpcache_sweep ==
  LET over == {a \in DOMAIN req_list : GivenUp(req_list[a])}
  IN
  /\ hand["sweep"] = NOTHING /\ pkt_list = {}
  /\ \E old \in SUBSET arp_entries : arp_entries' = arp_entries \ old
  /\ pkt_list' = PacketsOf(over)
  /\ req_list' = [a \in DOMAIN Without(over) |-> Retried(req_list[a])]
  /\ UNCHANGED <<coming, hand, gone>>

(* The part after it: the source of a packet given up gets an error. *)
report(p) ==
  /\ p \in pkt_list /\ hand["sweep"] = NOTHING
  /\ pkt_list' = pkt_list \ {p}
  /\ SendOwn("sweep", Answer(p))
  /\ UNCHANGED <<coming, arp_entries, req_list>>

ArpNext ==
  \/ \E p \in Packets : handle_ip_packet(p) \/ send_update(p)
  \/ \E t \in Senders : arpcache_append_packet(t)
  \/ \E ip \in Live : arpcache_insert(ip)
  \/ arpcache_sweep
  \/ \E p \in pkt_list : report(p)

(* The threads of the router run on; nothing is assumed of the hosts. *)
ArpFairness ==
  /\ WF_arpVars(\E p \in Packets : handle_ip_packet(p))
  /\ WF_arpVars(\E p \in Packets : send_update(p))
  /\ \A t \in Senders : WF_arpVars(arpcache_append_packet(t))
  /\ WF_arpVars(arpcache_sweep)
  /\ WF_arpVars(\E p \in pkt_list : report(p))

ArpSpec == ArpInit /\ [][ArpNext]_arpVars /\ ArpFairness
-----------------------------------------------------------------------------
(* What is held, with where, and of that what is a packet or the answer it became. *)
Held ==
  ({"coming"} \X coming) \cup {<<t, hand[t]>> : t \in Senders} \cup
  ({"req_list"} \X PacketsOf(DOMAIN req_list)) \cup
  ({"pkt_list"} \X pkt_list) \cup ({"gone"} \X gone)
Holders(id) == {h \in Held : h[2].id = id}

(* Through look-ups that are stale when the packet is appended, answers and sweeps
   of three threads, a packet is in exactly one place: it is neither lost nor sent
   twice; it waits for the address it is for; and no request is sent more than
   ARP_REQUEST_MAX_RETRIES times (arpcache.c, all of it). *)
PacketsAccounted ==
  /\ \A p \in Packets : Cardinality(Holders(p.id)) = 1
  /\ arp_entries \subseteq Live
  /\ \A a \in DOMAIN req_list :
       /\ req_list[a].retries \in 1 .. ARP_REQUEST_MAX_RETRIES
       /\ req_list[a].packets # {}
       /\ \A p \in req_list[a].packets : next_hop[p.dst] = a

(* The router's answer to one of its own packets: it is for the router itself. *)
ForItself(id) ==
  LET kept == ({hand[t] : t \in Senders} \ {NOTHING}) \cup PacketsOf(Addresses) \cup pkt_list
  IN \E p \in kept : p.id = id /\ p.dst = Own

(* No packet waits for ever for an answer that does not come: in the end each has
   left the router, as itself or as an error, unless it is the router's own and
   cannot be delivered (arpcache_sweep then reports it to the router itself, again
   and again). *)
EveryPacketLeaves ==
  <>(\A p \in Packets : (\E q \in gone : q.id = p.id) \/ ForItself(p.id))
=============================================================================

-------------------------------- MODULE Stp --------------------------------
(***************************************************************************)
(* The spanning tree protocol of pr3: bridges that exchange configuration    *)
(* messages over point-to-point links, as in the topologies of its scripts.  *)
(*                                                                         *)
(* Both handlers, of a packet and of the hello timer, run under stp->lock:   *)
(* each is one step.  A link keeps the order of its packets and loses none.  *)
(* A port is the pair of its bridge and its port_id; an id of a bridge, its   *)
(* MAC address under one priority, is a number.                              *)
(***************************************************************************)
EXTENDS Naturals, Sequences, FiniteSets

CONSTANTS
  Bridges,   \* the switch_ids
  Ports,     \* the ports of all bridges
  Peer,      \* the port at the other end of the link of a port
  MaxHello   \* bound: the number of times the hello timer of a bridge runs out

PortsOf(b) == {p \in Ports : p[1] = b}

ASSUME StpAssumption ==
  /\ IsFiniteSet(Bridges) /\ Bridges \subseteq Nat /\ Bridges # {}
  /\ Ports \subseteq Bridges \X (Nat \ {0})
  /\ Peer \in [Ports -> Ports]
  /\ \A p \in Ports : Peer[Peer[p]] = p /\ Peer[p][1] # p[1]
  /\ MaxHello \in Nat \ {0}

VARIABLES
  designated_root,   \* the root a bridge believes in
  root_path_cost,    \* its distance to that root
  root_port,         \* its port to that root, or NULL
  port,              \* the designated_ fields of a port: the best message of its link
  hello_active,      \* whether hello_timer is active
  channel,           \* the messages on their way to a port
  hellos             \* how often the timer has run out

bridgeVars == <<designated_root, root_path_cost, root_port>>
vars == <<bridgeVars, port, hello_active, channel, hellos>>

NULL == <<0, 0>>
Configs == [root : Bridges, cost : Nat, switch : Bridges, port : Nat]

(* The kinds of the state; and the designated end a port or a message names is
   an end of its own link (stp_port_send_config, stp_handle_config_packet). *)
StpTypeOK ==
  /\ designated_root \in [Bridges -> Bridges]
  /\ root_path_cost \in [Bridges -> Nat]
  /\ root_port \in [Bridges -> Ports \cup {NULL}]
  /\ port \in [Ports -> Configs]
  /\ hello_active \in [Bridges -> BOOLEAN]
  /\ channel \in [Ports -> Seq(Configs)]
  /\ hellos \in [Bridges -> 0 .. MaxHello]
  /\ \A p \in Ports :
       \A m \in {port[p]} \cup {channel[p][i] : i \in 1 .. Len(channel[p])} :
         <<m.switch, m.port>> \in {p, Peer[p]}

Init ==
  /\ designated_root = [b \in Bridges |-> b]
  /\ root_path_cost = [b \in Bridges |-> 0]
  /\ root_port = [b \in Bridges |-> NULL]
  /\ port = [p \in Ports |-> [root |-> p[1], cost |-> 0, switch |-> p[1], port |-> p[2]]]
  /\ hello_active = [b \in Bridges |-> TRUE]
  /\ channel = [p \in Ports |-> <<>>]
  /\ hellos = [b \in Bridges |-> 0]

\* Mutant of Precedes: the bridge is compared before the cost.
PrecedesByBridge(v, w) ==
  \/ v.root < w.root
  \/ /\ v.root = w.root
     /\ \/ v.switch < w.switch
        \/ v.switch = w.switch /\ v.port <= w.port
(* The order of messages: the smaller root, the lower cost, the smaller bridge,
   the smaller port.  Equal messages precede each other. *)
Precedes(v, w) ==
  \/ v.root < w.root
  \/ /\ v.root = w.root
     /\ \/ v.cost < w.cost
        \/ /\ v.cost = w.cost
           /\ \/ v.switch < w.switch
              \/ v.switch = w.switch /\ v.port <= w.port

is_designated(ports, p) == ports[p].switch = p[1] /\ ports[p].port = p[2]

DesignatedPorts(b) == {p \in PortsOf(b) : is_designated(port, p)}

(* The candidate whose message precedes; the loop keeps the last of equals. *)
IsRootPort(ports, candidates, q) ==
  /\ q \in candidates
  /\ \A r \in candidates :
       Precedes(ports[q], ports[r]) /\ (Precedes(ports[r], ports[q]) => r[2] <= q[2])

path_cost == 1
\* Mutant of CostFrom: the link to the root is not counted.
CostFromFree(config) == config.cost
CostFrom(config) == config.cost + path_cost

\* Mutant of NewPort: a port that is not designated never becomes so.
NewPortMeek(ports, p, root, cost) ==
  IF is_designated(ports, p)
  THEN [ports[p] EXCEPT !.root = root, !.cost = cost]
  ELSE ports[p]
(* What a bridge with this root and cost makes of a port of its own. *)
NewPort(ports, p, root, cost) ==
  IF is_designated(ports, p)
  THEN [ports[p] EXCEPT !.root = root, !.cost = cost]
  ELSE IF cost < ports[p].cost
  THEN [root |-> root, cost |-> cost, switch |-> p[1], port |-> p[2]]
  ELSE ports[p]

\* Mutant of Sent: the message names the port of the receiver.
SentFromPeer(chan, from, root, cost) ==
  [q \in Ports |->
     IF Peer[q] \in from
     THEN Append(chan[q], [root |-> root, cost |-> cost, switch |-> Peer[q][1], port |-> q[2]])
     ELSE chan[q]]
(* The messages a bridge with this root and cost sends from the given ports. *)
Sent(chan, from, root, cost) ==
  [q \in Ports |->
     IF Peer[q] \in from
     THEN Append(chan[q], [root |-> root, cost |-> cost,
                           switch |-> Peer[q][1], port |-> Peer[q][2]])
     ELSE chan[q]]

(* stp_port_send_config: a bridge that is not the root and knows no way to it is silent. *)
MaySend(b) == designated_root[b] = b \/ root_port[b] # NULL

(* A message that precedes what the port knows: the port takes it over, the
   bridge chooses its root port, revises its ports and tells the links it is
   designated for. *)
accept_config(p) ==
  LET b == p[1]
      rest == [channel EXCEPT ![p] = Tail(@)]
      heard == [port EXCEPT ![p] = Head(channel[p])]
      candidates == {q \in PortsOf(b) : ~ is_designated(heard, q)}
  IN
  /\ channel[p] # <<>> /\ ~ Precedes(port[p], Head(channel[p]))
  /\ \/ /\ candidates = {}
        /\ designated_root' = [designated_root EXCEPT ![b] = b]
        /\ root_path_cost' = [root_path_cost EXCEPT ![b] = 0]
        /\ UNCHANGED root_port
     \/ \E q \in candidates :
        /\ IsRootPort(heard, candidates, q)
        /\ designated_root' = [designated_root EXCEPT ![b] = heard[q].root]
        /\ root_path_cost' = [root_path_cost EXCEPT ![b] = CostFrom(heard[q])]
        /\ root_port' = [root_port EXCEPT ![b] = q]
  /\ port' = [q \in Ports |->
                IF q[1] = b THEN NewPort(heard, q, designated_root'[b], root_path_cost'[b])
                ELSE heard[q]]
  /\ hello_active' = [hello_active EXCEPT ![b] = @ /\ designated_root'[b] = b]
  /\ channel' = IF MaySend(b)' THEN Sent(rest, DesignatedPorts(b)', designated_root'[b], root_path_cost'[b])
                ELSE rest
  /\ UNCHANGED hellos

(* Any other message is answered through the port it came from. *)
answer_config(p) ==
  LET b == p[1]
      rest == [channel EXCEPT ![p] = Tail(@)]
  IN
  /\ channel[p] # <<>> /\ Precedes(port[p], Head(channel[p]))
  /\ channel' = IF MaySend(b)
                THEN Sent(rest, {p}, designated_root[b], root_path_cost[b])
                ELSE rest
  /\ UNCHANGED <<bridgeVars, port, hello_active, hellos>>

(* The timer runs out, the bridge tells its links, the timer starts again. *)
hello_timeout(b) ==
  /\ hello_active[b] /\ hellos[b] < MaxHello
  /\ hellos' = [hellos EXCEPT ![b] = @ + 1]
  /\ channel' = IF MaySend(b)
                THEN Sent(channel, DesignatedPorts(b), designated_root[b], root_path_cost[b])
                ELSE channel
  /\ UNCHANGED <<bridgeVars, port, hello_active>>

handle_packet(p) == accept_config(p) \/ answer_config(p)

Next ==
  \/ \E p \in Ports : handle_packet(p)
  \/ \E b \in Bridges : hello_timeout(b)

Spec == Init /\ [][Next]_vars

(* A bridge takes its packets off the wire, and the timer thread runs. *)
FairSpec ==
  /\ Spec
  /\ \A p \in Ports : WF_vars(handle_packet(p))
  /\ \A b \in Bridges : WF_vars(hello_timeout(b))
-----------------------------------------------------------------------------
(* Reference definitions: the graph, the ways through it, and the tree the ports
   make. *)

Adjacent(a, b) == \E p \in PortsOf(a) : Peer[p][1] = b

(* From a bridge another is reached over so many links. *)
Way(a, b, links) ==
  \E w \in [0 .. links -> Bridges] :
    w[0] = a /\ w[links] = b /\ \A i \in 1 .. links : Adjacent(w[i - 1], w[i])

Root == CHOOSE b \in Bridges : \A c \in Bridges : b <= c

(* stp_port_state: a port forwards as root port or as designated port. *)
IsRoot(p) == root_port[p[1]] = p
Forwards(p) == IsRoot(p) \/ is_designated(port, p)

(* One root; a shortest way to it from every bridge; and the links that forward
   are those ways, hence a spanning tree. *)
OneTree ==
  /\ \A b \in Bridges : designated_root[b] = Root
  /\ \A b \in Bridges \ {Root} :
       \E p \in PortsOf(b) : IsRoot(p) /\ root_path_cost[b] = root_path_cost[Peer[p][1]] + 1
  /\ \A p \in Ports : /\ root_path_cost[p[1]] <= root_path_cost[Peer[p][1]] + 1
                      /\ Forwards(p) /\ Forwards(Peer[p]) <=> IsRoot(p) \/ IsRoot(Peer[p])
  /\ root_path_cost[Root] = 0
-----------------------------------------------------------------------------
(* Whatever a bridge believes, a port has stored or a message says of a root is
   true of the graph: there is a way to the root over as many links as the cost
   claims, so that no cost goes stale below the distance
   (stp_handle_config_packet). *)
CostsAreReal ==
  /\ \A b \in Bridges : Way(b, designated_root[b], root_path_cost[b])
  /\ \A p \in Ports : Way(port[p].switch, port[p].root, port[p].cost)
  /\ \A p \in Ports : \A i \in 1 .. Len(channel[p]) :
       LET m == channel[p][i] IN Way(m.switch, m.root, m.cost)

(* A bridge never changes to a larger root or a longer way to the same root, and
   what a port knows never gets worse: the protocol cannot oscillate, in whatever
   order messages arrive (cmp_with_incoming_config and the choice of the root port). *)
OnlyImproves ==
  [][/\ \A b \in Bridges :
          \/ designated_root'[b] < designated_root[b]
          \/ /\ designated_root'[b] = designated_root[b]
             /\ root_path_cost'[b] <= root_path_cost[b]
     /\ \A p \in Ports : Precedes(port'[p], port[p])]_vars

(* The bridges agree: from some time on the bridge of the smallest id is the root
   of all, costs are distances, and the links that forward are a spanning tree:
   neither a loop nor a bridge cut off is left (stp_handle_config_packet with
   stp_port_state). *)
AgreeOnOneTree == <>[]OneTree
=============================================================================

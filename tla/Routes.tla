------------------------------- MODULE Routes -------------------------------
(***************************************************************************)
(* The route computation of pr6 (mospf_daemon.c): rtable_update with          *)
(* initial_graph, set_visited and nbr_update, in a network at rest, where     *)
(* every router knows its neighbours and has the LSA of every router it is    *)
(* joined to, as Mospf.FloodReachesAll says.                                  *)
(*                                                                         *)
(* A subnet is the set of the routers on it: two at the ends of a link, one    *)
(* on a network of hosts.  A gateway is the router that has its address.      *)
(***************************************************************************)
EXTENDS Integers, Sequences, FiniteSets

CONSTANT Nodes   \* the router_ids; also the order of the interfaces to them
ASSUME RoutesAssumption == Nodes \subseteq Nat \ {0} /\ IsFiniteSet(Nodes)

VARIABLES
  network,   \* the subnets of the network, and whether hosts are on the first interface
  rtable     \* the routing table of each router: a gateway, or 0, for subnets

routesVars == <<network, rtable>>

LinkSubnets == {s \in SUBSET Nodes : Cardinality(s) = 2}
HostSubnets == {{r} : r \in Nodes}

RoutesInit ==
  /\ network \in [subnets : {HostSubnets \cup l : l \in SUBSET LinkSubnets}, hosts_first : BOOLEAN]
  /\ rtable = [r \in Nodes |-> <<>>]

Beyond(r) == {b \in Nodes \ {r} : {r, b} \in network.subnets}

(* The routers of a set in increasing order, as the interfaces to them are. *)
InOrder(set) ==
  CHOOSE list \in [1 .. Cardinality(set) -> set] :
    \A i, j \in DOMAIN list : i < j => list[i] < list[j]

(* The LSA of a router: for each of its interfaces the subnet and the rid of the
   neighbour on it, 0 where hosts are. *)
array(r) ==
  LET nbrs == InOrder(Beyond(r))
      linked == [i \in 1 .. Len(nbrs) |-> [subnet |-> {r, nbrs[i]}, rid |-> nbrs[i]]]
      hosts == <<[subnet |-> {r}, rid |-> 0]>>
  IN IF network.hosts_first THEN hosts \o linked ELSE linked \o hosts

(* The routers that at most so many links join to one of a set. *)
Within(set) ==
  LET within[k \in 0 .. Cardinality(Nodes)] ==
        IF k = 0 THEN set ELSE within[k - 1] \cup UNION {Beyond(a) : a \in within[k - 1]}
  IN within
JoinedTo(r) == Within({r})[Cardinality(Nodes)]

Database(r) == JoinedTo(r) \ {r}
rt_count(r) == Cardinality(Database(r))

FREE == -1
FAR == 65535
(* The neighbours of r in the first places, the others free. *)
initial_graph(r) ==
  LET nbrs == InOrder(Beyond(r)) IN
  [j \in 1 .. rt_count(r) |->
     IF j <= Len(nbrs)
     THEN [rid |-> nbrs[j], dist |-> 1, gw |-> nbrs[j], visited |-> FALSE]
     ELSE [rid |-> FREE, dist |-> FAR, gw |-> 0, visited |-> FALSE]]

(* The first of the nearest places that were not visited. *)
Nearest(nodes) ==
  LET open == {j \in DOMAIN nodes : ~ nodes[j].visited}
  IN CHOOSE j \in open : \A k \in open :
       nodes[j].dist < nodes[k].dist \/ (nodes[j].dist = nodes[k].dist /\ j <= k)

(* The subnets of the visited router that are not in the table. *)
set_visited(table, visited) ==
  LET new == {array(visited.rid)[i].subnet : i \in DOMAIN array(visited.rid)} \ DOMAIN table
  IN [s \in DOMAIN table \cup new |-> IF s \in DOMAIN table THEN table[s] ELSE visited.gw]

\* Mutant of place: it takes its own places however near they are.
placeAnyway(nodes, rid, visited) ==
  LET via == [visited EXCEPT !.rid = rid, !.dist = @ + 1]
  IN [j \in DOMAIN nodes |->
        IF nodes[j].rid \in {rid, FREE} THEN [via EXCEPT !.visited = nodes[j].visited] ELSE nodes[j]]
(* One neighbour of the visited router: it takes every free place and betters its
   own ones, up to the first place it has that is not farther. *)
place(nodes, rid, visited) ==
  LET via == [visited EXCEPT !.rid = rid, !.dist = @ + 1]
      good == {j \in DOMAIN nodes : nodes[j].rid = rid /\ nodes[j].dist <= via.dist}
  IN [j \in DOMAIN nodes |->
        IF nodes[j].rid \in {rid, FREE} /\ \A k \in good : j < k
        THEN [via EXCEPT !.visited = nodes[j].visited] ELSE nodes[j]]
nbr_update(r, nodes, visited) ==
  LET lsas == array(visited.rid)
      graph[i \in 0 .. Len(lsas)] ==
        IF i = 0 THEN nodes
        ELSE IF lsas[i].rid = r THEN graph[i - 1] ELSE place(graph[i - 1], lsas[i].rid, visited)
  IN graph[Len(lsas)]

Attached(r) == [s \in {t \in network.subnets : r \in t} |-> 0]

(* The nearest place is visited, and nothing done for a place without a router. *)
visit(r, graph) ==
  LET index == Nearest(graph.nodes)
      node == graph.nodes[index]
      nodes == [graph.nodes EXCEPT ![index].visited = TRUE]
  IN IF node.rid \notin Database(r) THEN [graph EXCEPT !.nodes = nodes]
     ELSE [nodes |-> nbr_update(r, nodes, node), table |-> set_visited(graph.table, node)]

(* rtable_update: the attached subnets, then each place in turn is visited. *)
Computed(r) ==
  LET graph[i \in 0 .. rt_count(r)] ==
        IF i = 0 THEN [nodes |-> initial_graph(r), table |-> Attached(r)]
        ELSE visit(r, graph[i - 1])
  IN graph[rt_count(r)].table

rtable_update(r) ==
  /\ rtable' = [rtable EXCEPT ![r] = Computed(r)]
  /\ UNCHANGED network

RoutesNext == \E r \in Nodes : rtable_update(r)
RoutesSpec == RoutesInit /\ [][RoutesNext]_routesVars
-----------------------------------------------------------------------------
(* Reference definition: the links on the way from a router to a subnet, or -1. *)
Hops(r, subnet) ==
  LET enough == {k \in 0 .. Cardinality(Nodes) : r \in Within(subnet)[k]}
  IN IF enough = {} THEN -1 ELSE CHOOSE k \in enough : \A m \in enough : k <= m

(* A route leads to a neighbour that is one link nearer to the subnet, so that
   packets follow shortest ways and never go in circles (set_visited, nbr_update). *)
RoutesGetNearer ==
  \A r \in Nodes : \A s \in DOMAIN rtable[r] :
    LET gw == rtable[r][s] IN
    IF gw = 0 THEN r \in s
    ELSE gw \in Beyond(r) /\ Hops(gw, s) = Hops(r, s) - 1

(* "The neighbour of the visited router has no graph_node: make one"
   (mospf_daemon.c:57): so every subnet that can be reached gets a route. *)
EverySubnetHasARoute ==
  \A r \in Nodes : rtable[r] # <<>> =>
    \A s \in network.subnets : Hops(r, s) >= 0 => s \in DOMAIN rtable[r]
=============================================================================

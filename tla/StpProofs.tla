------------------------------ MODULE StpProofs ------------------------------
(***************************************************************************)
(* The spanning tree protocol, for every number of bridges and every net of   *)
(* links between two ports: what bridges believe and tell is true of the        *)
(* graph, and what they know only improves.                                   *)
(***************************************************************************)
EXTENDS Stp, SequenceTheorems, TLAPS

(***************************************************************************)
(* The order of messages is total and transitive.                            *)
(***************************************************************************)
LEMMA PrecedesIsOrder ==
  ASSUME NEW u \in Configs, NEW v \in Configs, NEW w \in Configs
  PROVE  /\ Precedes(u, u)
         /\ Precedes(u, v) \/ Precedes(v, u)
         /\ Precedes(u, v) /\ Precedes(v, w) => Precedes(u, w)
<1>1. /\ u.root \in Nat /\ u.cost \in Nat /\ u.switch \in Nat /\ u.port \in Nat
      /\ v.root \in Nat /\ v.cost \in Nat /\ v.switch \in Nat /\ v.port \in Nat
      /\ w.root \in Nat /\ w.cost \in Nat /\ w.switch \in Nat /\ w.port \in Nat
  BY StpAssumption DEF Configs
<1>2. Precedes(u, u) /\ (Precedes(u, v) \/ Precedes(v, u)) BY <1>1 DEF Precedes
<1>3. Precedes(u, v) /\ Precedes(v, w) => Precedes(u, w) BY <1>1 DEF Precedes
<1> QED BY <1>2, <1>3

(***************************************************************************)
(* A way to a neighbour's root leads there over the neighbour.               *)
(***************************************************************************)
LEMMA WayOverNeighbour ==
  ASSUME NEW a \in Bridges, NEW b \in Bridges, NEW c \in Bridges, NEW links \in Nat,
         Adjacent(a, b), Way(b, c, links)
  PROVE  Way(a, c, links + 1)
<1>1. PICK w \in [0 .. links -> Bridges] :
        w[0] = b /\ w[links] = c /\ \A i \in 1 .. links : Adjacent(w[i - 1], w[i])
  BY DEF Way
<1> DEFINE v == [i \in 0 .. links + 1 |-> IF i = 0 THEN a ELSE w[i - 1]]
<1>2. v \in [0 .. links + 1 -> Bridges]
  <2>1. \A i \in 0 .. links + 1 : i = 0 \/ i - 1 \in 0 .. links OBVIOUS
  <2> QED BY <2>1
<1>3. v[0] = a /\ v[links + 1] = c BY <1>1
<1>4. ASSUME NEW i \in 1 .. links + 1 PROVE Adjacent(v[i - 1], v[i])
  <2>1. CASE i = 1
    <3>1. v[i - 1] = a /\ v[i] = b BY <2>1, <1>1
    <3> QED BY <3>1
  <2>2. CASE i # 1
    <3>1. /\ i - 1 \in 1 .. links /\ v[i - 1] = w[(i - 1) - 1] /\ v[i] = w[i - 1]
      BY <2>2
    <3> QED BY <3>1, <1>1
  <2> QED BY <2>1, <2>2
<1> HIDE DEF v
<1> QED BY <1>2, <1>3, <1>4 DEF Way

LEMMA NoWay ==
  ASSUME NEW b \in Bridges
  PROVE  Way(b, b, 0)
<1> DEFINE w == [i \in 0 .. 0 |-> b]
<1>1. w \in [0 .. 0 -> Bridges] /\ w[0] = b OBVIOUS
<1>2. \A i \in 1 .. 0 : FALSE OBVIOUS
<1> HIDE DEF w
<1> QED BY <1>1, <1>2 DEF Way

LEMMA PortsAre ==
  ASSUME NEW p \in Ports
  PROVE  /\ p[1] \in Bridges /\ p[2] \in Nat \ {0} /\ p = <<p[1], p[2]>>
         /\ Peer[p] \in Ports /\ Peer[Peer[p]] = p /\ Peer[p][1] # p[1]
         /\ Adjacent(p[1], Peer[p][1]) /\ NULL \notin Ports
<1>1. /\ p[1] \in Bridges /\ p[2] \in Nat \ {0} /\ p = <<p[1], p[2]>>
      /\ Peer[p] \in Ports /\ Peer[Peer[p]] = p /\ Peer[p][1] # p[1] /\ NULL \notin Ports
  BY StpAssumption DEF NULL
<1> QED BY <1>1 DEF Adjacent, PortsOf

-----------------------------------------------------------------------------
(***************************************************************************)
(* The inductive invariant.  What a message or a port says is true of the       *)
(* graph and says of its end of the link; a designated port says what its       *)
(* bridge believes; and a bridge is its own root and designated everywhere, or   *)
(* has its root and cost from the best of the ports it is not designated for.   *)
(***************************************************************************)
Claim(m) ==
  /\ m.cost = 0 => m.root = m.switch
  /\ Way(m.switch, m.root, m.cost)

Believes(b) ==
  /\ root_path_cost[b] = 0 => designated_root[b] = b
  /\ Way(b, designated_root[b], root_path_cost[b])

Typed ==
  /\ designated_root \in [Bridges -> Bridges]
  /\ root_path_cost \in [Bridges -> Nat]
  /\ root_port \in [Bridges -> Ports \cup {NULL}]
  /\ port \in [Ports -> Configs]
  /\ hello_active \in [Bridges -> BOOLEAN]
  /\ channel \in [Ports -> Seq(Configs)]
  /\ hellos \in [Bridges -> 0 .. MaxHello]

PortsTrue ==
  \A p \in Ports : Claim(port[p]) /\ <<port[p].switch, port[p].port>> \in {p, Peer[p]}

MessagesTrue ==
  \A p \in Ports : \A i \in 1 .. Len(channel[p]) :
    Claim(channel[p][i]) /\ <<channel[p][i].switch, channel[p][i].port>> = Peer[p]

DesignatedKnow ==
  \A p \in Ports : is_designated(port, p) =>
    port[p].root = designated_root[p[1]] /\ port[p].cost = root_path_cost[p[1]]

RootPortBest ==
  \A b \in Bridges :
    \/ /\ root_port[b] = NULL /\ designated_root[b] = b /\ root_path_cost[b] = 0
       /\ \A p \in PortsOf(b) : is_designated(port, p)
    \/ /\ root_port[b] \in PortsOf(b) /\ ~ is_designated(port, root_port[b])
       /\ designated_root[b] = port[root_port[b]].root
       /\ root_path_cost[b] = port[root_port[b]].cost + 1
       /\ \A p \in PortsOf(b) : ~ is_designated(port, p) => Precedes(port[root_port[b]], port[p])

StpInv ==
  /\ Typed
  /\ \A b \in Bridges : Believes(b)
  /\ PortsTrue /\ MessagesTrue
  /\ DesignatedKnow /\ RootPortBest

LEMMA StpInitInvariant == Init => StpInv
<1> SUFFICES ASSUME Init PROVE StpInv
  OBVIOUS
<1>1. Typed
  <2>1. channel \in [Ports -> Seq(Configs)] BY DEF Init
  <2>2. port \in [Ports -> Configs] BY PortsAre DEF Init, Configs
  <2>3. hellos \in [Bridges -> 0 .. MaxHello] BY StpAssumption DEF Init
  <2> QED BY <2>1, <2>2, <2>3 DEF Init, Typed
<1>2. ASSUME NEW b \in Bridges PROVE Believes(b)
  BY NoWay DEF Init, Believes
<1>3. ASSUME NEW p \in Ports
      PROVE  /\ port[p].root = p[1] /\ port[p].cost = 0 /\ port[p].switch = p[1] /\ port[p].port = p[2]
             /\ channel[p] = <<>> /\ designated_root[p[1]] = p[1] /\ root_path_cost[p[1]] = 0
  BY PortsAre DEF Init
<1>4. PortsTrue BY <1>3, PortsAre, NoWay DEF PortsTrue, Claim
<1>5. MessagesTrue BY <1>3 DEF MessagesTrue
<1>6. DesignatedKnow BY <1>3 DEF DesignatedKnow
<1>7. RootPortBest BY <1>3 DEF RootPortBest, Init, PortsOf, is_designated
<1> QED BY <1>1, <1>2, <1>4, <1>5, <1>6, <1>7 DEF StpInv

(***************************************************************************)
(* The channels after a message was taken, and after others were sent.        *)
(***************************************************************************)
LEMMA TakenIs ==
  ASSUME NEW chan \in [Ports -> Seq(Configs)], NEW p \in Ports, chan[p] # <<>>
  PROVE  /\ Head(chan[p]) = chan[p][1] /\ 1 \in 1 .. Len(chan[p])
         /\ [chan EXCEPT ![p] = Tail(@)] \in [Ports -> Seq(Configs)]
         /\ \A q \in Ports : \A i \in 1 .. Len([chan EXCEPT ![p] = Tail(@)][q]) :
              \E j \in 1 .. Len(chan[q]) : [chan EXCEPT ![p] = Tail(@)][q][i] = chan[q][j]
<1> DEFINE list == chan[p]
           rest == [chan EXCEPT ![p] = Tail(@)]
<1>1. list \in Seq(Configs) OBVIOUS
<1> HIDE DEF list
<1>2. /\ Head(list) = list[1] /\ Tail(list) \in Seq(Configs)
      /\ Len(list) \in Nat \ {0} /\ Len(Tail(list)) = Len(list) - 1
      /\ \A i \in 1 .. Len(Tail(list)) : Tail(list)[i] = list[i + 1]
  BY <1>1, HeadTailProperties, LenProperties, EmptySeq DEF list
<1>3. /\ rest \in [Ports -> Seq(Configs)] /\ rest[p] = Tail(list)
      /\ \A q \in Ports : q # p => rest[q] = chan[q]
  BY <1>2 DEF list
<1> HIDE DEF rest
<1>4. ASSUME NEW q \in Ports, NEW i \in 1 .. Len(rest[q])
      PROVE  \E j \in 1 .. Len(chan[q]) : rest[q][i] = chan[q][j]
  <2>1. CASE q = p
    <3>1. rest[q] = Tail(list) BY <2>1, <1>3
    <3>2. i + 1 \in 1 .. Len(list) /\ rest[q][i] = list[i + 1] BY <3>1, <1>2
    <3> QED BY <3>2, <2>1 DEF list
  <2>2. CASE q # p BY <2>2, <1>3
  <2> QED BY <2>1, <2>2
<1> QED BY <1>2, <1>3, <1>4 DEF list, rest

HoldsSent(next, chan, from, root, cost) ==
  /\ next \in [Ports -> Seq(Configs)]
  /\ \A q \in Ports : \A i \in 1 .. Len(next[q]) :
       \/ \E j \in 1 .. Len(chan[q]) : next[q][i] = chan[q][j]
       \/ /\ Peer[q] \in from
          /\ next[q][i] = [root |-> root, cost |-> cost, switch |-> Peer[q][1], port |-> Peer[q][2]]

LEMMA SentIs ==
  ASSUME NEW chan \in [Ports -> Seq(Configs)], NEW from, NEW root \in Bridges, NEW cost \in Nat
  PROVE  HoldsSent(Sent(chan, from, root, cost), chan, from, root, cost)
<1> DEFINE next == Sent(chan, from, root, cost)
<1>1. ASSUME NEW q \in Ports
      PROVE  /\ next[q] \in Seq(Configs)
             /\ \A i \in 1 .. Len(next[q]) :
                  \/ \E j \in 1 .. Len(chan[q]) : next[q][i] = chan[q][j]
                  \/ /\ Peer[q] \in from
                     /\ next[q][i] = [root |-> root, cost |-> cost, switch |-> Peer[q][1], port |-> Peer[q][2]]
  <2> DEFINE list == chan[q]
             m == [root |-> root, cost |-> cost, switch |-> Peer[q][1], port |-> Peer[q][2]]
  <2>1. list \in Seq(Configs) /\ m \in Configs BY PortsAre DEF Configs
  <2>2. next[q] = IF Peer[q] \in from THEN Append(list, m) ELSE list BY DEF Sent
  <2> HIDE DEF list, m, next
  <2>3. /\ Append(list, m) \in Seq(Configs) /\ Len(Append(list, m)) = Len(list) + 1 /\ Len(list) \in Nat
        /\ \A i \in 1 .. Len(list) : Append(list, m)[i] = list[i]
        /\ Append(list, m)[Len(list) + 1] = m
    BY <2>1, AppendProperties, LenProperties
  <2>4. \A i \in 1 .. Len(list) + 1 : i \in 1 .. Len(list) \/ i = Len(list) + 1 BY <2>3
  <2>5. CASE Peer[q] \in from BY <2>2, <2>3, <2>4, <2>5 DEF list, m
  <2>6. CASE Peer[q] \notin from BY <2>1, <2>2, <2>6 DEF list
  <2> QED BY <2>5, <2>6
<1>2. next = [q \in Ports |-> next[q]] BY DEF Sent
<1> HIDE DEF next
<1>3. next \in [Ports -> Seq(Configs)] BY <1>1, <1>2
<1>4. HoldsSent(next, chan, from, root, cost) BY <1>1, <1>3 DEF HoldsSent
<1> QED BY <1>4 DEF next

(***************************************************************************)
(* What a bridge tells is true when it believes it.                          *)
(***************************************************************************)
ChannelTrue(chan) ==
  /\ chan \in [Ports -> Seq(Configs)]
  /\ \A p \in Ports : \A i \in 1 .. Len(chan[p]) :
       Claim(chan[p][i]) /\ <<chan[p][i].switch, chan[p][i].port>> = Peer[p]

LEMMA TakenIsTrue ==
  ASSUME NEW chan, ChannelTrue(chan), NEW p \in Ports, chan[p] # <<>>
  PROVE  /\ ChannelTrue([chan EXCEPT ![p] = Tail(@)])
         /\ Head(chan[p]) \in Configs /\ Claim(Head(chan[p]))
         /\ <<Head(chan[p]).switch, Head(chan[p]).port>> = Peer[p]
<1> DEFINE rest == [chan EXCEPT ![p] = Tail(@)]
<1>1. /\ Head(chan[p]) = chan[p][1] /\ 1 \in 1 .. Len(chan[p])
      /\ rest \in [Ports -> Seq(Configs)]
      /\ \A q \in Ports : \A i \in 1 .. Len(rest[q]) : \E j \in 1 .. Len(chan[q]) : rest[q][i] = chan[q][j]
  BY TakenIs DEF ChannelTrue
<1> HIDE DEF rest
<1>2. ChannelTrue(rest)
  <2>1. ASSUME NEW q \in Ports, NEW i \in 1 .. Len(rest[q])
        PROVE  Claim(rest[q][i]) /\ <<rest[q][i].switch, rest[q][i].port>> = Peer[q]
    <3>1. PICK j \in 1 .. Len(chan[q]) : rest[q][i] = chan[q][j] BY <1>1
    <3> QED BY <3>1 DEF ChannelTrue
  <2> QED BY <2>1, <1>1 DEF ChannelTrue
<1>3. chan[p] \in Seq(Configs) BY DEF ChannelTrue
<1>4. Head(chan[p]) \in Configs BY <1>1, <1>3, ElementOfSeq
<1>5. Claim(Head(chan[p])) /\ <<Head(chan[p]).switch, Head(chan[p]).port>> = Peer[p]
  BY <1>1 DEF ChannelTrue
<1> QED BY <1>2, <1>4, <1>5 DEF rest

LEMMA SentIsTrue ==
  ASSUME NEW chan, ChannelTrue(chan), NEW b \in Bridges, NEW from \in SUBSET PortsOf(b),
         NEW root \in Bridges, NEW cost \in Nat, cost = 0 => root = b, Way(b, root, cost)
  PROVE  ChannelTrue(Sent(chan, from, root, cost))
<1> DEFINE next == Sent(chan, from, root, cost)
<1>1. /\ next \in [Ports -> Seq(Configs)]
      /\ \A q \in Ports : \A i \in 1 .. Len(next[q]) :
           \/ \E j \in 1 .. Len(chan[q]) : next[q][i] = chan[q][j]
           \/ /\ Peer[q] \in from
              /\ next[q][i] = [root |-> root, cost |-> cost, switch |-> Peer[q][1], port |-> Peer[q][2]]
  <2>1. chan \in [Ports -> Seq(Configs)] BY DEF ChannelTrue
  <2>2. HoldsSent(next, chan, from, root, cost) BY <2>1, SentIs
  <2> HIDE DEF next
  <2> QED BY <2>2 DEF HoldsSent
<1> HIDE DEF next
<1>2. ASSUME NEW q \in Ports, NEW i \in 1 .. Len(next[q])
      PROVE  Claim(next[q][i]) /\ <<next[q][i].switch, next[q][i].port>> = Peer[q]
  <2>1. CASE \E j \in 1 .. Len(chan[q]) : next[q][i] = chan[q][j]
    BY <2>1 DEF ChannelTrue
  <2>2. CASE /\ Peer[q] \in from
             /\ next[q][i] = [root |-> root, cost |-> cost, switch |-> Peer[q][1], port |-> Peer[q][2]]
    <3>1. Peer[q][1] = b /\ Peer[q] = <<Peer[q][1], Peer[q][2]>> BY <2>2, PortsAre DEF PortsOf
    <3>2. /\ next[q][i].root = root /\ next[q][i].cost = cost
          /\ next[q][i].switch = b /\ next[q][i].port = Peer[q][2]
      BY <2>2, <3>1
    <3> QED BY <3>1, <3>2 DEF Claim
  <2> QED BY <2>1, <2>2, <1>1
<1> QED BY <1>1, <1>2 DEF ChannelTrue, next

LEMMA ChannelIsTrue == Typed /\ MessagesTrue <=> Typed /\ ChannelTrue(channel)
BY DEF Typed, MessagesTrue, ChannelTrue

(***************************************************************************)
(* A bridge that may send believes what it sends.                            *)
(***************************************************************************)
LEMMA TellIsTrue ==
  ASSUME Typed, NEW chan, ChannelTrue(chan), NEW b \in Bridges, Believes(b), NEW from \in SUBSET PortsOf(b)
  PROVE  ChannelTrue(Sent(chan, from, designated_root[b], root_path_cost[b]))
<1>1. designated_root[b] \in Bridges /\ root_path_cost[b] \in Nat BY DEF Typed
<1> QED BY <1>1, SentIsTrue DEF Believes

LEMMA AnswerStep ==
  ASSUME StpInv, NEW p \in Ports, answer_config(p)
  PROVE  StpInv' /\ UNCHANGED <<bridgeVars, port>>
<1> DEFINE b == p[1]
           rest == [channel EXCEPT ![p] = Tail(@)]
<1>1. /\ channel[p] # <<>>
      /\ channel' = IF MaySend(b) THEN Sent(rest, {p}, designated_root[b], root_path_cost[b]) ELSE rest
      /\ UNCHANGED <<designated_root, root_path_cost, root_port, port, hello_active, hellos>>
  BY DEF answer_config, bridgeVars
<1>2. b \in Bridges /\ {p} \in SUBSET PortsOf(b) BY PortsAre DEF PortsOf
<1>3. ChannelTrue(rest) BY <1>1, TakenIsTrue, ChannelIsTrue DEF StpInv
<1> HIDE DEF rest
<1>4. ChannelTrue(channel') BY <1>1, <1>2, <1>3, TellIsTrue DEF StpInv
<1>5. Typed' BY <1>1, <1>4 DEF StpInv, Typed, ChannelTrue
<1>6. MessagesTrue' BY <1>4 DEF ChannelTrue, MessagesTrue
<1>7. \A c \in Bridges : Believes(c)' BY <1>1 DEF StpInv, Believes
<1>8. PortsTrue' BY <1>1 DEF StpInv, PortsTrue
<1>9. DesignatedKnow' BY <1>1 DEF StpInv, DesignatedKnow, is_designated
<1>10. RootPortBest' BY <1>1 DEF StpInv, RootPortBest, is_designated
<1> QED BY <1>1, <1>5, <1>6, <1>7, <1>8, <1>9, <1>10 DEF StpInv, bridgeVars

LEMMA HelloStep ==
  ASSUME StpInv, NEW b \in Bridges, hello_timeout(b)
  PROVE  StpInv' /\ UNCHANGED <<bridgeVars, port>>
<1>1. /\ hellos' = [hellos EXCEPT ![b] = @ + 1] /\ hellos[b] < MaxHello
      /\ channel' = IF MaySend(b)
                    THEN Sent(channel, DesignatedPorts(b), designated_root[b], root_path_cost[b])
                    ELSE channel
      /\ UNCHANGED <<designated_root, root_path_cost, root_port, port, hello_active>>
  BY DEF hello_timeout, bridgeVars
<1>2. DesignatedPorts(b) \in SUBSET PortsOf(b) BY DEF DesignatedPorts
<1>3. ChannelTrue(channel) BY ChannelIsTrue DEF StpInv
<1>4. ChannelTrue(channel') BY <1>1, <1>2, <1>3, TellIsTrue DEF StpInv
<1>5. hellos' \in [Bridges -> 0 .. MaxHello]
  BY <1>1, StpAssumption DEF StpInv, Typed
<1>6. Typed' BY <1>1, <1>4, <1>5 DEF StpInv, Typed, ChannelTrue
<1>7. MessagesTrue' BY <1>4 DEF ChannelTrue, MessagesTrue
<1>8. \A c \in Bridges : Believes(c)' BY <1>1 DEF StpInv, Believes
<1>9. PortsTrue' BY <1>1 DEF StpInv, PortsTrue
<1>10. DesignatedKnow' BY <1>1 DEF StpInv, DesignatedKnow, is_designated
<1>11. RootPortBest' BY <1>1 DEF StpInv, RootPortBest, is_designated
<1> QED BY <1>1, <1>6, <1>7, <1>8, <1>9, <1>10, <1>11 DEF StpInv, bridgeVars

(***************************************************************************)
(* A port heard something better.  It is no longer designated, and the best    *)
(* of such ports, q, says no less than what the bridge believed.              *)
(***************************************************************************)
Heard(p) == [port EXCEPT ![p] = Head(channel[p])]
Candidates(p) == {q \in PortsOf(p[1]) : ~ is_designated(Heard(p), q)}

LEMMA HeardIs ==
  ASSUME StpInv, NEW p \in Ports, channel[p] # <<>>, ~ Precedes(port[p], Head(channel[p]))
  PROVE  /\ Heard(p) \in [Ports -> Configs] /\ p \in Candidates(p)
         /\ \A r \in Ports : Claim(Heard(p)[r]) /\ <<Heard(p)[r].switch, Heard(p)[r].port>> \in {r, Peer[r]}
         /\ \A r \in Ports : r # p => Heard(p)[r] = port[r]
         /\ \A r \in Ports : Precedes(Heard(p)[r], port[r])
         /\ Heard(p)[p] = Head(channel[p])
<1>1. /\ Head(channel[p]) \in Configs /\ Claim(Head(channel[p]))
      /\ <<Head(channel[p]).switch, Head(channel[p]).port>> = Peer[p]
  BY TakenIsTrue, ChannelIsTrue DEF StpInv
<1>2. /\ Heard(p) \in [Ports -> Configs] /\ Heard(p)[p] = Head(channel[p])
      /\ \A r \in Ports : r # p => Heard(p)[r] = port[r]
  BY <1>1 DEF StpInv, Typed, Heard
<1>3. ASSUME NEW r \in Ports
      PROVE  /\ Claim(Heard(p)[r]) /\ <<Heard(p)[r].switch, Heard(p)[r].port>> \in {r, Peer[r]}
             /\ Precedes(Heard(p)[r], port[r])
  <2>1. port[r] \in Configs BY DEF StpInv, Typed
  <2>2. CASE r = p BY <2>1, <2>2, <1>1, <1>2, PrecedesIsOrder
  <2>3. CASE r # p BY <2>1, <2>3, <1>2, PrecedesIsOrder DEF StpInv, PortsTrue
  <2> QED BY <2>2, <2>3
<1>4. p \in Candidates(p)
  <2>1. Heard(p)[p].switch = Peer[p][1] BY <1>1, <1>2
  <2> QED BY <2>1, PortsAre DEF Candidates, is_designated, PortsOf
<1> QED BY <1>2, <1>3, <1>4

LEMMA CandidateIs ==
  ASSUME StpInv, NEW p \in Ports, channel[p] # <<>>, ~ Precedes(port[p], Head(channel[p])),
         NEW q \in Candidates(p)
  PROVE  /\ q \in Ports /\ q[1] = p[1]
         /\ Heard(p)[q].switch = Peer[q][1] /\ Way(p[1], Heard(p)[q].root, Heard(p)[q].cost + 1)
         /\ ~ is_designated(Heard(p), q)
<1>1. q \in Ports /\ q[1] = p[1] /\ ~ is_designated(Heard(p), q) BY DEF Candidates, PortsOf
<1>2. /\ <<Heard(p)[q].switch, Heard(p)[q].port>> \in {q, Peer[q]} /\ Claim(Heard(p)[q])
      /\ Heard(p)[q] \in Configs
  BY <1>1, HeardIs
<1>3. <<Heard(p)[q].switch, Heard(p)[q].port>> # <<q[1], q[2]>> BY <1>1 DEF is_designated
<1>4. Heard(p)[q].switch = Peer[q][1] BY <1>1, <1>2, <1>3, PortsAre
<1>5. Adjacent(q[1], Peer[q][1]) /\ q[1] \in Bridges /\ Peer[q][1] \in Bridges BY <1>1, PortsAre
<1>6. Way(Peer[q][1], Heard(p)[q].root, Heard(p)[q].cost) BY <1>2, <1>4 DEF Claim
<1>7. Heard(p)[q].root \in Bridges /\ Heard(p)[q].cost \in Nat BY <1>2 DEF Configs
<1>8. Way(q[1], Heard(p)[q].root, Heard(p)[q].cost + 1)
  BY <1>5, <1>6, <1>7, WayOverNeighbour
<1> QED BY <1>1, <1>4, <1>8

(* The step, with the port the bridge chose. *)
Chosen(p, q) ==
  /\ q \in Candidates(p) /\ IsRootPort(Heard(p), Candidates(p), q)
  /\ designated_root' = [designated_root EXCEPT ![p[1]] = Heard(p)[q].root]
  /\ root_path_cost' = [root_path_cost EXCEPT ![p[1]] = Heard(p)[q].cost + 1]
  /\ root_port' = [root_port EXCEPT ![p[1]] = q]
  /\ port' = [r \in Ports |-> IF r[1] = p[1]
                              THEN NewPort(Heard(p), r, Heard(p)[q].root, Heard(p)[q].cost + 1)
                              ELSE Heard(p)[r]]

LEMMA AcceptIs ==
  ASSUME StpInv, NEW p \in Ports, accept_config(p)
  PROVE  /\ channel[p] # <<>> /\ ~ Precedes(port[p], Head(channel[p]))
         /\ \E q \in Candidates(p) : Chosen(p, q)
<1>1. channel[p] # <<>> /\ ~ Precedes(port[p], Head(channel[p])) BY DEF accept_config
<1>2. p \in Candidates(p) BY <1>1, HeardIs
<1>3. PICK q \in Candidates(p) :
        /\ IsRootPort(Heard(p), Candidates(p), q)
        /\ designated_root' = [designated_root EXCEPT ![p[1]] = Heard(p)[q].root]
        /\ root_path_cost' = [root_path_cost EXCEPT ![p[1]] = CostFrom(Heard(p)[q])]
        /\ root_port' = [root_port EXCEPT ![p[1]] = q]
  BY <1>2 DEF accept_config, Heard, Candidates
<1>4. designated_root'[p[1]] = Heard(p)[q].root /\ root_path_cost'[p[1]] = Heard(p)[q].cost + 1
  BY <1>3, PortsAre DEF StpInv, Typed, CostFrom, path_cost
<1>5. port' = [r \in Ports |-> IF r[1] = p[1]
                               THEN NewPort(Heard(p), r, designated_root'[p[1]], root_path_cost'[p[1]])
                               ELSE Heard(p)[r]]
  BY DEF accept_config, Heard
<1>6. port' = [r \in Ports |-> IF r[1] = p[1]
                               THEN NewPort(Heard(p), r, Heard(p)[q].root, Heard(p)[q].cost + 1)
                               ELSE Heard(p)[r]]
  BY <1>4, <1>5
<1>7. Chosen(p, q) BY <1>3, <1>6 DEF Chosen, CostFrom, path_cost
<1> QED BY <1>1, <1>7

(***************************************************************************)
(* What the bridge believes only improves.                                  *)
(***************************************************************************)
LEMMA BridgeImproves ==
  ASSUME StpInv, NEW p \in Ports, channel[p] # <<>>, ~ Precedes(port[p], Head(channel[p])),
         NEW q \in Candidates(p), \A r \in Candidates(p) : Precedes(Heard(p)[q], Heard(p)[r])
  PROVE  \/ Heard(p)[q].root < designated_root[p[1]]
         \/ /\ Heard(p)[q].root = designated_root[p[1]]
            /\ Heard(p)[q].cost + 1 <= root_path_cost[p[1]]
<1> DEFINE b == p[1]
<1>1. b \in Bridges /\ p \in PortsOf(b) BY PortsAre DEF PortsOf
<1>2. q \in Ports BY DEF Candidates, PortsOf
<1>3. /\ Heard(p)[q].root \in Nat /\ Heard(p)[q].cost \in Nat
      /\ Heard(p)[p].root \in Nat /\ Heard(p)[p].cost \in Nat
      /\ designated_root[b] \in Nat /\ root_path_cost[b] \in Nat
  <2>1. Heard(p)[q] \in Configs /\ Heard(p)[p] \in Configs BY <1>2, HeardIs
  <2> QED BY <2>1, <1>1, StpAssumption DEF Configs, StpInv, Typed
<1>4. CASE /\ root_port[b] = NULL /\ designated_root[b] = b /\ root_path_cost[b] = 0
           /\ \A r \in PortsOf(b) : is_designated(port, r)
  <2>1. /\ port[p].root = b /\ port[p].cost = 0 /\ port[p].switch = b /\ port[p].port = p[2]
    BY <1>1, <1>4 DEF StpInv, DesignatedKnow, is_designated
  <2>2. /\ Precedes(Heard(p)[p], port[p]) /\ Claim(Heard(p)[p])
        /\ p \in Candidates(p)
    BY HeardIs
  <2>3. Heard(p)[p].switch = Peer[p][1] /\ Peer[p][1] # b BY <2>2, CandidateIs, PortsAre
  <2>4. Heard(p)[p].root < b
    <3>1. Heard(p)[p].root < b \/ (Heard(p)[p].root = b /\ Heard(p)[p].cost = 0)
      BY <2>1, <2>2, <1>3 DEF Precedes
    <3> QED BY <3>1, <2>2, <2>3 DEF Claim
  <2>5. Precedes(Heard(p)[q], Heard(p)[p]) BY <2>2
  <2> QED BY <2>4, <2>5, <1>3, <1>4 DEF Precedes
<1>5. CASE /\ root_port[b] \in PortsOf(b) /\ ~ is_designated(port, root_port[b])
           /\ designated_root[b] = port[root_port[b]].root
           /\ root_path_cost[b] = port[root_port[b]].cost + 1
  <2> PICK r \in PortsOf(b) : r = root_port[b] BY <1>5
  <2>1. r \in Ports BY DEF PortsOf
  <2>2. r \in Candidates(p)
    <3>1. CASE r = p BY <3>1, HeardIs
    <3>2. CASE r # p
      <4>1. Heard(p)[r] = port[r] BY <3>2, <2>1, HeardIs
      <4> QED BY <4>1, <1>5 DEF Candidates, is_designated
    <3> QED BY <3>1, <3>2
  <2>3. /\ Heard(p)[q] \in Configs /\ Heard(p)[r] \in Configs /\ port[r] \in Configs
        /\ Precedes(Heard(p)[r], port[r])
    BY <1>2, <2>1, HeardIs DEF StpInv, Typed
  <2>4. Precedes(Heard(p)[q], port[r]) BY <2>2, <2>3, PrecedesIsOrder
  <2>5. port[r].root \in Nat /\ port[r].cost \in Nat BY <2>3, StpAssumption DEF Configs
  <2> QED BY <2>4, <2>5, <1>3, <1>5 DEF Precedes
<1> QED BY <1>1, <1>4, <1>5 DEF StpInv, RootPortBest

(***************************************************************************)
(* A port of the bridge after the step.                                      *)
(***************************************************************************)
LEMMA NewPortIs ==
  ASSUME StpInv, NEW p \in Ports, channel[p] # <<>>, ~ Precedes(port[p], Head(channel[p])),
         NEW q \in Candidates(p), \A r \in Candidates(p) : Precedes(Heard(p)[q], Heard(p)[r]),
         NEW r \in PortsOf(p[1])
  PROVE  LET m == NewPort(Heard(p), r, Heard(p)[q].root, Heard(p)[q].cost + 1)
             mine == m.switch = r[1] /\ m.port = r[2]
         IN
         /\ m \in Configs /\ Claim(m) /\ <<m.switch, m.port>> \in {r, Peer[r]}
         /\ mine => m.root = Heard(p)[q].root /\ m.cost = Heard(p)[q].cost + 1
         /\ ~ mine => m = Heard(p)[r] /\ r \in Candidates(p)
         /\ Precedes(m, port[r])
         /\ r = q => ~ mine
<1> DEFINE b == p[1]
           root == Heard(p)[q].root
           cost == Heard(p)[q].cost + 1
           h == Heard(p)[r]
           m == NewPort(Heard(p), r, root, cost)
<1>1. r \in Ports /\ r[1] = b /\ b \in Bridges /\ q \in Ports /\ r[2] \in Nat /\ r = <<r[1], r[2]>>
  BY PortsAre DEF PortsOf, Candidates
<1>2. /\ Heard(p)[q] \in Configs /\ h \in Configs /\ port[r] \in Configs
      /\ Claim(h) /\ <<h.switch, h.port>> \in {r, Peer[r]}
      /\ Precedes(h, port[r])
  BY <1>1, HeardIs DEF StpInv, Typed
<1>3. root \in Bridges /\ root \in Nat /\ cost \in Nat \ {0} /\ Heard(p)[q].cost = cost - 1
  <2>1. Heard(p)[q].root \in Bridges /\ Heard(p)[q].cost \in Nat BY <1>2 DEF Configs
  <2>2. root \in Bridges /\ root \in Nat BY <2>1, StpAssumption
  <2>3. cost \in Nat \ {0} /\ Heard(p)[q].cost = cost - 1 BY <2>1
  <2> QED BY <2>2, <2>3
<1>4. /\ h.root \in Nat /\ h.cost \in Nat /\ h.switch \in Nat /\ h.port \in Nat
      /\ port[r].root \in Nat /\ port[r].cost \in Nat /\ port[r].switch \in Nat /\ port[r].port \in Nat
  BY <1>2, StpAssumption DEF Configs
<1>5. Way(b, root, cost) BY CandidateIs
<1>6. b \in Nat BY <1>1, StpAssumption
<1> HIDE DEF root, cost, h, b
<1>7. CASE is_designated(Heard(p), r)
  <2>1. h.switch = b /\ h.port = r[2] BY <1>1, <1>7 DEF is_designated, h
  <2>2. r # p /\ r # q
    <3>1. p \in Candidates(p) BY HeardIs
    <3> QED BY <3>1, <1>7 DEF Candidates
  <2>3. h = port[r] BY <2>2, <1>1, HeardIs DEF h
  <2>4. port[r].root = designated_root[b] /\ port[r].cost = root_path_cost[b]
    BY <2>1, <2>3, <1>1 DEF StpInv, DesignatedKnow, is_designated
  <2>5. m = [h EXCEPT !.root = root, !.cost = cost] BY <1>7 DEF NewPort, h
  <2>6. m \in Configs /\ m.root = root /\ m.cost = cost /\ m.switch = b /\ m.port = r[2]
    BY <2>1, <2>5, <1>2, <1>3 DEF Configs
  <2>7. Claim(m) BY <2>6, <1>3, <1>5 DEF Claim
  <2>8. \/ root < designated_root[b]
        \/ root = designated_root[b] /\ cost <= root_path_cost[b]
    BY BridgeImproves DEF root, cost, b
  <2>9. Precedes(m, port[r])
    BY <2>1, <2>3, <2>4, <2>6, <2>8, <1>1, <1>3, <1>4, <1>6 DEF Precedes
  <2> HIDE DEF m
  <2>10. m.switch = r[1] /\ m.port = r[2] /\ <<m.switch, m.port>> = r BY <2>6, <1>1
  <2> QED BY <2>2, <2>6, <2>7, <2>9, <2>10 DEF m, root, cost
<1>8. CASE ~ is_designated(Heard(p), r) /\ cost < h.cost
  <2>1. r \in Candidates(p) BY <1>8 DEF Candidates, b
  <2>2. Precedes(Heard(p)[q], h) BY <2>1 DEF h
  <2>3. r # q BY <1>3, <1>4, <1>8 DEF h
  <2>4. m = [root |-> root, cost |-> cost, switch |-> b, port |-> r[2]]
    BY <1>1, <1>8 DEF NewPort, h
  <2>5. m \in Configs /\ m.root = root /\ m.cost = cost /\ m.switch = b /\ m.port = r[2]
    BY <2>4, <1>1, <1>3 DEF Configs
  <2>6. Claim(m) BY <2>5, <1>3, <1>5 DEF Claim
  <2>7. root <= h.root BY <2>2, <1>3, <1>4 DEF Precedes, root
  <2>8. Precedes(m, h) BY <2>5, <2>7, <1>1, <1>3, <1>4, <1>6, <1>8 DEF Precedes
  <2>9. Precedes(m, port[r]) BY <2>5, <2>8, <1>2, PrecedesIsOrder
  <2> HIDE DEF m
  <2>10. m.switch = r[1] /\ m.port = r[2] /\ <<m.switch, m.port>> = r BY <2>5, <1>1
  <2> QED BY <2>3, <2>5, <2>6, <2>9, <2>10 DEF m, root, cost
<1>9. CASE ~ is_designated(Heard(p), r) /\ ~ (cost < h.cost)
  <2>1. m = h BY <1>9 DEF NewPort, h
  <2>2. r \in Candidates(p) BY <1>9 DEF Candidates, b
  <2>3. ~ (h.switch = r[1] /\ h.port = r[2]) BY <1>9 DEF is_designated, h
  <2> HIDE DEF m
  <2> QED BY <2>1, <2>2, <2>3, <1>2 DEF m, root, cost, h
<1> QED BY <1>7, <1>8, <1>9

LEMMA AcceptStep ==
  ASSUME StpInv, NEW p \in Ports, accept_config(p)
  PROVE  /\ StpInv'
         /\ \A b \in Bridges :
              \/ designated_root'[b] < designated_root[b]
              \/ /\ designated_root'[b] = designated_root[b]
                 /\ root_path_cost'[b] <= root_path_cost[b]
         /\ \A r \in Ports : Precedes(port'[r], port[r])
<1>1. channel[p] # <<>> /\ ~ Precedes(port[p], Head(channel[p])) BY AcceptIs
<1>2. PICK q \in Candidates(p) : Chosen(p, q) BY AcceptIs
<1>3. PICK b \in Bridges : b = p[1] BY PortsAre
<1> DEFINE root == Heard(p)[q].root
           cost == Heard(p)[q].cost + 1
<1>4. /\ IsRootPort(Heard(p), Candidates(p), q)
      /\ designated_root' = [designated_root EXCEPT ![b] = root]
      /\ root_path_cost' = [root_path_cost EXCEPT ![b] = cost]
      /\ root_port' = [root_port EXCEPT ![b] = q]
      /\ port' = [r \in Ports |-> IF r[1] = b THEN NewPort(Heard(p), r, root, cost) ELSE Heard(p)[r]]
  BY <1>2, <1>3 DEF Chosen
<1>5. \A r \in Candidates(p) : Precedes(Heard(p)[q], Heard(p)[r]) BY <1>4 DEF IsRootPort
<1>6. q \in PortsOf(b) /\ q \in Ports BY <1>3 DEF Candidates, PortsOf
<1>7. /\ Heard(p) \in [Ports -> Configs]
      /\ root \in Bridges /\ root \in Nat /\ cost \in Nat \ {0} /\ Way(b, root, cost)
  <2>1. Heard(p) \in [Ports -> Configs] /\ Heard(p)[q] \in Configs BY <1>1, <1>6, HeardIs
  <2>2. Heard(p)[q].root \in Bridges /\ Heard(p)[q].cost \in Nat BY <2>1 DEF Configs
  <2>3. Way(b, root, cost) BY <1>1, <1>3, CandidateIs
  <2>4. root \in Bridges /\ root \in Nat BY <2>2, StpAssumption
  <2>5. cost \in Nat \ {0} BY <2>2
  <2> QED BY <2>1, <2>3, <2>4, <2>5
<1>8. ASSUME NEW r \in PortsOf(b)
      PROVE  LET m == port'[r]
                 mine == m.switch = r[1] /\ m.port = r[2]
             IN
             /\ m \in Configs /\ Claim(m) /\ <<m.switch, m.port>> \in {r, Peer[r]}
             /\ mine => m.root = root /\ m.cost = cost
             /\ ~ mine => m = Heard(p)[r] /\ r \in Candidates(p)
             /\ Precedes(m, port[r])
             /\ r = q => ~ mine
  <2>1. r \in Ports /\ r[1] = b BY DEF PortsOf
  <2>2. port'[r] = NewPort(Heard(p), r, root, cost) BY <2>1, <1>4
  <2> QED BY <2>2, <1>1, <1>3, <1>5, NewPortIs
<1>9. ASSUME NEW r \in Ports, r \notin PortsOf(b)
      PROVE  port'[r] = port[r] /\ r[1] # b
  <2>1. r[1] # b /\ r # p BY <1>3, <1>9 DEF PortsOf
  <2>2. port'[r] = Heard(p)[r] BY <2>1, <1>4
  <2> QED BY <2>1, <2>2, <1>1, HeardIs
<1> HIDE DEF root, cost
<1>10. /\ designated_root'[b] = root /\ root_path_cost'[b] = cost /\ root_port'[b] = q
       /\ \A c \in Bridges : c # b => /\ designated_root'[c] = designated_root[c]
                                      /\ root_path_cost'[c] = root_path_cost[c]
                                      /\ root_port'[c] = root_port[c]
       /\ designated_root' \in [Bridges -> Bridges] /\ root_path_cost' \in [Bridges -> Nat]
       /\ root_port' \in [Bridges -> Ports \cup {NULL}]
  BY <1>4, <1>6, <1>7 DEF StpInv, Typed
<1>11. port' \in [Ports -> Configs]
  <2>1. \A r \in Ports : port'[r] \in Configs
    BY <1>8, <1>9 DEF StpInv, Typed
  <2>2. port' = [r \in Ports |-> port'[r]] BY <1>4
  <2> QED BY <2>1, <2>2
<1>12. ChannelTrue(channel')
  <2> DEFINE rest == [channel EXCEPT ![p] = Tail(@)]
  <2>1. ChannelTrue(rest) BY <1>1, TakenIsTrue, ChannelIsTrue DEF StpInv
  <2>2. \/ channel' = rest
        \/ channel' = Sent(rest, DesignatedPorts(p[1])', designated_root'[p[1]], root_path_cost'[p[1]])
    BY DEF accept_config
  <2> HIDE DEF rest
  <2>3. DesignatedPorts(p[1])' \in SUBSET PortsOf(b) BY <1>3 DEF DesignatedPorts
  <2>4. CASE channel' = rest BY <2>1, <2>4
  <2>5. CASE channel' = Sent(rest, DesignatedPorts(p[1])', root, cost)
    BY <2>1, <2>3, <2>5, <1>7, SentIsTrue
  <2> QED BY <2>2, <2>4, <2>5, <1>3, <1>10
<1>13. Typed'
  <2>1. hello_active' \in [Bridges -> BOOLEAN]
    <3>1. hello_active' = [hello_active EXCEPT ![p[1]] = @ /\ designated_root'[p[1]] = p[1]]
      BY DEF accept_config
    <3> QED BY <3>1 DEF StpInv, Typed
  <2>2. hellos' = hellos BY DEF accept_config
  <2> QED BY <2>1, <2>2, <1>10, <1>11, <1>12 DEF StpInv, Typed, ChannelTrue
<1>14. ASSUME NEW c \in Bridges PROVE Believes(c)'
  <2>1. CASE c = b BY <2>1, <1>7, <1>10 DEF Believes
  <2>2. CASE c # b BY <2>2, <1>10 DEF StpInv, Believes
  <2> QED BY <2>1, <2>2
<1>15. PortsTrue' BY <1>8, <1>9 DEF StpInv, PortsTrue
<1>16. MessagesTrue' BY <1>12 DEF MessagesTrue, ChannelTrue
<1>17. DesignatedKnow'
  <2> SUFFICES ASSUME NEW r \in Ports, port'[r].switch = r[1] /\ port'[r].port = r[2]
               PROVE  port'[r].root = designated_root'[r[1]] /\ port'[r].cost = root_path_cost'[r[1]]
    BY DEF DesignatedKnow, is_designated
  <2>1. CASE r \in PortsOf(b)
    <3>1. r[1] = b BY <2>1 DEF PortsOf
    <3> QED BY <2>1, <3>1, <1>8, <1>10
  <2>2. CASE r \notin PortsOf(b)
    <3>1. is_designated(port, r) BY <2>2, <1>9 DEF is_designated
    <3>2. r[1] \in Bridges BY PortsAre
    <3> QED BY <2>2, <3>1, <3>2, <1>9, <1>10 DEF StpInv, DesignatedKnow
  <2> QED BY <2>1, <2>2
<1>18. RootPortBest'
  <2> SUFFICES ASSUME NEW c \in Bridges
               PROVE  \/ /\ root_port'[c] = NULL /\ designated_root'[c] = c /\ root_path_cost'[c] = 0
                         /\ \A r \in PortsOf(c) : is_designated(port', r)
                      \/ /\ root_port'[c] \in PortsOf(c) /\ ~ is_designated(port', root_port'[c])
                         /\ designated_root'[c] = port'[root_port'[c]].root
                         /\ root_path_cost'[c] = port'[root_port'[c]].cost + 1
                         /\ \A r \in PortsOf(c) : ~ is_designated(port', r) =>
                              Precedes(port'[root_port'[c]], port'[r])
    BY DEF RootPortBest, is_designated
  <2>1. CASE c = b
    <3>1. ~ is_designated(port', q) /\ port'[q] = Heard(p)[q] BY <1>6, <1>8 DEF is_designated
    <3>2. designated_root'[c] = port'[q].root /\ root_path_cost'[c] = port'[q].cost + 1
      BY <2>1, <3>1, <1>10 DEF root, cost
    <3>3. \A r \in PortsOf(b) : ~ is_designated(port', r) => Precedes(port'[q], port'[r])
      BY <3>1, <1>5, <1>8 DEF is_designated
    <3> QED BY <2>1, <3>1, <3>2, <3>3, <1>6, <1>10
  <2>2. CASE c # b
    <3>1. \A r \in PortsOf(c) : r \in Ports /\ r \notin PortsOf(b) BY <2>2 DEF PortsOf
    <3>2. \A r \in PortsOf(c) : port'[r] = port[r] /\ (is_designated(port', r) <=> is_designated(port, r))
      BY <3>1, <1>9 DEF is_designated
    <3>3. /\ designated_root'[c] = designated_root[c] /\ root_path_cost'[c] = root_path_cost[c]
          /\ root_port'[c] = root_port[c]
      BY <2>2, <1>10
    <3> QED BY <3>2, <3>3 DEF StpInv, RootPortBest
  <2> QED BY <2>1, <2>2
<1>19. ASSUME NEW c \in Bridges
       PROVE  \/ designated_root'[c] < designated_root[c]
              \/ designated_root'[c] = designated_root[c] /\ root_path_cost'[c] <= root_path_cost[c]
  <2>1. CASE c = b BY <2>1, <1>1, <1>3, <1>5, <1>10, BridgeImproves DEF root, cost
  <2>2. CASE c # b
    <3>1. root_path_cost[c] \in Nat BY DEF StpInv, Typed
    <3> QED BY <2>2, <3>1, <1>10
  <2> QED BY <2>1, <2>2
<1>20. ASSUME NEW r \in Ports PROVE Precedes(port'[r], port[r])
  <2>1. CASE r \in PortsOf(b) BY <2>1, <1>8
  <2>2. CASE r \notin PortsOf(b)
    <3>1. port[r] \in Configs BY DEF StpInv, Typed
    <3> QED BY <2>2, <3>1, <1>9, PrecedesIsOrder
  <2> QED BY <2>1, <2>2
<1> QED BY <1>13, <1>14, <1>15, <1>16, <1>17, <1>18, <1>19, <1>20 DEF StpInv

-----------------------------------------------------------------------------
LEMMA NothingWorse ==
  ASSUME StpInv, UNCHANGED <<bridgeVars, port>>
  PROVE  /\ \A b \in Bridges :
              \/ designated_root'[b] < designated_root[b]
              \/ /\ designated_root'[b] = designated_root[b]
                 /\ root_path_cost'[b] <= root_path_cost[b]
         /\ \A r \in Ports : Precedes(port'[r], port[r])
<1>1. designated_root' = designated_root /\ root_path_cost' = root_path_cost /\ port' = port
  BY DEF bridgeVars
<1>2. \A b \in Bridges : root_path_cost[b] \in Nat BY DEF StpInv, Typed
<1>3. \A r \in Ports : port[r] \in Configs BY DEF StpInv, Typed
<1>4. \A r \in Ports : Precedes(port[r], port[r]) BY <1>3, PrecedesIsOrder
<1> QED BY <1>1, <1>2, <1>4

LEMMA StpStep ==
  ASSUME StpInv, [Next]_vars
  PROVE  /\ StpInv'
         /\ \A b \in Bridges :
              \/ designated_root'[b] < designated_root[b]
              \/ /\ designated_root'[b] = designated_root[b]
                 /\ root_path_cost'[b] <= root_path_cost[b]
         /\ \A r \in Ports : Precedes(port'[r], port[r])
<1>1. ASSUME NEW p \in Ports, accept_config(p)
      PROVE  /\ StpInv'
             /\ \A b \in Bridges :
                  \/ designated_root'[b] < designated_root[b]
                  \/ /\ designated_root'[b] = designated_root[b]
                     /\ root_path_cost'[b] <= root_path_cost[b]
             /\ \A r \in Ports : Precedes(port'[r], port[r])
  BY <1>1, AcceptStep
<1>2. ASSUME NEW p \in Ports, answer_config(p) PROVE StpInv' /\ UNCHANGED <<bridgeVars, port>>
  BY <1>2, AnswerStep
<1>3. ASSUME NEW b \in Bridges, hello_timeout(b) PROVE StpInv' /\ UNCHANGED <<bridgeVars, port>>
  BY <1>3, HelloStep
<1>4. ASSUME UNCHANGED vars PROVE StpInv' /\ UNCHANGED <<bridgeVars, port>>
  <2>1. UNCHANGED <<designated_root, root_path_cost, root_port, port, hello_active, channel, hellos>>
    BY <1>4 DEF vars, bridgeVars
  <2>2. Typed' BY <2>1 DEF StpInv, Typed
  <2>3. \A b \in Bridges : Believes(b)' BY <2>1 DEF StpInv, Believes
  <2>4. PortsTrue' /\ MessagesTrue' BY <2>1 DEF StpInv, PortsTrue, MessagesTrue
  <2>5. DesignatedKnow' /\ RootPortBest' BY <2>1 DEF StpInv, DesignatedKnow, RootPortBest, is_designated
  <2> QED BY <2>1, <2>2, <2>3, <2>4, <2>5 DEF StpInv, bridgeVars
<1>5. CASE \E p \in Ports : accept_config(p) BY <1>1, <1>5
<1>6. CASE StpInv' /\ UNCHANGED <<bridgeVars, port>> BY <1>6, NothingWorse
<1> QED BY <1>2, <1>3, <1>4, <1>5, <1>6 DEF Next, handle_packet

LEMMA StpInvariant == Spec => []StpInv
<1>1. Init => StpInv BY StpInitInvariant
<1>2. StpInv /\ [Next]_vars => StpInv' BY StpStep
<1> QED BY <1>1, <1>2, PTL DEF Spec

(***************************************************************************)
(* The kinds of the state, and the ends that ports and messages name are ends  *)
(* of their links.                                                          *)
(***************************************************************************)
THEOREM StpTyped == Spec => []StpTypeOK
<1>1. StpInv => StpTypeOK
  <2> SUFFICES ASSUME StpInv PROVE StpTypeOK
    OBVIOUS
  <2>1. ASSUME NEW p \in Ports, NEW m \in {port[p]} \cup {channel[p][i] : i \in 1 .. Len(channel[p])}
        PROVE  <<m.switch, m.port>> \in {p, Peer[p]}
    BY DEF StpInv, PortsTrue, MessagesTrue
  <2> QED BY <2>1 DEF StpInv, Typed, StpTypeOK
<1> QED BY <1>1, StpInvariant, PTL

(***************************************************************************)
(* A cost is never below the distance: the way that is claimed is there,        *)
(* whatever net of links the bridges are in and in whatever order messages        *)
(* arrive (stp_handle_config_packet).                                        *)
(***************************************************************************)
THEOREM CostsReal == Spec => []CostsAreReal
<1>1. StpInv => CostsAreReal
  BY DEF StpInv, Believes, PortsTrue, MessagesTrue, Claim, CostsAreReal
<1> QED BY <1>1, StpInvariant, PTL

(***************************************************************************)
(* No bridge changes to a larger root or a longer way to the same root, and     *)
(* what a port knows never gets worse.                                       *)
(***************************************************************************)
THEOREM StpOnlyImproves == Spec => OnlyImproves
<1>1. StpInv /\ [Next]_vars =>
        [/\ \A b \in Bridges :
              \/ designated_root'[b] < designated_root[b]
              \/ /\ designated_root'[b] = designated_root[b]
                 /\ root_path_cost'[b] <= root_path_cost[b]
         /\ \A p \in Ports : Precedes(port'[p], port[p])]_vars
  BY StpStep
<1> QED BY <1>1, StpInvariant, PTL DEF Spec, OnlyImproves
=============================================================================

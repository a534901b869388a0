---------------------------- MODULE NetworkProofs ----------------------------
(***************************************************************************)
(* Proofs about the programs of the network laboratories in which two or        *)
(* three threads share tables, for every number of hosts, packets, ports and   *)
(* routers: the switch sends frames where their hosts are (pr2), the ARP cache *)
(* keeps each packet in one place (pr6), the translation of addresses never    *)
(* shares a port between mappings (pr4), the link state daemons tell every     *)
(* router they reach the latest list of each other, and the routes computed    *)
(* from those lists lead nearer (pr6).                                        *)
(***************************************************************************)
EXTENDS MacTable, ArpCache, Nat, Mospf, Routes, ListProofs, FiniteSetTheorems

-----------------------------------------------------------------------------
(* The switch.                                                              *)

Frames ==
  {IDLE_PORT}
  \cup [at : {"dst"}, src : Macs, dst : Macs, found : BOOLEAN]
  \cup [at : {"src"}, src : Macs, dst : Macs, known : BOOLEAN, out : SUBSET Ifaces]

(***************************************************************************)
(* The inductive invariant of the table.  An entry is in the bucket of its   *)
(* host and names its interface, and nobody adds an entry of the source       *)
(* between its look-up and its insertion; what the main thread will send by   *)
(* is right unless reading the entry ended the program.                       *)
(***************************************************************************)
EntriesTrue ==
  /\ hash_table \in [Buckets -> Seq([mac : Macs, iface : Ifaces])]
  /\ \A b \in Buckets : \A i \in DOMAIN hash_table[b] :
       LET e == hash_table[b][i] IN hash8[e.mac] = b /\ e.iface = location[e.mac]

EntriesOnce ==
  \A b \in Buckets : \A i, j \in DOMAIN hash_table[b] :
    hash_table[b][i].mac = hash_table[b][j].mac => i = j

FrameTrue ==
  /\ frame \in Frames
  /\ frame.at = "src" /\ ~ ended =>
       /\ Present(frame.src) => frame.known
       /\ location[frame.dst] \in frame.out \cup {location[frame.src]}

SentTrue ==
  sent.at = "sent" => location[sent.dst] \in sent.out \cup {location[sent.src]}

MacInv ==
  /\ ended \in BOOLEAN
  /\ EntriesTrue
  /\ EntriesOnce
  /\ FrameTrue
  /\ SentTrue

LEMMA MacInitInvariant == MacInit => MacInv
<1> SUFFICES ASSUME MacInit PROVE MacInv
  OBVIOUS
<1>1. EntriesTrue /\ EntriesOnce
  <2>1. \A b \in Buckets : hash_table[b] = <<>> BY DEF MacInit
  <2>2. hash_table \in [Buckets -> Seq([mac : Macs, iface : Ifaces])] BY DEF MacInit
  <2> QED BY <2>1, <2>2 DEF EntriesTrue, EntriesOnce
<1>2. FrameTrue /\ SentTrue /\ ended \in BOOLEAN
  BY DEF MacInit, FrameTrue, SentTrue, Frames, IDLE_PORT
<1> QED BY <1>1, <1>2 DEF MacInv

(***************************************************************************)
(* What says nothing of `ended` or `sent` stays as it is with the table and   *)
(* the frame.                                                               *)
(***************************************************************************)
LEMMA SameTable ==
  ASSUME EntriesTrue, EntriesOnce, hash_table' = hash_table
  PROVE  EntriesTrue' /\ EntriesOnce'
<1>1. EntriesTrue' BY DEF EntriesTrue
<1>2. EntriesOnce' BY DEF EntriesOnce
<1> QED BY <1>1, <1>2

LEMMA SameFrame ==
  ASSUME FrameTrue, frame' = frame, hash_table' = hash_table, ended' \in {ended, TRUE}
  PROVE  FrameTrue'
<1>1. Present(frame.src)' = Present(frame.src) BY DEF Present, Entries
<1>2. ~ ended' => ~ ended OBVIOUS
<1> QED BY <1>1, <1>2 DEF FrameTrue

LEMMA LookupDstStep ==
  ASSUME MacInv, NEW src \in Macs, NEW dst \in Macs, lookup_dst(src, dst)
  PROVE  MacInv'
<1>1. Present(dst) \in BOOLEAN BY DEF Present
<1>2. frame' \in [at : {"dst"}, src : Macs, dst : Macs, found : BOOLEAN]
  BY <1>1 DEF lookup_dst
<1>3. FrameTrue' BY <1>2 DEF FrameTrue, Frames
<1>4. SentTrue' BY DEF MacInv, lookup_dst, SentTrue
<1> QED BY <1>3, <1>4, SameTable DEF MacInv, lookup_dst

(***************************************************************************)
(* An entry that was found is that of the host, or it has been freed.        *)
(***************************************************************************)
LEMMA EntryOfHost ==
  ASSUME EntriesTrue, NEW mac \in Macs, NEW e \in Entries(mac)
  PROVE  e.iface = location[mac]
<1>1. hash8[mac] \in Buckets BY DEF Buckets
<1>2. PICK i \in DOMAIN hash_table[hash8[mac]] : e = hash_table[hash8[mac]][i] /\ e.mac = mac
  BY DEF Entries
<1> QED BY <1>1, <1>2 DEF EntriesTrue

LEMMA LookupSrcStep ==
  ASSUME MacInv, lookup_src
  PROVE  MacInv'
<1>1. frame \in [at : {"dst"}, src : Macs, dst : Macs, found : BOOLEAN]
  BY DEF MacInv, FrameTrue, Frames, IDLE_PORT, lookup_src
<1>2. EntriesTrue /\ ~ ended BY DEF MacInv, lookup_src
<1> DEFINE out == IF frame.found THEN {e.iface : e \in Entries(frame.dst)}
                  ELSE Ifaces \ {location[frame.src]}
<1>3. out \in SUBSET Ifaces
  <2>1. \A e \in Entries(frame.dst) : e.iface \in Ifaces
    BY <1>1, <1>2, EntryOfHost DEF Ifaces
  <2> QED BY <2>1
<1>4. /\ frame'.at = "src" /\ frame'.src = frame.src /\ frame'.dst = frame.dst
      /\ frame'.known = Present(frame.src) /\ frame'.out = out
      /\ frame' = [at |-> "src", src |-> frame.src, dst |-> frame.dst,
                   known |-> Present(frame.src), out |-> out]
      /\ ended' = (frame.found /\ ~ Present(frame.dst))
      /\ hash_table' = hash_table /\ sent' = sent
  BY DEF lookup_src
<1>5. frame' \in Frames
  <2>1. Present(frame.src) \in BOOLEAN BY DEF Present
  <2> HIDE DEF out
  <2> QED BY <2>1, <1>1, <1>3, <1>4 DEF Frames
<1>6. ~ ended' => location[frame.dst] \in out \cup {location[frame.src]}
  <2>1. CASE ~ frame.found BY <2>1, <1>1 DEF Ifaces
  <2>2. CASE frame.found /\ Present(frame.dst)
    <3>1. PICK e \in Entries(frame.dst) : TRUE BY <2>2 DEF Present
    <3> QED BY <3>1, <2>2, <1>1, <1>2, EntryOfHost
  <2> QED BY <2>1, <2>2, <1>4
<1>7. Present(frame.src)' => frame'.known
  <2> HIDE DEF out
  <2>1. Present(frame.src)' <=> Present(frame.src)
    BY <1>4 DEF Present, Entries
  <2> QED BY <1>4, <2>1
<1> HIDE DEF out
<1>8. FrameTrue'
  <2>1. ~ ended' => location[frame'.dst] \in frame'.out \cup {location[frame'.src]}
    BY <1>4, <1>6
  <2> QED BY <2>1, <1>5, <1>7 DEF FrameTrue
<1>9. ended' \in BOOLEAN BY <1>1, <1>4 DEF Present
<1>10. SentTrue' BY <1>4 DEF MacInv, SentTrue
<1> QED BY <1>4, <1>8, <1>9, <1>10, SameTable DEF MacInv

LEMMA SendStep ==
  ASSUME MacInv, send
  PROVE  MacInv'
<1> DEFINE Entry == [mac : Macs, iface : Ifaces]
           b == hash8[frame.src]
           e == [mac |-> frame.src, iface |-> location[frame.src]]
<1>1. frame \in [at : {"src"}, src : Macs, dst : Macs, known : BOOLEAN, out : SUBSET Ifaces]
  BY DEF MacInv, FrameTrue, Frames, IDLE_PORT, send
<1>2. /\ ~ ended /\ ended' = ended /\ frame' = IDLE_PORT
      /\ sent' = [at |-> "sent", src |-> frame.src, dst |-> frame.dst, out |-> frame.out]
      /\ hash_table' = IF frame.known THEN hash_table ELSE [hash_table EXCEPT ![b] = <<e>> \o @]
  BY DEF send, Learned
<1>3. FrameTrue' /\ SentTrue' /\ ended' \in BOOLEAN
  BY <1>1, <1>2 DEF MacInv, FrameTrue, SentTrue, Frames, IDLE_PORT
<1>4. EntriesTrue' /\ EntriesOnce'
  <2>1. CASE frame.known
    BY <2>1, <1>2, SameTable DEF MacInv
  <2>2. CASE ~ frame.known
    <3> DEFINE list == hash_table[b]
               longer == <<e>> \o list
    <3>1. /\ b \in Buckets /\ e \in Entry /\ list \in Seq(Entry)
          /\ hash_table \in [Buckets -> Seq(Entry)]
      BY <1>1 DEF Buckets, Ifaces, MacInv, EntriesTrue
    <3>2. \A i \in DOMAIN list : list[i].mac # frame.src
      BY <2>2, <1>1, <1>2 DEF MacInv, FrameTrue, Present, Entries
    <3>3. \A i \in DOMAIN list : hash8[list[i].mac] = b /\ list[i].iface = location[list[i].mac]
      BY <3>1 DEF MacInv, EntriesTrue
    <3>4. \A i, j \in DOMAIN list : list[i].mac = list[j].mac => i = j
      BY <3>1 DEF MacInv, EntriesOnce
    <3>5. hash_table' = [hash_table EXCEPT ![b] = longer]
      BY <2>2, <1>2
    <3>6. e.mac = frame.src /\ e.iface = location[frame.src] /\ hash8[e.mac] = b OBVIOUS
    <3>6a. b = hash8[frame.src] OBVIOUS
    <3> HIDE DEF list, e, b, Entry
    <3>7. /\ longer \in Seq(Entry) /\ Len(longer) = 1 + Len(list) /\ Len(list) \in Nat
          /\ DOMAIN list = 1 .. Len(list) /\ DOMAIN longer = 1 .. 1 + Len(list)
          /\ longer[1] = e
          /\ \A i \in 2 .. 1 + Len(list) : longer[i] = list[i - 1]
      <4>1. <<e>> \in Seq(Entry) /\ Len(<<e>>) = 1 /\ <<e>>[1] = e BY <3>1
      <4>2. /\ longer \in Seq(Entry) /\ Len(longer) = 1 + Len(list)
            /\ \A i \in 1 .. 1 + Len(list) : longer[i] = IF i <= 1 THEN <<e>>[i] ELSE list[i - 1]
        BY <4>1, <3>1, ConcatProperties
      <4>3. Len(list) \in Nat /\ DOMAIN list = 1 .. Len(list) BY <3>1, LenProperties
      <4>4. DOMAIN longer = 1 .. 1 + Len(list) BY <4>2, LenProperties
      <4> HIDE DEF longer
      <4> QED BY <4>1, <4>2, <4>3, <4>4
    <3> HIDE DEF longer
    <3>8. \A i \in 1 .. 1 + Len(list) : i = 1 \/ (i \in 2 .. 1 + Len(list) /\ i - 1 \in DOMAIN list)
      BY <3>7
    <3>9. \A i \in DOMAIN longer : hash8[longer[i].mac] = b /\ longer[i].iface = location[longer[i].mac]
      BY <3>3, <3>6, <3>6a, <3>7, <3>8
    <3>10. ASSUME NEW i \in DOMAIN longer, NEW j \in DOMAIN longer, longer[i].mac = longer[j].mac
           PROVE  i = j
      <4>1. CASE i = 1 \/ j = 1
        <5>1. ASSUME NEW k \in DOMAIN longer, k # 1 PROVE longer[k].mac # longer[1].mac
          <6>1. k - 1 \in DOMAIN list /\ longer[k] = list[k - 1] BY <5>1, <3>7, <3>8
          <6> QED BY <6>1, <3>2, <3>6, <3>7
        <5> QED BY <4>1, <5>1, <3>10
      <4>2. CASE i # 1 /\ j # 1
        <5>1. i - 1 = j - 1 BY <4>2, <3>4, <3>7, <3>8, <3>10
        <5> QED BY <5>1, <3>7
      <4> QED BY <4>1, <4>2
    <3>11. /\ hash_table'[b] = longer
           /\ \A c \in Buckets : c # b => hash_table'[c] = hash_table[c]
           /\ hash_table' \in [Buckets -> Seq(Entry)]
      BY <3>1, <3>5, <3>7
    <3>12. EntriesTrue'
      <4>1. ASSUME NEW c \in Buckets, NEW i \in DOMAIN hash_table'[c]
            PROVE  hash8[hash_table'[c][i].mac] = c /\ hash_table'[c][i].iface = location[hash_table'[c][i].mac]
        <5>1. CASE c = b BY <5>1, <3>9, <3>11
        <5>2. CASE c # b BY <5>2, <3>11 DEF MacInv, EntriesTrue
        <5> QED BY <5>1, <5>2
      <4> QED BY <4>1, <3>11 DEF EntriesTrue, Entry
    <3>13. EntriesOnce'
      <4>1. ASSUME NEW c \in Buckets, NEW i \in DOMAIN hash_table'[c], NEW j \in DOMAIN hash_table'[c],
                   hash_table'[c][i].mac = hash_table'[c][j].mac
            PROVE  i = j
        <5>1. CASE c = b BY <5>1, <4>1, <3>10, <3>11
        <5>2. CASE c # b BY <5>2, <4>1, <3>11 DEF MacInv, EntriesOnce
        <5> QED BY <5>1, <5>2
      <4> QED BY <4>1 DEF EntriesOnce
    <3> QED BY <3>12, <3>13
  <2> QED BY <2>1, <2>2, <1>1
<1> QED BY <1>3, <1>4 DEF MacInv

(***************************************************************************)
(* A sweep leaves an entry alone or takes it away.                          *)
(***************************************************************************)
LEMMA SweepStep ==
  ASSUME MacInv, sweep_aged_mac_port_entry
  PROVE  MacInv'
<1> DEFINE Entry == [mac : Macs, iface : Ifaces]
<1>1. /\ frame' = frame /\ sent' = sent /\ ~ ended
      /\ \/ /\ hash_table' = [b \in Buckets |->
                 IF Len(hash_table[b]) <= 1 THEN hash_table[b]
                 ELSE <<hash_table[b][Len(hash_table[b])]>>]
            /\ ended' = ended
         \/ ended' = TRUE /\ hash_table' = hash_table
  BY DEF sweep_aged_mac_port_entry
<1>2. CASE ended' = TRUE /\ hash_table' = hash_table
  <2>1. EntriesTrue' /\ EntriesOnce' /\ FrameTrue'
    BY <1>1, <1>2, SameTable, SameFrame DEF MacInv
  <2>2. SentTrue' BY <1>1 DEF MacInv, SentTrue
  <2> QED BY <2>1, <2>2, <1>2 DEF MacInv
<1>3. ASSUME ended' = ended,
             hash_table' = [b \in Buckets |->
               IF Len(hash_table[b]) <= 1 THEN hash_table[b]
               ELSE <<hash_table[b][Len(hash_table[b])]>>]
      PROVE  MacInv'
  <2>1. ASSUME NEW b \in Buckets
        PROVE  /\ hash_table'[b] \in Seq(Entry)
               /\ \/ hash_table'[b] = hash_table[b]
                  \/ /\ Len(hash_table[b]) \in DOMAIN hash_table[b]
                     /\ DOMAIN hash_table'[b] = {1}
                     /\ hash_table'[b][1] = hash_table[b][Len(hash_table[b])]
    <3>1. hash_table[b] \in Seq(Entry) BY DEF MacInv, EntriesTrue
    <3>2. Len(hash_table[b]) \in Nat /\ DOMAIN hash_table[b] = 1 .. Len(hash_table[b])
      BY <3>1, LenProperties
    <3>3. CASE Len(hash_table[b]) <= 1 BY <3>1, <3>3, <1>3
    <3>4. CASE ~ (Len(hash_table[b]) <= 1)
      <4>1. Len(hash_table[b]) \in DOMAIN hash_table[b] BY <3>2, <3>4
      <4>2. hash_table[b][Len(hash_table[b])] \in Entry
        BY <4>1, <3>1, <3>2, ElementOfSeq
      <4>3. hash_table'[b] = <<hash_table[b][Len(hash_table[b])]>> BY <3>4, <1>3
      <4> HIDE DEF Entry
      <4> QED BY <4>1, <4>2, <4>3
    <3> QED BY <3>3, <3>4
  <2>2. hash_table' \in [Buckets -> Seq(Entry)]
    <3> HIDE DEF Entry
    <3> QED BY <2>1, <1>3
  <2>3. ASSUME NEW b \in Buckets, NEW i \in DOMAIN hash_table'[b]
        PROVE  \E j \in DOMAIN hash_table[b] : hash_table'[b][i] = hash_table[b][j]
    BY <2>1
  <2>4. EntriesTrue'
    <3>1. ASSUME NEW b \in Buckets, NEW i \in DOMAIN hash_table'[b]
          PROVE  hash8[hash_table'[b][i].mac] = b /\ hash_table'[b][i].iface = location[hash_table'[b][i].mac]
      <4>1. PICK j \in DOMAIN hash_table[b] : hash_table'[b][i] = hash_table[b][j]
        BY <2>3
      <4>2. hash8[hash_table[b][j].mac] = b /\ hash_table[b][j].iface = location[hash_table[b][j].mac]
        BY DEF MacInv, EntriesTrue
      <4> QED BY <4>1, <4>2
    <3> QED BY <3>1, <2>2 DEF EntriesTrue
  <2>5. EntriesOnce'
    BY <2>1 DEF MacInv, EntriesOnce
  <2>6. FrameTrue'
    <3>1. ASSUME NEW mac \in Macs, Present(mac)' PROVE Present(mac)
      <4>1. hash8[mac] \in Buckets BY DEF Buckets
      <4> QED BY <4>1, <3>1, <2>3 DEF Present, Entries
    <3>2. frame.at = "src" => frame.src \in Macs BY DEF MacInv, FrameTrue, Frames, IDLE_PORT
    <3> QED BY <3>1, <3>2, <1>1, <1>3 DEF MacInv, FrameTrue
  <2> QED BY <2>4, <2>5, <2>6, <1>1, <1>3 DEF MacInv, SentTrue
<1> QED BY <1>1, <1>2, <1>3

(***************************************************************************)
(* Every frame is sent where its host is, whatever the sweeping thread does   *)
(* between the look-ups and the insertion, until it ends the program.         *)
(***************************************************************************)
THEOREM FramesArrive == MacSpec => []FramesReachTheirHost
<1>1. MacInit => MacInv BY MacInitInvariant
<1>2. MacInv /\ [MacNext]_macVars => MacInv'
  <2> SUFFICES ASSUME MacInv, [MacNext]_macVars PROVE MacInv'
    OBVIOUS
  <2>1. ASSUME NEW src \in Macs, NEW dst \in Macs, lookup_dst(src, dst) PROVE MacInv'
    BY <2>1, LookupDstStep
  <2>2. CASE lookup_src BY <2>2, LookupSrcStep
  <2>3. CASE send BY <2>3, SendStep
  <2>4. CASE sweep_aged_mac_port_entry BY <2>4, SweepStep
  <2>5. CASE UNCHANGED macVars
    <3>1. hash_table' = hash_table /\ frame' = frame /\ sent' = sent /\ ended' = ended
      BY <2>5 DEF macVars
    <3>2. SentTrue' BY <3>1 DEF MacInv, SentTrue
    <3> QED BY <3>1, <3>2, SameTable, SameFrame DEF MacInv
  <2> QED BY <2>1, <2>2, <2>3, <2>4, <2>5 DEF MacNext
<1>3. MacInv => FramesReachTheirHost
  BY DEF MacInv, EntriesTrue, EntriesOnce, SentTrue, FramesReachTheirHost
<1> QED BY <1>1, <1>2, <1>3, PTL DEF MacSpec

-----------------------------------------------------------------------------
(* The router's packets.                                                    *)

Parcels == [id : Nat \ {0}, src : Addresses, dst : Addresses, ttl : Nat, echo : BOOLEAN]
Requests == [retries : 1 .. ARP_REQUEST_MAX_RETRIES, young : BOOLEAN, packets : SUBSET Parcels]

(***************************************************************************)
(* The inductive invariant.  Two things that are held and are of one packet   *)
(* are one thing, and of each packet something is held.                      *)
(***************************************************************************)
ArpTyped ==
  /\ coming \subseteq Packets /\ arp_entries \subseteq Live
  /\ hand \in [Senders -> Parcels \cup {NOTHING}]
  /\ pkt_list \subseteq Parcels /\ gone \subseteq Parcels

RequestsTrue ==
  \A a \in DOMAIN req_list :
    /\ req_list[a] \in Requests /\ req_list[a].packets # {}
    /\ \A p \in req_list[a].packets : next_hop[p.dst] = a

OnePlace ==
  \A h, k \in Held : h[2] # NOTHING /\ k[2] # NOTHING /\ h[2].id = k[2].id => h = k
SomePlace == \A p \in Packets : \E h \in Held : h[2].id = p.id

ArpInv ==
  /\ ArpTyped
  /\ req_list \in [DOMAIN req_list -> Requests] /\ RequestsTrue
  /\ OnePlace
  /\ SomePlace

LEMMA ParcelsArePackets ==
  /\ Packets \subseteq Parcels
  /\ NOTHING \notin Parcels /\ NOTHING.id = 0
BY ArpAssumption DEF Parcels, NOTHING

(***************************************************************************)
(* What is held, before and after a step.                                   *)
(***************************************************************************)
LEMMA HeldIs ==
  ASSUME NEW x, NEW q
  PROVE  <<x, q>> \in Held <=>
           \/ x = "coming" /\ q \in coming
           \/ x \in Senders /\ q = hand[x]
           \/ x = "req_list" /\ \E a \in DOMAIN req_list : q \in req_list[a].packets
           \/ x = "pkt_list" /\ q \in pkt_list
           \/ x = "gone" /\ q \in gone
BY DEF Held, PacketsOf

LEMMA HeldWillBe ==
  ASSUME NEW x, NEW q
  PROVE  <<x, q>> \in Held' <=>
           \/ x = "coming" /\ q \in coming'
           \/ x \in Senders /\ q = hand'[x]
           \/ x = "req_list" /\ \E a \in DOMAIN req_list' : q \in req_list'[a].packets
           \/ x = "pkt_list" /\ q \in pkt_list'
           \/ x = "gone" /\ q \in gone'
BY DEF Held, PacketsOf, Senders

LEMMA HeldArePairs ==
  /\ \A h \in Held : h = <<h[1], h[2]>>
  /\ \A h \in Held' : h = <<h[1], h[2]>>
<1>1. \A h \in Held : h = <<h[1], h[2]>> BY DEF Held
<1>2. \A h \in Held' : h = <<h[1], h[2]>> BY DEF Held
<1> QED BY <1>1, <1>2

(***************************************************************************)
(* A step after which each thing that is held is where F takes it.           *)
(***************************************************************************)
LEMMA Moved ==
  ASSUME OnePlace, SomePlace, NEW F,
         \A k \in Held' : k[2] # NOTHING => \E h \in Held : h[2] # NOTHING /\ k = F[h] /\ h[2].id = k[2].id,
         \A h \in Held : h[2] # NOTHING => F[h] \in Held' /\ F[h][2].id = h[2].id
  PROVE  OnePlace' /\ SomePlace'
<1>1. OnePlace'
  <2> SUFFICES ASSUME NEW h \in Held', NEW k \in Held', h[2] # NOTHING, k[2] # NOTHING, h[2].id = k[2].id
               PROVE  h = k
    BY DEF OnePlace
  <2> QED BY DEF OnePlace
<1>2. SomePlace'
  BY ParcelsArePackets DEF SomePlace, Parcels
<1> QED BY <1>1, <1>2

(***************************************************************************)
(* One thing is somewhere else, perhaps as the answer it became.              *)
(***************************************************************************)
OneMoves(x0, q0, x1, q1) ==
  \A x, q : q # NOTHING =>
    (<<x, q>> \in Held' <=> <<x, q>> = <<x1, q1>> \/ (<<x, q>> \in Held /\ <<x, q>> # <<x0, q0>>))

LEMMA OneMoved ==
  ASSUME OnePlace, SomePlace, NEW x0, NEW q0 \in Parcels, NEW x1, NEW q1 \in Parcels,
         <<x0, q0>> \in Held, q1.id = q0.id, OneMoves(x0, q0, x1, q1)
  PROVE  OnePlace' /\ SomePlace'
<1> DEFINE F == [h \in Held |-> IF h = <<x0, q0>> THEN <<x1, q1>> ELSE h]
<1>1. q0 # NOTHING /\ q1 # NOTHING BY ParcelsArePackets
<1>2. ASSUME NEW k \in Held', k[2] # NOTHING
      PROVE  \E h \in Held : h[2] # NOTHING /\ k = F[h] /\ h[2].id = k[2].id
  <2>1. k = <<k[1], k[2]>> BY HeldArePairs
  <2>2. CASE k = <<x1, q1>> BY <2>2, <1>1
  <2>3. CASE k \in Held /\ k # <<x0, q0>> BY <2>3, <1>2
  <2> QED BY <2>1, <2>2, <2>3, <1>2 DEF OneMoves
<1>3. ASSUME NEW h \in Held, h[2] # NOTHING
      PROVE  F[h] \in Held' /\ F[h][2].id = h[2].id
  <2>1. h = <<h[1], h[2]>> BY HeldArePairs
  <2>2. CASE h = <<x0, q0>>
    <3>1. F[h] = <<x1, q1>> BY <2>2
    <3>2. <<x1, q1>> \in Held' BY <1>1 DEF OneMoves
    <3> QED BY <3>1, <3>2, <2>2
  <2>3. CASE h # <<x0, q0>>
    <3>1. F[h] = h BY <2>3
    <3>2. h \in Held' BY <2>1, <2>3, <1>3 DEF OneMoves
    <3> QED BY <3>1, <3>2
  <2> QED BY <2>2, <2>3
<1> HIDE DEF F
<1> QED BY <1>2, <1>3, Moved

(***************************************************************************)
(* What SendByArp and SendOwn do with a packet: thread t has it, or it is gone. *)
(***************************************************************************)
TakenOver(t, q) ==
  /\ hand' \in [Senders -> Parcels \cup {NOTHING}] /\ gone' \subseteq Parcels
  /\ \E x1 \in {t, "gone"} : \A x, r : r # NOTHING =>
       ( (x \in Senders /\ r = hand'[x]) \/ (x = "gone" /\ r \in gone')
         <=> <<x, r>> = <<x1, q>> \/ (x \in Senders /\ r = hand[x]) \/ (x = "gone" /\ r \in gone) )

LEMMA IsGone ==
  ASSUME ArpTyped, NEW t \in Senders, NEW q \in Parcels, gone' = gone \cup {q}, hand' = hand
  PROVE  TakenOver(t, q)
<1>1. \A x, r : r # NOTHING =>
       ( (x \in Senders /\ r = hand'[x]) \/ (x = "gone" /\ r \in gone')
         <=> <<x, r>> = <<"gone", q>> \/ (x \in Senders /\ r = hand[x]) \/ (x = "gone" /\ r \in gone) )
  OBVIOUS
<1> QED BY <1>1 DEF TakenOver, ArpTyped

LEMMA IsInHand ==
  ASSUME ArpTyped, NEW t \in Senders, NEW q \in Parcels, hand[t] = NOTHING,
         gone' = gone, hand' = [hand EXCEPT ![t] = q]
  PROVE  TakenOver(t, q)
<1>1. /\ hand' \in [Senders -> Parcels \cup {NOTHING}] /\ hand'[t] = q
      /\ \A u \in Senders : u # t => hand'[u] = hand[u]
  BY DEF ArpTyped
<1>2. \A x, r : r # NOTHING =>
       ( (x \in Senders /\ r = hand'[x]) \/ (x = "gone" /\ r \in gone')
         <=> <<x, r>> = <<t, q>> \/ (x \in Senders /\ r = hand[x]) \/ (x = "gone" /\ r \in gone) )
  BY <1>1
<1> QED BY <1>1, <1>2 DEF TakenOver, ArpTyped

LEMMA SendTakesOver ==
  ASSUME ArpTyped, NEW t \in Senders, NEW q \in Parcels, hand[t] = NOTHING,
         SendByArp(t, q) \/ SendOwn(t, q)
  PROVE  TakenOver(t, q)
<1>1. CASE gone' = gone \cup {q} /\ hand' = hand BY <1>1, IsGone
<1>2. CASE gone' = gone /\ hand' = [hand EXCEPT ![t] = q] BY <1>2, IsInHand
<1> QED BY <1>1, <1>2 DEF SendByArp, SendOwn

LEMMA AnswerIsParcel ==
  ASSUME NEW p \in Parcels
  PROVE  Answer(p) \in Parcels /\ Answer(p).id = p.id
BY ArpAssumption DEF Parcels, Answer

(***************************************************************************)
(* A packet that arrives, or that the lsu thread sends.                      *)
(***************************************************************************)
LEMMA ComingStep ==
  ASSUME ArpInv, NEW p \in coming, NEW t \in Senders, NEW q \in Parcels, q.id = p.id,
         TakenOver(t, q), coming' = coming \ {p},
         UNCHANGED <<arp_entries, req_list, pkt_list>>
  PROVE  ArpInv'
<1>1. p \in Parcels /\ p # NOTHING BY ParcelsArePackets DEF ArpInv, ArpTyped
<1>2. ArpTyped' BY DEF ArpInv, ArpTyped, TakenOver
<1>3. req_list' = req_list /\ pkt_list' = pkt_list OBVIOUS
<1>4. (req_list \in [DOMAIN req_list -> Requests] /\ RequestsTrue)' BY <1>3 DEF ArpInv, RequestsTrue
<1>5. <<"coming", p>> \in Held BY HeldIs
<1>6. PICK x1 \in {t, "gone"} : \A x, r : r # NOTHING =>
       ( (x \in Senders /\ r = hand'[x]) \/ (x = "gone" /\ r \in gone')
         <=> <<x, r>> = <<x1, q>> \/ (x \in Senders /\ r = hand[x]) \/ (x = "gone" /\ r \in gone) )
  BY DEF TakenOver
<1>7. ASSUME NEW x, NEW r, r # NOTHING
      PROVE  <<x, r>> \in Held' <=> <<x, r>> = <<x1, q>> \/ (<<x, r>> \in Held /\ <<x, r>> # <<"coming", p>>)
  BY <1>3, <1>6, <1>7, HeldIs, HeldWillBe DEF Senders
<1>8. OneMoves("coming", p, x1, q) BY <1>7 DEF OneMoves
<1>9. OnePlace' /\ SomePlace'
  BY <1>1, <1>5, <1>8, OneMoved DEF ArpInv
<1> QED BY <1>2, <1>4, <1>9 DEF ArpInv

LEMMA HandleStep ==
  ASSUME ArpInv, NEW p \in Packets, handle_ip_packet(p)
  PROVE  ArpInv'
<1>1. /\ p \in coming /\ hand["main"] = NOTHING /\ coming' = coming \ {p}
      /\ UNCHANGED <<arp_entries, req_list, pkt_list>> /\ p \in Parcels /\ "main" \in Senders /\ ArpTyped
  BY ParcelsArePackets DEF handle_ip_packet, Senders, ArpInv
<1>2. \E q \in Parcels : q.id = p.id /\ TakenOver("main", q)
  <2>1. Answer(p) \in Parcels /\ Answer(p).id = p.id BY <1>1, AnswerIsParcel
  <2>2. CASE SendOwn("main", Answer(p)) BY <2>1, <2>2, <1>1, SendTakesOver
  <2>3. CASE p.ttl > 1 /\ SendByArp("main", [p EXCEPT !.ttl = @ - 1])
    <3>1. [p EXCEPT !.ttl = @ - 1] \in Parcels /\ [p EXCEPT !.ttl = @ - 1].id = p.id
      BY <1>1, <2>3 DEF Parcels
    <3> QED BY <3>1, <2>3, <1>1, SendTakesOver
  <2>4. CASE gone' = gone \cup {p} /\ hand' = hand BY <2>4, <1>1, IsGone
  <2>5. p.ttl \in Nat BY <1>1 DEF Parcels
  <2> QED BY <2>2, <2>3, <2>4, <2>5 DEF handle_ip_packet, Forward
<1> QED BY <1>1, <1>2, ComingStep

LEMMA UpdateStep ==
  ASSUME ArpInv, NEW p \in Packets, send_update(p)
  PROVE  ArpInv'
<1>1. /\ p \in coming /\ hand["lsu"] = NOTHING /\ coming' = coming \ {p} /\ SendByArp("lsu", p)
      /\ UNCHANGED <<arp_entries, req_list, pkt_list>> /\ p \in Parcels /\ "lsu" \in Senders /\ ArpTyped
  BY ParcelsArePackets DEF send_update, Senders, ArpInv
<1> QED BY <1>1, SendTakesOver, ComingStep

(***************************************************************************)
(* The packet in hand joins those that wait for its next hop.                 *)
(***************************************************************************)
LEMMA AppendStep ==
  ASSUME ArpInv, NEW t \in Senders, arpcache_append_packet(t)
  PROVE  ArpInv'
<1> DEFINE p == hand[t]
           ip == next_hop[p.dst]
           request == IF Pending(ip) THEN req_list[ip] ELSE NewRequest
           more == [request EXCEPT !.packets = @ \cup {p}]
<1>1. /\ p # NOTHING /\ hand' = [hand EXCEPT ![t] = NOTHING]
      /\ req_list' = [a \in DOMAIN req_list \cup {ip} |-> IF a = ip THEN more ELSE req_list[a]]
      /\ coming' = coming /\ arp_entries' = arp_entries /\ pkt_list' = pkt_list /\ gone' = gone
  BY DEF arpcache_append_packet
<1>2. p \in Parcels BY <1>1 DEF ArpInv, ArpTyped
<1>3. request \in Requests /\ request.packets = IF Pending(ip) THEN req_list[ip].packets ELSE {}
  <2>1. CASE Pending(ip) BY <2>1 DEF Pending, ArpInv, RequestsTrue
  <2>2. CASE ~ Pending(ip) BY <2>2, ArpAssumption DEF NewRequest, Requests
  <2> QED BY <2>1, <2>2
<1> HIDE DEF request
<1>4. more \in Requests /\ more.packets = request.packets \cup {p}
  BY <1>2, <1>3 DEF Requests
<1> HIDE DEF p, more
<1>5. /\ hand' \in [Senders -> Parcels \cup {NOTHING}] /\ hand'[t] = NOTHING
      /\ \A u \in Senders : u # t => hand'[u] = hand[u]
  BY <1>1 DEF ArpInv, ArpTyped
<1>6. ArpTyped' BY <1>1, <1>5 DEF ArpInv, ArpTyped
<1> HIDE DEF ip
<1>7. /\ DOMAIN req_list' = DOMAIN req_list \cup {ip} /\ req_list'[ip] = more
      /\ \A a \in DOMAIN req_list : a # ip => req_list'[a] = req_list[a]
  BY <1>1
<1>8. (req_list \in [DOMAIN req_list -> Requests] /\ RequestsTrue)'
  <2>1. ASSUME NEW q \in more.packets PROVE next_hop[q.dst] = ip
    <3>1. q \in request.packets => Pending(ip) /\ q \in req_list[ip].packets BY <1>3
    <3>2. q \in request.packets => next_hop[q.dst] = ip BY <3>1 DEF Pending, ArpInv, RequestsTrue
    <3> QED BY <1>4, <3>2 DEF ip
  <2>2. RequestsTrue'
    <3>1. ASSUME NEW a \in DOMAIN req_list'
          PROVE  /\ req_list'[a] \in Requests /\ req_list'[a].packets # {}
                 /\ \A q \in req_list'[a].packets : next_hop[q.dst] = a
      <4>1. CASE a = ip BY <4>1, <1>4, <1>7, <2>1
      <4>2. CASE a # ip BY <4>2, <1>7 DEF ArpInv, RequestsTrue
      <4> QED BY <4>1, <4>2
    <3> QED BY <3>1 DEF RequestsTrue
  <2> QED BY <2>2, <1>1, <1>4, <1>7 DEF RequestsTrue
<1>9. <<t, p>> \in Held BY HeldIs DEF p
<1>10. ASSUME NEW x, NEW r, r # NOTHING
       PROVE  <<x, r>> \in Held' <=> <<x, r>> = <<"req_list", p>> \/ (<<x, r>> \in Held /\ <<x, r>> # <<t, p>>)
  <2>1. (\E a \in DOMAIN req_list' : r \in req_list'[a].packets)
        <=> r = p \/ \E a \in DOMAIN req_list : r \in req_list[a].packets
    <3>1. r \in more.packets <=> r = p \/ (ip \in DOMAIN req_list /\ r \in req_list[ip].packets)
      BY <1>3, <1>4 DEF Pending
    <3> QED BY <3>1, <1>7
  <2>2. \A u \in Senders : r = hand'[u] <=> r = hand[u] /\ u # t
    BY <1>5, <1>10
  <2>3. r = hand[t] <=> r = p BY DEF p
  <2>4. t # "coming" /\ t # "req_list" /\ t # "pkt_list" /\ t # "gone" BY DEF Senders
  <2>5. CASE x \in Senders
    <3>1. x # "coming" /\ x # "req_list" /\ x # "pkt_list" /\ x # "gone" BY <2>5 DEF Senders
    <3>2. <<x, r>> \in Held' <=> r = hand'[x] BY <2>5, <3>1, HeldWillBe
    <3>3. <<x, r>> \in Held <=> r = hand[x] BY <2>5, <3>1, HeldIs
    <3> QED BY <2>2, <2>3, <2>5, <3>1, <3>2, <3>3
  <2>6. CASE x \notin Senders
    <3>1. <<x, r>> # <<t, p>> BY <2>6
    <3> QED BY <1>1, <2>1, <2>6, <3>1, HeldIs, HeldWillBe
  <2> QED BY <2>5, <2>6
<1>11. OneMoves(t, p, "req_list", p) BY <1>10 DEF OneMoves
<1>12. OnePlace' /\ SomePlace'
  BY <1>2, <1>9, <1>11, OneMoved DEF ArpInv
<1> QED BY <1>6, <1>8, <1>12 DEF ArpInv

(***************************************************************************)
(* Requests leave the list: their packets are elsewhere at once.             *)
(***************************************************************************)
RequestsLeave(ips, y) ==
  /\ DOMAIN req_list' = DOMAIN req_list \ ips
  /\ \A a \in DOMAIN req_list' : req_list'[a].packets = req_list[a].packets
  /\ hand' = hand /\ coming' = coming
  /\ \/ y = "gone" /\ gone' = gone \cup PacketsOf(ips) /\ pkt_list' = pkt_list
     \/ y = "pkt_list" /\ pkt_list' = PacketsOf(ips) /\ pkt_list = {} /\ gone' = gone

LEMMA RequestsMove ==
  ASSUME ArpInv, NEW ips, NEW y, RequestsLeave(ips, y)
  PROVE  OnePlace' /\ SomePlace'
<1> DEFINE M == {"req_list"} \X PacketsOf(ips)
           F == [h \in Held |-> IF h \in M THEN <<y, h[2]>> ELSE h]
<1>1. ASSUME NEW x, NEW q
      PROVE  <<x, q>> \in Held' <=> \/ x = y /\ q \in PacketsOf(ips)
                                    \/ <<x, q>> \in Held /\ ~ (x = "req_list" /\ q \in PacketsOf(ips))
  <2>1. (\E a \in DOMAIN req_list' : q \in req_list'[a].packets)
        <=> (\E a \in DOMAIN req_list : q \in req_list[a].packets) /\ q \notin PacketsOf(ips)
    <3>1. ASSUME NEW a \in DOMAIN req_list, NEW b \in DOMAIN req_list,
                 q \in req_list[a].packets, q \in req_list[b].packets
          PROVE  a = b
      BY <3>1 DEF ArpInv, RequestsTrue
    <3>2. q \in PacketsOf(ips) <=> \E a \in DOMAIN req_list : a \in ips /\ q \in req_list[a].packets
      BY DEF PacketsOf
    <3> QED BY <3>1, <3>2 DEF RequestsLeave
  <2>2. q \in PacketsOf(ips) => \E a \in DOMAIN req_list : q \in req_list[a].packets
    BY DEF PacketsOf
  <2>3. CASE y = "gone"
    BY <2>1, <2>2, <2>3, HeldIs, HeldWillBe DEF RequestsLeave, Senders
  <2>4. CASE y = "pkt_list"
    BY <2>1, <2>2, <2>4, HeldIs, HeldWillBe DEF RequestsLeave, Senders
  <2> QED BY <2>3, <2>4 DEF RequestsLeave
<1>2. ASSUME NEW q \in PacketsOf(ips) PROVE <<"req_list", q>> \in Held
  BY HeldIs DEF PacketsOf
<1>3. ASSUME NEW k \in Held', k[2] # NOTHING
      PROVE  \E h \in Held : h[2] # NOTHING /\ k = F[h] /\ h[2].id = k[2].id
  <2>1. k = <<k[1], k[2]>> BY HeldArePairs
  <2>2. CASE k[1] = y /\ k[2] \in PacketsOf(ips)
    <3>1. F[<<"req_list", k[2]>>] = k BY <2>1, <2>2, <1>2
    <3> QED BY <3>1, <2>2, <1>2, <1>3
  <2>3. CASE k \in Held /\ ~ (k[1] = "req_list" /\ k[2] \in PacketsOf(ips))
    <3>1. F[k] = k BY <2>1, <2>3
    <3> QED BY <3>1, <2>3, <1>3
  <2> QED BY <2>1, <2>2, <2>3, <1>1
<1>4. ASSUME NEW h \in Held, h[2] # NOTHING
      PROVE  F[h] \in Held' /\ F[h][2].id = h[2].id
  <2>1. h = <<h[1], h[2]>> BY HeldArePairs
  <2>2. CASE h \in M
    <3>1. F[h] = <<y, h[2]>> /\ h[2] \in PacketsOf(ips) BY <2>2
    <3> QED BY <3>1, <1>1
  <2>3. CASE h \notin M
    <3>1. F[h] = h /\ ~ (h[1] = "req_list" /\ h[2] \in PacketsOf(ips)) BY <2>1, <2>3
    <3>2. <<h[1], h[2]>> \in Held' BY <2>1, <3>1, <1>1
    <3> QED BY <3>1, <3>2, <2>1
  <2> QED BY <2>2, <2>3
<1> HIDE DEF F
<1> QED BY <1>3, <1>4, Moved DEF ArpInv

LEMMA PacketsOfAreParcels ==
  ASSUME ArpInv, NEW ips
  PROVE  PacketsOf(ips) \subseteq Parcels
BY DEF PacketsOf, ArpInv, RequestsTrue, Requests

LEMMA InsertStep ==
  ASSUME ArpInv, NEW ip \in Live, arpcache_insert(ip)
  PROVE  ArpInv'
<1>1. /\ arp_entries' \subseteq Live /\ gone' = gone \cup PacketsOf({ip})
      /\ req_list' = [a \in DOMAIN req_list \ {ip} |-> req_list[a]]
      /\ coming' = coming /\ hand' = hand /\ pkt_list' = pkt_list
  BY DEF arpcache_insert, Answered, Without, ArpInv, ArpTyped
<1>2. ArpTyped' BY <1>1, PacketsOfAreParcels DEF ArpInv, ArpTyped
<1>3. /\ DOMAIN req_list' = DOMAIN req_list \ {ip}
      /\ \A a \in DOMAIN req_list' : req_list'[a] = req_list[a]
  BY <1>1
<1>4. RequestsTrue' BY <1>3 DEF ArpInv, RequestsTrue
<1>5. (req_list \in [DOMAIN req_list -> Requests])' BY <1>1, <1>3 DEF ArpInv
<1>6. RequestsLeave({ip}, "gone") BY <1>1, <1>3 DEF RequestsLeave
<1> QED BY <1>2, <1>4, <1>5, <1>6, RequestsMove DEF ArpInv

LEMMA ArpSweepStep ==
  ASSUME ArpInv, arpcache_sweep
  PROVE  ArpInv'
<1> DEFINE over == {a \in DOMAIN req_list : GivenUp(req_list[a])}
<1>1. /\ arp_entries' \subseteq Live /\ pkt_list = {} /\ pkt_list' = PacketsOf(over)
      /\ req_list' = [a \in DOMAIN Without(over) |-> Retried(req_list[a])]
      /\ coming' = coming /\ hand' = hand /\ gone' = gone
  BY DEF arpcache_sweep, ArpInv, ArpTyped
<1>2. ArpTyped' BY <1>1, PacketsOfAreParcels DEF ArpInv, ArpTyped
<1>3. DOMAIN Without(over) = DOMAIN req_list \ over BY DEF Without
<1>4. /\ DOMAIN req_list' = DOMAIN req_list \ over
      /\ \A a \in DOMAIN req_list' : req_list'[a] = Retried(req_list[a])
  BY <1>1, <1>3
<1>5. ASSUME NEW a \in DOMAIN req_list'
      PROVE  /\ req_list'[a] \in Requests /\ req_list'[a].packets = req_list[a].packets
             /\ req_list[a].packets # {} /\ \A p \in req_list[a].packets : next_hop[p.dst] = a
  <2>1. /\ req_list[a] \in Requests /\ ~ GivenUp(req_list[a]) /\ req_list'[a] = Retried(req_list[a])
        /\ req_list[a].packets # {} /\ \A p \in req_list[a].packets : next_hop[p.dst] = a
    BY <1>4 DEF ArpInv, RequestsTrue
  <2> DEFINE request == req_list[a]
  <2>2. request.young \/ request.retries < ARP_REQUEST_MAX_RETRIES
    BY <2>1, ArpAssumption DEF GivenUp, Requests
  <2> HIDE DEF request
  <2>3. request \in Requests => Retried(request) \in Requests /\ Retried(request).packets = request.packets
    <3> SUFFICES ASSUME request \in Requests
                 PROVE  Retried(request) \in Requests /\ Retried(request).packets = request.packets
      OBVIOUS
    <3>1. CASE request.young
      <4>1. Retried(request) = [request EXCEPT !.young = FALSE] BY <3>1 DEF Retried
      <4> QED BY <4>1 DEF Requests
    <3>2. CASE ~ request.young
      <4>1. Retried(request) = [request EXCEPT !.retries = request.retries + 1] BY <3>2 DEF Retried
      <4>2. request.retries + 1 \in 1 .. ARP_REQUEST_MAX_RETRIES
        BY <2>2, <3>2, ArpAssumption DEF Requests
      <4> QED BY <4>1, <4>2 DEF Requests
    <3> QED BY <3>1, <3>2
  <2> QED BY <2>1, <2>3 DEF request
<1>6. RequestsTrue' BY <1>5 DEF RequestsTrue
<1>7. (req_list \in [DOMAIN req_list -> Requests])' BY <1>1, <1>4, <1>5
<1>8. RequestsLeave(over, "pkt_list") BY <1>1, <1>4, <1>5 DEF RequestsLeave
<1> QED BY <1>2, <1>6, <1>7, <1>8, RequestsMove DEF ArpInv

LEMMA ReportStep ==
  ASSUME ArpInv, NEW p \in pkt_list, report(p)
  PROVE  ArpInv'
<1>1. /\ hand["sweep"] = NOTHING /\ pkt_list' = pkt_list \ {p} /\ SendOwn("sweep", Answer(p))
      /\ coming' = coming /\ arp_entries' = arp_entries /\ req_list' = req_list
      /\ p \in Parcels /\ "sweep" \in Senders /\ ArpTyped
  BY DEF report, Senders, ArpInv, ArpTyped
<1> DEFINE q == Answer(p)
<1>2. q \in Parcels /\ q.id = p.id BY <1>1, AnswerIsParcel
<1>3. TakenOver("sweep", q) BY <1>1, <1>2, SendTakesOver
<1> HIDE DEF q
<1>4. ArpTyped' BY <1>1, <1>3 DEF ArpTyped, TakenOver
<1>5. (req_list \in [DOMAIN req_list -> Requests] /\ RequestsTrue)' BY <1>1 DEF ArpInv, RequestsTrue
<1>6. <<"pkt_list", p>> \in Held BY HeldIs
<1>7. PICK x1 \in {"sweep", "gone"} : \A x, r : r # NOTHING =>
       ( (x \in Senders /\ r = hand'[x]) \/ (x = "gone" /\ r \in gone')
         <=> <<x, r>> = <<x1, q>> \/ (x \in Senders /\ r = hand[x]) \/ (x = "gone" /\ r \in gone) )
  BY <1>3 DEF TakenOver
<1>8. ASSUME NEW x, NEW r, r # NOTHING
      PROVE  <<x, r>> \in Held' <=> <<x, r>> = <<x1, q>> \/ (<<x, r>> \in Held /\ <<x, r>> # <<"pkt_list", p>>)
  BY <1>1, <1>7, <1>8, HeldIs, HeldWillBe DEF Senders
<1>9. OneMoves("pkt_list", p, x1, q) BY <1>8 DEF OneMoves
<1>10. OnePlace' /\ SomePlace'
  BY <1>1, <1>2, <1>6, <1>9, OneMoved DEF ArpInv
<1> QED BY <1>4, <1>5, <1>10 DEF ArpInv

LEMMA ArpInitInvariant == ArpInit => ArpInv
<1> SUFFICES ASSUME ArpInit PROVE ArpInv
  OBVIOUS
<1>1. ArpTyped BY DEF ArpInit, ArpTyped
<1>2. req_list \in [DOMAIN req_list -> Requests] /\ RequestsTrue
  <2>1. DOMAIN req_list = {} BY DEF ArpInit
  <2>2. req_list = [a \in {} |-> req_list[a]] BY DEF ArpInit
  <2> QED BY <2>1, <2>2 DEF RequestsTrue
<1>3. ASSUME NEW x, NEW q, q # NOTHING
      PROVE  <<x, q>> \in Held <=> x = "coming" /\ q \in Packets
  <2>1. DOMAIN req_list = {} BY DEF ArpInit
  <2> QED BY <1>3, <2>1, HeldIs DEF ArpInit
<1>4. OnePlace
  <2> SUFFICES ASSUME NEW h \in Held, NEW k \in Held, h[2] # NOTHING, k[2] # NOTHING, h[2].id = k[2].id
               PROVE  h = k
    BY DEF OnePlace
  <2>1. h = <<h[1], h[2]>> /\ k = <<k[1], k[2]>> BY HeldArePairs
  <2>2. h[1] = k[1] /\ h[2] \in Packets /\ k[2] \in Packets BY <2>1, <1>3
  <2> QED BY <2>1, <2>2, ArpAssumption
<1>5. SomePlace
  <2> SUFFICES ASSUME NEW p \in Packets PROVE \E h \in Held : h[2].id = p.id
    BY DEF SomePlace
  <2>1. <<"coming", p>> \in Held BY HeldIs DEF ArpInit
  <2> QED BY <2>1
<1> QED BY <1>1, <1>2, <1>4, <1>5 DEF ArpInv

LEMMA ArpInvariantHolds ==
  ASSUME ArpInv
  PROVE  PacketsAccounted
<1>1. ASSUME NEW p \in Packets PROVE Cardinality(Holders(p.id)) = 1
  <2>1. PICK h \in Held : h[2].id = p.id BY DEF ArpInv, SomePlace
  <2>2. p.id # NOTHING.id BY ParcelsArePackets DEF Parcels
  <2>3. Holders(p.id) = {h} BY <2>1, <2>2 DEF Holders, ArpInv, OnePlace
  <2> QED BY <2>3, FS_Singleton
<1>2. ASSUME NEW a \in DOMAIN req_list
      PROVE  /\ req_list[a].retries \in 1 .. ARP_REQUEST_MAX_RETRIES
             /\ req_list[a].packets # {}
             /\ \A p \in req_list[a].packets : next_hop[p.dst] = a
  BY DEF ArpInv, RequestsTrue, Requests
<1> QED BY <1>1, <1>2 DEF PacketsAccounted, ArpInv, ArpTyped

(***************************************************************************)
(* With stale look-ups, answers and sweeps of three threads, each packet is   *)
(* in one place, for every number of packets and addresses (arpcache.c).      *)
(***************************************************************************)
THEOREM PacketsKept == ArpSpec => []PacketsAccounted
<1>1. ArpInit => ArpInv BY ArpInitInvariant
<1>2. ArpInv /\ [ArpNext]_arpVars => ArpInv'
  <2> SUFFICES ASSUME ArpInv, [ArpNext]_arpVars PROVE ArpInv'
    OBVIOUS
  <2>1. ASSUME NEW p \in Packets, handle_ip_packet(p) PROVE ArpInv' BY <2>1, HandleStep
  <2>2. ASSUME NEW p \in Packets, send_update(p) PROVE ArpInv' BY <2>2, UpdateStep
  <2>3. ASSUME NEW t \in Senders, arpcache_append_packet(t) PROVE ArpInv' BY <2>3, AppendStep
  <2>4. ASSUME NEW ip \in Live, arpcache_insert(ip) PROVE ArpInv' BY <2>4, InsertStep
  <2>5. CASE arpcache_sweep BY <2>5, ArpSweepStep
  <2>6. ASSUME NEW p \in pkt_list, report(p) PROVE ArpInv' BY <2>6, ReportStep
  <2>7. CASE UNCHANGED arpVars
    <3>1. /\ coming' = coming /\ arp_entries' = arp_entries /\ req_list' = req_list
          /\ hand' = hand /\ pkt_list' = pkt_list /\ gone' = gone
      BY <2>7 DEF arpVars
    <3>2. ArpTyped' BY <3>1 DEF ArpInv, ArpTyped
    <3>3. (req_list \in [DOMAIN req_list -> Requests] /\ RequestsTrue)' BY <3>1 DEF ArpInv, RequestsTrue
    <3>4. Held' = Held BY <3>1 DEF Held, PacketsOf
    <3>5. OnePlace' BY <3>4 DEF ArpInv, OnePlace
    <3>6. SomePlace' BY <3>4 DEF ArpInv, SomePlace
    <3> QED BY <3>2, <3>3, <3>5, <3>6 DEF ArpInv
  <2> QED BY <2>1, <2>2, <2>3, <2>4, <2>5, <2>6, <2>7 DEF ArpNext
<1>3. ArpInv => PacketsAccounted BY ArpInvariantHolds
<1> QED BY <1>1, <1>2, <1>3, PTL DEF ArpSpec

(* Counting, without a parameter for what is counted. *)
LEMMA Induct ==
  ASSUME NEW n \in Nat, NEW T, 0 \in T, \A i \in 0 .. n - 1 : i \in T => i + 1 \in T
  PROVE  \A i \in 0 .. n : i \in T
<1> SUFFICES ASSUME NEW k \in 0 .. n, k \notin T PROVE FALSE
  OBVIOUS
<1> DEFINE M == {i \in 0 .. n : i \notin T}
<1>1. M \in SUBSET Nat /\ M # {} OBVIOUS
<1>2. PICK x \in M : \A y \in M : x <= y BY <1>1, LeastNumber
<1>3. x # 0 /\ x - 1 \in 0 .. n - 1 /\ x - 1 \in 0 .. n /\ x - 1 + 1 = x BY <1>2
<1>4. x - 1 \in T
  <2>1. CASE x - 1 \in M
    <3>1. x <= x - 1 BY <2>1, <1>2
    <3> QED BY <3>1, <1>3
  <2>2. CASE x - 1 \notin M BY <2>2, <1>3
  <2> QED BY <2>1, <2>2
<1>5. x \in T BY <1>3, <1>4
<1> QED BY <1>2, <1>5

-----------------------------------------------------------------------------
(* The mappings of ports.                                                   *)

(***************************************************************************)
(* The list of s as it should be: c names its n mappings, with the head before  *)
(* and behind them; the pointers of each lead to its neighbours, and the head    *)
(* points back to the last or to nothing of the list.  What is listed is where    *)
(* the pointers lead.  The pointers are named: the lemmas are about any.         *)
(***************************************************************************)
Reach(nxt, p, stop) ==
  {q \in Places : \A visited \in SUBSET Places :
     p \in visited /\ (\A r \in visited \ stop : nxt[r] \in visited) => q \in visited}
ListedBy(nxt, free, s) == Reach(nxt, nxt[s], {s} \cup free) \ {s}

Along(n, c) == {c[i] : i \in 1 .. n}
Chain(nxt, prv, free, s, n, c) ==
  /\ n \in Nat /\ c \in [0 .. n + 1 -> Places]
  /\ c[0] = s /\ c[n + 1] = s
  /\ \A i \in 1 .. n : c[i] \in Mappings \ free
  /\ \A i, j \in 1 .. n : c[i] = c[j] => i = j
  /\ \A i \in 0 .. n : nxt[c[i]] = c[i + 1]
  /\ \A i \in 1 .. n : prv[c[i]] = c[i - 1]
  /\ prv[s] = c[n] \/ prv[s] \in Mappings \ Along(n, c)
IsList(nxt, prv, free, s, set) == \E n, c : Chain(nxt, prv, free, s, n, c) /\ Along(n, c) = set

LEMMA Bounded ==
  ASSUME NEW n \in Nat
  PROVE  /\ 0 \in 0 .. n /\ n \in 0 .. n /\ n + 1 \in 0 .. n + 1 /\ n + 1 \in 1 .. n + 1 /\ n + 1 \notin 1 .. n
         /\ \A i \in 0 .. n : i + 1 \in 1 .. n + 1 /\ i \in 0 .. n + 1 /\ (i \in 1 .. n \/ i = 0)
         /\ \A i \in 1 .. n + 1 : i \in 0 .. n + 1 /\ (i \in 1 .. n \/ i = n + 1)
         /\ \A i \in 1 .. n : i \in 0 .. n /\ i \in 1 .. n + 1 /\ i - 1 \in 0 .. n
OBVIOUS

LEMMA HeadsApart == Servers \cap Mappings = {} /\ Servers \subseteq Places /\ Mappings \subseteq Places
BY NatAssumption DEF Places

ReachesAt(nxt, s, stop, c, k) ==
  c[k] \in stop /\ (\A i \in 1 .. k - 1 : c[i] \notin stop) /\ Reach(nxt, nxt[s], stop) = Along(k, c)

LEMMA ReachAlong ==
  ASSUME NEW nxt, NEW prv, NEW free, NEW s \in Servers, NEW n, NEW c,
         Chain(nxt, prv, free, s, n, c), NEW stop, s \in stop
  PROVE  \E k \in 1 .. n + 1 : ReachesAt(nxt, s, stop, c, k)
<1> DEFINE stops == {i \in 1 .. n + 1 : c[i] \in stop}
<1>1. n \in Nat /\ c \in [0 .. n + 1 -> Places] /\ c[0] = s /\ c[n + 1] = s
      /\ \A i \in 0 .. n : nxt[c[i]] = c[i + 1]
  BY DEF Chain
<1>2. n + 1 \in stops BY <1>1, Bounded
<1>3. stops \in SUBSET Nat BY <1>1
<1>4. \E k \in stops : \A i \in stops : k <= i
  <2> HIDE DEF stops
  <2> QED BY <1>2, <1>3, LeastNumber
<1>5. PICK k \in 1 .. n + 1 : c[k] \in stop /\ \A i \in stops : k <= i BY <1>4
<1>6. \A i \in 1 .. k - 1 : i \in 1 .. n + 1 /\ i \in 0 .. n /\ i + 1 \in 1 .. k /\ ~ (k <= i) BY <1>1, <1>5
<1>7. \A i \in 1 .. k - 1 : c[i] \notin stop BY <1>5, <1>6
<1> HIDE DEF stops
<1>8. Along(k, c) \in SUBSET Places BY <1>1, <1>5, Bounded DEF Along
<1>9. nxt[s] = c[1] /\ 1 \in 1 .. k BY <1>1, <1>5
<1>10. Reach(nxt, nxt[s], stop) \subseteq Along(k, c)
  <2>1. nxt[s] \in Along(k, c) BY <1>9 DEF Along
  <2>2. ASSUME NEW r \in Along(k, c) \ stop PROVE nxt[r] \in Along(k, c)
    <3>1. PICK i \in 1 .. k : r = c[i] BY DEF Along
    <3>2. i # k BY <3>1, <1>5, <2>2
    <3>3. i \in 1 .. k - 1 BY <3>2, <1>1, <1>5
    <3>4. nxt[r] = c[i + 1] /\ i + 1 \in 1 .. k BY <3>1, <3>3, <1>1, <1>6
    <3> QED BY <3>4 DEF Along
  <2> QED BY <2>1, <2>2, <1>8 DEF Reach
<1>11. Along(k, c) \subseteq Reach(nxt, nxt[s], stop)
  <2> SUFFICES ASSUME NEW visited \in SUBSET Places, nxt[s] \in visited,
                      \A r \in visited \ stop : nxt[r] \in visited
               PROVE  \A i \in 1 .. k : c[i] \in visited
    BY <1>8 DEF Reach, Along
  <2> DEFINE T == {i \in Nat : c[i + 1] \in visited}
  <2>1. 0 \in T BY <1>9
  <2>2. ASSUME NEW i \in 0 .. k - 1 - 1, i \in T PROVE i + 1 \in T
    <3>1. i + 1 \in 1 .. k - 1 /\ i + 1 \in Nat BY <1>1, <1>5
    <3>2. c[i + 1] \in visited \ stop BY <2>2, <3>1, <1>7
    <3>3. nxt[c[i + 1]] = c[i + 1 + 1] BY <3>1, <1>1, <1>6
    <3> QED BY <3>1, <3>2, <3>3
  <2>3. k - 1 \in Nat BY <1>1, <1>5
  <2> HIDE DEF T
  <2>4. \A i \in 0 .. k - 1 : i \in T BY <2>1, <2>2, <2>3, Induct
  <2>5. ASSUME NEW i \in 1 .. k PROVE c[i] \in visited
    <3>1. i - 1 \in 0 .. k - 1 /\ i - 1 + 1 = i BY <1>1, <1>5
    <3>2. i - 1 \in T BY <3>1, <2>4
    <3> QED BY <3>1, <3>2 DEF T
  <2> QED BY <2>5
<1>12. ReachesAt(nxt, s, stop, c, k) BY <1>5, <1>7, <1>10, <1>11 DEF ReachesAt
<1> QED BY <1>5, <1>12

(* What a list holds, and what a search of it finds. *)
LEMMA ListedIs ==
  ASSUME NEW nxt, NEW prv, NEW free, NEW s \in Servers, NEW set, IsList(nxt, prv, free, s, set)
  PROVE  /\ ListedBy(nxt, free, s) = set /\ s \in Reach(nxt, nxt[s], {s} \cup free)
         /\ set \subseteq Mappings \ free
<1>1. PICK n, c : Chain(nxt, prv, free, s, n, c) /\ Along(n, c) = set BY DEF IsList
<1>2. n \in Nat /\ c[n + 1] = s /\ \A i \in 1 .. n : c[i] \in Mappings \ free /\ c[i] # s
  BY <1>1, HeadsApart DEF Chain
<1> DEFINE stop == {s} \cup free
<1>3. s \in stop /\ \A i \in 1 .. n : c[i] \notin stop BY <1>2
<1>4. ListedBy(nxt, free, s) = Reach(nxt, nxt[s], stop) \ {s} BY DEF ListedBy
<1> HIDE DEF stop
<1>5. PICK k \in 1 .. n + 1 : ReachesAt(nxt, s, stop, c, k) BY <1>1, <1>3, ReachAlong
<1>6. k = n + 1 BY <1>2, <1>3, <1>5, Bounded DEF ReachesAt
<1>7. Along(n + 1, c) = Along(n, c) \cup {s} /\ s \notin Along(n, c)
  <2>1. \A i \in 1 .. n + 1 : i \in 1 .. n \/ i = n + 1 BY <1>2
  <2>2. n + 1 \in 1 .. n + 1 /\ \A i \in 1 .. n : i \in 1 .. n + 1 BY <1>2
  <2> QED BY <2>1, <2>2, <1>2 DEF Along
<1>8. Along(n, c) \subseteq Mappings \ free BY <1>2 DEF Along
<1>9. Reach(nxt, nxt[s], stop) = Along(n + 1, c) BY <1>5, <1>6 DEF ReachesAt
<1>10. ListedBy(nxt, free, s) = set /\ s \in Reach(nxt, nxt[s], stop) BY <1>1, <1>4, <1>7, <1>9
<1> QED BY <1>1, <1>8, <1>10 DEF stop

LEMMA SearchFinds ==
  ASSUME NEW s \in Servers, NEW set, IsList(next, prev, Freed, s, set), NEW fitting \in SUBSET Mappings
  PROVE  \/ Search(s, fitting) = {s} /\ set \cap fitting = {}
         \/ \E m \in set \cap fitting : Search(s, fitting) = {m}
<1> DEFINE stop == fitting \cup Servers \cup Freed
<1>1. PICK n, c : Chain(next, prev, Freed, s, n, c) /\ Along(n, c) = set BY DEF IsList
<1>2. n \in Nat /\ c[n + 1] = s /\ \A i \in 1 .. n : c[i] \in Mappings \ Freed
  BY <1>1 DEF Chain
<1>3. s \in stop OBVIOUS
<1>4. Search(s, fitting) = Reach(next, next[s], stop) \cap stop BY DEF Search, Walk, Reach
<1>5. \A m \in Mappings \ Freed : m \in stop => m \in fitting BY HeadsApart
<1>6. fitting \subseteq stop OBVIOUS
<1> HIDE DEF stop
<1>7. PICK k \in 1 .. n + 1 : ReachesAt(next, s, stop, c, k) BY <1>1, <1>3, ReachAlong
<1>8. c[k] \in stop /\ (\A i \in 1 .. k - 1 : c[i] \notin stop) /\ Reach(next, next[s], stop) = Along(k, c)
  BY <1>7 DEF ReachesAt
<1>9. Along(k, c) \cap stop = {c[k]}
  <2>1. \A i \in 1 .. k : i \in 1 .. k - 1 \/ i = k BY <1>2
  <2>2. k \in 1 .. k BY <1>2
  <2> QED BY <2>1, <2>2, <1>8 DEF Along
<1>10. CASE k = n + 1
  <2>1. k - 1 = n BY <1>10, <1>2
  <2>2. \A i \in 1 .. n : c[i] \notin stop BY <2>1, <1>8
  <2>3. Along(n, c) \cap fitting = {} BY <2>2, <1>6 DEF Along
  <2> QED BY <2>3, <1>1, <1>2, <1>4, <1>8, <1>9, <1>10
<1>11. CASE k \in 1 .. n
  <2>1. c[k] \in fitting BY <1>2, <1>5, <1>8, <1>11
  <2>2. c[k] \in Along(n, c) BY <1>11 DEF Along
  <2> QED BY <2>1, <2>2, <1>1, <1>4, <1>8, <1>9
<1> QED BY <1>2, <1>10, <1>11, Bounded

(***************************************************************************)
(* A list whose own pointers stay, whatever becomes of the others.             *)
(***************************************************************************)
LEMMA ListStays ==
  ASSUME NEW nxt, NEW prv, NEW free, NEW s \in Servers, NEW set, IsList(nxt, prv, free, s, set),
         NEW nx2, NEW pv2, NEW free2, set \cap free2 = {},
         \A q \in set \cup {s} : nx2[q] = nxt[q],
         \A q \in set : pv2[q] = prv[q],
         pv2[s] = prv[s] \/ pv2[s] \in Mappings \ set
  PROVE  IsList(nx2, pv2, free2, s, set)
<1>1. PICK n, c : Chain(nxt, prv, free, s, n, c) /\ Along(n, c) = set BY DEF IsList
<1>2. n \in Nat /\ \A i \in 1 .. n : c[i] \in set BY <1>1 DEF Along, Chain
<1>3. \A i \in 0 .. n : c[i] \in set \cup {s} BY <1>1, <1>2, Bounded DEF Chain
<1>4. \A i \in 0 .. n : nx2[c[i]] = c[i + 1] BY <1>1, <1>3 DEF Chain
<1>5. \A i \in 1 .. n : pv2[c[i]] = c[i - 1] BY <1>1, <1>2 DEF Chain
<1>6. \A i \in 1 .. n : c[i] \in Mappings \ free2 BY <1>1, <1>2 DEF Chain
<1>7. pv2[s] = c[n] \/ pv2[s] \in Mappings \ Along(n, c) BY <1>1 DEF Chain
<1>8. Chain(nx2, pv2, free2, s, n, c) BY <1>1, <1>4, <1>5, <1>6, <1>7 DEF Chain
<1> QED BY <1>1, <1>8 DEF IsList

(***************************************************************************)
(* A mapping is linked behind what the head points back to, when that is of     *)
(* the list.                                                                *)
(***************************************************************************)
LinksBehind(nxt, prv, s, set, new, nx2, pv2) ==
  /\ new \notin set /\ prv[s] \in set \cup {s}
  /\ nx2[prv[s]] = new /\ nx2[new] = s /\ pv2[new] = prv[s] /\ pv2[s] = new
  /\ \A q \in set \cup {s} : q # prv[s] => nx2[q] = nxt[q]
  /\ \A q \in set : pv2[q] = prv[q]

LEMMA LinkedBehind ==
  ASSUME NEW nxt, NEW prv, NEW free, NEW s \in Servers, NEW set, IsList(nxt, prv, free, s, set),
         NEW new \in Mappings, NEW nx2, NEW pv2, NEW free2, (set \cup {new}) \cap free2 = {},
         LinksBehind(nxt, prv, s, set, new, nx2, pv2)
  PROVE  IsList(nx2, pv2, free2, s, set \cup {new})
<1> USE DEF LinksBehind
<1>1. PICK n, c : Chain(nxt, prv, free, s, n, c) /\ Along(n, c) = set BY DEF IsList
<1>2. /\ n \in Nat /\ c \in [0 .. n + 1 -> Places] /\ c[0] = s /\ c[n + 1] = s
      /\ \A i \in 1 .. n : c[i] \in Mappings \ free
      /\ \A i, j \in 1 .. n : c[i] = c[j] => i = j
      /\ \A i \in 0 .. n : nxt[c[i]] = c[i + 1]
      /\ \A i \in 1 .. n : prv[c[i]] = c[i - 1]
      /\ prv[s] = c[n] \/ prv[s] \in Mappings \ Along(n, c)
  BY <1>1 DEF Chain
<1>3. \A i \in 1 .. n : c[i] \in set BY <1>1 DEF Along
<1>4. prv[s] = c[n] BY <1>1, <1>2, HeadsApart
<1>5. \A i \in 0 .. n : (i \in 1 .. n \/ i = 0) /\ c[i] \in set \cup {s} BY <1>2, <1>3, Bounded
<1>6. \A i, j \in 0 .. n : c[i] = c[j] => i = j BY <1>2, <1>5, HeadsApart
<1> DEFINE N == n + 1
           d == [i \in 0 .. N + 1 |-> IF i <= n THEN c[i] ELSE IF i = N THEN new ELSE s]
<1>7. N \in Nat /\ N - 1 = n BY <1>2
<1>8. \A i \in 0 .. N + 1 : i \in 0 .. n \/ i = N \/ i = N + 1 BY <1>2
<1>9. /\ \A i \in 0 .. n : i \in 0 .. N + 1 /\ i <= n
      /\ N \in 0 .. N + 1 /\ N + 1 \in 0 .. N + 1 /\ ~ (N <= n) /\ ~ (N + 1 <= n) /\ N + 1 # N
  BY <1>2
<1>10. (\A i \in 0 .. n : d[i] = c[i]) /\ d[N] = new /\ d[N + 1] = s BY <1>9
<1>11. d \in [0 .. N + 1 -> Places]
  <2>1. \A i \in 0 .. n : c[i] \in Places BY <1>2, <1>9, Bounded
  <2> QED BY <2>1, <1>8, <1>9, HeadsApart
<1> HIDE DEF d
<1>12. /\ \A i \in 1 .. N : (i \in 1 .. n /\ i \in 0 .. n /\ i - 1 \in 0 .. n) \/ i = N
       /\ \A i \in 1 .. n : i \in 1 .. N
       /\ N \in 1 .. N
  BY <1>2
<1>13. \A i \in 1 .. N : d[i] \in Mappings \ free2
  BY <1>2, <1>3, <1>10, <1>12
<1>14. \A i, j \in 1 .. N : d[i] = d[j] => i = j
  <2>1. \A i \in 1 .. n : d[i] = c[i] /\ d[i] # new BY <1>3, <1>10, <1>12
  <2> QED BY <2>1, <1>2, <1>10, <1>12
<1>15. \A i \in 0 .. N : nx2[d[i]] = d[i + 1]
  <2>1. ASSUME NEW i \in 0 .. n, i # n PROVE nx2[d[i]] = d[i + 1]
    <3>1. c[i] # c[n] BY <2>1, <1>2, <1>6, Bounded
    <3>2. i + 1 \in 0 .. n BY <2>1, <1>2
    <3>3. nx2[c[i]] = nxt[c[i]] BY <3>1, <1>4, <1>5
    <3> QED BY <3>2, <3>3, <1>2, <1>10
  <2>2. nx2[d[n]] = d[N] BY <1>2, <1>4, <1>10, Bounded
  <2>3. \A i \in 0 .. N : i \in 0 .. n \/ i = N BY <1>2
  <2> QED BY <2>1, <2>2, <2>3, <1>10
<1>16. \A i \in 1 .. N : pv2[d[i]] = d[i - 1]
  <2>1. ASSUME NEW i \in 1 .. n PROVE pv2[d[i]] = d[i - 1]
    BY <1>2, <1>3, <1>10, <1>12
  <2>2. pv2[d[N]] = d[N - 1] BY <1>2, <1>4, <1>7, <1>10, Bounded
  <2> QED BY <2>1, <2>2, <1>12
<1>17. Along(N, d) = set \cup {new}
  <2>1. \A i \in 1 .. n : d[i] = c[i] BY <1>10, <1>12
  <2>2. Along(N, d) = Along(n, c) \cup {new} BY <2>1, <1>10, <1>12 DEF Along
  <2> QED BY <2>2, <1>1
<1>18. d[0] = s BY <1>2, <1>10, Bounded
<1> HIDE DEF N
<1>19. Chain(nx2, pv2, free2, s, N, d)
  BY <1>7, <1>10, <1>11, <1>13, <1>14, <1>15, <1>16, <1>18 DEF Chain
<1> QED BY <1>17, <1>19 DEF IsList

(***************************************************************************)
(* A mapping of the list and its neighbours.                                *)
(***************************************************************************)
Fits(nxt, prv, s, set, m) ==
  /\ nxt[m] \in (set \ {m}) \cup {s} /\ prv[m] \in (set \ {m}) \cup {s}
  /\ nxt[m] = s => prv[s] = m \/ prv[s] \in Mappings \ set
  /\ nxt[m] # s => prv[s] # m
LEMMA EntryOf ==
  ASSUME NEW nxt, NEW prv, NEW free, NEW s \in Servers, NEW set, IsList(nxt, prv, free, s, set), NEW m \in set
  PROVE  Fits(nxt, prv, s, set, m)
<1>1. PICK n, c : Chain(nxt, prv, free, s, n, c) /\ Along(n, c) = set BY DEF IsList
<1>2. /\ n \in Nat /\ c[0] = s /\ c[n + 1] = s
      /\ \A i \in 1 .. n : c[i] \in Mappings \ free
      /\ \A i, j \in 1 .. n : c[i] = c[j] => i = j
      /\ \A i \in 0 .. n : nxt[c[i]] = c[i + 1]
      /\ \A i \in 1 .. n : prv[c[i]] = c[i - 1]
      /\ prv[s] = c[n] \/ prv[s] \in Mappings \ Along(n, c)
  BY <1>1 DEF Chain
<1>3. PICK k \in 1 .. n : m = c[k] BY <1>1 DEF Along
<1>4. \A i \in 1 .. n : c[i] \in set BY <1>1 DEF Along
<1>5. k \in 0 .. n /\ k - 1 \in 0 .. n /\ (k + 1 \in 1 .. n \/ k = n) /\ (k - 1 \in 1 .. n \/ k - 1 = 0)
      /\ k + 1 # k /\ k - 1 # k
  BY <1>2
<1>6. nxt[m] = c[k + 1] /\ prv[m] = c[k - 1] BY <1>2, <1>3, <1>5
<1>7. nxt[m] \in (set \ {m}) \cup {s}
  <2>1. CASE k = n BY <2>1, <1>2, <1>6
  <2>2. CASE k + 1 \in 1 .. n BY <2>2, <1>2, <1>3, <1>4, <1>5, <1>6
  <2> QED BY <2>1, <2>2, <1>5
<1>8. prv[m] \in (set \ {m}) \cup {s}
  <2>1. CASE k - 1 = 0 BY <2>1, <1>2, <1>6
  <2>2. CASE k - 1 \in 1 .. n BY <2>2, <1>2, <1>3, <1>4, <1>5, <1>6
  <2> QED BY <2>1, <2>2, <1>5
<1>9. nxt[m] = s => k = n
  <2>1. k + 1 \in 1 .. n => c[k + 1] # s BY <1>2, HeadsApart
  <2> QED BY <2>1, <1>5, <1>6
<1>10. k = n => nxt[m] = s BY <1>2, <1>6
<1>11. prv[s] = m => k = n
  <2>1. prv[s] = c[n] \/ prv[s] \notin set BY <1>1, <1>2
  <2>2. prv[s] = m => c[n] = c[k] BY <2>1, <1>3
  <2>3. n \in 1 .. n BY <1>2, <1>3
  <2> QED BY <2>2, <2>3, <1>2
<1>12. k = n => prv[s] = m \/ prv[s] \in Mappings \ set BY <1>1, <1>2, <1>3
<1> QED BY <1>7, <1>8, <1>9, <1>10, <1>11, <1>12 DEF Fits

(***************************************************************************)
(* A mapping is taken out of the list, and the head then points back to the      *)
(* last or to nothing of the list.                                          *)
(***************************************************************************)
TakesOut(nxt, prv, s, set, m, nx2, pv2) ==
  /\ nx2[prv[m]] = nxt[m]
  /\ \A q \in (set \ {m}) \cup {s} : q # prv[m] => nx2[q] = nxt[q]
  /\ nxt[m] # s => pv2[nxt[m]] = prv[m]
  /\ \A q \in set \ {m} : q # nxt[m] => pv2[q] = prv[q]
  /\ nxt[m] = s => pv2[s] = prv[m] \/ pv2[s] \in Mappings \ (set \ {m})
  /\ nxt[m] # s => pv2[s] = prv[s]

LEMMA TakenOut ==
  ASSUME NEW nxt, NEW prv, NEW free, NEW s \in Servers, NEW set, IsList(nxt, prv, free, s, set), NEW m \in set,
         NEW nx2, NEW pv2, NEW free2, (set \ {m}) \cap free2 = {},
         TakesOut(nxt, prv, s, set, m, nx2, pv2)
  PROVE  IsList(nx2, pv2, free2, s, set \ {m})
<1> USE DEF TakesOut
<1>1. PICK n, c : Chain(nxt, prv, free, s, n, c) /\ Along(n, c) = set BY DEF IsList
<1>2. /\ n \in Nat /\ c \in [0 .. n + 1 -> Places] /\ c[0] = s /\ c[n + 1] = s
      /\ \A i \in 1 .. n : c[i] \in Mappings \ free
      /\ \A i, j \in 1 .. n : c[i] = c[j] => i = j
      /\ \A i \in 0 .. n : nxt[c[i]] = c[i + 1]
      /\ \A i \in 1 .. n : prv[c[i]] = c[i - 1]
      /\ prv[s] = c[n] \/ prv[s] \in Mappings \ Along(n, c)
  BY <1>1 DEF Chain
<1>3. PICK k \in 1 .. n : m = c[k] BY <1>1 DEF Along
<1>4. \A i \in 1 .. n : c[i] \in set BY <1>1 DEF Along
<1>5. k \in 0 .. n /\ k - 1 \in 0 .. n /\ k + 1 \in 0 .. n + 1 BY <1>2
<1>6. nxt[m] = c[k + 1] /\ prv[m] = c[k - 1] BY <1>2, <1>3, <1>5
<1>7. \A i, j \in 0 .. n : c[i] = c[j] => i = j BY <1>2, HeadsApart, Bounded
<1>8. \A i \in 1 .. n : c[i] # s BY <1>2, HeadsApart
<1>9. c[k + 1] = s <=> k = n
  <2>1. k + 1 \in 1 .. n \/ k = n BY <1>2
  <2>2. k + 1 \in 1 .. n => k # n BY <1>2
  <2> QED BY <2>1, <2>2, <1>2, <1>8
<1> DEFINE N == n - 1
           d == [i \in 0 .. N + 1 |-> IF i < k THEN c[i] ELSE c[i + 1]]
<1>10. N \in Nat /\ N + 1 = n BY <1>2, <1>3
<1>11. \A i \in 0 .. N + 1 : i \in 0 .. n + 1 /\ i + 1 \in 0 .. n + 1 BY <1>2, <1>10
<1>12. \A i \in 0 .. N + 1 : (i < k => d[i] = c[i]) /\ (~ (i < k) => d[i] = c[i + 1]) OBVIOUS
<1>13. d \in [0 .. N + 1 -> Places] BY <1>2, <1>11
<1> HIDE DEF d
<1>14. d[0] = s /\ d[N + 1] = s
  <2>1. 0 \in 0 .. N + 1 /\ 0 < k /\ N + 1 \in 0 .. N + 1 /\ ~ (N + 1 < k) /\ N + 1 + 1 = n + 1 BY <1>2, <1>10
  <2> QED BY <2>1, <1>2, <1>12
<1>15. \A i \in 1 .. N : /\ i \in 0 .. N + 1
                         /\ i < k => i \in 1 .. n /\ i # k
                         /\ ~ (i < k) => i + 1 \in 1 .. n /\ i + 1 # k
  BY <1>2, <1>10
<1>16. ASSUME NEW i \in 1 .. N PROVE d[i] \in set \ {m}
  <2>1. CASE i < k
    <3>1. d[i] = c[i] /\ i \in 1 .. n /\ i # k BY <2>1, <1>12, <1>15
    <3> QED BY <3>1, <1>2, <1>3, <1>4
  <2>2. CASE ~ (i < k)
    <3>1. d[i] = c[i + 1] /\ i + 1 \in 1 .. n /\ i + 1 # k BY <2>2, <1>12, <1>15
    <3> QED BY <3>1, <1>2, <1>3, <1>4
  <2> QED BY <2>1, <2>2
<1>17. \A i \in 1 .. N : d[i] \in Mappings \ free2 
  <2>1. set \subseteq Mappings BY <1>1, <1>2 DEF Along
  <2> QED BY <2>1, <1>16
<1>18. \A i, j \in 1 .. N : d[i] = d[j] => i = j
  <2> SUFFICES ASSUME NEW i \in 1 .. N, NEW j \in 1 .. N, d[i] = d[j] PROVE i = j
    OBVIOUS
  <2>1. CASE i < k /\ j < k BY <2>1, <1>2, <1>12, <1>15
  <2>2. CASE ~ (i < k) /\ ~ (j < k)
    <3>1. i + 1 = j + 1 BY <2>2, <1>2, <1>12, <1>15
    <3> QED BY <3>1
  <2>3. CASE i < k /\ ~ (j < k)
    <3>1. i = j + 1 BY <2>3, <1>2, <1>12, <1>15
    <3> QED BY <3>1, <2>3
  <2>4. CASE ~ (i < k) /\ j < k
    <3>1. j = i + 1 BY <2>4, <1>2, <1>12, <1>15
    <3> QED BY <3>1, <2>4
  <2> QED BY <2>1, <2>2, <2>3, <2>4
<1>19. \A q \in set \cup {s} : q # m /\ q # prv[m] => nx2[q] = nxt[q] OBVIOUS
<1>20. \A i \in 0 .. n : c[i] \in set \cup {s} BY <1>2, <1>4, Bounded
<1>21. \A i \in 0 .. N : nx2[d[i]] = d[i + 1]
  <2> SUFFICES ASSUME NEW i \in 0 .. N PROVE nx2[d[i]] = d[i + 1]
    OBVIOUS
  <2>1. i \in 0 .. N + 1 /\ i + 1 \in 0 .. N + 1 /\ i \in 0 .. n /\ i + 1 \in 0 .. n BY <1>2, <1>10
  <2>2. CASE i + 1 < k
    <3>1. i < k /\ i # k /\ i # k - 1 BY <2>2, <2>1
    <3>2. d[i] = c[i] /\ d[i + 1] = c[i + 1] BY <3>1, <2>1, <2>2, <1>12
    <3>3. c[i] # c[k] /\ c[i] # c[k - 1] BY <3>1, <2>1, <1>5, <1>7
    <3>4. nx2[c[i]] = nxt[c[i]] BY <3>3, <2>1, <1>3, <1>6, <1>19, <1>20
    <3> QED BY <3>2, <3>4, <2>1, <1>2
  <2>3. CASE i + 1 = k
    <3>1. i < k /\ ~ (i + 1 < k) /\ i = k - 1 /\ i + 1 + 1 = k + 1 BY <2>3, <2>1
    <3>2. d[i] = c[k - 1] /\ d[i + 1] = c[k + 1] BY <3>1, <2>1, <1>12
    <3> QED BY <3>2, <1>6
  <2>4. CASE k <= i
    <3>1. ~ (i < k) /\ ~ (i + 1 < k) /\ i + 1 # k /\ i + 1 # k - 1 BY <2>4, <2>1
    <3>2. d[i] = c[i + 1] /\ d[i + 1] = c[i + 1 + 1] BY <3>1, <2>1, <1>12
    <3>3. c[i + 1] # c[k] /\ c[i + 1] # c[k - 1] BY <3>1, <2>1, <1>5, <1>7
    <3>4. nx2[c[i + 1]] = nxt[c[i + 1]] BY <3>3, <2>1, <1>3, <1>6, <1>19, <1>20
    <3> QED BY <3>2, <3>4, <2>1, <1>2
  <2>5. i + 1 < k \/ i + 1 = k \/ k <= i BY <2>1
  <2> QED BY <2>2, <2>3, <2>4, <2>5
<1>22. \A q \in set \ {m} : q # nxt[m] => pv2[q] = prv[q] OBVIOUS
<1>23. \A i \in 1 .. N : pv2[d[i]] = d[i - 1]
  <2> SUFFICES ASSUME NEW i \in 1 .. N PROVE pv2[d[i]] = d[i - 1]
    OBVIOUS
  <2>1. i \in 0 .. N + 1 /\ i - 1 \in 0 .. N + 1 /\ i \in 0 .. n /\ i + 1 \in 1 .. n /\ i + 1 \in 0 .. n /\ i \in 1 .. n
    BY <1>2, <1>10
  <2>2. CASE i < k
    <3>1. i - 1 < k /\ i # k + 1 BY <2>2, <2>1
    <3>2. d[i] = c[i] /\ d[i - 1] = c[i - 1] BY <3>1, <2>1, <2>2, <1>12
    <3>3. c[i] # c[k + 1]
      <4>1. k + 1 \in 0 .. n \/ k = n BY <1>2
      <4> QED BY <4>1, <3>1, <2>1, <1>2, <1>7, <1>8
    <3>4. pv2[c[i]] = prv[c[i]] BY <3>2, <3>3, <1>6, <1>16, <1>22
    <3> QED BY <3>2, <3>4, <2>1, <1>2
  <2>3. CASE i = k
    <3>1. ~ (i < k) /\ i - 1 < k BY <2>3, <2>1
    <3>2. d[i] = c[k + 1] /\ d[i - 1] = c[k - 1] BY <3>1, <2>1, <2>3, <1>12
    <3>3. nxt[m] # s BY <2>1, <2>3, <1>6, <1>8
    <3> QED BY <3>2, <3>3, <1>6
  <2>4. CASE k < i
    <3>1. ~ (i < k) /\ ~ (i - 1 < k) /\ i + 1 # k + 1 /\ i - 1 + 1 = i /\ i + 1 - 1 = i /\ k + 1 \in 0 .. n
      BY <2>4, <2>1, <1>10
    <3>2. d[i] = c[i + 1] BY <3>1, <2>1, <1>12
    <3>6. d[i - 1] = c[i - 1 + 1] BY <3>1, <2>1, <1>12
    <3>3. c[i + 1] # c[k + 1] BY <3>1, <2>1, <1>7
    <3>4. pv2[c[i + 1]] = prv[c[i + 1]] BY <3>2, <3>3, <1>6, <1>16, <1>22
    <3>5. prv[c[i + 1]] = c[i] BY <3>1, <2>1, <1>2
    <3> QED BY <3>1, <3>2, <3>4, <3>5, <3>6
  <2>5. i < k \/ i = k \/ k < i BY <2>1
  <2> QED BY <2>2, <2>3, <2>4, <2>5
<1>24. Along(N, d) = set \ {m}
  <2>1. ASSUME NEW q \in set \ {m} PROVE \E i \in 1 .. N : d[i] = q
    <3>1. PICK i \in 1 .. n : q = c[i] BY <1>1 DEF Along
    <3>2. i # k BY <3>1, <1>3
    <3>3. CASE i < k
      <4>1. i \in 1 .. N /\ i \in 0 .. N + 1 BY <3>3, <1>10
      <4> QED BY <4>1, <3>1, <3>3, <1>12
    <3>4. CASE k < i
      <4>1. i - 1 \in 1 .. N /\ i - 1 \in 0 .. N + 1 /\ ~ (i - 1 < k) /\ i - 1 + 1 = i BY <3>4, <1>10
      <4>2. d[i - 1] = c[i] BY <4>1, <1>12
      <4> QED BY <4>1, <4>2, <3>1
    <3>5. i < k \/ k < i BY <3>2
    <3> QED BY <3>3, <3>4, <3>5
  <2>2. set \ {m} \subseteq Along(N, d) BY <2>1 DEF Along
  <2>3. Along(N, d) \subseteq set \ {m} BY <1>16 DEF Along
  <2> QED BY <2>2, <2>3
<1>25. pv2[s] = d[N] \/ pv2[s] \in Mappings \ Along(N, d)
  <2>1. N \in 0 .. N + 1 BY <1>10
  <2>2. CASE k = n
    <3>1. nxt[m] = s /\ N < k /\ N = k - 1 BY <2>2, <1>6, <1>9, <1>10
    <3>2. d[N] = prv[m] BY <3>1, <2>1, <1>6, <1>12
    <3> QED BY <3>1, <3>2, <1>24
  <2>3. CASE k # n
    <3>1. nxt[m] # s /\ ~ (N < k) BY <2>3, <1>6, <1>9, <1>10
    <3>2. d[N] = c[n] BY <3>1, <2>1, <1>10, <1>12
    <3> QED BY <3>1, <3>2, <1>1, <1>2, <1>24
  <2> QED BY <2>2, <2>3
<1> HIDE DEF N
<1>26. Chain(nx2, pv2, free2, s, N, d)
  BY <1>10, <1>13, <1>14, <1>17, <1>18, <1>21, <1>23, <1>25 DEF Chain
<1> QED BY <1>24, <1>26 DEF IsList

(***************************************************************************)
(* The inductive invariant, unless a mapping was linked with a prev that leads    *)
(* to freed memory.  Each list is sound, and its head points back to nothing but   *)
(* the list or a mapping that was lost; what the main thread found is linked, or    *)
(* was freed since; the mapping it will link is in nobody else's hands and of a      *)
(* host the list has not; and of the mappings in use, that one included, no two       *)
(* have one port of the pool.                                                  *)
(***************************************************************************)
Contents == [host : Hosts, port : 0 .. NAT_PORT_MAX]
Workers ==
  {WAITING, ENDED} \cup [at : {"assign"}, server : Servers, host : Hosts]
  \cup [at : {"insert"}, entry : Mappings, server : Servers]
  \cup [at : {"reset"}, entry : Places]
Timeouts == {ASLEEP, [at |-> "walk"]} \cup [at : {"release", "unlink"}, entry : Mappings]

NatTyped ==
  /\ next \in [Places -> Places] /\ prev \in [Places -> Places]
  /\ mapping \in [Mappings -> Contents \cup {FREED}]
  /\ assigned_ports \subseteq NatPorts
  /\ worker \in Workers /\ timeout \in Timeouts

HostOf(m) == mapping[m].host
ListsSound ==
  /\ \A s \in Servers : IsList(next, prev, Freed, s, Listed(s))
  /\ \A s \in Servers : \A m, n \in Listed(s) : HostOf(m) = HostOf(n) => m = n
  /\ \A s, t \in Servers : s # t => Listed(s) \cap Listed(t) = {}

Inserting == IF worker.at = "insert" THEN {worker.entry} ELSE {}
Lost == Mappings \ (Linked \cup Freed \cup Inserting)
BackSound == \A s \in Servers : prev[s] \in Listed(s) \cup {s} \cup Lost

WorkerSound ==
  /\ worker.at = "assign" => \A m \in Listed(worker.server) : HostOf(m) # worker.host
  /\ worker.at = "insert" =>
       /\ worker.entry \notin Linked \cup Freed
       /\ \A m \in Listed(worker.server) : HostOf(m) # HostOf(worker.entry)
  /\ worker.at = "reset" => worker.entry \in Servers \cup Freed \cup Linked
TimeoutSound == timeout.at \in {"release", "unlink"} => timeout.entry \in Linked

InUse == (Linked \ Leaving) \cup Inserting
PortsSound ==
  \A m \in InUse : mapping[m].port # 0 =>
    /\ mapping[m].port \in assigned_ports
    /\ \A n \in InUse : mapping[n].port = mapping[m].port => n = m

NatSound == NatTyped /\ ListsSound /\ BackSound /\ WorkerSound /\ TimeoutSound /\ PortsSound
NatInv == torn \/ NatSound

LEMMA ListedForm ==
  /\ \A s \in Servers : Listed(s) = ListedBy(next, Freed, s)
  /\ \A s \in Servers : Listed(s)' = ListedBy(next', Freed', s)
BY DEF Listed, ListedBy, Walk, Reach

LEMMA LinkedForm ==
  /\ \A s \in Servers : Listed(s) \subseteq Linked
  /\ \A m \in Linked : \E s \in Servers : m \in Listed(s)
  /\ \A s \in Servers : Listed(s)' \subseteq Linked'
  /\ \A m \in Linked' : \E s \in Servers : m \in Listed(s)'
BY DEF Linked

LEMMA LinkedAreMappings ==
  ASSUME ListsSound
  PROVE  /\ Linked \subseteq Mappings \ Freed
         /\ \A s \in Servers : Listed(s) \subseteq Mappings \ Freed
<1>1. ASSUME NEW s \in Servers PROVE Listed(s) \subseteq Mappings \ Freed
  <2> DEFINE set == Listed(s)
             free == Freed
  <2>1. IsList(next, prev, free, s, set) BY DEF ListsSound
  <2> HIDE DEF set, free
  <2>2. set \subseteq Mappings \ free BY <2>1, ListedIs
  <2> QED BY <2>2 DEF set, free
<1> QED BY <1>1, LinkedForm

LEMMA ListedNow ==
  ASSUME NEW t \in Servers, NEW now, IsList(next', prev', Freed', t, now[t])
  PROVE  Listed(t)' = now[t]
<1>1. PICK free2, set : free2 = Freed' /\ set = now[t] OBVIOUS
<1>2. IsList(next', prev', free2, t, set) BY <1>1
<1>3. ListedBy(next', free2, t) = set BY <1>2, ListedIs
<1> QED BY <1>1, <1>3, ListedForm

(***************************************************************************)
(* A step of the lists: some mappings go, at most one comes to the list of s,     *)
(* and each list is sound.                                                   *)
(***************************************************************************)
Become(now) == \A t \in Servers : IsList(next', prev', Freed', t, now[t])
Moves(s, leaves, come, now) ==
  /\ come \in SUBSET Mappings /\ come \cap Linked = {} /\ \A m, n \in come : m = n
  /\ \A t \in Servers : t # s => now[t] \subseteq Listed(t) \ leaves
  /\ s \in Servers => now[s] \subseteq (Listed(s) \ leaves) \cup come
  /\ \A m \in (Linked \ leaves) \cup come : mapping'[m] = mapping[m]
  /\ \A m \in come : \A n \in Listed(s) : HostOf(n) # HostOf(m)
LEMMA ListsGoOn ==
  ASSUME ListsSound, NEW s, NEW leaves, NEW come, NEW now, Become(now), Moves(s, leaves, come, now)
  PROVE  ListsSound' /\ \A t \in Servers : Listed(t)' = now[t]
<1>1. ASSUME NEW t \in Servers PROVE Listed(t)' = now[t]
  <2>1. IsList(next', prev', Freed', t, now[t]) BY DEF Become
  <2> QED BY <2>1, ListedNow
<1>2. \A t \in Servers : IsList(next, prev, Freed, t, Listed(t))'
  <2> SUFFICES ASSUME NEW t \in Servers PROVE IsList(next, prev, Freed, t, Listed(t))'
    OBVIOUS
  <2> QED BY <1>1 DEF Become
<1>3. \A t \in Servers : \A m \in now[t] :
        (m \in Listed(t) \/ (t = s /\ m \in come)) /\ mapping'[m] = mapping[m]
  BY LinkedForm DEF Moves
<1>4. ASSUME NEW t \in Servers, NEW m \in now[t], NEW n \in now[t], mapping'[m].host = mapping'[n].host
      PROVE  m = n
  <2>1. HostOf(m) = HostOf(n) BY <1>3, <1>4 DEF HostOf
  <2>2. CASE m \in Listed(t) /\ n \in Listed(t) BY <2>1, <2>2 DEF ListsSound
  <2>3. CASE t = s /\ (m \in come \/ n \in come) BY <2>1, <2>3, <1>3 DEF Moves
  <2> QED BY <2>2, <2>3, <1>3
<1>5. \A t \in Servers : \A m, n \in Listed(t)' : HostOf(m)' = HostOf(n)' => m = n
  BY <1>1, <1>4 DEF HostOf
<1>6. ASSUME NEW t \in Servers, NEW u \in Servers, t # u PROVE now[t] \cap now[u] = {}
  <2>1. Listed(t) \cap Listed(u) = {} BY <1>6 DEF ListsSound
  <2> QED BY <2>1, <1>3, <1>6, LinkedForm DEF Moves
<1>7. \A t, u \in Servers : t # u => Listed(t)' \cap Listed(u)' = {} BY <1>1, <1>6
<1> QED BY <1>1, <1>2, <1>5, <1>7 DEF ListsSound

(* A step that leaves what is linked alone. *)
LEMMA SameLists ==
  ASSUME ListsSound, next' = next, prev' = prev,
         \A m \in Mappings \ Freed : mapping'[m] = mapping[m]
  PROVE  /\ ListsSound' /\ (\A s \in Servers : Listed(s)' = Listed(s)) /\ Linked' = Linked
         /\ Freed' \subseteq Freed
<1>1. Freed' \subseteq Freed BY DEF Freed
<1>2. \A m \in Linked : mapping'[m] = mapping[m] BY LinkedAreMappings
<1> DEFINE now == [t \in Servers |-> Listed(t)]
<1>3. \A t \in Servers : now[t] = Listed(t) OBVIOUS
<1> HIDE DEF now
<1>7. Moves(0, {}, {}, now)
  <2>1. {} \in SUBSET Mappings /\ {} \cap Linked = {} /\ \A m, n \in {} : m = n OBVIOUS
  <2>2. \A t \in Servers : now[t] = Listed(t) \ {} BY <1>3
  <2>3. 0 \in Servers => now[0] \subseteq (Listed(0) \ {}) \cup {} BY <1>3
  <2>4. \A m \in (Linked \ {}) \cup {} : mapping'[m] = mapping[m] BY <1>2
  <2>5. \A m \in {} : \A n \in Listed(0) : HostOf(n) # HostOf(m) OBVIOUS
  <2> QED BY <2>1, <2>2, <2>3, <2>4, <2>5 DEF Moves
<1>8. ASSUME NEW t \in Servers PROVE IsList(next', prev', Freed', t, now[t])
  <2> DEFINE set == Listed(t)
             free == Freed
             free2 == Freed'
  <2>1. IsList(next, prev, free, t, set) BY DEF ListsSound
  <2>2. set \cap free2 = {} BY <1>1, LinkedAreMappings
  <2> HIDE DEF set, free, free2
  <2>3. IsList(next, prev, free2, t, set) BY <2>1, <2>2, ListStays
  <2> QED BY <2>3, <1>3 DEF set, free2
<1>9. Become(now) BY <1>8 DEF Become
<1>12. ListsSound' /\ \A t \in Servers : Listed(t)' = now[t] BY <1>7, <1>9, ListsGoOn
<1>10. \A t \in Servers : Listed(t)' = Listed(t) BY <1>3, <1>12
<1>11. Linked' = Linked BY <1>10 DEF Linked
<1> QED BY <1>1, <1>10, <1>11, <1>12

(* What the writes to places that are not of a list leave alone. *)
LEMMA OtherList ==
  ASSUME ListsSound, NEW t \in Servers, NEW touched, NEW leaves,
         touched \cap (Listed(t) \cup {t}) = {}, leaves \cap Listed(t) = {},
         \A q \in Places : q \notin touched => next'[q] = next[q] /\ prev'[q] = prev[q],
         Freed' \subseteq Freed \cup leaves
  PROVE  IsList(next', prev', Freed', t, Listed(t))
<1> DEFINE set == Listed(t)
           free == Freed
           free2 == Freed'
<1>1. IsList(next, prev, free, t, set) BY DEF ListsSound
<1>2. set \cap free2 = {} /\ set \subseteq Mappings BY LinkedAreMappings
<1>3. \A q \in set \cup {t} : next'[q] = next[q] /\ prev'[q] = prev[q]
  BY LinkedAreMappings, HeadsApart
<1> HIDE DEF set, free, free2
<1>4. IsList(next', prev', free2, t, set) BY <1>1, <1>2, <1>3, ListStays
<1> QED BY <1>4 DEF set, free2

(***************************************************************************)
(* A mapping is unlinked and freed.                                         *)
(***************************************************************************)
LEMMA Neighbours ==
  ASSUME ListsSound, BackSound, NEW s \in Servers, NEW m \in Listed(s)
  PROVE  /\ m \in Mappings /\ next[m] \in (Listed(s) \ {m}) \cup {s} /\ prev[m] \in (Listed(s) \ {m}) \cup {s}
         /\ next[m] = s => prev[s] = m \/ prev[s] \in Lost
         /\ next[m] # s => prev[s] # m
<1>1. PICK free, set : free = Freed /\ set = Listed(s) OBVIOUS
<1>2. IsList(next, prev, free, s, set) /\ m \in set BY <1>1 DEF ListsSound
<1>3. prev[s] \in set \cup {s} \cup Lost /\ set \subseteq Mappings BY <1>1, LinkedAreMappings DEF BackSound
<1>4. s \notin Mappings BY HeadsApart
<1>5. Fits(next, prev, s, set, m) BY <1>2, EntryOf
<1> QED BY <1>1, <1>2, <1>3, <1>4, <1>5 DEF Fits

(* The lists after it: the other lists keep their pointers. *)
Touches(touched) == \A q \in Places : q \notin touched => next'[q] = next[q] /\ prev'[q] = prev[q]

LEMMA OthersStay ==
  ASSUME ListsSound, BackSound, NEW s \in Servers, NEW touched, NEW leaves,
         touched \subseteq Listed(s) \cup {s} \cup Lost \cup (Inserting \ Linked), leaves \subseteq Listed(s),
         Touches(touched), Freed' \subseteq Freed \cup leaves, Inserting \subseteq Mappings,
         NEW t \in Servers, t # s
  PROVE  IsList(next', prev', Freed', t, Listed(t))
<1>1. Listed(s) \cap Listed(t) = {} BY DEF ListsSound
<1>2. touched \cap (Listed(t) \cup {t}) = {}
  <2>1. /\ Listed(t) \subseteq Linked /\ Listed(s) \subseteq Mappings /\ Listed(t) \subseteq Mappings
        /\ s \notin Mappings /\ t \notin Mappings
    BY LinkedForm, LinkedAreMappings, HeadsApart
  <2> QED BY <2>1, <1>1 DEF Lost
<1>3. leaves \cap Listed(t) = {} BY <1>1
<1>4. \A q \in Places : q \notin touched => next'[q] = next[q] /\ prev'[q] = prev[q] BY DEF Touches
<1> QED BY <1>2, <1>3, <1>4, OtherList

LEMMA FreedIs ==
  ASSUME NatTyped, NEW m \in Mappings, mapping' = [mapping EXCEPT ![m] = FREED]
  PROVE  /\ mapping' \in [Mappings -> Contents \cup {FREED}] /\ mapping'[m] = FREED
         /\ \A n \in Mappings : n # m => mapping'[n] = mapping[n]
         /\ Freed' = Freed \cup {m}
<1>1. /\ mapping' \in [Mappings -> Contents \cup {FREED}] /\ mapping'[m] = FREED
      /\ \A n \in Mappings : n # m => mapping'[n] = mapping[n]
  BY DEF NatTyped
<1> QED BY <1>1 DEF Freed

LEMMA UnlinkIs ==
  ASSUME NatSound, NEW m \in Linked, Unlink(m), mapping' = [mapping EXCEPT ![m] = FREED]
  PROVE  /\ ListsSound' /\ (\A t \in Servers : Listed(t)' = Listed(t) \ {m}) /\ Linked' = Linked \ {m}
         /\ \A t \in Servers : prev'[t] \in Listed(t)' \cup {t} \cup Lost
         /\ next' \in [Places -> Places] /\ prev' \in [Places -> Places]
<1>1. PICK s \in Servers : m \in Listed(s) BY LinkedForm
<1>0. PICK set, q, p : set = Listed(s) /\ q = next[m] /\ p = prev[m] OBVIOUS
<1>2. /\ m \in Mappings /\ q \in (set \ {m}) \cup {s} /\ p \in (set \ {m}) \cup {s}
      /\ q = s => prev[s] = m \/ prev[s] \in Lost
      /\ q # s => prev[s] # m
  BY <1>0, <1>1, Neighbours DEF NatSound
<1>3. set \subseteq Mappings /\ s \notin Mappings /\ Mappings \subseteq Places /\ s \in Places
  BY <1>0, <1>1, LinkedAreMappings, HeadsApart DEF NatSound
<1>4. /\ next' = [next EXCEPT ![p] = q, ![m] = m] /\ prev' = [prev EXCEPT ![q] = p, ![m] = m]
      /\ next \in [Places -> Places] /\ prev \in [Places -> Places]
  BY <1>0 DEF Unlink, NatSound, NatTyped
<1>5. Freed' = Freed \cup {m} /\ (\A n \in Mappings : n # m => mapping'[n] = mapping[n])
  BY <1>2, FreedIs DEF NatSound
<1>6. m \in Places /\ p \in Places /\ q \in Places /\ p # m /\ q # m BY <1>2, <1>3
<1>7. /\ next' \in [Places -> Places] /\ prev' \in [Places -> Places]
      /\ next'[p] = q /\ prev'[q] = p
      /\ \A r \in Places : r # p /\ r # m => next'[r] = next[r]
      /\ \A r \in Places : r # q /\ r # m => prev'[r] = prev[r]
  BY <1>4, <1>6
<1>8. IsList(next', prev', Freed', s, set \ {m})
  <2>1. PICK free, free2 : free = Freed /\ free2 = Freed' OBVIOUS
  <2>2. IsList(next, prev, free, s, set) BY <2>1, <1>0 DEF NatSound, ListsSound
  <2>3. (set \ {m}) \cap free2 = {} BY <2>1, <1>0, <1>5, LinkedAreMappings DEF NatSound
  <2>4. m \in set BY <1>0, <1>1
  <2>5. next'[prev[m]] = next[m] /\ prev'[next[m]] = prev[m] BY <1>0, <1>7
  <2>6. /\ \A r \in (set \ {m}) \cup {s} : r # prev[m] => next'[r] = next[r]
        /\ \A r \in set \ {m} : r # next[m] => prev'[r] = prev[r]
    BY <1>0, <1>2, <1>3, <1>7
  <2>7. next[m] = s => prev'[s] = prev[m] BY <2>5
  <2>8. next[m] # s => prev'[s] = prev[s] BY <1>0, <1>2, <1>3, <1>7
  <2>10. TakesOut(next, prev, s, set, m, next', prev') BY <2>5, <2>6, <2>7, <2>8 DEF TakesOut
  <2>9. IsList(next', prev', free2, s, set \ {m}) BY <2>2, <2>3, <2>4, <2>10, TakenOut
  <2> QED BY <2>1, <2>9
<1>9. ASSUME NEW t \in Servers, t # s PROVE IsList(next', prev', Freed', t, Listed(t))
  <2>0. PICK touched : touched = {m, p, q} OBVIOUS
  <2>1. touched \subseteq set \cup {s} BY <2>0, <1>0, <1>1, <1>2
  <2>2. Touches(touched) BY <2>0, <1>7 DEF Touches
  <2>3. {m} \subseteq Listed(s) /\ Freed' \subseteq Freed \cup {m} BY <1>1, <1>5
  <2>4. Inserting \subseteq Mappings
    BY DEF NatSound, NatTyped, Workers, Inserting, WAITING, ENDED
  <2> QED BY <1>9, <2>1, <2>2, <2>3, <2>4, <1>0, OthersStay DEF NatSound
<1>18. PICK now : now = [t \in Servers |-> Listed(t) \ {m}] OBVIOUS
<1>10. \A t \in Servers : now[t] = Listed(t) \ {m} BY <1>18
<1>11. \A t \in Servers : t # s => m \notin Listed(t) BY <1>1 DEF NatSound, ListsSound
<1>12. Become(now)
  <2> SUFFICES ASSUME NEW t \in Servers PROVE IsList(next', prev', Freed', t, now[t])
    BY DEF Become
  <2>1. CASE t = s BY <2>1, <1>0, <1>8, <1>10
  <2>2. CASE t # s
    <3>1. now[t] = Listed(t) BY <2>2, <1>10, <1>11
    <3> QED BY <2>2, <3>1, <1>9
  <2> QED BY <2>1, <2>2
<1>13. Moves(s, {m}, {}, now)
  <2>1. {} \in SUBSET Mappings /\ {} \cap Linked = {} /\ \A a, b \in {} : a = b OBVIOUS
  <2>2. \A a \in (Linked \ {m}) \cup {} : mapping'[a] = mapping[a]
    BY <1>5, LinkedAreMappings DEF NatSound
  <2>3. \A a \in {} : \A n \in Listed(s) : HostOf(n) # HostOf(a) OBVIOUS
  <2>4. \A t \in Servers : now[t] \subseteq Listed(t) \ {m} BY <1>10
  <2> QED BY <2>1, <2>2, <2>3, <2>4 DEF Moves
<1>14. ListsSound' /\ \A t \in Servers : Listed(t)' = now[t]
  BY <1>12, <1>13, ListsGoOn DEF NatSound
<1>15. \A t \in Servers : Listed(t)' = Listed(t) \ {m} BY <1>10, <1>14
<1>16. Linked' = Linked \ {m} BY <1>15 DEF Linked
<1>17. ASSUME NEW t \in Servers PROVE prev'[t] \in Listed(t)' \cup {t} \cup Lost
  <2>1. prev[t] \in Listed(t) \cup {t} \cup Lost /\ t \in Places /\ t # m
    BY <1>2, HeadsApart DEF NatSound, BackSound
  <2>2. CASE t = s /\ q = s BY <2>2, <1>0, <1>2, <1>7, <1>15
  <2>3. CASE t = s /\ q # s BY <2>1, <2>3, <1>2, <1>7, <1>15
  <2>4. CASE t # s
    <3>1. q # t
      <4>1. t \notin Mappings BY HeadsApart
      <4> QED BY <4>1, <2>4, <1>2, <1>3
    <3> QED BY <3>1, <2>1, <2>4, <1>7, <1>11, <1>15
  <2> QED BY <2>2, <2>3, <2>4
<1> QED BY <1>7, <1>14, <1>15, <1>16, <1>17

(***************************************************************************)
(* The main thread links its mapping, or loses it, and goes on.  A mapping of    *)
(* the list may be unlinked and freed at once.                                *)
(***************************************************************************)
LEMMA ToInsert ==
  ASSUME NatSound, worker.at = "insert"
  PROVE  /\ worker.server \in Servers /\ worker.entry \in Mappings
         /\ Inserting = {worker.entry} /\ worker.entry \notin Linked /\ worker.entry \notin Freed
         /\ \A m \in Listed(worker.server) : HostOf(m) # HostOf(worker.entry)
<1>1. worker \in [at : {"insert"}, entry : Mappings, server : Servers]
  BY DEF NatSound, NatTyped, Workers, WAITING, ENDED
<1> QED BY <1>1 DEF NatSound, WorkerSound, Inserting

LEMMA InsertedIs ==
  ASSUME NatSound, worker.at = "insert", NEW leaves \in SUBSET Listed(worker.server),
         NEW added \in SUBSET {worker.entry}, NEW touched,
         IsList(next', prev', Freed', worker.server, (Listed(worker.server) \ leaves) \cup added),
         touched \subseteq Listed(worker.server) \cup {worker.server, worker.entry} \cup Lost, Touches(touched),
         Freed' = Freed \cup leaves, \A m \in Mappings \ leaves : mapping'[m] = mapping[m],
         prev'[worker.server] \in (Listed(worker.server) \ leaves) \cup {worker.server, worker.entry},
         worker'.at # "insert"
  PROVE  ListsSound' /\ BackSound' /\ Linked' \subseteq (Linked \ leaves) \cup {worker.entry} /\ Linked \ leaves \subseteq Linked'
<1>1. PICK s, new : s = worker.server /\ new = worker.entry OBVIOUS
<1>2. /\ s \in Servers /\ new \in Mappings /\ Inserting = {new} /\ new \notin Linked /\ new \notin Freed
      /\ \A m \in Listed(s) : HostOf(m) # HostOf(new)
  BY <1>1, ToInsert
<1>3. \A t \in Servers : t # s => leaves \cap Listed(t) = {} BY <1>1, <1>2 DEF NatSound, ListsSound
<1>4. ASSUME NEW t \in Servers, t # s PROVE IsList(next', prev', Freed', t, Listed(t))
  <2>1. leaves \subseteq Listed(s) /\ Freed' \subseteq Freed \cup leaves BY <1>1
  <2>2. touched \subseteq Listed(s) \cup {s} \cup Lost \cup (Inserting \ Linked) BY <1>1, <1>2
  <2>3. Inserting \subseteq Mappings BY <1>2
  <2> QED BY <1>2, <1>4, <2>1, <2>2, <2>3, OthersStay DEF NatSound
<1>5. PICK now : now = [t \in Servers |-> IF t = s THEN (Listed(s) \ leaves) \cup added ELSE Listed(t)] OBVIOUS
<1>6. now[s] = (Listed(s) \ leaves) \cup added /\ \A t \in Servers : t # s => now[t] = Listed(t) BY <1>2, <1>5
<1>7. Become(now)
  <2> SUFFICES ASSUME NEW t \in Servers PROVE IsList(next', prev', Freed', t, now[t])
    BY DEF Become
  <2>1. CASE t = s BY <2>1, <1>1, <1>6
  <2>2. CASE t # s BY <2>2, <1>4, <1>6
  <2> QED BY <2>1, <2>2
<1>8. added \subseteq {new} /\ leaves \subseteq Listed(s) BY <1>1
<1>9. Moves(s, leaves, added, now)
  <2>1. added \in SUBSET Mappings /\ added \cap Linked = {} /\ \A a, b \in added : a = b BY <1>2, <1>8
  <2>2. \A t \in Servers : t # s => now[t] \subseteq Listed(t) \ leaves BY <1>3, <1>6
  <2>3. \A m \in (Linked \ leaves) \cup added : mapping'[m] = mapping[m]
    <3>1. Linked \subseteq Mappings /\ leaves \subseteq Linked BY <1>2, <1>8, LinkedAreMappings, LinkedForm DEF NatSound
    <3> QED BY <3>1, <1>2, <1>8
  <2>4. \A m \in added : \A n \in Listed(s) : HostOf(n) # HostOf(m) BY <1>2, <1>8
  <2> QED BY <2>1, <2>2, <2>3, <2>4, <1>6 DEF Moves
<1>10. ListsSound' /\ \A t \in Servers : Listed(t)' = now[t] BY <1>7, <1>9, ListsGoOn DEF NatSound
<1>11. /\ Listed(s)' = (Listed(s) \ leaves) \cup added
       /\ \A t \in Servers : t # s => Listed(t)' = Listed(t)
  BY <1>2, <1>6, <1>10
<1>12. Linked' \subseteq (Linked \ leaves) \cup added
  <2> SUFFICES ASSUME NEW t \in Servers, NEW m \in Listed(t)' PROVE m \in (Linked \ leaves) \cup added
    BY DEF Linked
  <2>1. CASE t = s BY <2>1, <1>2, <1>11, LinkedForm
  <2>2. CASE t # s BY <2>2, <1>3, <1>11, LinkedForm
  <2> QED BY <2>1, <2>2
<1>13. Linked \ leaves \subseteq Linked'
  <2> SUFFICES ASSUME NEW t \in Servers, NEW m \in Listed(t), m \notin leaves PROVE m \in Listed(t)'
    BY DEF Linked
  <2> QED BY <1>11
<1>14. Lost \subseteq Lost' /\ (new \notin Linked' => new \in Lost')
  <2>1. Inserting' = {} BY DEF Inserting
  <2>2. leaves \subseteq Linked BY <1>2, <1>8, LinkedForm
  <2>3. \A m \in Mappings : m \notin Linked' \cup Freed' => m \in Lost' BY <2>1 DEF Lost
  <2>4. \A m \in Lost : m \in Mappings /\ m \notin Linked' \cup Freed' BY <2>2, <1>2, <1>8, <1>12 DEF Lost
  <2>5. new \notin Freed' BY <2>2, <1>2
  <2> QED BY <2>3, <2>4, <2>5, <1>2
<1>15. ASSUME NEW t \in Servers PROVE prev'[t] \in Listed(t)' \cup {t} \cup Lost'
  <2>1. CASE t = s
    <3>1. new \in Linked' => new \in added BY <1>2, <1>12
    <3> QED BY <2>1, <3>1, <1>1, <1>11, <1>14
  <2>2. CASE t # s
    <3>1. t \notin touched /\ t \in Places
      <4>1. t \notin Mappings /\ t \in Places /\ Listed(s) \subseteq Mappings
        BY <1>2, HeadsApart, LinkedAreMappings DEF NatSound
      <4> QED BY <4>1, <2>2, <1>1, <1>2 DEF Lost
    <3>2. prev'[t] = prev[t] BY <3>1 DEF Touches
    <3> QED BY <2>2, <3>2, <1>11, <1>14 DEF NatSound, BackSound
  <2> QED BY <2>1, <2>2
<1> QED BY <1>1, <1>8, <1>10, <1>12, <1>13, <1>15 DEF BackSound

LEMMA InsertIs ==
  ASSUME NatSound, insert
  PROVE  /\ ListsSound' /\ BackSound' /\ Linked' \subseteq Linked \cup {worker.entry} /\ Linked \subseteq Linked'
         /\ next' \in [Places -> Places] /\ prev' \in [Places -> Places]
<1>1. PICK s, new, p : s = worker.server /\ new = worker.entry /\ p = prev[s] OBVIOUS
<1>2. /\ worker.at = "insert"
      /\ next' = [next EXCEPT ![p] = new, ![new] = s] /\ prev' = [prev EXCEPT ![s] = new, ![new] = p]
      /\ mapping' = mapping /\ worker' \in {[at |-> "reset", entry |-> s], WAITING}
  BY <1>1 DEF insert, Sent
<1>3. s \in Servers /\ new \in Mappings /\ Inserting = {new} /\ new \notin Linked /\ new \notin Freed
  BY <1>1, <1>2, ToInsert
<1>4. s \in Places /\ s \notin Mappings /\ new \in Places /\ Mappings \subseteq Places BY <1>3, HeadsApart
<1>5. /\ p \in Listed(s) \cup {s} \cup Lost /\ Listed(s) \subseteq Linked
      /\ Listed(s) \subseteq Mappings /\ Lost \subseteq Mappings
  BY <1>1, <1>3, LinkedForm, LinkedAreMappings DEF NatSound, BackSound, Lost
<1>6. p \in Places /\ p # new BY <1>3, <1>4, <1>5 DEF Lost
<1>7. /\ next' \in [Places -> Places] /\ prev' \in [Places -> Places]
      /\ next'[p] = new /\ next'[new] = s /\ prev'[s] = new /\ prev'[new] = p
      /\ \A q \in Places : q # p /\ q # new => next'[q] = next[q]
      /\ \A q \in Places : q # s /\ q # new => prev'[q] = prev[q]
  BY <1>2, <1>4, <1>6 DEF NatSound, NatTyped
<1>8. Freed' = Freed BY <1>2 DEF Freed
<1>9. Touches({p, new, s}) BY <1>7 DEF Touches
<1>10. \E added \in SUBSET {new} : IsList(next', prev', Freed', s, Listed(s) \cup added)
  <2>1. PICK set, free : set = Listed(s) /\ free = Freed OBVIOUS
  <2>2. IsList(next, prev, free, s, set) BY <2>1, <1>3 DEF NatSound, ListsSound
  <2>3. set \cap free = {} /\ set \subseteq Mappings /\ new \notin set /\ new \notin free
    BY <2>1, <1>3, <1>5, LinkedAreMappings DEF NatSound
  <2>4. CASE p \in set \cup {s}
    <3>1. /\ prev[s] \in set \cup {s} /\ next'[prev[s]] = new /\ prev'[new] = prev[s]
          /\ \A q \in set \cup {s} : q # prev[s] => next'[q] = next[q]
          /\ \A q \in set : prev'[q] = prev[q]
      BY <2>3, <2>4, <1>1, <1>4, <1>7
    <3>2. (set \cup {new}) \cap free = {} BY <2>3
    <3>4. LinksBehind(next, prev, s, set, new, next', prev') BY <2>3, <3>1, <1>7 DEF LinksBehind
    <3>3. IsList(next', prev', free, s, set \cup {new}) BY <2>2, <3>2, <3>4, <1>3, LinkedBehind
    <3> QED BY <3>3, <2>1, <1>8
  <2>5. CASE p \notin set \cup {s}
    <3>1. /\ \A q \in set \cup {s} : next'[q] = next[q]
          /\ \A q \in set : prev'[q] = prev[q]
          /\ prev'[s] \in Mappings \ set
      BY <2>3, <2>5, <1>3, <1>4, <1>7
    <3>2. IsList(next', prev', free, s, set) BY <2>2, <2>3, <3>1, <1>3, ListStays
    <3>3. set = set \cup {} /\ {} \in SUBSET {new} OBVIOUS
    <3> QED BY <3>2, <3>3, <2>1, <1>8
  <2> QED BY <2>4, <2>5
<1>11. PICK added \in SUBSET {new} : IsList(next', prev', Freed', s, Listed(s) \cup added) BY <1>10
<1>12. worker'.at # "insert" BY <1>2 DEF WAITING
<1>13. PICK none, touched : none = {} /\ touched = {p, new, s} OBVIOUS
<1>14. IsList(next', prev', Freed', worker.server, (Listed(worker.server) \ none) \cup added) BY <1>1, <1>11, <1>13
<1>15. /\ none \in SUBSET Listed(worker.server) /\ added \in SUBSET {worker.entry}
       /\ touched \subseteq Listed(worker.server) \cup {worker.server, worker.entry} \cup Lost /\ Touches(touched)
       /\ Freed' = Freed \cup none /\ \A m \in Mappings \ none : mapping'[m] = mapping[m]
       /\ prev'[worker.server] \in (Listed(worker.server) \ none) \cup {worker.server, worker.entry}
  BY <1>1, <1>2, <1>5, <1>7, <1>8, <1>9, <1>13
<1>16. ListsSound' /\ BackSound' /\ Linked' \subseteq (Linked \ none) \cup {worker.entry} /\ Linked \ none \subseteq Linked'
  BY <1>2, <1>12, <1>14, <1>15, InsertedIs
<1> QED BY <1>7, <1>13, <1>16

LEMMA RaceIs ==
  ASSUME NatSound, insert_meets_free, ~ torn'
  PROVE  /\ ListsSound' /\ BackSound'
         /\ Linked' \subseteq (Linked \ {timeout.entry}) \cup {worker.entry}
         /\ next' \in [Places -> Places] /\ prev' \in [Places -> Places]
         /\ mapping' \in [Mappings -> Contents \cup {FREED}]
         /\ \A m \in Mappings \ {timeout.entry} : mapping'[m] = mapping[m]
<1>1. PICK s, new, old, before :
        s = worker.server /\ new = worker.entry /\ old = timeout.entry /\ before = prev[old]
  OBVIOUS
<1>2. /\ worker.at = "insert" /\ timeout.at = "unlink" /\ next[old] = s
      /\ mapping' = [mapping EXCEPT ![old] = FREED]
      /\ worker' \in {[at |-> "reset", entry |-> s], WAITING}
  BY <1>1 DEF insert_meets_free, Sent
<1>3. PICK p \in {prev[s], before}, back \in {new, before}, forward \in {new, s} :
        /\ p # prev[s] => back = new
        /\ forward = new => p \in {before, old}
        /\ next' = [next EXCEPT ![p] = new, ![before] = forward, ![new] = s, ![old] = old]
        /\ prev' = [prev EXCEPT ![s] = back, ![new] = p, ![old] = old]
        /\ torn' = (torn \/ (forward = new /\ p = old))
  BY <1>1 DEF insert_meets_free
<1>23. (p = prev[s] \/ p = before) /\ (back = new \/ back = before) /\ (forward = new \/ forward = s)
  OBVIOUS
<1>4. s \in Servers /\ new \in Mappings /\ Inserting = {new} /\ new \notin Linked /\ new \notin Freed
  BY <1>1, <1>2, ToInsert
<1>5. s \in Places /\ s \notin Mappings /\ new \in Places /\ Mappings \subseteq Places BY <1>4, HeadsApart
<1>6. old \in Listed(s)
  <2>1. old \in Linked BY <1>1, <1>2 DEF NatSound, TimeoutSound
  <2>2. PICK t \in Servers : old \in Listed(t) BY <2>1, LinkedForm
  <2>3. s \in (Listed(t) \ {old}) \cup {t} BY <2>2, <1>2, Neighbours DEF NatSound
  <2>4. Listed(t) \subseteq Mappings BY <2>2, LinkedAreMappings DEF NatSound
  <2> QED BY <2>2, <2>3, <2>4, <1>5
<1>7. /\ old \in Mappings /\ before \in (Listed(s) \ {old}) \cup {s}
      /\ prev[s] = old \/ prev[s] \in Lost
  BY <1>1, <1>2, <1>4, <1>6, Neighbours DEF NatSound
<1>8. Listed(s) \subseteq Linked /\ Linked \subseteq Mappings /\ Lost \subseteq Mappings /\ Lost \cap Linked = {} /\ new \notin Lost
  BY <1>4, LinkedForm, LinkedAreMappings DEF NatSound, Lost
<1>9. forward = new => p = before
  <2>1. forward = new => p # old BY <1>3
  <2> QED BY <2>1, <1>3
<1>10. /\ old \in Places /\ before \in Places /\ p \in Places
       /\ before # old /\ before # new /\ new # old /\ new # s /\ old # s /\ p # new
  BY <1>3, <1>4, <1>5, <1>6, <1>7, <1>8
<1>11. /\ next' \in [Places -> Places] /\ prev' \in [Places -> Places]
       /\ next'[before] = forward /\ next'[new] = s /\ prev'[s] = back /\ prev'[new] = p
       /\ \A q \in Places : q \notin {p, before, new, old} => next'[q] = next[q]
       /\ \A q \in Places : q \notin {s, new, old} => prev'[q] = prev[q]
  <2>1. next \in [Places -> Places] /\ prev \in [Places -> Places] BY DEF NatSound, NatTyped
  <2>2. next' \in [Places -> Places] /\ prev' \in [Places -> Places] BY <2>1, <1>3, <1>5, <1>10
  <2>3. next'[before] = forward /\ next'[new] = s BY <2>1, <1>3, <1>5, <1>10
  <2>4. prev'[s] = back /\ prev'[new] = p BY <2>1, <1>3, <1>5, <1>10
  <2>5. \A q \in Places : q \notin {p, before, new, old} => next'[q] = next[q] BY <2>1, <1>3
  <2>6. \A q \in Places : q \notin {s, new, old} => prev'[q] = prev[q] BY <2>1, <1>3
  <2> QED BY <2>2, <2>3, <2>4, <2>5, <2>6
<1>12. /\ mapping' \in [Mappings -> Contents \cup {FREED}] /\ Freed' = Freed \cup {old}
       /\ \A m \in Mappings \ {old} : mapping'[m] = mapping[m]
  BY <1>2, <1>7, FreedIs DEF NatSound
<1>13. \E added \in SUBSET {new} : IsList(next', prev', Freed', s, (Listed(s) \ {old}) \cup added)
  <2>1. PICK set, free, free2, rest :
          set = Listed(s) /\ free = Freed /\ free2 = Freed \cup {old} /\ rest = set \ {old}
    OBVIOUS
  <2>2. IsList(next, prev, free, s, set) /\ old \in set BY <2>1, <1>4, <1>6 DEF NatSound, ListsSound
  <2>3. /\ set \cap free = {} /\ set \subseteq Mappings /\ new \notin set /\ new \notin free2
        /\ rest \cap free2 = {} /\ (rest \cup {new}) \cap free2 = {}
    BY <2>1, <1>4, <1>8, <1>10, LinkedAreMappings DEF NatSound
  <2>4. before \in rest \cup {s} /\ s \notin rest /\ old \notin rest /\ new \notin rest /\ rest \subseteq Mappings
    BY <2>1, <2>3, <1>5, <1>7
  <2>5. CASE forward = s
    <3>1. \A q \in rest \cup {s} : q # before => next'[q] = next[q]
      <4>1. \A q \in rest \cup {s} : q \in Places /\ q # new /\ q # old BY <2>4, <1>5, <1>10
      <4>2. \A q \in rest \cup {s} : q # before => q # p
        <5>1. p = before \/ p = old \/ p \in Lost BY <1>3, <1>7
        <5>2. p \in Lost => p \notin rest \cup {s} BY <2>1, <1>5, <1>8
        <5> QED BY <5>1, <5>2, <2>4, <1>10
      <4> QED BY <4>1, <4>2, <1>11
    <3>2. \A q \in rest : prev'[q] = prev[q]
      <4>1. \A q \in rest : q \in Places /\ q \notin {s, new, old} BY <2>4, <1>5
      <4> QED BY <4>1, <1>11
    <3>3. prev'[s] = before \/ prev'[s] \in Mappings \ rest BY <2>4, <1>23, <1>4, <1>11
    <3>4. /\ next'[prev[old]] = next[old]
          /\ \A q \in (set \ {old}) \cup {s} : q # prev[old] => next'[q] = next[q]
          /\ next[old] # s => prev'[next[old]] = prev[old]
          /\ \A q \in set \ {old} : q # next[old] => prev'[q] = prev[q]
          /\ next[old] = s => prev'[s] = prev[old] \/ prev'[s] \in Mappings \ (set \ {old})
          /\ next[old] # s => prev'[s] = prev[s]
      BY <2>1, <2>5, <3>1, <3>2, <3>3, <1>1, <1>2, <1>11
    <3>5. (set \ {old}) \cap free2 = {} BY <2>1, <2>3
    <3>8. TakesOut(next, prev, s, set, old, next', prev') BY <3>4 DEF TakesOut
    <3>6. IsList(next', prev', free2, s, set \ {old}) BY <2>2, <3>5, <3>8, <1>4, TakenOut
    <3>7. set \ {old} = (set \ {old}) \cup {} /\ {} \in SUBSET {new} OBVIOUS
    <3> QED BY <3>6, <3>7, <2>1, <1>12
  <2>6. CASE forward = new /\ p = before /\ back = new
    <3>1. PICK nx1, pv1 :
            nx1 = [next EXCEPT ![before] = s, ![old] = old] /\ pv1 = [prev EXCEPT ![s] = before, ![old] = old]
      OBVIOUS
    <3>2. /\ nx1[before] = s /\ pv1[s] = before
          /\ \A q \in Places : q # before /\ q # old => nx1[q] = next[q]
          /\ \A q \in Places : q # s /\ q # old => pv1[q] = prev[q]
      BY <3>1, <1>5, <1>10 DEF NatSound, NatTyped
    <3>3. \A q \in rest \cup {s} : q \in Places /\ q # new /\ q # old BY <2>4, <1>5, <1>10
    <3>4. /\ nx1[prev[old]] = next[old]
          /\ \A q \in (set \ {old}) \cup {s} : q # prev[old] => nx1[q] = next[q]
          /\ next[old] # s => pv1[next[old]] = prev[old]
          /\ \A q \in set \ {old} : q # next[old] => pv1[q] = prev[q]
          /\ next[old] = s => pv1[s] = prev[old] \/ pv1[s] \in Mappings \ (set \ {old})
          /\ next[old] # s => pv1[s] = prev[s]
      BY <2>1, <3>2, <3>3, <1>1, <1>2
    <3>5. (set \ {old}) \cap free2 = {} BY <2>1, <2>3
    <3>9. TakesOut(next, prev, s, set, old, nx1, pv1) BY <3>4 DEF TakesOut
    <3>6. IsList(nx1, pv1, free2, s, rest) BY <2>1, <2>2, <3>5, <3>9, <1>4, TakenOut
    <3>7. LinksBehind(nx1, pv1, s, rest, new, next', prev')
      <4>1. next'[before] = new /\ next'[new] = s /\ prev'[new] = before /\ prev'[s] = new BY <2>6, <1>11
      <4>2. \A q \in rest \cup {s} : q # before => next'[q] = nx1[q] BY <2>6, <3>2, <3>3, <1>11
      <4>3. \A q \in rest : prev'[q] = pv1[q] BY <2>4, <3>2, <3>3, <1>11
      <4> QED BY <4>1, <4>2, <4>3, <2>4, <3>2 DEF LinksBehind
    <3>8. IsList(next', prev', free2, s, rest \cup {new}) BY <3>6, <3>7, <2>3, <1>4, LinkedBehind
    <3> QED BY <3>8, <2>1, <1>12
  <2>7. forward = new => p = before /\ back = new
    <3>1. before # prev[s] BY <1>7, <1>8, <1>5, <1>10
    <3> QED BY <3>1, <1>3, <1>9
  <2> QED BY <2>5, <2>6, <2>7
<1>14. PICK added \in SUBSET {new} : IsList(next', prev', Freed', s, (Listed(s) \ {old}) \cup added) BY <1>13
<1>15. worker'.at # "insert" BY <1>2 DEF WAITING
<1>16. PICK leaves, touched : leaves = {old} /\ touched = {p, before, new, old, s} OBVIOUS
<1>17. IsList(next', prev', Freed', worker.server, (Listed(worker.server) \ leaves) \cup added) BY <1>1, <1>14, <1>16
<1>18. Touches(touched) BY <1>11, <1>16 DEF Touches
<1>19. touched \subseteq Listed(s) \cup {s, new} \cup Lost BY <1>3, <1>6, <1>7, <1>16
<1>20. prev'[s] \in (Listed(s) \ leaves) \cup {s, new} BY <1>7, <1>11, <1>16, <1>23
<1>21. /\ leaves \in SUBSET Listed(worker.server) /\ added \in SUBSET {worker.entry}
       /\ touched \subseteq Listed(worker.server) \cup {worker.server, worker.entry} \cup Lost /\ Touches(touched)
       /\ Freed' = Freed \cup leaves /\ \A m \in Mappings \ leaves : mapping'[m] = mapping[m]
       /\ prev'[worker.server] \in (Listed(worker.server) \ leaves) \cup {worker.server, worker.entry}
  BY <1>1, <1>6, <1>12, <1>16, <1>18, <1>19, <1>20
<1>22. ListsSound' /\ BackSound' /\ Linked' \subseteq (Linked \ leaves) \cup {worker.entry}
  BY <1>2, <1>15, <1>17, <1>21, InsertedIs
<1> QED BY <1>1, <1>11, <1>12, <1>16, <1>22

(***************************************************************************)
(* The steps that leave the lists alone.                                     *)
(***************************************************************************)
LEMMA NatInitInvariant == NatInit => NatInv
<1> SUFFICES ASSUME NatInit PROVE NatSound
  BY DEF NatInv
<1>1. /\ next = [p \in Places |-> p] /\ prev = [p \in Places |-> p] /\ mapping = [m \in Mappings |-> FREED]
      /\ assigned_ports = {} /\ worker = WAITING /\ timeout = ASLEEP
  BY DEF NatInit
<1>2. ASSUME NEW s \in Servers PROVE IsList(next, prev, Freed, s, {}) /\ Listed(s) = {}
  <2>1. s \in Places /\ next[s] = s /\ prev[s] = s BY <1>1, HeadsApart
  <2>2. PICK free, c : free = Freed /\ c = [i \in 0 .. 1 |-> s] OBVIOUS
  <2>3. Along(0, c) = {} BY DEF Along
  <2>4. Chain(next, prev, free, s, 0, c)
    <3>1. 0 + 1 = 1 /\ 0 \in Nat /\ 0 \in 0 .. 1 /\ 1 \in 0 .. 1 OBVIOUS
    <3>2. c \in [0 .. 0 + 1 -> Places] /\ c[0] = s /\ c[0 + 1] = s BY <2>1, <2>2, <3>1
    <3>3. \A i \in 0 .. 0 : next[c[i]] = c[i + 1] BY <2>1, <3>2
    <3>4. \A i \in 1 .. 0 : FALSE OBVIOUS
    <3> QED BY <2>1, <3>1, <3>2, <3>3, <3>4 DEF Chain
  <2>5. IsList(next, prev, free, s, {}) BY <2>3, <2>4 DEF IsList
  <2>6. ListedBy(next, free, s) = {} BY <2>5, ListedIs
  <2> QED BY <2>2, <2>5, <2>6, ListedForm
<1>3. Linked = {} BY <1>2 DEF Linked
<1>4. ListsSound
  <2>1. \A s \in Servers : IsList(next, prev, Freed, s, Listed(s))
    <3> SUFFICES ASSUME NEW s \in Servers PROVE IsList(next, prev, Freed, s, Listed(s))
      OBVIOUS
    <3>1. Listed(s) = {} BY <1>2
    <3> QED BY <3>1, <1>2
  <2> QED BY <2>1, <1>2 DEF ListsSound
<1>5. worker.at = "poll" /\ timeout.at = "asleep" BY <1>1 DEF WAITING, ASLEEP
<1>6. NatTyped
  <2>1. next \in [Places -> Places] /\ prev \in [Places -> Places] BY <1>1
  <2> QED BY <2>1, <1>1 DEF NatTyped, Workers, Timeouts
<1>7. BackSound BY <1>1, HeadsApart DEF BackSound
<1>8. WorkerSound /\ TimeoutSound BY <1>5 DEF WorkerSound, TimeoutSound
<1>9. PortsSound BY <1>3, <1>5 DEF PortsSound, InUse, Inserting
<1> QED BY <1>4, <1>6, <1>7, <1>8, <1>9 DEF NatSound

LEMMA SameBack ==
  ASSUME BackSound, prev' = prev, \A s \in Servers : Listed(s)' = Listed(s), Linked' = Linked,
         Freed' \cup Inserting' \subseteq Freed \cup Inserting
  PROVE  BackSound'
<1>1. Lost \subseteq Lost' BY DEF Lost
<1>2. \A s \in Servers : prev'[s] \in Listed(s)' \cup {s} \cup Lost' BY <1>1 DEF BackSound
<1> QED BY <1>2 DEF BackSound

(* The main thread goes on with nothing new to link. *)
LEMMA WorkerGoesOn ==
  ASSUME NatSound, worker' \in Workers, worker'.at # "insert", UNCHANGED <<listVars, mapping, assigned_ports, timeout>>,
         worker'.at = "assign" => \A m \in Listed(worker'.server) : HostOf(m) # worker'.host,
         worker'.at = "reset" => worker'.entry \in Servers \cup Freed \cup Linked
  PROVE  NatSound'
<1>1. /\ next' = next /\ prev' = prev /\ mapping' = mapping
      /\ assigned_ports' = assigned_ports /\ timeout' = timeout
  BY DEF listVars
<1>2. ListsSound' /\ (\A s \in Servers : Listed(s)' = Listed(s)) /\ Linked' = Linked
  BY <1>1, SameLists DEF NatSound
<1>3. Freed' = Freed BY <1>1 DEF Freed
<1>4. Inserting' = {} BY DEF Inserting
<1>5. BackSound' BY <1>1, <1>2, <1>3, <1>4, SameBack DEF NatSound
<1>6. NatTyped' BY <1>1 DEF NatSound, NatTyped
<1>7. WorkerSound'
  <2>1. ASSUME worker'.at = "assign" PROVE \A m \in Listed(worker.server)' : HostOf(m)' # worker'.host
    <3>1. worker'.server \in Servers BY <2>1 DEF Workers, WAITING, ENDED
    <3>2. PICK s \in Servers : s = worker'.server BY <3>1
    <3>3. \A m \in Listed(s)' : HostOf(m)' # worker'.host BY <2>1, <3>2, <1>1, <1>2 DEF HostOf
    <3>4. Listed(worker.server)' = Listed(s)' BY <3>2 DEF Listed, Walk
    <3> QED BY <3>3, <3>4
  <2>2. worker'.at = "reset" => worker'.entry \in Servers \cup Freed' \cup Linked' BY <1>2, <1>3
  <2> QED BY <2>1, <2>2 DEF WorkerSound
<1>8. TimeoutSound' BY <1>1, <1>2 DEF NatSound, TimeoutSound
<1>9. InUse' \subseteq InUse
  <2>1. Leaving' = Leaving BY <1>1 DEF Leaving
  <2> QED BY <2>1, <1>2, <1>4 DEF InUse
<1>10. PortsSound' BY <1>1, <1>9 DEF NatSound, PortsSound
<1> QED BY <1>2, <1>5, <1>6, <1>7, <1>8, <1>10 DEF NatSound

LEMMA FoundIn ==
  ASSUME NatSound, NEW s \in Servers, NEW fitting \in SUBSET (Mappings \ Freed)
  PROVE  /\ Search(s, fitting) = {s} => Listed(s) \cap fitting = {}
         /\ Search(s, fitting) \cap fitting \subseteq Linked
<1>1. PICK set : set = Listed(s) OBVIOUS
<1>2. IsList(next, prev, Freed, s, set) BY <1>1 DEF NatSound, ListsSound
<1>3. fitting \in SUBSET Mappings OBVIOUS
<1>4. \/ Search(s, fitting) = {s} /\ set \cap fitting = {}
      \/ \E m \in set \cap fitting : Search(s, fitting) = {m}
  BY <1>2, <1>3, SearchFinds
<1>5. s \notin fitting BY HeadsApart
<1>6. set \subseteq Linked BY <1>1, LinkedForm
<1> QED BY <1>1, <1>4, <1>5, <1>6

LEMMA NatReceiveStep ==
  ASSUME NatSound, NEW s \in Servers, NEW h, NEW port,
         (h \in Hosts /\ receive_out(s, h)) \/ receive_in(s, port)
  PROVE  NatSound'
<1>1. UNCHANGED <<listVars, mapping, assigned_ports, timeout>> BY DEF receive_out, receive_in
<1>2. /\ worker' \in Workers /\ worker'.at # "insert"
      /\ worker'.at = "assign" => \A m \in Listed(worker'.server) : HostOf(m) # worker'.host
      /\ worker'.at = "reset" => worker'.entry \in Servers \cup Freed \cup Linked
  <2>1. \/ worker' = WAITING \/ worker' = ENDED
        \/ \E e \in Servers \cup Linked : worker' = [at |-> "reset", entry |-> e]
        \/ h \in Hosts /\ worker' = [at |-> "assign", server |-> s, host |-> h]
           /\ \A m \in Listed(s) : HostOf(m) # h
    <3>1. CASE h \in Hosts /\ receive_out(s, h)
      <4>1. PICK fitting : fitting = {m \in Mappings \ Freed : mapping[m].host = h} OBVIOUS
      <4>2. \/ Search(s, fitting) = {s} /\ worker' = [at |-> "assign", server |-> s, host |-> h]
            \/ \E m \in Search(s, fitting) \cap fitting : Sent(m)
            \/ worker' = ENDED
        BY <3>1, <4>1 DEF receive_out
      <4>3. /\ Search(s, fitting) = {s} => Listed(s) \cap fitting = {}
            /\ Search(s, fitting) \cap fitting \subseteq Linked
        BY <4>1, FoundIn
      <4>4. Listed(s) \subseteq Mappings \ Freed BY LinkedAreMappings DEF NatSound
      <4>5. Listed(s) \cap fitting = {} => \A m \in Listed(s) : HostOf(m) # h BY <4>1, <4>4 DEF HostOf
      <4> QED BY <3>1, <4>2, <4>3, <4>5 DEF Sent
    <3>2. CASE receive_in(s, port)
      <4>1. PICK fitting : fitting = {m \in Mappings \ Freed : mapping[m].port = port} OBVIOUS
      <4>2. Sent(s) \/ (\E m \in Search(s, fitting) \cap fitting : Sent(m)) \/ worker' = ENDED
        BY <3>2, <4>1 DEF receive_in
      <4>3. Search(s, fitting) \cap fitting \subseteq Linked BY <4>1, FoundIn
      <4> QED BY <4>2, <4>3 DEF Sent
    <3> QED BY <3>1, <3>2
  <2>2. Servers \cup Linked \subseteq Places BY HeadsApart, LinkedAreMappings DEF NatSound
  <2>3. CASE worker' = WAITING \/ worker' = ENDED BY <2>3 DEF Workers, WAITING, ENDED
  <2>4. CASE \E e \in Servers \cup Linked : worker' = [at |-> "reset", entry |-> e]
    <3>1. PICK e \in Servers \cup Linked : worker' = [at |-> "reset", entry |-> e] BY <2>4
    <3>2. worker' \in Workers BY <3>1, <2>2 DEF Workers
    <3> QED BY <3>1, <3>2
  <2>5. CASE /\ h \in Hosts /\ worker' = [at |-> "assign", server |-> s, host |-> h]
             /\ \A m \in Listed(s) : HostOf(m) # h
    <3>1. worker' \in Workers BY <2>5 DEF Workers
    <3>2. worker'.server = s /\ worker'.host = h /\ worker'.at = "assign" BY <2>5
    <3> QED BY <2>5, <3>1, <3>2
  <2> QED BY <2>1, <2>3, <2>4, <2>5
<1> QED BY <1>1, <1>2, WorkerGoesOn

LEMMA NatLoseStep ==
  ASSUME NatSound, lose_way
  PROVE  NatSound'
<1>1. worker' = ENDED /\ UNCHANGED <<listVars, mapping, assigned_ports, timeout>> BY DEF lose_way
<1>2. worker' \in Workers /\ worker'.at = "ended" BY <1>1 DEF Workers, ENDED
<1> QED BY <1>1, <1>2, WorkerGoesOn

LEMMA NatAssignStep ==
  ASSUME NatSound, assign
  PROVE  NatSound'
<1>19. PICK slot : slot = CHOOSE m \in Freed : TRUE OBVIOUS
<1>20. PICK port : port = IF Free = {} THEN 0 ELSE CHOOSE p \in Free : \A q \in Free : p <= q OBVIOUS
<1>21. PICK new : new = [host |-> worker.host, port |-> port] OBVIOUS
<1>1. /\ slot = CHOOSE m \in Freed : TRUE
      /\ port = IF Free = {} THEN 0 ELSE CHOOSE p \in Free : \A q \in Free : p <= q
      /\ new = [host |-> worker.host, port |-> port]
  BY <1>19, <1>20, <1>21
<1>2. /\ worker.at = "assign" /\ Freed # {}
      /\ mapping' = [mapping EXCEPT ![slot] = new]
      /\ assigned_ports' = assigned_ports \cup ({port} \ {0})
      /\ worker' = [at |-> "insert", entry |-> slot, server |-> worker.server]
      /\ next' = next /\ prev' = prev /\ timeout' = timeout
  BY <1>1 DEF assign, Marked, listVars
<1>3. worker.server \in Servers /\ worker.host \in Hosts
  BY <1>2 DEF NatSound, NatTyped, Workers, WAITING, ENDED
<1>4. slot \in Freed /\ slot \in Mappings BY <1>1, <1>2 DEF Freed
<1>5. port = 0 \/ port \in NatPorts \ assigned_ports
  <2>1. CASE Free = {} BY <2>1, <1>1
  <2>2. CASE Free # {}
    <3>1. PICK T : T = Free OBVIOUS
    <3>2. T \in SUBSET Nat /\ T # {} BY <2>2, <3>1 DEF Free, NatPorts
    <3>3. \E p \in T : \A q \in T : p <= q BY <3>2, LeastNumber
    <3>4. port \in T BY <2>2, <3>1, <3>3, <1>1
    <3> QED BY <3>1, <3>4 DEF Free
  <2> QED BY <2>1, <2>2
<1>6. new \in Contents /\ new.host = worker.host /\ new.port = port /\ new # FREED
  <2>1. port \in 0 .. NAT_PORT_MAX BY <1>5, NatAssumption DEF NatPorts
  <2>2. new \in Contents BY <2>1, <1>1, <1>3 DEF Contents
  <2>3. "port" \in DOMAIN new /\ "port" \notin DOMAIN FREED BY <1>1 DEF FREED
  <2> QED BY <2>2, <2>3, <1>1
<1>7. /\ mapping'[slot] = new /\ \A m \in Mappings : m # slot => mapping'[m] = mapping[m]
      /\ mapping' \in [Mappings -> Contents \cup {FREED}]
  BY <1>2, <1>4, <1>6 DEF NatSound, NatTyped
<1>8. \A m \in Mappings \ Freed : mapping'[m] = mapping[m] BY <1>4, <1>7
<1>9. /\ ListsSound' /\ (\A s \in Servers : Listed(s)' = Listed(s)) /\ Linked' = Linked
      /\ Freed' \subseteq Freed
  BY <1>2, <1>8, SameLists DEF NatSound
<1>10. slot \notin Freed' BY <1>6, <1>7 DEF Freed
<1>11. worker'.at = "insert" /\ worker'.entry = slot /\ worker'.server = worker.server BY <1>2
<1>12. Inserting' = {slot} /\ Inserting = {} BY <1>2, <1>11 DEF Inserting
<1>13. BackSound' BY <1>2, <1>4, <1>9, <1>12, SameBack DEF NatSound
<1>14. NatTyped'
  <2>1. worker' \in Workers BY <1>2, <1>3, <1>4 DEF Workers
  <2>2. assigned_ports' \subseteq NatPorts BY <1>2, <1>5 DEF NatSound, NatTyped
  <2> QED BY <2>1, <2>2, <1>2, <1>7 DEF NatSound, NatTyped
<1>15. Linked \subseteq Mappings \ Freed /\ \A s \in Servers : Listed(s) \subseteq Mappings \ Freed
  BY LinkedAreMappings DEF NatSound
<1>16. WorkerSound'
  <2>1. PICK s \in Servers : s = worker.server /\ s = worker'.server BY <1>3, <1>11
  <2>2. \A m \in Listed(s) : mapping[m].host # worker.host
    BY <2>1, <1>2 DEF NatSound, WorkerSound, HostOf
  <2>3. \A m \in Listed(s) : mapping'[m].host # mapping'[slot].host
    BY <2>2, <1>6, <1>7, <1>8, <1>15
  <2>4. Listed(worker.server)' = Listed(s) BY <2>1, <1>9 DEF Listed, Walk
  <2>5. \A m \in Listed(worker.server)' : HostOf(m)' # HostOf(worker.entry)'
    BY <2>3, <2>4, <1>11 DEF HostOf
  <2>6. worker'.entry \notin Linked' \cup Freed' BY <1>4, <1>9, <1>10, <1>11, <1>15
  <2> QED BY <2>5, <2>6, <1>11 DEF WorkerSound
<1>17. TimeoutSound' BY <1>2, <1>9 DEF NatSound, TimeoutSound
<1>18. PortsSound'
  <2>1. InUse' = InUse \cup {slot}
    <3>1. Leaving' = Leaving BY <1>2 DEF Leaving
    <3> QED BY <3>1, <1>9, <1>12 DEF InUse
  <2>2. InUse \subseteq Linked BY <1>12 DEF InUse
  <2>3. \A m \in InUse : /\ mapping'[m] = mapping[m]
                         /\ mapping[m].port # 0 => mapping[m].port \in assigned_ports
    BY <1>8, <1>15, <2>2 DEF NatSound, PortsSound
  <2>4. mapping'[slot].port = port BY <1>6, <1>7
  <2>5. port # 0 => port \in assigned_ports' /\ port \notin assigned_ports BY <1>2, <1>5
  <2>6. assigned_ports \subseteq assigned_ports' BY <1>2
  <2>7. \A m, n \in InUse : mapping[m].port # 0 /\ mapping[n].port = mapping[m].port => n = m
    BY DEF NatSound, PortsSound
  <2>8. ASSUME NEW m \in InUse', mapping'[m].port # 0
        PROVE  /\ mapping'[m].port \in assigned_ports'
               /\ \A n \in InUse' : mapping'[n].port = mapping'[m].port => n = m
    <3>1. CASE m = slot BY <3>1, <2>1, <2>3, <2>4, <2>5, <2>8
    <3>2. CASE m \in InUse /\ m # slot
      BY <3>2, <2>1, <2>3, <2>4, <2>5, <2>6, <2>7, <2>8
    <3> QED BY <3>1, <3>2, <2>1
  <2> QED BY <2>8 DEF PortsSound
<1> QED BY <1>9, <1>13, <1>14, <1>16, <1>17, <1>18 DEF NatSound

(***************************************************************************)
(* The steps of the timeout thread that leave the lists alone.                 *)
(***************************************************************************)
LEMMA TimeoutGoesOn ==
  ASSUME NatSound, UNCHANGED <<listVars, mapping, worker>>, timeout' \in Timeouts, assigned_ports' \subseteq NatPorts,
         TimeoutSound',
         InUse' \subseteq InUse, \A m \in InUse' : mapping[m].port \in assigned_ports => mapping[m].port \in assigned_ports'
  PROVE  NatSound'
<1>1. next' = next /\ prev' = prev /\ mapping' = mapping /\ worker' = worker
  BY DEF listVars
<1>2. ListsSound' /\ (\A s \in Servers : Listed(s)' = Listed(s)) /\ Linked' = Linked
  BY <1>1, SameLists DEF NatSound
<1>3. Freed' = Freed /\ Inserting' = Inserting BY <1>1 DEF Freed, Inserting
<1>4. BackSound' BY <1>1, <1>2, <1>3, SameBack DEF NatSound
<1>5. NatTyped' BY <1>1 DEF NatSound, NatTyped
<1>6. Listed(worker.server)' = Listed(worker.server) BY <1>1, <1>3 DEF Listed, Walk
<1>7. \A m : HostOf(m)' = HostOf(m) BY <1>1 DEF HostOf
<1>8. HostOf(worker.entry)' = HostOf(worker.entry) BY <1>1 DEF HostOf
<1>9. WorkerSound' BY <1>1, <1>2, <1>3, <1>6, <1>7, <1>8 DEF NatSound, WorkerSound
<1>10. PortsSound' BY <1>1 DEF NatSound, PortsSound
<1> QED BY <1>2, <1>4, <1>5, <1>9, <1>10 DEF NatSound

LEMMA NatLookStep ==
  ASSUME NatSound, NEW m, nat_timeout_look(m) \/ nat_timeout_unlock
  PROVE  NatSound'
<1>1. /\ timeout.at \in {"asleep", "walk"}
      /\ (m \in Linked /\ timeout' = [at |-> "release", entry |-> m]) \/ timeout' = ASLEEP
      /\ next' = next /\ prev' = prev /\ torn' = torn
      /\ mapping' = mapping /\ assigned_ports' = assigned_ports /\ worker' = worker
  BY DEF nat_timeout_look, nat_timeout_unlock, listVars
<1>2. UNCHANGED <<listVars, mapping, worker>> BY <1>1 DEF listVars
<1>3. Linked' = Linked /\ Linked \subseteq Mappings BY <1>1, SameLists, LinkedAreMappings DEF NatSound
<1>4. timeout' \in Timeouts BY <1>1, <1>3 DEF Timeouts
<1>5. TimeoutSound' BY <1>1, <1>3 DEF TimeoutSound, ASLEEP
<1>6. InUse' = InUse
  <2>1. Leaving = {} /\ Leaving' = {} BY <1>1 DEF Leaving, ASLEEP
  <2>2. Inserting' = Inserting BY <1>1 DEF Inserting
  <2> QED BY <2>1, <2>2, <1>3 DEF InUse
<1>7. assigned_ports' \subseteq NatPorts BY <1>1 DEF NatSound, NatTyped
<1> QED BY <1>1, <1>2, <1>4, <1>5, <1>6, <1>7, TimeoutGoesOn

LEMMA NatReleaseStep ==
  ASSUME NatSound, nat_timeout_release
  PROVE  NatSound'
<1>1. PICK m : m = timeout.entry OBVIOUS
<1>2. /\ timeout.at = "release" /\ timeout' = [timeout EXCEPT !.at = "unlink"]
      /\ assigned_ports' = assigned_ports \ {mapping[m].port}
      /\ next' = next /\ prev' = prev /\ torn' = torn /\ mapping' = mapping /\ worker' = worker
  BY <1>1 DEF nat_timeout_release, listVars
<1>3. UNCHANGED <<listVars, mapping, worker>> BY <1>2 DEF listVars
<1>4. timeout \in [at : {"release", "unlink"}, entry : Mappings]
  BY <1>2 DEF NatSound, NatTyped, Timeouts, ASLEEP
<1>5. timeout' \in Timeouts /\ timeout'.at = "unlink" /\ timeout'.entry = m
  BY <1>1, <1>2, <1>4 DEF Timeouts
<1>6. Linked' = Linked /\ m \in Linked
  BY <1>1, <1>2, SameLists DEF NatSound, TimeoutSound
<1>7. TimeoutSound' BY <1>5, <1>6 DEF TimeoutSound
<1>8. InUse' = InUse \ {m} /\ m \in InUse
  <2>1. Leaving = {} /\ Leaving' = {m} BY <1>2, <1>5 DEF Leaving
  <2>2. Inserting' = Inserting /\ m \notin Inserting
    BY <1>2, <1>6 DEF NatSound, WorkerSound, Inserting
  <2> QED BY <2>1, <2>2, <1>6 DEF InUse
<1>9. assigned_ports' \subseteq NatPorts BY <1>2 DEF NatSound, NatTyped
<1>10. ASSUME NEW n \in InUse', mapping[n].port \in assigned_ports PROVE mapping[n].port \in assigned_ports'
  <2>1. n \in InUse /\ n # m BY <1>8
  <2>2. mapping[n].port \in NatPorts BY <1>10 DEF NatSound, NatTyped
  <2>3. mapping[n].port # 0 BY <2>2, NatAssumption DEF NatPorts
  <2>4. mapping[m].port # mapping[n].port BY <2>1, <2>3, <1>8 DEF NatSound, PortsSound
  <2> QED BY <2>4, <1>2, <1>10
<1> QED BY <1>3, <1>5, <1>7, <1>8, <1>9, <1>10, TimeoutGoesOn

(***************************************************************************)
(* The steps that free a mapping, and those that link one.                     *)
(***************************************************************************)
LEMMA FreeBack ==
  ASSUME NatSound, NEW m \in Linked, \A t \in Servers : prev'[t] \in Listed(t)' \cup {t} \cup Lost,
         Linked' = Linked \ {m}, Freed' = Freed \cup {m}, Inserting' = Inserting
  PROVE  BackSound'
<1>1. Lost \subseteq Lost' BY DEF Lost
<1> QED BY <1>1 DEF BackSound

LEMMA NatResetStep ==
  ASSUME NatSound, reset
  PROVE  NatSound'
<1>1. PICK m : m = worker.entry OBVIOUS
<1>2. worker.at = "reset" /\ timeout = ASLEEP /\ timeout' = timeout /\ torn' = torn BY DEF reset
<1>3. CASE worker' = ENDED /\ UNCHANGED <<next, prev, mapping, assigned_ports>>
  <2>1. worker' \in Workers /\ worker'.at = "ended" BY <1>3 DEF Workers, ENDED
  <2>2. UNCHANGED <<listVars, mapping, assigned_ports, timeout>> BY <1>2, <1>3 DEF listVars
  <2> QED BY <2>1, <2>2, WorkerGoesOn
<1>4. CASE /\ m \notin Servers \cup Freed /\ worker' = WAITING
           /\ assigned_ports' = assigned_ports \ {mapping[m].port}
           /\ Unlink(m) /\ mapping' = [mapping EXCEPT ![m] = FREED]
  <2>1. m \in Linked BY <1>1, <1>2, <1>4 DEF NatSound, WorkerSound
  <2>2. m \in Mappings /\ Linked \subseteq Mappings BY <2>1, LinkedAreMappings DEF NatSound
  <2>3. /\ ListsSound' /\ Linked' = Linked \ {m} /\ (\A t \in Servers : prev'[t] \in Listed(t)' \cup {t} \cup Lost)
        /\ next' \in [Places -> Places] /\ prev' \in [Places -> Places]
    BY <2>1, <1>4, UnlinkIs
  <2>4. /\ mapping' \in [Mappings -> Contents \cup {FREED}] /\ Freed' = Freed \cup {m}
        /\ \A n \in Mappings : n # m => mapping'[n] = mapping[n]
    BY <2>2, <1>4, FreedIs DEF NatSound
  <2>5. worker' \in Workers /\ worker'.at = "poll" BY <1>4 DEF Workers, WAITING
  <2>6. Inserting = {} /\ Inserting' = {} BY <2>5, <1>2 DEF Inserting
  <2>7. BackSound' BY <2>1, <2>3, <2>4, <2>6, FreeBack
  <2>8. NatTyped' BY <2>3, <2>4, <2>5, <1>2, <1>4 DEF NatSound, NatTyped
  <2>9. WorkerSound' BY <2>5 DEF WorkerSound
  <2>10. TimeoutSound' BY <1>2 DEF TimeoutSound, ASLEEP
  <2>11. InUse' = Linked \ {m} /\ InUse = Linked
    BY <2>3, <2>6, <1>2 DEF InUse, Leaving, ASLEEP
  <2>12. PortsSound' BY <2>1, <2>2, <2>4, <2>11, <1>4 DEF NatSound, PortsSound
  <2> QED BY <2>3, <2>7, <2>8, <2>9, <2>10, <2>12 DEF NatSound
<1> QED BY <1>1, <1>3, <1>4 DEF reset

LEMMA NatFreeStep ==
  ASSUME NatSound, nat_timeout_free
  PROVE  NatSound'
<1>1. PICK m : m = timeout.entry OBVIOUS
<1>2. /\ timeout.at = "unlink" /\ timeout' = [at |-> "walk"]
      /\ Unlink(m) /\ mapping' = [mapping EXCEPT ![m] = FREED]
      /\ assigned_ports' = assigned_ports /\ worker' = worker
  BY <1>1 DEF nat_timeout_free
<1>3. m \in Linked BY <1>1, <1>2 DEF NatSound, TimeoutSound
<1>4. Linked \subseteq Mappings /\ (\A s \in Servers : Listed(s) \subseteq Linked) BY LinkedAreMappings, LinkedForm DEF NatSound
<1>5. Leaving = {m} /\ Leaving' = {} BY <1>1, <1>2 DEF Leaving
<1>6. /\ ListsSound' /\ Linked' = Linked \ {m} /\ (\A t \in Servers : Listed(t)' = Listed(t) \ {m})
      /\ \A t \in Servers : prev'[t] \in Listed(t)' \cup {t} \cup Lost
      /\ next' \in [Places -> Places] /\ prev' \in [Places -> Places]
  BY <1>2, <1>3, UnlinkIs
<1>7. /\ mapping' \in [Mappings -> Contents \cup {FREED}] /\ Freed' = Freed \cup {m}
      /\ \A n \in Mappings : n # m => mapping'[n] = mapping[n]
  BY <1>2, <1>3, <1>4, FreedIs DEF NatSound
<1>8. Inserting' = Inserting BY <1>2 DEF Inserting
<1>9. BackSound' BY <1>3, <1>6, <1>7, <1>8, FreeBack
<1>10. timeout' \in Timeouts BY <1>2 DEF Timeouts
<1>11. NatTyped' BY <1>2, <1>6, <1>7, <1>10 DEF NatSound, NatTyped
<1>12. WorkerSound'
  <2>1. ASSUME worker.at = "assign" PROVE \A n \in Listed(worker.server)' : HostOf(n)' # worker'.host
    <3>1. PICK s \in Servers : s = worker.server
      BY <2>1 DEF NatSound, NatTyped, Workers, WAITING, ENDED
    <3>2. \A n \in Listed(s) : mapping[n].host # worker.host
      BY <2>1, <3>1 DEF NatSound, WorkerSound, HostOf
    <3>3. \A n \in Listed(s) \ {m} : mapping'[n].host # worker'.host BY <3>2, <1>2, <1>4, <1>7
    <3>4. Listed(worker.server)' = Listed(s)' BY <3>1, <1>2 DEF Listed, Walk
    <3> QED BY <3>3, <3>4, <1>6 DEF HostOf
  <2>2. ASSUME worker.at = "insert"
        PROVE  /\ worker.entry \notin Linked' \cup Freed'
               /\ \A n \in Listed(worker.server)' : HostOf(n)' # HostOf(worker.entry)'
    <3>1. PICK s, e : s = worker.server /\ e = worker.entry OBVIOUS
    <3>2. s \in Servers /\ e \in Mappings /\ e \notin Linked /\ e \notin Freed
          /\ \A n \in Listed(s) : mapping[n].host # mapping[e].host
      BY <2>2, <3>1, ToInsert DEF HostOf
    <3>3. mapping'[e] = mapping[e] BY <3>2, <1>3, <1>7
    <3>4. \A n \in Listed(s) \ {m} : mapping'[n].host # mapping'[e].host BY <3>2, <3>3, <1>4, <1>7
    <3>5. Listed(worker.server)' = Listed(s)' BY <3>1, <1>2 DEF Listed, Walk
    <3>6. \A n \in Listed(worker.server)' : HostOf(n)' # HostOf(worker.entry)'
      BY <3>1, <3>2, <3>4, <3>5, <1>2, <1>6 DEF HostOf
    <3> QED BY <3>1, <3>2, <3>6, <1>3, <1>6, <1>7
  <2>3. worker.at = "reset" => worker.entry \in Servers \cup Freed' \cup Linked'
    BY <1>6, <1>7 DEF NatSound, WorkerSound
  <2> QED BY <2>1, <2>2, <2>3, <1>2 DEF WorkerSound
<1>13. TimeoutSound' BY <1>2 DEF TimeoutSound
<1>14. InUse' = InUse
  <2>1. m \notin Inserting BY <1>3 DEF NatSound, WorkerSound, Inserting
  <2> QED BY <2>1, <1>5, <1>6, <1>8 DEF InUse
<1>15. PortsSound'
  <2>1. InUse \subseteq Mappings \ {m}
    <3>1. Inserting \subseteq Mappings \ {m}
      BY <1>3, ToInsert DEF Inserting
    <3> QED BY <3>1, <1>4, <1>5 DEF InUse
  <2>2. \A n \in InUse : mapping'[n] = mapping[n] BY <2>1, <1>7
  <2> QED BY <2>2, <1>2, <1>14 DEF NatSound, PortsSound
<1> QED BY <1>6, <1>9, <1>11, <1>12, <1>13, <1>15 DEF NatSound

LEMMA NatInsertStep ==
  ASSUME NatSound, insert
  PROVE  NatSound'
<1>1. PICK s, new : s = worker.server /\ new = worker.entry OBVIOUS
<1>2. /\ worker.at = "insert" /\ mapping' = mapping /\ assigned_ports' = assigned_ports /\ timeout' = timeout
      /\ worker' \in {[at |-> "reset", entry |-> s], WAITING}
  BY <1>1 DEF insert, Sent
<1>3. s \in Servers /\ new \in Mappings /\ Inserting = {new} /\ new \notin Linked
  BY <1>1, <1>2, ToInsert
<1>4. /\ ListsSound' /\ BackSound' /\ Linked' \subseteq Linked \cup {new} /\ Linked \subseteq Linked'
      /\ next' \in [Places -> Places] /\ prev' \in [Places -> Places]
  BY <1>1, InsertIs
<1>5. worker' \in Workers /\ worker'.at \in {"reset", "poll"} /\ (worker'.at = "reset" => worker'.entry \in Servers)
  BY <1>2, <1>3, HeadsApart DEF Workers, WAITING
<1>6. NatTyped' BY <1>2, <1>4, <1>5 DEF NatSound, NatTyped
<1>7. WorkerSound' BY <1>5 DEF WorkerSound
<1>8. TimeoutSound' BY <1>2, <1>4 DEF NatSound, TimeoutSound
<1>9. InUse' \subseteq InUse
  <2>1. Leaving' = Leaving /\ Inserting' = {} BY <1>2, <1>5 DEF Leaving, Inserting
  <2> QED BY <2>1, <1>3, <1>4 DEF InUse
<1>10. PortsSound' BY <1>2, <1>9 DEF NatSound, PortsSound
<1> QED BY <1>4, <1>6, <1>7, <1>8, <1>10 DEF NatSound

LEMMA NatRaceStep ==
  ASSUME NatSound, insert_meets_free, ~ torn'
  PROVE  NatSound'
<1>1. PICK s, new, old : s = worker.server /\ new = worker.entry /\ old = timeout.entry OBVIOUS
<1>2. /\ worker.at = "insert" /\ timeout.at = "unlink" /\ assigned_ports' = assigned_ports
      /\ timeout' = [at |-> "walk"] /\ worker' \in {[at |-> "reset", entry |-> s], WAITING}
  BY <1>1 DEF insert_meets_free, Sent
<1>3. s \in Servers /\ new \in Mappings /\ Inserting = {new} /\ new \notin Linked
  BY <1>1, <1>2, ToInsert
<1>4. /\ ListsSound' /\ BackSound' /\ Linked' \subseteq (Linked \ {old}) \cup {new}
      /\ next' \in [Places -> Places] /\ prev' \in [Places -> Places]
      /\ mapping' \in [Mappings -> Contents \cup {FREED}]
      /\ \A m \in Mappings \ {old} : mapping'[m] = mapping[m]
  BY <1>1, RaceIs
<1>5. worker' \in Workers /\ worker'.at \in {"reset", "poll"} /\ (worker'.at = "reset" => worker'.entry \in Servers)
  BY <1>2, <1>3, HeadsApart DEF Workers, WAITING
<1>6. timeout' \in Timeouts /\ timeout'.at = "walk" BY <1>2 DEF Timeouts
<1>7. NatTyped' BY <1>2, <1>4, <1>5, <1>6 DEF NatSound, NatTyped
<1>8. WorkerSound' BY <1>5 DEF WorkerSound
<1>9. TimeoutSound' BY <1>6 DEF TimeoutSound
<1>10. old \in Linked /\ Linked \subseteq Mappings
  BY <1>1, <1>2, LinkedAreMappings DEF NatSound, TimeoutSound
<1>11. InUse' \subseteq InUse /\ InUse \subseteq Mappings \ {old}
  <2>1. Leaving = {old} /\ Leaving' = {} /\ Inserting' = {} BY <1>1, <1>2, <1>5, <1>6 DEF Leaving, Inserting
  <2> QED BY <2>1, <1>3, <1>4, <1>10 DEF InUse
<1>12. \A m \in InUse : mapping'[m] = mapping[m] BY <1>4, <1>11
<1>13. PortsSound' BY <1>2, <1>11, <1>12 DEF NatSound, PortsSound
<1> QED BY <1>4, <1>7, <1>8, <1>9, <1>13 DEF NatSound

LEMMA NatSameStep ==
  ASSUME NatSound, UNCHANGED natVars
  PROVE  NatSound'
<1>1. UNCHANGED <<listVars, mapping, worker>> /\ assigned_ports' = assigned_ports /\ timeout' = timeout
  BY DEF natVars
<1>2. next' = next /\ prev' = prev /\ mapping' = mapping /\ worker' = worker BY <1>1 DEF listVars
<1>3. Linked' = Linked BY <1>2, SameLists DEF NatSound
<1>4. TimeoutSound' BY <1>1, <1>3 DEF NatSound, TimeoutSound
<1>5. InUse' = InUse BY <1>1, <1>2, <1>3 DEF InUse, Leaving, Inserting
<1>6. timeout' \in Timeouts /\ assigned_ports' \subseteq NatPorts BY <1>1 DEF NatSound, NatTyped
<1> QED BY <1>1, <1>4, <1>5, <1>6, TimeoutGoesOn

LEMMA NatInvariant == NatSpec => []NatInv
<1>1. NatInit => NatInv BY NatInitInvariant
<1>2. NatInv /\ [NatNext]_natVars => NatInv'
  <2> SUFFICES ASSUME NatInv, [NatNext]_natVars, ~ torn' PROVE NatSound'
    BY DEF NatInv
  <2>1. torn => torn'
    BY DEF NatNext, natVars, listVars, do_translation, nat_timeout, receive_out, receive_in, assign, insert,
           insert_meets_free, reset, lose_way, nat_timeout_look, nat_timeout_release, nat_timeout_free,
           nat_timeout_unlock
  <2>2. NatSound BY <2>1 DEF NatInv
  <2>3. ASSUME NEW s \in Servers, NEW h \in Hosts, receive_out(s, h) PROVE NatSound'
    BY <2>2, <2>3, NatReceiveStep
  <2>4. ASSUME NEW s \in Servers, NEW p \in NatPorts, receive_in(s, p) PROVE NatSound'
    BY <2>2, <2>4, NatReceiveStep
  <2>5. CASE do_translation
    BY <2>2, <2>5, NatAssignStep, NatInsertStep, NatRaceStep, NatResetStep, NatLoseStep DEF do_translation
  <2>6. ASSUME NEW m \in Mappings, nat_timeout_look(m) PROVE NatSound' BY <2>2, <2>6, NatLookStep
  <2>7. CASE nat_timeout_release BY <2>2, <2>7, NatReleaseStep
  <2>8. CASE nat_timeout_free BY <2>2, <2>8, NatFreeStep
  <2>9. CASE nat_timeout_unlock BY <2>2, <2>9, NatLookStep
  <2>10. CASE UNCHANGED natVars BY <2>2, <2>10, NatSameStep
  <2> QED BY <2>3, <2>4, <2>5, <2>6, <2>7, <2>8, <2>9, <2>10 DEF NatNext, nat_timeout
<1> QED BY <1>1, <1>2, PTL DEF NatSpec

(***************************************************************************)
(* No list leads to memory that was freed, or into another list, and a          *)
(* connection has one mapping, although the main thread takes no lock; unless an  *)
(* insertion met an unlinking in the one way that leaves a mapping with a prev     *)
(* that leads to what was freed.                                              *)
(***************************************************************************)
THEOREM NatListsSound == NatSpec => []NatTypeOK
<1>1. NatInv => NatTypeOK
  <2> SUFFICES ASSUME NatSound PROVE NatTypeOK
    BY DEF NatInv, NatTypeOK
  <2>1. ASSUME NEW s \in Servers PROVE s \in Walk(next[s], {s} \cup Freed) /\ Listed(s) \subseteq Mappings \ Freed
    <3>1. PICK free, set : free = Freed /\ set = Listed(s) OBVIOUS
    <3>2. IsList(next, prev, free, s, set) BY <3>1 DEF NatSound, ListsSound
    <3>3. s \in Reach(next, next[s], {s} \cup free) /\ set \subseteq Mappings \ free BY <3>2, ListedIs
    <3> QED BY <3>1, <3>3 DEF Walk, Reach
  <2> QED BY <2>1 DEF NatSound, ListsSound, NatTypeOK, HostOf
<1> QED BY <1>1, NatInvariant, PTL

(***************************************************************************)
(* With the same exception two mappings in use never have one port of the pool,    *)
(* and a linked mapping's port is not free, although ports are taken without the    *)
(* lock under which they are given back.                                       *)
(***************************************************************************)
THEOREM PortsNeverShared == NatSpec => []PortsUnique
<1>1. NatInv => PortsUnique BY DEF NatInv, NatSound, PortsSound, InUse, PortsUnique
<1> QED BY <1>1, NatInvariant, PTL
-----------------------------------------------------------------------------
(* The link state daemons.                                                   *)
(*                                                                         *)
(* What carries the induction is said of each router o whose threads have not  *)
(* been in lsu_update together: at most one of them is between its list and    *)
(* its last packet, its list is the latest, and whatever is told about o has   *)
(* a number below the next one and a list no later than the latest.            *)

Send == [at : {"send"}, nbrs : SUBSET Routers, version : Nat, todo : SUBSET Routers]
Numbered == [at : {"numbered"}, nbrs : SUBSET Routers, version : Nat, todo : SUBSET Routers,
             to : Routers, seq : Nat]
Jobs == {IDLE} \cup [at : {"called"}] \cup Send \cup Numbered

(* The kinds, with those of the threads and the databases. *)
Typed ==
  /\ up \subseteq Links
  /\ nbr_list \in [Routers -> SUBSET Routers]
  /\ \A r \in Routers : \A b \in nbr_list[r] : <<r, b>> \in Links
  /\ sequence_num \in [Routers -> Nat]
  /\ built \in [Routers -> Nat]
  /\ overlapped \in [Routers -> BOOLEAN]
  /\ mospf_db \in [Routers -> [Routers -> DbEntries \cup {NONE}]]
  /\ \A r \in Routers : mospf_db[r][r] = NONE
  /\ thread \in [Routers -> [Threads -> Jobs]]
  /\ channel \in [Links -> Seq(Lsus)]

(* A link that is down carries nothing. *)
DownIsEmpty == \A l \in Links \ up : channel[l] = <<>>

Busy(o, t) == thread[o][t].at \in {"send", "numbered"}

(* At most one thread of o is between its list and its last packet, and it works
   with the latest list and the next number. *)
OneSender(o) ==
  /\ \A t, u \in Threads : Busy(o, t) /\ Busy(o, u) => t = u
  /\ \A t \in Threads : Busy(o, t) => thread[o][t].version = built[o]
  /\ \A t \in Threads : thread[o][t].at = "numbered" => thread[o][t].seq = sequence_num[o]

(* What packets and databases say of o: pairs of a number and a list. *)
SentOf(o) == {m \in UNION {Members(channel[l]) : l \in Links} : m.rid = o}
Kept(o) == {mospf_db[r][o] : r \in Routers} \ {NONE}
Told(o) == {<<x.seq, x.version>> : x \in SentOf(o) \cup Kept(o)}

ToldBefore(o) == \A p \in Told(o) : p[1] < sequence_num[o] /\ p[2] <= built[o]
ToldInOrder(o) == \A p, q \in Told(o) : p[1] <= q[1] => p[2] <= q[2]

Ordered == \A o \in Routers : ~ overlapped[o] => OneSender(o) /\ ToldBefore(o) /\ ToldInOrder(o)

(* The inductive invariant. *)
MospfInv == Typed /\ DownIsEmpty /\ Ordered
-----------------------------------------------------------------------------
(* What the fields of a job are, by how far it got. *)
LEMMA JobKinds ==
  ASSUME Typed, NEW r \in Routers, NEW t \in Threads
  PROVE  /\ thread[r] \in [Threads -> Jobs] /\ thread[r][t] \in Jobs
         /\ thread[r][t].at = "send" => thread[r][t] \in Send
         /\ thread[r][t].at = "numbered" => thread[r][t] \in Numbered
         /\ Busy(r, t) => thread[r][t].version \in Nat
BY DEF Typed, Jobs, Send, Numbered, IDLE, Busy

(* The messages on the links, and what is told of a router, as pairs of numbers. *)
Carried == UNION {Members(channel[l]) : l \in Links}

LEMMA CarriedAreLsus ==
  ASSUME Typed
  PROVE  Carried \subseteq Lsus
<1>1. \A l \in Links : Members(channel[l]) \subseteq Lsus
  <2> TAKE l \in Links
  <2>1. channel[l] \in Seq(Lsus) BY DEF Typed
  <2> QED BY <2>1, MembersAre
<1> QED BY <1>1 DEF Carried

LEMMA ToldAreNumbers ==
  ASSUME Typed, NEW o \in Routers
  PROVE  Told(o) \subseteq Nat \X Nat
<1>1. SentOf(o) \subseteq Lsus BY CarriedAreLsus DEF SentOf, Carried
<1>2. Kept(o) \subseteq DbEntries BY DEF Kept, Typed
<1> QED BY <1>1, <1>2 DEF Told, Lsus, DbEntries

(* Each packet and each entry tells something. *)
LEMMA CarriedTell ==
  ASSUME NEW m \in Carried
  PROVE  <<m.seq, m.version>> \in Told(m.rid)
BY DEF Told, SentOf, Carried

LEMMA KeptTell ==
  ASSUME NEW r \in Routers, NEW o \in Routers, mospf_db[r][o] # NONE
  PROVE  <<mospf_db[r][o].seq, mospf_db[r][o].version>> \in Told(o)
BY DEF Told, Kept

(* Nothing new is told of o, and its numbers only grow: the order stays. *)
LEMMA NothingNew ==
  ASSUME Typed, Typed', NEW o \in Routers, Told(o)' \subseteq Told(o),
         sequence_num'[o] >= sequence_num[o], built'[o] >= built[o],
         ToldBefore(o), ToldInOrder(o)
  PROVE  ToldBefore(o)' /\ ToldInOrder(o)'
<1>1. Told(o) \subseteq Nat \X Nat BY ToldAreNumbers
<1>2. /\ sequence_num[o] \in Nat /\ sequence_num'[o] \in Nat
      /\ built[o] \in Nat /\ built'[o] \in Nat
  BY DEF Typed
<1>3. ToldInOrder(o)' BY DEF ToldInOrder
<1>4. ToldBefore(o)' 
  <2> SUFFICES ASSUME NEW p \in Told(o)'
               PROVE  p[1] < sequence_num'[o] /\ p[2] <= built'[o]
    BY DEF ToldBefore
  <2>1. p \in Nat \X Nat /\ p[1] < sequence_num[o] /\ p[2] <= built[o]
    BY <1>1 DEF ToldBefore
  <2> QED BY <2>1, <1>2
<1> QED BY <1>3, <1>4

(* What a step tells, when every packet on a link after it repeats one that was
   there and the databases are as they were. *)
LEMMA OnlyRepeated ==
  ASSUME Typed, Typed', mospf_db' = mospf_db, NEW o \in Routers,
         \A m \in Carried' : \E n \in Carried :
            m.rid = n.rid /\ m.seq = n.seq /\ m.version = n.version
  PROVE  Told(o)' \subseteq Told(o)
<1> SUFFICES ASSUME NEW p \in Told(o)' PROVE p \in Told(o) OBVIOUS
<1>1. \/ \E m \in Carried' : m.rid = o /\ p = <<m.seq, m.version>>
      \/ \E r \in Routers : mospf_db[r][o] # NONE
                            /\ p = <<mospf_db[r][o].seq, mospf_db[r][o].version>>
  BY DEF Told, SentOf, Kept, Carried
<1>2. CASE \E m \in Carried' : m.rid = o /\ p = <<m.seq, m.version>>
  BY <1>2, CarriedTell
<1>3. CASE \E r \in Routers : mospf_db[r][o] # NONE
                            /\ p = <<mospf_db[r][o].seq, mospf_db[r][o].version>>
  BY <1>3, KeptTell
<1> QED BY <1>1, <1>2, <1>3

(* The threads of o are as they were, and so are the number and the list. *)
LEMMA SameThreads ==
  ASSUME NEW o \in Routers, OneSender(o), sequence_num'[o] = sequence_num[o],
         built'[o] = built[o],
         \A t \in Threads : thread'[o][t] = thread[o][t] \/ thread'[o][t].at \in {"idle", "called"}
  PROVE  OneSender(o)'
BY DEF OneSender, Busy
-----------------------------------------------------------------------------
(* The assumption on the starts holds of routers that boot. *)
LEMMA BootingRests ==
  Resting(Booting)
BY DEF Resting, Booting

LEMMA InvInit ==
  MospfInit => MospfInv
<1> SUFFICES ASSUME MospfInit PROVE MospfInv OBVIOUS
<1>1. PICK s \in Starts :
        /\ up = s.up /\ left = s.left
        /\ nbr_list = s.state.nbr_list /\ sequence_num = s.state.sequence_num
        /\ mospf_db = s.state.mospf_db /\ built = s.state.built
  BY DEF MospfInit
<1>2. up \subseteq Links /\ Resting(s.state) BY <1>1, MospfAssumption
<1>3. /\ nbr_list \in [Routers -> SUBSET Routers]
      /\ \A r \in Routers : \A b \in nbr_list[r] : <<r, b>> \in Links
      /\ sequence_num \in [Routers -> Nat]
      /\ built \in [Routers -> Nat]
      /\ mospf_db \in [Routers -> [Routers -> DbEntries \cup {NONE}]]
      /\ \A r \in Routers : mospf_db[r][r] = NONE
      /\ \A o \in Routers :
           /\ \A x \in Kept(o) : x.seq < sequence_num[o] /\ x.version <= built[o]
           /\ \A x, y \in Kept(o) : x.seq <= y.seq => x.version <= y.version
  BY <1>1, <1>2 DEF Resting, Kept
<1>4. /\ \A r \in Routers, t \in Threads : thread[r][t] = IDLE
      /\ thread \in [Routers -> [Threads -> Jobs]]
      /\ overlapped \in [Routers -> BOOLEAN]
  BY DEF MospfInit, Jobs
<1>5. /\ channel \in [Links -> Seq(Lsus)]
      /\ \A l \in Links : channel[l] = <<>>
  BY EmptySeq DEF MospfInit
<1>6. Typed /\ DownIsEmpty BY <1>2, <1>3, <1>4, <1>5 DEF Typed, DownIsEmpty
<1>7. ASSUME NEW o \in Routers PROVE OneSender(o) /\ ToldBefore(o) /\ ToldInOrder(o)
  <2>1. OneSender(o) BY <1>4 DEF OneSender, Busy, IDLE
  <2>2. Carried = {} BY <1>5, EmptyMembers DEF Carried
  <2>3. \A p \in Told(o) : \E x \in Kept(o) : p = <<x.seq, x.version>>
    BY <2>2 DEF Told, SentOf, Carried
  <2>4. ToldBefore(o) BY <1>3, <2>3 DEF ToldBefore
  <2>5. ToldInOrder(o) BY <1>3, <2>3 DEF ToldInOrder
  <2> QED BY <2>1, <2>4, <2>5
<1> QED BY <1>6, <1>7 DEF MospfInv, Ordered

LEMMA BuildKeeps ==
  ASSUME MospfInv, NEW r \in Routers, NEW t \in Threads, build(r, t)
  PROVE  MospfInv'
<1>1. /\ thread[r][t].at = "called"
      /\ built' = [built EXCEPT ![r] = @ + 1]
      /\ thread' = [thread EXCEPT ![r][t] =
                      [at |-> "send", nbrs |-> nbr_list[r], version |-> built'[r],
                       todo |-> {b \in Routers : <<r, b>> \in Links}]]
      /\ overlapped' = [overlapped EXCEPT ![r] =
                          @ \/ \E u \in Threads : thread[r][u].at \in {"send", "numbered"}]
      /\ UNCHANGED <<up, nbr_list, sequence_num, mospf_db, channel>>
  BY DEF build
<1>2. Typed /\ DownIsEmpty /\ Ordered BY DEF MospfInv
<1>3. /\ built' \in [Routers -> Nat] /\ built'[r] = built[r] + 1
      /\ \A o \in Routers : built'[o] >= built[o] /\ (o # r => built'[o] = built[o])
  BY <1>1, <1>2 DEF Typed
<1> DEFINE job == [at |-> "send", nbrs |-> nbr_list[r], version |-> built'[r],
                   todo |-> {b \in Routers : <<r, b>> \in Links}]
<1>4. job \in Send BY <1>2, <1>3 DEF Send, Typed
<1>4a. job.at = "send" /\ job.version = built'[r] OBVIOUS
<1> HIDE DEF job
<1>5. /\ thread' \in [Routers -> [Threads -> Jobs]]
      /\ thread'[r][t] = job
      /\ \A u \in Threads : u # t => thread'[r][u] = thread[r][u]
      /\ \A o \in Routers : o # r => thread'[o] = thread[o]
  BY <1>1, <1>2, <1>4 DEF Typed, Jobs, job
<1>6. overlapped' \in [Routers -> BOOLEAN]
  BY <1>1, <1>2 DEF Typed
<1>7. Typed' /\ DownIsEmpty'
  BY <1>1, <1>2, <1>3, <1>5, <1>6 DEF Typed, DownIsEmpty
<1>8. ASSUME NEW o \in Routers, ~ overlapped'[o]
      PROVE  OneSender(o)' /\ ToldBefore(o)' /\ ToldInOrder(o)'
  <2>1. ~ overlapped[o] /\ (o = r => \A u \in Threads : ~ Busy(r, u))
    BY <1>8, <1>1, <1>2 DEF Typed, Busy
  <2>2. OneSender(o) /\ ToldBefore(o) /\ ToldInOrder(o) BY <2>1, <1>2 DEF Ordered
  <2>3. Told(o)' = Told(o) BY <1>1 DEF Told, SentOf, Kept
  <2>4. sequence_num'[o] >= sequence_num[o] BY <1>1, <1>2 DEF Typed
  <2>5. ToldBefore(o)' /\ ToldInOrder(o)'
    BY <1>2, <1>3, <1>7, <2>2, <2>3, <2>4, NothingNew
  <2>6. CASE o = r
    <3>1. \A u \in Threads : Busy(r, u)' => u = t
      BY <2>6, <2>1, <1>5 DEF Busy
    <3>2. thread'[r][t].version = built'[r] /\ thread'[r][t].at = "send"
      BY <1>4a, <1>5
    <3>3. \A u \in Threads : thread'[r][u].at # "numbered"
      BY <3>1, <3>2 DEF Busy
    <3>4. OneSender(r)' BY <3>1, <3>2, <3>3 DEF OneSender
    <3> QED BY <3>4, <2>5, <2>6
  <2>7. CASE o # r
    <3>1. OneSender(o)' BY <2>7, <2>2, <1>1, <1>3, <1>5, SameThreads
    <3> QED BY <3>1, <2>5
  <2> QED BY <2>6, <2>7
<1> QED BY <1>7, <1>8 DEF MospfInv, Ordered

LEMMA NumberKeeps ==
  ASSUME MospfInv, NEW r \in Routers, NEW t \in Threads, number(r, t)
  PROVE  MospfInv'
<1> DEFINE todo == thread[r][t].todo \cap nbr_list[r]
           nextTo == CHOOSE b \in todo : \A c \in todo : b <= c
           job == [at |-> "numbered", nbrs |-> thread[r][t].nbrs,
                   version |-> thread[r][t].version,
                   todo |-> {b \in todo : b > nextTo}, to |-> nextTo, seq |-> sequence_num[r]]
<1>1. /\ thread[r][t].at = "send"
      /\ thread' = [thread EXCEPT ![r][t] = IF todo = {} THEN IDLE ELSE job]
      /\ UNCHANGED <<up, nbr_list, sequence_num, mospf_db, channel, built, overlapped>>
  BY DEF number
<1>2. Typed /\ DownIsEmpty /\ Ordered BY DEF MospfInv
<1>3. thread[r][t] \in Send BY <1>1, <1>2, JobKinds
<1>4. todo \subseteq Routers BY <1>2, <1>3 DEF Typed, Send
<1>5. todo # {} => nextTo \in todo
  BY <1>4, LeastNumber, MospfAssumption
<1> HIDE DEF todo, nextTo
<1>6. /\ todo # {} => job \in Numbered
      /\ job.at = "numbered" /\ job.version = thread[r][t].version
      /\ job.seq = sequence_num[r]
  BY <1>2, <1>3, <1>4, <1>5 DEF Typed, Send, Numbered
<1> HIDE DEF job
<1>7. thread[r] \in [Threads -> Jobs] /\ thread \in [Routers -> [Threads -> Jobs]]
  BY <1>2 DEF Typed
<1>8. /\ thread'[r][t] = IF todo = {} THEN IDLE ELSE job
      /\ \A u \in Threads : u # t => thread'[r][u] = thread[r][u]
      /\ \A o \in Routers : o # r => thread'[o] = thread[o]
  BY <1>1, <1>7
<1>9. thread' \in [Routers -> [Threads -> Jobs]]
  BY <1>1, <1>6, <1>7 DEF Jobs
<1>10. Typed' /\ DownIsEmpty'
  BY <1>1, <1>2, <1>9 DEF Typed, DownIsEmpty
<1>11. ASSUME NEW o \in Routers, ~ overlapped'[o]
       PROVE  OneSender(o)' /\ ToldBefore(o)' /\ ToldInOrder(o)'
  <2>2. OneSender(o) /\ ToldBefore(o) /\ ToldInOrder(o) BY <1>11, <1>1, <1>2 DEF Ordered
  <2>3. Told(o)' = Told(o) BY <1>1 DEF Told, SentOf, Kept
  <2>4. ToldBefore(o)' /\ ToldInOrder(o)'
    BY <1>1, <2>2, <2>3 DEF ToldBefore, ToldInOrder
  <2>6. CASE o = r
    <3>1. Busy(r, t) BY <1>1 DEF Busy
    <3>2. \A u \in Threads : Busy(r, u)' => Busy(r, u)
      BY <3>1, <1>8 DEF Busy
    <3>3. thread'[r][t].at = "numbered" => thread'[r][t] = job
      BY <1>8 DEF IDLE
    <3>4. Busy(r, t)' => thread'[r][t] = job
      BY <1>8 DEF Busy, IDLE
    <3>5. /\ \A u \in Threads : Busy(r, u) => u = t
          /\ thread[r][t].version = built[r]
      BY <3>1, <2>2, <2>6 DEF OneSender
    <3>6. \A u \in Threads : thread'[r][u].at = "numbered" => u = t
      BY <3>2, <3>5 DEF Busy
    <3>7. OneSender(r)'
      BY <1>1, <1>6, <3>2, <3>3, <3>4, <3>5, <3>6 DEF OneSender
    <3> QED BY <3>7, <2>4, <2>6
  <2>7. CASE o # r
    <3>1. OneSender(o)' BY <2>7, <2>2, <1>1, <1>8, SameThreads
    <3> QED BY <3>1, <2>4
  <2> QED BY <2>6, <2>7
<1> QED BY <1>10, <1>11 DEF MospfInv, Ordered
(* The packet that emit sends is the only news: it has the next number and the
   latest list, so that it comes after all that was told. *)
LEMMA EmitKeeps ==
  ASSUME MospfInv, NEW r \in Routers, NEW t \in Threads, emit(r, t)
  PROVE  MospfInv'
<1> DEFINE job == thread[r][t]
           lsu == [rid |-> r, seq |-> job.seq, ttl |-> MaxTtl, nbrs |-> job.nbrs,
                   version |-> job.version]
           rest == [at |-> "send", nbrs |-> job.nbrs, version |-> job.version, todo |-> job.todo]
<1>1. /\ job.at = "numbered"
      /\ \E n \in Counted(job.seq, sequence_num[r]) :
           sequence_num' = [sequence_num EXCEPT ![r] = n]
      /\ channel' = [l \in Links |-> IF l = <<r, job.to>> /\ Passing(l)
                                     THEN Append(channel[l], lsu) ELSE channel[l]]
      /\ thread' = [thread EXCEPT ![r][t] = rest]
      /\ UNCHANGED <<up, nbr_list, mospf_db, built, overlapped>>
  BY DEF emit
<1>2. Typed /\ DownIsEmpty /\ Ordered BY DEF MospfInv
<1>3. job \in Numbered BY <1>1, <1>2, JobKinds
<1>4. lsu \in Lsus /\ lsu.rid = r /\ lsu.seq = job.seq /\ lsu.version = job.version
  <2>1. MaxTtl \in 1 .. MaxTtl BY MospfAssumption
  <2> QED BY <2>1, <1>3 DEF Lsus, Numbered
<1>5. rest \in Send /\ rest.at = "send" /\ rest.version = job.version
  BY <1>3 DEF Send, Numbered
<1>6. job.seq \in Nat /\ job.version \in Nat BY <1>3 DEF Numbered
<1>7. thread[r] \in [Threads -> Jobs] /\ thread \in [Routers -> [Threads -> Jobs]]
  BY <1>2 DEF Typed
<1> HIDE DEF lsu, rest
<1>8. /\ thread'[r][t] = rest
      /\ \A u \in Threads : u # t => thread'[r][u] = thread[r][u]
      /\ \A o \in Routers : o # r => thread'[o] = thread[o]
      /\ thread' \in [Routers -> [Threads -> Jobs]]
  BY <1>1, <1>5, <1>7 DEF Jobs
<1>9. PICK n \in {job.seq + 1, sequence_num[r] + 1} :
         sequence_num' = [sequence_num EXCEPT ![r] = n]
  BY <1>1 DEF Counted
<1>10. /\ n \in Nat /\ sequence_num' \in [Routers -> Nat] /\ sequence_num'[r] = n
       /\ \A o \in Routers : o # r => sequence_num'[o] = sequence_num[o]
  BY <1>2, <1>6, <1>9 DEF Typed
<1>11. /\ channel' \in [Links -> Seq(Lsus)]
       /\ \A l \in Links : Members(channel'[l]) \subseteq Members(channel[l]) \cup {lsu}
       /\ \A l \in Links \ up : channel'[l] = channel[l]
  <2> SUFFICES ASSUME NEW l \in Links
               PROVE  LET new == IF l = <<r, job.to>> /\ Passing(l)
                                 THEN Append(channel[l], lsu) ELSE channel[l]
                      IN /\ new \in Seq(Lsus)
                         /\ Members(new) \subseteq Members(channel[l]) \cup {lsu}
                         /\ l \notin up => new = channel[l]
    BY <1>1
  <2>1. channel[l] \in Seq(Lsus) BY <1>2 DEF Typed
  <2>2. /\ Append(channel[l], lsu) \in Seq(Lsus)
        /\ Members(Append(channel[l], lsu)) = Members(channel[l]) \cup {lsu}
    BY <2>1, <1>4, AppendMembers
  <2>3. Passing(l) => l \in up BY DEF Passing
  <2> QED BY <2>1, <2>2, <2>3
<1>12. Typed' /\ DownIsEmpty'
  BY <1>1, <1>2, <1>8, <1>10, <1>11 DEF Typed, DownIsEmpty
<1>13. Carried' \subseteq Carried \cup {lsu}
  BY <1>11 DEF Carried
<1>14. ASSUME NEW o \in Routers, o # r, ~ overlapped'[o]
       PROVE  OneSender(o)' /\ ToldBefore(o)' /\ ToldInOrder(o)'
  <2>1. OneSender(o) /\ ToldBefore(o) /\ ToldInOrder(o) BY <1>1, <1>2, <1>14 DEF Ordered
  <2>2. Told(o)' \subseteq Told(o)
    <3>1. \A m \in Carried' : m.rid = o => m \in Carried BY <1>4, <1>13, <1>14
    <3>2. SentOf(o)' \subseteq SentOf(o) BY <3>1 DEF SentOf, Carried
    <3>3. Kept(o)' = Kept(o) BY <1>1 DEF Kept
    <3> QED BY <3>2, <3>3 DEF Told
  <2>3. sequence_num'[o] >= sequence_num[o] /\ built'[o] >= built[o]
    BY <1>1, <1>2, <1>10, <1>14 DEF Typed
  <2>4. ToldBefore(o)' /\ ToldInOrder(o)' BY <1>2, <1>12, <2>1, <2>2, <2>3, NothingNew
  <2>5. OneSender(o)' BY <1>1, <1>8, <1>10, <1>14, <2>1, SameThreads
  <2> QED BY <2>4, <2>5
<1>15. ASSUME ~ overlapped'[r]
       PROVE  OneSender(r)' /\ ToldBefore(r)' /\ ToldInOrder(r)'
  <2>1. OneSender(r) /\ ToldBefore(r) /\ ToldInOrder(r) BY <1>1, <1>2, <1>15 DEF Ordered
  <2>2. Busy(r, t) BY <1>1 DEF Busy
  <2>3. /\ \A u \in Threads : Busy(r, u) => u = t
        /\ job.version = built[r] /\ job.seq = sequence_num[r]
    BY <2>1, <2>2, <1>1 DEF OneSender
  <2>4. /\ sequence_num[r] \in Nat /\ built[r] \in Nat /\ built'[r] = built[r]
        /\ sequence_num'[r] = sequence_num[r] + 1
    BY <1>1, <1>2, <1>9, <1>10, <2>3 DEF Typed
  <2>5. OneSender(r)'
    <3>1. \A u \in Threads : Busy(r, u)' => u = t BY <2>2, <2>3, <1>8 DEF Busy
    <3>2. thread'[r][t].at = "send" /\ thread'[r][t].version = built'[r]
      BY <1>5, <1>8, <2>3, <2>4
    <3>3. \A u \in Threads : thread'[r][u].at # "numbered" BY <3>1, <3>2 DEF Busy
    <3> QED BY <3>1, <3>2, <3>3 DEF OneSender
  <2>6. Told(r)' \subseteq Told(r) \cup {<<sequence_num[r], built[r]>>}
    <3>1. SentOf(r)' \subseteq SentOf(r) \cup {lsu} BY <1>13 DEF SentOf, Carried
    <3>2. Kept(r)' = Kept(r) BY <1>1 DEF Kept
    <3>3. <<lsu.seq, lsu.version>> = <<sequence_num[r], built[r]>> BY <1>4, <2>3
    <3> QED BY <3>1, <3>2, <3>3 DEF Told
  <2>7. \A p \in Told(r) : p \in Nat \X Nat /\ p[1] < sequence_num[r] /\ p[2] <= built[r]
    BY <1>2, <2>1, ToldAreNumbers DEF ToldBefore
  <2>8. ToldBefore(r)'
    <3> SUFFICES ASSUME NEW p \in Told(r)'
                 PROVE  p[1] < sequence_num'[r] /\ p[2] <= built'[r]
      BY DEF ToldBefore
    <3>1. CASE p \in Told(r) BY <3>1, <2>4, <2>7
    <3>2. CASE p = <<sequence_num[r], built[r]>> BY <3>2, <2>4
    <3> QED BY <3>1, <3>2, <2>6
  <2>9. ToldInOrder(r)'
    <3> SUFFICES ASSUME NEW p \in Told(r)', NEW q \in Told(r)', p[1] <= q[1]
                 PROVE  p[2] <= q[2]
      BY DEF ToldInOrder
    <3>1. CASE p \in Told(r) /\ q \in Told(r) BY <3>1, <2>1 DEF ToldInOrder
    <3>2. CASE p \in Told(r) /\ q = <<sequence_num[r], built[r]>> BY <3>2, <2>7
    <3>3. CASE p = <<sequence_num[r], built[r]>> /\ q \in Told(r) BY <3>3, <2>4, <2>7
    <3>4. CASE p = <<sequence_num[r], built[r]>> /\ q = <<sequence_num[r], built[r]>>
      BY <3>4, <2>4
    <3> QED BY <3>1, <3>2, <3>3, <3>4, <2>6
  <2> QED BY <2>5, <2>8, <2>9
<1> QED BY <1>12, <1>14, <1>15 DEF MospfInv, Ordered

(* A thread is called: lists, numbers and packets stay. *)
LEMMA CallKeeps ==
  ASSUME MospfInv, NEW r \in Routers, NEW t \in Threads, Call(r, t),
         thread[r][t] = IDLE,
         nbr_list' \in [Routers -> SUBSET Routers],
         \A s \in Routers : \A b \in nbr_list'[s] : <<s, b>> \in Links,
         UNCHANGED <<up, sequence_num, mospf_db, channel, built, overlapped>>
  PROVE  MospfInv'
<1> DEFINE job == [at |-> "called"]
<1>1. Typed /\ DownIsEmpty /\ Ordered BY DEF MospfInv
<1>2. job \in Jobs /\ job.at = "called" BY DEF Jobs
<1> HIDE DEF job
<1>3. thread' = [thread EXCEPT ![r][t] = job] BY DEF Call, job
<1>4. thread[r] \in [Threads -> Jobs] /\ thread \in [Routers -> [Threads -> Jobs]]
  BY <1>1 DEF Typed
<1>5. thread' \in [Routers -> [Threads -> Jobs]] BY <1>2, <1>3, <1>4
<1>6. \A o \in Routers : \A u \in Threads :
        thread'[o][u] = thread[o][u] \/ thread'[o][u].at \in {"idle", "called"}
  BY <1>2, <1>3, <1>4
<1>7. Typed' /\ DownIsEmpty' BY <1>1, <1>5 DEF Typed, DownIsEmpty
<1>8. ASSUME NEW o \in Routers, ~ overlapped'[o]
      PROVE  OneSender(o)' /\ ToldBefore(o)' /\ ToldInOrder(o)'
  <2>1. OneSender(o) /\ ToldBefore(o) /\ ToldInOrder(o) BY <1>8, <1>1 DEF Ordered
  <2>2. Told(o)' = Told(o) BY DEF Told, SentOf, Kept
  <2>3. ToldBefore(o)' /\ ToldInOrder(o)' BY <2>1, <2>2 DEF ToldBefore, ToldInOrder
  <2>4. OneSender(o)' BY <2>1, <1>6, SameThreads
  <2> QED BY <2>3, <2>4
<1> QED BY <1>7, <1>8 DEF MospfInv, Ordered

LEMMA HelloKeeps ==
  ASSUME MospfInv, NEW r \in Routers, NEW b \in Routers, <<r, b>> \in Links,
         handle_mospf_hello(r, b)
  PROVE  MospfInv'
<1>1. Typed BY DEF MospfInv
<1>2. /\ thread[r]["main"] = IDLE /\ Call(r, "main")
      /\ nbr_list' = [nbr_list EXCEPT ![r] = @ \cup {b}]
      /\ UNCHANGED <<up, sequence_num, mospf_db, channel, built, overlapped>>
  BY DEF handle_mospf_hello
<1>3. /\ nbr_list' \in [Routers -> SUBSET Routers]
      /\ \A s \in Routers : \A c \in nbr_list'[s] : <<s, c>> \in Links
  BY <1>1, <1>2 DEF Typed
<1>4. "main" \in Threads BY DEF Threads
<1> QED BY <1>2, <1>3, <1>4, CallKeeps

LEMMA CheckingKeeps ==
  ASSUME MospfInv, NEW r \in Routers, checking_nbr(r)
  PROVE  MospfInv'
<1>1. Typed BY DEF MospfInv
<1>2. PICK late \in SUBSET nbr_list[r] : nbr_list' = [nbr_list EXCEPT ![r] = @ \ late]
  BY DEF checking_nbr
<1>3. /\ thread[r]["nbr"] = IDLE /\ Call(r, "nbr")
      /\ UNCHANGED <<up, sequence_num, mospf_db, channel, built, overlapped>>
  BY DEF checking_nbr
<1>4. /\ nbr_list' \in [Routers -> SUBSET Routers]
      /\ \A s \in Routers : \A c \in nbr_list'[s] : <<s, c>> \in Links
  BY <1>1, <1>2 DEF Typed
<1>5. "nbr" \in Threads BY DEF Threads
<1> QED BY <1>3, <1>4, <1>5, CallKeeps

LEMMA SendingKeeps ==
  ASSUME MospfInv, NEW r \in Routers, sending_mospf_lsu(r)
  PROVE  MospfInv'
<1>1. Typed BY DEF MospfInv
<1>2. /\ thread[r]["lsu"] = IDLE /\ Call(r, "lsu")
      /\ UNCHANGED <<up, nbr_list, sequence_num, mospf_db, channel, built, overlapped>>
  BY DEF sending_mospf_lsu
<1>3. /\ nbr_list' \in [Routers -> SUBSET Routers]
      /\ \A s \in Routers : \A c \in nbr_list'[s] : <<s, c>> \in Links
  BY <1>1, <1>2 DEF Typed
<1>4. "lsu" \in Threads BY DEF Threads
<1> QED BY <1>2, <1>3, <1>4, CallKeeps
(* One hop less to go. *)
LEMMA OneHopLess ==
  ASSUME NEW m \in Lsus
  PROVE  LET onward == [m EXCEPT !.ttl = @ - 1] IN
         /\ m.ttl > 1 => onward \in Lsus
         /\ onward.rid = m.rid /\ onward.seq = m.seq /\ onward.version = m.version /\ onward.nbrs = m.nbrs
         /\ onward.ttl = m.ttl - 1
<1> DEFINE onward == [m EXCEPT !.ttl = @ - 1]
<1>1. /\ onward.rid = m.rid /\ onward.seq = m.seq /\ onward.version = m.version /\ onward.nbrs = m.nbrs
      /\ onward.ttl = m.ttl - 1
  BY DEF Lsus
<1>2. ASSUME m.ttl > 1 PROVE m.ttl - 1 \in 1 .. MaxTtl
  BY <1>2, MospfAssumption DEF Lsus
<1>3. ASSUME m.ttl > 1 PROVE onward \in Lsus BY <1>2, <1>3 DEF Lsus
<1> QED BY <1>1, <1>3

(* An update that arrives repeats itself: on the links on which it is passed on,
   with one hop less to go, and in the database. *)
LEMMA UpdateTaken ==
  ASSUME MospfInv, NEW from \in Routers, NEW r \in Routers, <<from, r>> \in Links,
         handle_mospf_lsu(from, r)
  PROVE  /\ Typed' /\ DownIsEmpty'
         /\ UNCHANGED <<up, sequence_num, thread, built, overlapped>>
         /\ \A m \in Carried' : \E n \in Carried :
              m.rid = n.rid /\ m.seq = n.seq /\ m.version = n.version /\ m.nbrs = n.nbrs
         /\ \A q, o \in Routers :
              \/ mospf_db'[q][o] = mospf_db[q][o]
              \/ \E n \in Carried :
                   /\ n.rid = o /\ Supersedes(n, mospf_db[q][o])
                   /\ mospf_db'[q][o] = [seq |-> n.seq, nbrs |-> n.nbrs, version |-> n.version]
<1> DEFINE lsu == Head(channel[<<from, r>>])
           taken == [channel EXCEPT ![<<from, r>>] = Tail(@)]
           targets == IF lsu.ttl > 1 THEN Outward(r, from) ELSE {}
           onward == [lsu EXCEPT !.ttl = @ - 1]
           entry == [seq |-> lsu.seq, nbrs |-> lsu.nbrs, version |-> lsu.version]
<1>1. /\ channel[<<from, r>>] # <<>>
      /\ mospf_db' = IF lsu.rid # r /\ Supersedes(lsu, mospf_db[r][lsu.rid])
                     THEN [mospf_db EXCEPT ![r][lsu.rid] = entry] ELSE mospf_db
      /\ channel' = [l \in Links |->
                       IF l[1] = r /\ l[2] \in targets /\ Passing(l)
                       THEN Append(taken[l], onward) ELSE taken[l]]
      /\ UNCHANGED <<up, nbr_list, sequence_num, thread, built, overlapped>>
  BY DEF handle_mospf_lsu, GoesOn
<1>2. Typed /\ DownIsEmpty BY DEF MospfInv
<1>3. channel \in [Links -> Seq(Lsus)] BY <1>2 DEF Typed
<1>4. /\ lsu \in Lsus /\ Tail(channel[<<from, r>>]) \in Seq(Lsus)
      /\ Members(channel[<<from, r>>]) = {lsu} \cup Members(Tail(channel[<<from, r>>]))
  BY <1>1, <1>3, HeadTailMembers
<1>5. lsu \in Carried BY <1>4 DEF Carried
<1>6. entry \in DbEntries BY <1>4 DEF Lsus, DbEntries
<1> HIDE DEF lsu
<1>7. /\ lsu.ttl > 1 => onward \in Lsus
      /\ onward.rid = lsu.rid /\ onward.seq = lsu.seq /\ onward.version = lsu.version
      /\ onward.nbrs = lsu.nbrs
  BY <1>4, OneHopLess
<1> HIDE DEF onward, entry
<1>8. /\ taken \in [Links -> Seq(Lsus)]
      /\ \A l \in Links : Members(taken[l]) \subseteq Members(channel[l])
      /\ \A l \in Links \ up : taken[l] = channel[l]
  <2>1. taken \in [Links -> Seq(Lsus)] BY <1>3, <1>4
  <2>2. \A l \in Links : l # <<from, r>> => taken[l] = channel[l] BY <1>3
  <2>3. taken[<<from, r>>] = Tail(channel[<<from, r>>]) BY <1>3
  <2>4. <<from, r>> \in up BY <1>1, <1>2 DEF DownIsEmpty
  <2> HIDE DEF taken
  <2>5. \A l \in Links : Members(taken[l]) \subseteq Members(channel[l])
    <3> TAKE l \in Links
    <3>1. CASE l = <<from, r>> BY <3>1, <2>3, <1>4
    <3>2. CASE l # <<from, r>> BY <3>2, <2>2
    <3> QED BY <3>1, <3>2
  <2> QED BY <2>1, <2>2, <2>4, <2>5
<1> HIDE DEF taken
<1>9. /\ channel' \in [Links -> Seq(Lsus)]
      /\ \A l \in Links : Members(channel'[l]) \subseteq Members(channel[l]) \cup {onward}
      /\ \A l \in Links \ up : channel'[l] = channel[l]
  <2> SUFFICES ASSUME NEW l \in Links
               PROVE  LET new == IF l[1] = r /\ l[2] \in targets /\ Passing(l)
                                 THEN Append(taken[l], onward) ELSE taken[l]
                      IN /\ new \in Seq(Lsus)
                         /\ Members(new) \subseteq Members(channel[l]) \cup {onward}
                         /\ l \notin up => new = channel[l]
    BY <1>1
  <2>1. taken[l] \in Seq(Lsus) /\ Members(taken[l]) \subseteq Members(channel[l])
    BY <1>8
  <2>2. CASE l[1] = r /\ l[2] \in targets /\ Passing(l)
    <3>1. onward \in Lsus /\ l \in up BY <2>2, <1>7 DEF Passing
    <3>2. /\ Append(taken[l], onward) \in Seq(Lsus)
          /\ Members(Append(taken[l], onward)) = Members(taken[l]) \cup {onward}
      BY <2>1, <3>1, AppendMembers
    <3> QED BY <2>1, <2>2, <3>1, <3>2
  <2>3. CASE ~ (l[1] = r /\ l[2] \in targets /\ Passing(l))
    BY <2>1, <2>3, <1>8
  <2> QED BY <2>2, <2>3
<1>10. lsu.rid \in Routers BY <1>4 DEF Lsus
<1>11. /\ mospf_db \in [Routers -> [Routers -> DbEntries \cup {NONE}]]
       /\ \A q \in Routers : mospf_db[q][q] = NONE
  BY <1>2 DEF Typed
<1>12. /\ mospf_db' \in [Routers -> [Routers -> DbEntries \cup {NONE}]]
       /\ \A q \in Routers : mospf_db'[q][q] = NONE
  BY <1>1, <1>6, <1>10, <1>11
<1>13. Typed' /\ DownIsEmpty'
  BY <1>1, <1>2, <1>9, <1>12 DEF Typed, DownIsEmpty
<1>14. ASSUME NEW m \in Carried'
       PROVE  \E n \in Carried :
                m.rid = n.rid /\ m.seq = n.seq /\ m.version = n.version /\ m.nbrs = n.nbrs
  <2>1. m \in Carried \/ m = onward BY <1>9 DEF Carried
  <2> QED BY <2>1, <1>5, <1>7
<1>15. ASSUME NEW q \in Routers, NEW o \in Routers, mospf_db'[q][o] # mospf_db[q][o]
       PROVE  /\ lsu.rid = o /\ Supersedes(lsu, mospf_db[q][o])
              /\ mospf_db'[q][o] = entry
  <2>1. lsu.rid # r /\ Supersedes(lsu, mospf_db[r][lsu.rid])
        /\ mospf_db' = [mospf_db EXCEPT ![r][lsu.rid] = entry]
    BY <1>1, <1>15
  <2>2. q = r /\ o = lsu.rid BY <2>1, <1>10, <1>11, <1>15
  <2>3. mospf_db'[q][o] = entry BY <2>1, <2>2, <1>10, <1>11
  <2> QED BY <2>1, <2>2, <2>3
<1>16. \A q, o \in Routers :
         \/ mospf_db'[q][o] = mospf_db[q][o]
         \/ \E n \in Carried :
              /\ n.rid = o /\ Supersedes(n, mospf_db[q][o])
              /\ mospf_db'[q][o] = [seq |-> n.seq, nbrs |-> n.nbrs, version |-> n.version]
  BY <1>5, <1>15 DEF entry
<1> QED BY <1>1, <1>13, <1>14, <1>16

LEMMA UpdateKeeps ==
  ASSUME MospfInv, NEW from \in Routers, NEW r \in Routers, <<from, r>> \in Links,
         handle_mospf_lsu(from, r)
  PROVE  MospfInv'
<1>1. Typed /\ Ordered BY DEF MospfInv
<1>2. /\ Typed' /\ DownIsEmpty'
      /\ UNCHANGED <<up, sequence_num, thread, built, overlapped>>
      /\ \A m \in Carried' : \E n \in Carried :
           m.rid = n.rid /\ m.seq = n.seq /\ m.version = n.version
      /\ \A q, o \in Routers :
           \/ mospf_db'[q][o] = mospf_db[q][o]
           \/ \E n \in Carried :
                /\ n.rid = o /\ Supersedes(n, mospf_db[q][o])
                /\ mospf_db'[q][o] = [seq |-> n.seq, nbrs |-> n.nbrs, version |-> n.version]
  BY UpdateTaken
<1>3. ASSUME NEW o \in Routers, ~ overlapped'[o]
      PROVE  OneSender(o)' /\ ToldBefore(o)' /\ ToldInOrder(o)'
  <2>1. OneSender(o) /\ ToldBefore(o) /\ ToldInOrder(o) BY <1>3, <1>1, <1>2 DEF Ordered
  <2>2. ASSUME NEW p \in Told(o)' PROVE p \in Told(o)
    <3>1. \/ \E m \in Carried' : m.rid = o /\ p = <<m.seq, m.version>>
          \/ \E q \in Routers : mospf_db'[q][o] # NONE
                                /\ p = <<mospf_db'[q][o].seq, mospf_db'[q][o].version>>
      BY DEF Told, SentOf, Kept, Carried
    <3>2. CASE \E m \in Carried' : m.rid = o /\ p = <<m.seq, m.version>>
      BY <3>2, <1>2, CarriedTell
    <3>3. ASSUME NEW q \in Routers, mospf_db'[q][o] # NONE,
                 p = <<mospf_db'[q][o].seq, mospf_db'[q][o].version>>
          PROVE  p \in Told(o)
      <4>1. CASE mospf_db'[q][o] = mospf_db[q][o] BY <4>1, <3>3, KeptTell
      <4>2. CASE mospf_db'[q][o] # mospf_db[q][o]
        <5>1. PICK n \in Carried :
                /\ n.rid = o
                /\ mospf_db'[q][o] = [seq |-> n.seq, nbrs |-> n.nbrs, version |-> n.version]
          BY <4>2, <1>2
        <5>2. p = <<n.seq, n.version>> BY <5>1, <3>3
        <5> QED BY <5>1, <5>2, CarriedTell
      <4> QED BY <4>1, <4>2
    <3> QED BY <3>1, <3>2, <3>3
  <2>3. sequence_num'[o] >= sequence_num[o] /\ built'[o] >= built[o]
    BY <1>1, <1>2 DEF Typed
  <2>4. ToldBefore(o)' /\ ToldInOrder(o)' BY <1>1, <1>2, <2>1, <2>2, <2>3, NothingNew
  <2>5. OneSender(o)' BY <1>2, <2>1, SameThreads
  <2> QED BY <2>4, <2>5
<1> QED BY <1>2, <1>3 DEF MospfInv, Ordered

(* A link that changes loses what is on it. *)
LEMMA ChangeKeeps ==
  ASSUME MospfInv, NEW a \in Routers, NEW b \in Routers, <<a, b>> \in Links, change(a, b)
  PROVE  MospfInv'
<1>1. Typed /\ DownIsEmpty /\ Ordered BY DEF MospfInv
<1>2. /\ up' = (up \ {<<a, b>>, <<b, a>>}) \cup ({<<a, b>>, <<b, a>>} \ up)
      /\ channel' = [l \in Links |-> IF l \in {<<a, b>>, <<b, a>>} THEN <<>> ELSE channel[l]]
      /\ UNCHANGED <<nbr_list, sequence_num, mospf_db, thread, built, overlapped>>
  BY DEF change
<1>3. <<b, a>> \in Links BY MospfAssumption
<1>4. channel \in [Links -> Seq(Lsus)] /\ <<>> \in Seq(Lsus) BY <1>1, EmptySeq DEF Typed
<1>5. channel' \in [Links -> Seq(Lsus)] BY <1>2, <1>4
<1>6. up' \subseteq Links BY <1>1, <1>2, <1>3 DEF Typed
<1>7. \A l \in Links \ up' : channel'[l] = <<>>
  <2> TAKE l \in Links \ up'
  <2>1. CASE l \in {<<a, b>>, <<b, a>>} BY <2>1, <1>2
  <2>2. CASE l \notin {<<a, b>>, <<b, a>>} BY <2>2, <1>1, <1>2 DEF DownIsEmpty
  <2> QED BY <2>1, <2>2
<1>8. Typed' /\ DownIsEmpty' BY <1>1, <1>2, <1>5, <1>6, <1>7 DEF Typed, DownIsEmpty
<1>9. Carried' \subseteq Carried
  <2>1. \A l \in Links : Members(channel'[l]) \subseteq Members(channel[l])
    BY <1>2, EmptyMembers
  <2> QED BY <2>1 DEF Carried
<1>10. ASSUME NEW o \in Routers, ~ overlapped'[o]
       PROVE  OneSender(o)' /\ ToldBefore(o)' /\ ToldInOrder(o)'
  <2>1. OneSender(o) /\ ToldBefore(o) /\ ToldInOrder(o) BY <1>10, <1>1, <1>2 DEF Ordered
  <2>2. Told(o)' \subseteq Told(o) BY <1>1, <1>2, <1>8, <1>9, OnlyRepeated
  <2>3. sequence_num'[o] >= sequence_num[o] /\ built'[o] >= built[o]
    BY <1>1, <1>2 DEF Typed
  <2>4. ToldBefore(o)' /\ ToldInOrder(o)' BY <1>1, <1>8, <2>1, <2>2, <2>3, NothingNew
  <2>5. OneSender(o)' BY <1>2, <2>1, SameThreads
  <2> QED BY <2>4, <2>5
<1> QED BY <1>8, <1>10 DEF MospfInv, Ordered

LEMMA StepKeeps ==
  ASSUME MospfInv, [MospfNext]_mospfVars
  PROVE  MospfInv'
<1>1. CASE UNCHANGED mospfVars
  <2>1. UNCHANGED <<up, nbr_list, sequence_num, mospf_db, thread, channel, built, overlapped>>
    BY <1>1 DEF mospfVars
  <2>2. Typed' /\ DownIsEmpty' BY <2>1 DEF MospfInv, Typed, DownIsEmpty
  <2>3. Ordered'
    BY <2>1 DEF MospfInv, Ordered, OneSender, Busy, ToldBefore, ToldInOrder, Told, SentOf, Kept
  <2> QED BY <2>2, <2>3 DEF MospfInv
<1>2. \A l \in Links : l[1] \in Routers /\ l[2] \in Routers /\ l = <<l[1], l[2]>>
  BY MospfAssumption
<1>3. ASSUME NEW r \in Routers, NEW t \in Threads, lsu_update(r, t) PROVE MospfInv'
  BY <1>3, BuildKeeps, NumberKeeps, EmitKeeps DEF lsu_update
<1>4. ASSUME NEW l \in Links, handle_mospf_hello(l[1], l[2]) PROVE MospfInv'
  BY <1>2, <1>4, HelloKeeps
<1>5. ASSUME NEW l \in Links, handle_mospf_lsu(l[1], l[2]) PROVE MospfInv'
  BY <1>2, <1>5, UpdateKeeps
<1>6. ASSUME NEW l \in Links, change(l[1], l[2]) PROVE MospfInv'
  BY <1>2, <1>6, ChangeKeeps
<1>7. ASSUME NEW r \in Routers, checking_nbr(r) \/ sending_mospf_lsu(r) PROVE MospfInv'
  BY <1>7, CheckingKeeps, SendingKeeps
<1> QED BY <1>1, <1>3, <1>4, <1>5, <1>6, <1>7 DEF MospfNext

THEOREM MospfInvariant == MospfSpec => []MospfInv
BY InvInit, StepKeeps, PTL DEF MospfSpec
-----------------------------------------------------------------------------
(***************************************************************************)
(* The kinds of the state, for every network: an update on its way has hops    *)
(* left, and no router has an entry of its own in its database               *)
(* (handle_mospf_lsu).                                                       *)
(***************************************************************************)
THEOREM MospfTyped == MospfSpec => []MospfTypeOK
<1>1. MospfInv => MospfTypeOK
  BY DEF MospfInv, Typed, MospfTypeOK
<1> QED BY <1>1, MospfInvariant, PTL

(***************************************************************************)
(* In every network and under every loss, the numbers of a router whose        *)
(* threads did not overlap in lsu_update tell the age of its lists.           *)
(***************************************************************************)
THEOREM NumbersInOrder == MospfSpec => []NumbersTellAge
<1>1. ASSUME MospfInv, NEW o \in Routers, ~ overlapped[o],
             NEW x \in InFlight(o) \cup Known(o), NEW y \in InFlight(o) \cup Known(o),
             x.seq <= y.seq
      PROVE  x.version <= y.version
  <2>1. ASSUME NEW z \in InFlight(o) \cup Known(o)
        PROVE  <<z.seq, z.version>> \in Told(o)
    <3>1. CASE z \in InFlight(o)
      BY <3>1 DEF InFlight, Told, SentOf, Members
    <3>2. CASE z \in Known(o) BY <3>2 DEF Known, Told, Kept
    <3> QED BY <3>1, <3>2
  <2>2. ToldInOrder(o) BY <1>1 DEF MospfInv, Ordered
  <2> DEFINE p == <<x.seq, x.version>>
             q == <<y.seq, y.version>>
  <2>3. p \in Told(o) /\ q \in Told(o) /\ p[1] <= q[1] BY <2>1, <1>1
  <2>4. p[2] <= q[2] BY <2>2, <2>3 DEF ToldInOrder
  <2> QED BY <2>4
<1>2. MospfInv => NumbersTellAge BY <1>1 DEF NumbersTellAge
<1> QED BY <1>2, MospfInvariant, PTL

(* What a step does with an entry: it leaves it, or takes a packet for it that is on
   a link. *)
LEMMA DatabaseSteps ==
  ASSUME MospfInv, [MospfNext]_mospfVars, NEW q \in Routers, NEW o \in Routers
  PROVE  \/ mospf_db'[q][o] = mospf_db[q][o]
         \/ /\ overlapped' = overlapped
            /\ \E n \in Carried :
                 /\ n.rid = o /\ Supersedes(n, mospf_db[q][o])
                 /\ mospf_db'[q][o] = [seq |-> n.seq, nbrs |-> n.nbrs, version |-> n.version]
<1>1. CASE mospf_db' = mospf_db BY <1>1
<1>2. CASE \E l \in Links : handle_mospf_lsu(l[1], l[2])
  <2>1. PICK l \in Links : handle_mospf_lsu(l[1], l[2]) BY <1>2
  <2>2. l[1] \in Routers /\ l[2] \in Routers /\ l = <<l[1], l[2]>> BY MospfAssumption
  <2> QED BY <2>1, <2>2, UpdateTaken
<1>3. mospf_db' = mospf_db \/ \E l \in Links : handle_mospf_lsu(l[1], l[2])
  BY DEF MospfNext, mospfVars, lsu_update, build, number, emit, handle_mospf_hello,
         checking_nbr, sending_mospf_lsu, change
<1> QED BY <1>1, <1>2, <1>3

(* It is never for an older list. *)
LEMMA EntriesYounger ==
  ASSUME MospfInv, [MospfNext]_mospfVars, NEW r \in Routers, NEW o \in Routers,
         ~ overlapped'[o]
  PROVE  mospf_db'[r][o].version >= mospf_db[r][o].version
<1>1. Typed /\ Ordered BY DEF MospfInv
<1>2. mospf_db[r][o] \in DbEntries \cup {NONE} BY <1>1 DEF Typed
<1>3. mospf_db[r][o].version \in Nat BY <1>2 DEF DbEntries, NONE
<1>4. CASE mospf_db'[r][o] = mospf_db[r][o] BY <1>3, <1>4
<1>5. CASE mospf_db'[r][o] # mospf_db[r][o]
  <2>1. PICK n \in Carried :
          /\ n.rid = o /\ Supersedes(n, mospf_db[r][o])
          /\ mospf_db'[r][o] = [seq |-> n.seq, nbrs |-> n.nbrs, version |-> n.version]
          /\ overlapped' = overlapped
    BY <1>1, <1>5, DatabaseSteps
  <2>2. n.seq \in Nat /\ n.version \in Nat /\ mospf_db'[r][o].version = n.version
    BY <2>1, <1>1, CarriedAreLsus DEF Lsus
  <2>3. CASE mospf_db[r][o] = NONE BY <2>3, <2>2 DEF NONE
  <2>4. CASE mospf_db[r][o] # NONE
    <3> DEFINE old == mospf_db[r][o]
               p == <<old.seq, old.version>>
               new == <<n.seq, n.version>>
    <3>1. p \in Told(o) /\ new \in Told(o) BY <2>1, <2>4, KeptTell, CarriedTell
    <3>2. old.seq \in Nat /\ old.seq < n.seq
      BY <1>2, <2>1, <2>4 DEF Supersedes, DbEntries
    <3>3. ToldInOrder(o) BY <1>1, <2>1 DEF Ordered
    <3>4. p[1] <= new[1] BY <2>2, <3>2
    <3>5. p[2] <= new[2] BY <3>1, <3>3, <3>4 DEF ToldInOrder
    <3> QED BY <1>3, <2>2, <3>5
  <2> QED BY <2>3, <2>4
<1> QED BY <1>4, <1>5

(***************************************************************************)
(* No database goes back to an older list of a router whose threads did not    *)
(* overlap, whatever order the copies of its updates arrive in.               *)
(***************************************************************************)
THEOREM NewsOnlyYounger == MospfSpec => NewsNeverOlder
<1>1. MospfInv /\ [MospfNext]_mospfVars =>
        [\A r, o \in Routers :
           ~ overlapped'[o] => mospf_db'[r][o].version >= mospf_db[r][o].version]_mospfVars
  BY EntriesYounger
<1> QED BY <1>1, MospfInvariant, PTL DEF MospfSpec, NewsNeverOlder
-----------------------------------------------------------------------------
(***************************************************************************)
(* How an update spreads.  Let o be a router whose last list is current and    *)
(* whose threads did not overlap.  Along every way from o, the list has to     *)
(* leave o yet, or a copy that may still go far enough is on a link of the      *)
(* way, or the router at its end has it.  Whoever has it has the neighbours      *)
(* that o has.                                                               *)
(***************************************************************************)
ToLeave(o, b) ==
  \E t \in Threads :
    \/ Busy(o, t) /\ b \in thread[o][t].todo
    \/ thread[o][t].at = "numbered" /\ thread[o][t].to = b

Latest(m, o) == m.rid = o /\ m.version = built[o]

UnderWay(o, w, i) ==
  \E m \in Members(channel[<<w[i - 1], w[i]>>]) : Latest(m, o) /\ m.ttl + i > MaxTtl

Informed(r, o) == mospf_db[r][o] # NONE /\ mospf_db[r][o].version = built[o]

Reaches(o, links, w) ==
  \/ ToLeave(o, w[1])
  \/ \E i \in 1 .. links : UnderWay(o, w, i)
  \/ Informed(w[links], o)

AllReach(o) == \A links \in 1 .. MaxTtl : \A w \in Ways(o, links) : Reaches(o, links, w)

ToldRight(o) ==
  /\ \A t \in Threads : Busy(o, t) => thread[o][t].nbrs = nbr_list[o]
  /\ \A m \in Carried : Latest(m, o) => m.nbrs = nbr_list[o]
  /\ \A r \in Routers : Informed(r, o) => mospf_db[r][o].nbrs = nbr_list[o]

Spreads(o) == Settled /\ ToldRight(o) /\ AllReach(o)

FloodInv ==
  /\ current \in [Routers -> BOOLEAN]
  /\ \A o \in Routers : current[o] /\ ~ overlapped[o] => Spreads(o)

(* What the routers along a way are to each other. *)
Neighbourly(o, links, w) ==
  /\ w[0] = o
  /\ \A i \in 1 .. links :
       /\ w[i - 1] \in Routers /\ w[i] \in Routers /\ w[i] # o
       /\ <<w[i - 1], w[i]>> \in up /\ <<w[i - 1], w[i]>> \in Links
       /\ w[i] \in nbr_list[w[i - 1]]
  /\ \A i \in 1 .. links : i # links =>
       i + 1 \in 1 .. links /\ w[i + 1] # w[i - 1]

LEMMA WayFacts ==
  ASSUME Typed, Settled, NEW o \in Routers, NEW links \in 1 .. MaxTtl, NEW w \in Ways(o, links)
  PROVE  Neighbourly(o, links, w)
<1>1. MaxTtl \in Nat \ {0} /\ links \in Nat BY MospfAssumption
<1>2. /\ w \in [0 .. links -> Routers] /\ w[0] = o
      /\ \A i \in 1 .. links : <<w[i - 1], w[i]>> \in up
      /\ \A i, j \in 0 .. links : w[i] = w[j] => i = j
  BY DEF Ways
<1>3. \A i \in 1 .. links : i - 1 \in 0 .. links /\ i \in 0 .. links /\ i # 0 BY <1>1
<1>4. 0 \in 0 .. links BY <1>1
<1>5. ASSUME NEW i \in 1 .. links
      PROVE  /\ w[i - 1] \in Routers /\ w[i] \in Routers /\ w[i] # o
             /\ <<w[i - 1], w[i]>> \in up /\ <<w[i - 1], w[i]>> \in Links
             /\ w[i] \in nbr_list[w[i - 1]]
  <2>1. w[i - 1] \in Routers /\ w[i] \in Routers BY <1>2, <1>3
  <2>2. w[i] # o BY <1>2, <1>3, <1>4
  <2>3. <<w[i - 1], w[i]>> \in up /\ up \subseteq Links BY <1>2 DEF Typed
  <2>4. w[i] \in Facing(w[i - 1]) BY <2>1, <2>3 DEF Facing
  <2> QED BY <2>1, <2>2, <2>3, <2>4 DEF Settled
<1>6. ASSUME NEW i \in 1 .. links, i # links
      PROVE  i + 1 \in 1 .. links /\ w[i + 1] # w[i - 1]
  <2>1. i + 1 \in 1 .. links /\ i + 1 \in 0 .. links /\ i - 1 \in 0 .. links /\ i + 1 # i - 1
    BY <1>1, <1>6
  <2> QED BY <2>1, <1>2
<1> QED BY <1>2, <1>5, <1>6 DEF Neighbourly

LEMMA NoneIsNoEntry ==
  NONE \notin DbEntries
BY DEF NONE, DbEntries

(* The version of what is told is never later than the latest. *)
LEMMA NothingLater ==
  ASSUME MospfInv, NEW o \in Routers, ~ overlapped[o]
  PROVE  /\ \A m \in Carried : m.rid = o => m.version <= built[o]
         /\ \A r \in Routers : mospf_db[r][o] # NONE => mospf_db[r][o].version <= built[o]
<1>1. ToldBefore(o) BY DEF MospfInv, Ordered
<1>2. ASSUME NEW m \in Carried, m.rid = o PROVE m.version <= built[o]
  <2> DEFINE p == <<m.seq, m.version>>
  <2>1. p \in Told(o) BY <1>2, CarriedTell
  <2>2. p[2] <= built[o] BY <2>1, <1>1 DEF ToldBefore
  <2> QED BY <2>2
<1>3. ASSUME NEW r \in Routers, mospf_db[r][o] # NONE
      PROVE  mospf_db[r][o].version <= built[o]
  <2> DEFINE p == <<mospf_db[r][o].seq, mospf_db[r][o].version>>
  <2>1. p \in Told(o) BY <1>3, KeptTell
  <2>2. p[2] <= built[o] BY <2>1, <1>1 DEF ToldBefore
  <2> QED BY <2>2
<1> QED BY <1>2, <1>3

(* A step elsewhere, or of a thread of o that is not sending. *)
LEMMA ElsewhereSpreads ==
  ASSUME NEW o \in Routers, Spreads(o),
         UNCHANGED <<up, nbr_list, channel, mospf_db>>, built'[o] = built[o],
         \A t \in Threads :
           thread'[o][t] = thread[o][t] \/ (~ Busy(o, t) /\ ~ Busy(o, t)')
  PROVE  Spreads(o)'
<1>1. Settled' BY DEF Spreads, Settled, Facing
<1>2. \A t \in Threads : Busy(o, t) => thread'[o][t] = thread[o][t]
  OBVIOUS
<1>3. \A t \in Threads : Busy(o, t)' => thread'[o][t] = thread[o][t] /\ Busy(o, t)
  BY DEF Busy
<1>4. ToldRight(o)'
  BY <1>3 DEF Spreads, ToldRight, Carried, Latest, Informed
<1>5. \A b \in Routers : ToLeave(o, b) => ToLeave(o, b)'
  BY <1>2 DEF ToLeave, Busy
<1>6. ASSUME NEW links \in 1 .. MaxTtl, NEW w \in Ways(o, links)
      PROVE  Reaches(o, links, w)'
  <2>1. Reaches(o, links, w) BY DEF Spreads, AllReach
  <2>2. ToLeave(o, w[1]) => ToLeave(o, w[1])' BY <1>2 DEF ToLeave, Busy
  <2>3. \A i \in 1 .. links : UnderWay(o, w, i) => UnderWay(o, w, i)'
    BY DEF UnderWay, Latest
  <2>4. Informed(w[links], o) => Informed(w[links], o)' BY DEF Informed
  <2> QED BY <2>1, <2>2, <2>3, <2>4 DEF Reaches
<1>7. \A links \in 1 .. MaxTtl : Ways(o, links)' = Ways(o, links) BY DEF Ways
<1>8. AllReach(o)' BY <1>6, <1>7 DEF AllReach
<1> QED BY <1>1, <1>4, <1>8 DEF Spreads

(* A list built when all neighbours are known has to leave o for each of them, and
   nothing older is mistaken for it. *)
LEMMA BuildSpreads ==
  ASSUME MospfInv, FloodInv, NEW r \in Routers, NEW t \in Threads, build(r, t)
  PROVE  FloodInv'
<1>1. /\ thread[r][t].at = "called"
      /\ built' = [built EXCEPT ![r] = @ + 1]
      /\ thread' = [thread EXCEPT ![r][t] =
                      [at |-> "send", nbrs |-> nbr_list[r], version |-> built'[r],
                       todo |-> {b \in Routers : <<r, b>> \in Links}]]
      /\ current' = [current EXCEPT ![r] = Settled]
      /\ overlapped' = [overlapped EXCEPT ![r] =
                          @ \/ \E u \in Threads : thread[r][u].at \in {"send", "numbered"}]
      /\ UNCHANGED <<up, nbr_list, sequence_num, mospf_db, channel>>
  BY DEF build
<1>2. Typed /\ current \in [Routers -> BOOLEAN] BY DEF MospfInv, FloodInv
<1>3. /\ built'[r] = built[r] + 1 /\ built[r] \in Nat
      /\ \A o \in Routers : o # r => built'[o] = built[o]
  BY <1>1, <1>2 DEF Typed
<1> DEFINE job == [at |-> "send", nbrs |-> nbr_list[r], version |-> built'[r],
                   todo |-> {b \in Routers : <<r, b>> \in Links}]
<1>4. /\ job.at = "send" /\ job.nbrs = nbr_list[r]
      /\ job.todo = {b \in Routers : <<r, b>> \in Links}
  OBVIOUS
<1>5. thread[r] \in [Threads -> Jobs] /\ thread \in [Routers -> [Threads -> Jobs]]
  BY <1>2 DEF Typed
<1>6. /\ thread'[r][t] = job
      /\ \A u \in Threads : u # t => thread'[r][u] = thread[r][u]
      /\ \A o \in Routers : o # r => thread'[o] = thread[o]
  BY <1>1, <1>5
<1> HIDE DEF job
<1>7. Settled \in BOOLEAN BY DEF Settled
<1>8. /\ current' \in [Routers -> BOOLEAN] /\ current'[r] = Settled
      /\ \A o \in Routers : o # r => current'[o] = current[o] /\ overlapped'[o] = overlapped[o]
  BY <1>1, <1>2, <1>7 DEF Typed
<1>9. ASSUME NEW o \in Routers, current'[o], ~ overlapped'[o], o # r
      PROVE  Spreads(o)'
  <2>1. Spreads(o) BY <1>8, <1>9 DEF FloodInv
  <2> QED BY <2>1, <1>1, <1>3, <1>6, <1>9, ElsewhereSpreads
<1>10. ASSUME Settled, ~ overlapped'[r]
       PROVE  Spreads(r)'
  <2>1. ~ overlapped[r] /\ \A u \in Threads : ~ Busy(r, u)
    BY <1>1, <1>2, <1>10 DEF Typed, Busy
  <2>2. \A u \in Threads : u # t => ~ Busy(r, u)' BY <2>1, <1>6 DEF Busy
  <2>3. Settled' /\ Carried' = Carried BY <1>1, <1>10 DEF Settled, Facing, Carried
  <2>4. \A m \in Carried : ~ Latest(m, r)'
    <3>1. \A m \in Carried : m.version \in Nat BY <1>2, CarriedAreLsus DEF Lsus
    <3> QED BY <2>1, <3>1, <1>3, NothingLater DEF Latest
  <2>5. \A q \in Routers : ~ Informed(q, r)'
    <3>1. \A q \in Routers : mospf_db[q][r] # NONE => mospf_db[q][r].version \in Nat
      BY <1>2 DEF Typed, DbEntries
    <3> QED BY <2>1, <3>1, <1>1, <1>3, NothingLater DEF Informed
  <2>6. ToldRight(r)' BY <2>2, <2>3, <2>4, <2>5, <1>1, <1>4, <1>6 DEF ToldRight
  <2>7. ASSUME NEW links \in 1 .. MaxTtl, NEW w \in Ways(r, links)
        PROVE  Reaches(r, links, w)'
    <3>1. 1 \in 1 .. links /\ 1 - 1 = 0 BY MospfAssumption
    <3>1a. Neighbourly(r, links, w) BY <1>2, <1>10, WayFacts
    <3>2. w[0] = r /\ w[1] \in Routers /\ <<w[0], w[1]>> \in Links
      BY <3>1, <3>1a DEF Neighbourly
    <3>3. w[1] \in job.todo BY <3>2, <1>4
    <3>4. ToLeave(r, w[1])' BY <3>3, <1>4, <1>6 DEF ToLeave, Busy
    <3> QED BY <3>4 DEF Reaches
  <2>8. \A links \in 1 .. MaxTtl : Ways(r, links)' = Ways(r, links) BY <1>1 DEF Ways
  <2>9. AllReach(r)' BY <2>7, <2>8 DEF AllReach
  <2> QED BY <2>3, <2>6, <2>9 DEF Spreads
<1> QED BY <1>8, <1>9, <1>10 DEF FloodInv

(* The next neighbour is the least of those that are left: the others are left. *)
LEMMA NumberSpreads ==
  ASSUME MospfInv, FloodInv, NEW r \in Routers, NEW t \in Threads, number(r, t)
  PROVE  FloodInv'
<1> DEFINE todo == thread[r][t].todo \cap nbr_list[r]
           nextTo == CHOOSE b \in todo : \A c \in todo : b <= c
           job == [at |-> "numbered", nbrs |-> thread[r][t].nbrs,
                   version |-> thread[r][t].version,
                   todo |-> {b \in todo : b > nextTo}, to |-> nextTo, seq |-> sequence_num[r]]
<1>1. /\ thread[r][t].at = "send"
      /\ thread' = [thread EXCEPT ![r][t] = IF todo = {} THEN IDLE ELSE job]
      /\ UNCHANGED <<up, nbr_list, sequence_num, mospf_db, channel, built, overlapped, current>>
  BY DEF number
<1>2. Typed /\ current \in [Routers -> BOOLEAN] BY DEF MospfInv, FloodInv
<1>3. thread[r][t] \in Send BY <1>1, <1>2, JobKinds
<1>4. todo \subseteq Routers /\ Routers \subseteq Nat
  BY <1>2, <1>3, MospfAssumption DEF Typed, Send
<1>5. todo # {} => nextTo \in todo /\ \A c \in todo : nextTo <= c
  BY <1>4, LeastNumber
<1>6. \A b \in Routers : b \in nbr_list[r] /\ b \in thread[r][t].todo => b \in todo
  OBVIOUS
<1>7. /\ job.at = "numbered" /\ job.nbrs = thread[r][t].nbrs /\ job.to = nextTo
      /\ job.todo = {c \in todo : c > nextTo}
  OBVIOUS
<1> HIDE DEF job, todo, nextTo
<1>7a. \A b, c \in Nat : b <= c => c = b \/ c > b OBVIOUS
<1>7b. \A b \in todo : b = nextTo \/ b \in job.todo BY <1>4, <1>5, <1>7, <1>7a
<1>8. thread[r] \in [Threads -> Jobs] /\ thread \in [Routers -> [Threads -> Jobs]]
  BY <1>2 DEF Typed
<1>9. /\ thread'[r][t] = IF todo = {} THEN IDLE ELSE job
      /\ \A u \in Threads : u # t => thread'[r][u] = thread[r][u]
      /\ \A o \in Routers : o # r => thread'[o] = thread[o]
  BY <1>1, <1>8
<1>10. ASSUME NEW o \in Routers, current[o], ~ overlapped[o], o # r
       PROVE  Spreads(o)'
  <2>1. Spreads(o) BY <1>10 DEF FloodInv
  <2> QED BY <2>1, <1>1, <1>9, <1>10, ElsewhereSpreads
<1>11. ASSUME current[r], ~ overlapped[r]
       PROVE  Spreads(r)'
  <2>1. Spreads(r) BY <1>11 DEF FloodInv
  <2>2. Settled /\ Settled' BY <2>1, <1>1 DEF Spreads, Settled, Facing
  <2>3. Busy(r, t) /\ thread[r][t].nbrs = nbr_list[r]
    BY <2>1, <1>1 DEF Spreads, ToldRight, Busy
  <2>4. \A u \in Threads : Busy(r, u)' => thread'[r][u].nbrs = nbr_list[r]
    BY <2>1, <2>3, <1>7, <1>9 DEF Spreads, ToldRight, Busy, IDLE
  <2>5. ToldRight(r)'
    BY <2>1, <2>4, <1>1 DEF Spreads, ToldRight, Carried, Latest, Informed
  <2>6. ASSUME NEW b \in nbr_list[r], ToLeave(r, b)
        PROVE  ToLeave(r, b)'
    <3>1. PICK u \in Threads :
            \/ Busy(r, u) /\ b \in thread[r][u].todo
            \/ thread[r][u].at = "numbered" /\ thread[r][u].to = b
      BY <2>6 DEF ToLeave
    <3>2. CASE u # t
      <4>1. thread'[r][u] = thread[r][u] BY <3>2, <1>9
      <4> QED BY <3>1, <4>1 DEF ToLeave, Busy
    <3>3. CASE u = t
      <4>1. b \in thread[r][t].todo BY <3>1, <3>3, <1>1
      <4>2. b \in Routers BY <1>2 DEF Typed
      <4>3. b \in todo BY <4>1, <4>2, <1>6
      <4>4. thread'[r][t] = job BY <4>3, <1>9
      <4>5. b = nextTo \/ b \in job.todo BY <4>3, <1>7b
      <4> QED BY <4>4, <4>5, <1>7 DEF ToLeave, Busy
    <3> QED BY <3>2, <3>3
  <2>7. ASSUME NEW links \in 1 .. MaxTtl, NEW w \in Ways(r, links)
        PROVE  Reaches(r, links, w)'
    <3>1. 1 \in 1 .. links /\ 1 - 1 = 0 BY MospfAssumption
    <3>1a. Neighbourly(r, links, w) BY <1>2, <2>2, WayFacts
    <3>2. w[0] = r /\ w[1] \in nbr_list[w[1 - 1]] BY <3>1, <3>1a DEF Neighbourly
    <3>2a. w[1] \in nbr_list[r] BY <3>1, <3>2
    <3>3. Reaches(r, links, w) BY <2>1 DEF Spreads, AllReach
    <3>4. ToLeave(r, w[1]) => ToLeave(r, w[1])' BY <3>2a, <2>6
    <3>5. \A i \in 1 .. links : UnderWay(r, w, i) => UnderWay(r, w, i)'
      BY <1>1 DEF UnderWay, Latest
    <3>6. Informed(w[links], r) => Informed(w[links], r)' BY <1>1 DEF Informed
    <3> QED BY <3>3, <3>4, <3>5, <3>6 DEF Reaches
  <2>8. \A links \in 1 .. MaxTtl : Ways(r, links)' = Ways(r, links) BY <1>1 DEF Ways
  <2>9. AllReach(r)' BY <2>7, <2>8 DEF AllReach
  <2> QED BY <2>2, <2>5, <2>9 DEF Spreads
<1> QED BY <1>1, <1>2, <1>10, <1>11 DEF FloodInv

(* A packet is sent: what was to leave for this neighbour is under way. *)
LEMMA EmitSpreads ==
  ASSUME MospfInv, FloodInv, NEW r \in Routers, NEW t \in Threads, emit(r, t)
  PROVE  FloodInv'
<1> DEFINE job == thread[r][t]
           lsu == [rid |-> r, seq |-> job.seq, ttl |-> MaxTtl, nbrs |-> job.nbrs,
                   version |-> job.version]
           rest == [at |-> "send", nbrs |-> job.nbrs, version |-> job.version, todo |-> job.todo]
<1>1. /\ job.at = "numbered"
      /\ channel' = [l \in Links |-> IF l = <<r, job.to>> /\ Passing(l)
                                     THEN Append(channel[l], lsu) ELSE channel[l]]
      /\ thread' = [thread EXCEPT ![r][t] = rest]
      /\ UNCHANGED <<up, nbr_list, mospf_db, built, overlapped, current>>
  BY DEF emit
<1>2. Typed /\ current \in [Routers -> BOOLEAN] BY DEF MospfInv, FloodInv
<1>3. job \in Numbered BY <1>1, <1>2, JobKinds
<1>4. MaxTtl \in Nat \ {0} /\ MaxTtl \in 1 .. MaxTtl BY MospfAssumption
<1>5. /\ lsu \in Lsus /\ lsu.rid = r /\ lsu.version = job.version /\ lsu.nbrs = job.nbrs
      /\ lsu.ttl = MaxTtl
  BY <1>3, <1>4 DEF Lsus, Numbered
<1>6. rest.at = "send" /\ rest.nbrs = job.nbrs /\ rest.todo = job.todo
  OBVIOUS
<1>7. thread[r] \in [Threads -> Jobs] /\ thread \in [Routers -> [Threads -> Jobs]]
  BY <1>2 DEF Typed
<1> HIDE DEF lsu, rest
<1>8. /\ thread'[r][t] = rest
      /\ \A u \in Threads : u # t => thread'[r][u] = thread[r][u]
      /\ \A o \in Routers : o # r => thread'[o] = thread[o]
  BY <1>1, <1>7
<1>9. \A l \in Links :
        /\ Members(channel'[l]) \subseteq Members(channel[l]) \cup {lsu}
        /\ Members(channel[l]) \subseteq Members(channel'[l])
        /\ l = <<r, job.to>> /\ l \in up => lsu \in Members(channel'[l])
  <2> SUFFICES ASSUME NEW l \in Links
               PROVE  LET new == IF l = <<r, job.to>> /\ Passing(l)
                                 THEN Append(channel[l], lsu) ELSE channel[l]
                      IN /\ Members(new) \subseteq Members(channel[l]) \cup {lsu}
                         /\ Members(channel[l]) \subseteq Members(new)
                         /\ l = <<r, job.to>> /\ l \in up => lsu \in Members(new)
    BY <1>1
  <2>1. channel[l] \in Seq(Lsus) BY <1>2 DEF Typed
  <2>2. Members(Append(channel[l], lsu)) = Members(channel[l]) \cup {lsu}
    BY <2>1, <1>5, AppendMembers
  <2> QED BY <2>2 DEF Passing
<1>10. Carried' \subseteq Carried \cup {lsu} BY <1>9 DEF Carried
<1>11. ASSUME NEW o \in Routers, current[o], ~ overlapped[o]
       PROVE  Spreads(o)'
  <2>1. Spreads(o) BY <1>11 DEF FloodInv
  <2>2. Settled /\ Settled' BY <2>1, <1>1 DEF Spreads, Settled, Facing
  <2>3. o = r => lsu.nbrs = nbr_list'[r] /\ lsu.version = built'[r]
    <3> SUFFICES ASSUME o = r
                 PROVE  lsu.nbrs = nbr_list[r] /\ lsu.version = built[r]
      BY <1>1
    <3>1. Busy(r, t) BY <1>1 DEF Busy
    <3>2. OneSender(r) BY <1>11 DEF MospfInv, Ordered
    <3>3. job.version = built[r] BY <3>1, <3>2 DEF OneSender
    <3>4. job.nbrs = nbr_list[r] BY <3>1, <2>1 DEF Spreads, ToldRight
    <3> QED BY <3>3, <3>4, <1>5
  <2>5. ToldRight(o)'
    <3>1. \A m \in Carried' : Latest(m, o)' => m.nbrs = nbr_list'[o]
      BY <2>1, <2>3, <1>1, <1>5, <1>10 DEF Spreads, ToldRight, Latest
    <3>2. \A u \in Threads : Busy(o, u)' => thread'[o][u].nbrs = nbr_list[o]
      <4>1. Busy(r, t) BY <1>1 DEF Busy
      <4> QED BY <4>1, <2>1, <1>6, <1>8 DEF Spreads, ToldRight, Busy
    <3>3. \A q \in Routers : Informed(q, o)' => mospf_db'[q][o].nbrs = nbr_list'[o]
      BY <2>1, <1>1 DEF Spreads, ToldRight, Informed
    <3> QED BY <3>1, <3>2, <3>3, <1>1 DEF ToldRight
  <2>6. ASSUME NEW b, ToLeave(o, b)
        PROVE  ToLeave(o, b)' \/ (o = r /\ b = job.to)
    <3>1. PICK u \in Threads :
            \/ Busy(o, u) /\ b \in thread[o][u].todo
            \/ thread[o][u].at = "numbered" /\ thread[o][u].to = b
      BY <2>6 DEF ToLeave
    <3>2. CASE o # r \/ u # t
      <4>1. thread'[o][u] = thread[o][u] BY <3>2, <1>8
      <4> QED BY <3>1, <4>1 DEF ToLeave, Busy
    <3>3. CASE o = r /\ u = t
      <4>1. CASE b \in job.todo BY <4>1, <3>3, <1>6, <1>8 DEF ToLeave, Busy
      <4>2. CASE b \notin job.todo BY <4>2, <3>1, <3>3
      <4> QED BY <4>1, <4>2
    <3> QED BY <3>2, <3>3
  <2>7. ASSUME NEW links \in 1 .. MaxTtl, NEW w \in Ways(o, links)
        PROVE  Reaches(o, links, w)'
    <3>1. 1 \in 1 .. links /\ 1 - 1 = 0 BY MospfAssumption
    <3>1a. Neighbourly(o, links, w) BY <1>2, <2>2, WayFacts
    <3>2. /\ w[0] = o
          /\ \A i \in 1 .. links : <<w[i - 1], w[i]>> \in up /\ <<w[i - 1], w[i]>> \in Links
      BY <3>1a DEF Neighbourly
    <3>3. Reaches(o, links, w) BY <2>1 DEF Spreads, AllReach
    <3>4. ASSUME o = r, w[1] = job.to PROVE UnderWay(o, w, 1)'
      <4>1. <<w[0], w[1]>> \in up /\ <<w[0], w[1]>> \in Links /\ w[0] = r
        BY <3>1, <3>2, <3>4
      <4>2. lsu \in Members(channel'[<<w[0], w[1]>>]) BY <4>1, <3>4, <1>9
      <4>3. lsu.ttl + 1 > MaxTtl BY <1>4, <1>5
      <4>4. lsu.rid = o /\ lsu.version = built'[o] BY <2>3, <3>4, <1>5
      <4>5. lsu \in Members(channel'[<<w[1 - 1], w[1]>>]) BY <4>2, <3>1
      <4> QED BY <4>3, <4>4, <4>5, <1>1 DEF UnderWay, Latest
    <3>5. ASSUME NEW i \in 1 .. links, UnderWay(o, w, i) PROVE UnderWay(o, w, i)'
      <4>1. Members(channel[<<w[i - 1], w[i]>>]) \subseteq Members(channel'[<<w[i - 1], w[i]>>])
        BY <3>2, <1>9
      <4> QED BY <4>1, <3>5, <1>1 DEF UnderWay, Latest
    <3>6. Informed(w[links], o) => Informed(w[links], o)' BY <1>1 DEF Informed
    <3>7. ToLeave(o, w[1]) => ToLeave(o, w[1])' \/ UnderWay(o, w, 1)' BY <2>6, <3>4
    <3> QED BY <3>1, <3>3, <3>5, <3>6, <3>7 DEF Reaches
  <2>8. \A links \in 1 .. MaxTtl : Ways(o, links)' = Ways(o, links) BY <1>1 DEF Ways
  <2>9. AllReach(o)' BY <2>7, <2>8 DEF AllReach
  <2> QED BY <2>2, <2>5, <2>9 DEF Spreads
<1> QED BY <1>1, <1>2, <1>11 DEF FloodInv

(* Where links and neighbours change, no list is current. *)
LEMMA NoneCurrent ==
  ASSUME current' = [o \in Routers |-> FALSE]
  PROVE  FloodInv'
BY DEF FloodInv

(* What becomes of the packet that is taken: it goes on to every neighbour but the
   one it came from, and the entry is at least as young as it afterwards. *)
LEMMA UpdatePassed ==
  ASSUME MospfInv, NEW from \in Routers, NEW r \in Routers, <<from, r>> \in Links,
         handle_mospf_lsu(from, r), NEW lsu, lsu = Head(channel[<<from, r>>])
  PROVE  /\ lsu \in Lsus /\ lsu \in Carried
         /\ UNCHANGED <<up, nbr_list, thread, built, overlapped, current>>
         /\ \A l \in Links : \A m \in Members(channel[l]) :
              m \in Members(channel'[l]) \/ (l = <<from, r>> /\ m = lsu)
         /\ \A b \in nbr_list[r] :
              lsu.ttl > 1 /\ b # from /\ <<r, b>> \in up =>
                \E m \in Members(channel'[<<r, b>>]) :
                  m.rid = lsu.rid /\ m.version = lsu.version /\ m.ttl = lsu.ttl - 1
         /\ lsu.rid # r =>
              IF Supersedes(lsu, mospf_db[r][lsu.rid])
              THEN mospf_db'[r][lsu.rid] = [seq |-> lsu.seq, nbrs |-> lsu.nbrs,
                                            version |-> lsu.version]
              ELSE mospf_db' = mospf_db
<1> DEFINE taken == [channel EXCEPT ![<<from, r>>] = Tail(@)]
           targets == IF lsu.ttl > 1 THEN Outward(r, from) ELSE {}
           onward == [lsu EXCEPT !.ttl = @ - 1]
           entry == [seq |-> lsu.seq, nbrs |-> lsu.nbrs, version |-> lsu.version]
<1>1. /\ channel[<<from, r>>] # <<>>
      /\ mospf_db' = IF lsu.rid # r /\ Supersedes(lsu, mospf_db[r][lsu.rid])
                     THEN [mospf_db EXCEPT ![r][lsu.rid] = entry] ELSE mospf_db
      /\ channel' = [l \in Links |->
                       IF l[1] = r /\ l[2] \in targets /\ Passing(l)
                       THEN Append(taken[l], onward) ELSE taken[l]]
      /\ UNCHANGED <<up, nbr_list, thread, built, overlapped, current>>
  BY DEF handle_mospf_lsu, GoesOn
<1>2. Typed BY DEF MospfInv
<1>3. channel \in [Links -> Seq(Lsus)] BY <1>2 DEF Typed
<1>4. /\ lsu \in Lsus /\ Tail(channel[<<from, r>>]) \in Seq(Lsus)
      /\ Members(channel[<<from, r>>]) = {lsu} \cup Members(Tail(channel[<<from, r>>]))
  BY <1>1, <1>3, HeadTailMembers
<1>5. lsu \in Carried BY <1>4 DEF Carried
<1>6. /\ lsu.ttl > 1 => onward \in Lsus
      /\ onward.rid = lsu.rid /\ onward.version = lsu.version /\ onward.ttl = lsu.ttl - 1
  BY <1>4, OneHopLess
<1> HIDE DEF onward
<1>7. /\ taken \in [Links -> Seq(Lsus)]
      /\ \A l \in Links : l # <<from, r>> => taken[l] = channel[l]
      /\ taken[<<from, r>>] = Tail(channel[<<from, r>>])
  BY <1>3, <1>4
<1> HIDE DEF taken
<1>8. \A l \in Links :
        /\ Members(taken[l]) \subseteq Members(channel'[l])
        /\ l[1] = r /\ l[2] \in targets /\ l \in up => onward \in Members(channel'[l])
  <2> SUFFICES ASSUME NEW l \in Links
               PROVE  LET new == IF l[1] = r /\ l[2] \in targets /\ Passing(l)
                                 THEN Append(taken[l], onward) ELSE taken[l]
                      IN /\ Members(taken[l]) \subseteq Members(new)
                         /\ l[1] = r /\ l[2] \in targets /\ l \in up => onward \in Members(new)
    BY <1>1
  <2>1. taken[l] \in Seq(Lsus) BY <1>7
  <2>2. l[2] \in targets => onward \in Lsus BY <1>6
  <2>3. onward \in Lsus => Members(Append(taken[l], onward)) = Members(taken[l]) \cup {onward}
    BY <2>1, AppendMembers
  <2> QED BY <2>2, <2>3 DEF Passing
<1>9. \A l \in Links : \A m \in Members(channel[l]) :
        m \in Members(taken[l]) \/ (l = <<from, r>> /\ m = lsu)
  BY <1>4, <1>7
<1>10. \A b \in nbr_list[r] :
         lsu.ttl > 1 /\ b # from /\ <<r, b>> \in up => onward \in Members(channel'[<<r, b>>])
  <2> TAKE b \in nbr_list[r]
  <2>1. <<r, b>> \in Links BY <1>2 DEF Typed
  <2>2. lsu.ttl > 1 /\ b # from => b \in targets BY DEF Outward
  <2> HIDE DEF targets
  <2> QED BY <2>1, <2>2, <1>8
<1>11. lsu.rid \in Routers /\ mospf_db \in [Routers -> [Routers -> DbEntries \cup {NONE}]]
  BY <1>2, <1>4 DEF Lsus, Typed
<1> HIDE DEF entry
<1>12. lsu.rid # r =>
         IF Supersedes(lsu, mospf_db[r][lsu.rid])
         THEN mospf_db'[r][lsu.rid] = entry ELSE mospf_db' = mospf_db
  BY <1>1, <1>11
<1> QED BY <1>1, <1>4, <1>5, <1>6, <1>8, <1>9, <1>10, <1>12 DEF entry

(* An entry with the latest list is never replaced by another. *)
LEMMA StaysInformed ==
  ASSUME MospfInv, MospfInv', [MospfNext]_mospfVars, NEW q \in Routers, NEW o \in Routers,
         ~ overlapped'[o], built'[o] = built[o], Informed(q, o)
  PROVE  Informed(q, o)'
<1>1. Typed /\ Typed' BY DEF MospfInv
<1>2. mospf_db[q][o] # NONE /\ mospf_db[q][o].version = built[o] BY DEF Informed
<1>3. mospf_db'[q][o] # NONE
  <2>1. CASE mospf_db'[q][o] = mospf_db[q][o] BY <2>1, <1>2
  <2>2. CASE mospf_db'[q][o] # mospf_db[q][o]
    <3>1. PICK n \in Carried :
            mospf_db'[q][o] = [seq |-> n.seq, nbrs |-> n.nbrs, version |-> n.version]
      BY <2>2, DatabaseSteps
    <3>2. mospf_db'[q][o] \in DbEntries BY <3>1, <1>1, CarriedAreLsus DEF Lsus, DbEntries
    <3> QED BY <3>2, NoneIsNoEntry
  <2> QED BY <2>1, <2>2
<1>4. mospf_db'[q][o].version >= built[o] BY <1>2, EntriesYounger
<1>5. mospf_db'[q][o].version <= built'[o]
  <2> DEFINE p == <<mospf_db'[q][o].seq, mospf_db'[q][o].version>>
  <2>1. p \in Told(o)' BY <1>3 DEF Told, Kept
  <2>2. ToldBefore(o)' BY DEF MospfInv, Ordered
  <2>3. p[2] <= built'[o] BY <2>1, <2>2 DEF ToldBefore
  <2> QED BY <2>3
<1>6. mospf_db'[q][o].version \in Nat /\ built[o] \in Nat
  BY <1>1, <1>3 DEF Typed, DbEntries
<1>7. mospf_db'[q][o].version = built[o] BY <1>4, <1>5, <1>6
<1> QED BY <1>3, <1>7 DEF Informed

(* A packet that is taken is the end of the way, or goes on along it. *)
LEMMA UpdateSpreads ==
  ASSUME MospfInv, MospfInv', FloodInv, NEW from \in Routers, NEW r \in Routers,
         <<from, r>> \in Links, handle_mospf_lsu(from, r), [MospfNext]_mospfVars
  PROVE  FloodInv'
<1>1. PICK lsu : lsu = Head(channel[<<from, r>>]) OBVIOUS
<1>2. /\ lsu \in Lsus /\ lsu \in Carried
      /\ UNCHANGED <<up, nbr_list, thread, built, overlapped, current>>
      /\ \A l \in Links : \A m \in Members(channel[l]) :
           m \in Members(channel'[l]) \/ (l = <<from, r>> /\ m = lsu)
      /\ \A b \in nbr_list[r] :
           lsu.ttl > 1 /\ b # from /\ <<r, b>> \in up =>
             \E m \in Members(channel'[<<r, b>>]) :
               m.rid = lsu.rid /\ m.version = lsu.version /\ m.ttl = lsu.ttl - 1
      /\ lsu.rid # r =>
           IF Supersedes(lsu, mospf_db[r][lsu.rid])
           THEN mospf_db'[r][lsu.rid] = [seq |-> lsu.seq, nbrs |-> lsu.nbrs,
                                         version |-> lsu.version]
           ELSE mospf_db' = mospf_db
  BY <1>1, UpdatePassed
<1>3. /\ \A m \in Carried' : \E n \in Carried :
           m.rid = n.rid /\ m.version = n.version /\ m.nbrs = n.nbrs
      /\ \A q, o \in Routers :
           \/ mospf_db'[q][o] = mospf_db[q][o]
           \/ \E n \in Carried :
                /\ n.rid = o
                /\ mospf_db'[q][o] = [seq |-> n.seq, nbrs |-> n.nbrs, version |-> n.version]
  BY UpdateTaken
<1>4. Typed /\ Typed' /\ current \in [Routers -> BOOLEAN] BY DEF MospfInv, FloodInv
<1>5. MaxTtl \in Nat \ {0} /\ lsu.ttl \in Nat /\ lsu.seq \in Nat /\ lsu.version \in Nat
  BY <1>2, MospfAssumption DEF Lsus
<1>6. ASSUME NEW o \in Routers, current[o], ~ overlapped[o]
      PROVE  Spreads(o)'
  <2>1. Spreads(o) BY <1>6 DEF FloodInv
  <2>2. Settled /\ Settled' BY <2>1, <1>2 DEF Spreads, Settled, Facing
  <2>3. ToldRight(o)'
    <3>1. \A t \in Threads : Busy(o, t)' => thread'[o][t].nbrs = nbr_list'[o]
      BY <2>1, <1>2 DEF Spreads, ToldRight, Busy
    <3>2. \A m \in Carried' : Latest(m, o)' => m.nbrs = nbr_list'[o]
      BY <2>1, <1>2, <1>3 DEF Spreads, ToldRight, Latest
    <3>3. ASSUME NEW q \in Routers, Informed(q, o)'
          PROVE  mospf_db'[q][o].nbrs = nbr_list'[o]
      <4>1. CASE mospf_db'[q][o] = mospf_db[q][o]
        BY <4>1, <3>3, <2>1, <1>2 DEF Informed, Spreads, ToldRight
      <4>2. CASE mospf_db'[q][o] # mospf_db[q][o]
        <5>1. PICK n \in Carried :
                /\ n.rid = o
                /\ mospf_db'[q][o] = [seq |-> n.seq, nbrs |-> n.nbrs, version |-> n.version]
          BY <4>2, <1>3
        <5>2. n.version = built[o] BY <5>1, <3>3, <1>2 DEF Informed
        <5>3. n.nbrs = nbr_list[o] BY <5>1, <5>2, <2>1 DEF Spreads, ToldRight, Latest
        <5> QED BY <5>1, <5>3, <1>2
      <4> QED BY <4>1, <4>2
    <3> QED BY <3>1, <3>2, <3>3 DEF ToldRight
  <2>4. ASSUME NEW q \in Routers, Informed(q, o) PROVE Informed(q, o)'
    BY <2>4, <1>2, <1>6, StaysInformed
  <2>5. ASSUME Latest(lsu, o), r # o PROVE Informed(r, o)'
    <3>1. lsu.rid = o /\ lsu.version = built[o] BY <2>5 DEF Latest
    <3>2. CASE Supersedes(lsu, mospf_db[r][o])
      <4>1. mospf_db'[r][o] = [seq |-> lsu.seq, nbrs |-> lsu.nbrs, version |-> lsu.version]
        BY <3>1, <3>2, <2>5, <1>2
      <4>2. mospf_db'[r][o] \in DbEntries BY <4>1, <1>2 DEF Lsus, DbEntries
      <4> QED BY <4>1, <4>2, <3>1, <1>2, NoneIsNoEntry DEF Informed
    <3>3. CASE ~ Supersedes(lsu, mospf_db[r][o])
      <4> DEFINE entry == mospf_db[r][o]
                 p == <<lsu.seq, lsu.version>>
                 q == <<entry.seq, entry.version>>
      <4>1. entry # NONE /\ ~ (entry.seq < lsu.seq) BY <3>3 DEF Supersedes
      <4>2. entry \in DbEntries BY <4>1, <1>4 DEF Typed
      <4>3. p \in Told(o) /\ q \in Told(o) BY <4>1, <3>1, <1>2, CarriedTell, KeptTell
      <4>4. entry.seq \in Nat /\ entry.version \in Nat BY <4>2 DEF DbEntries
      <4>5. p[1] <= q[1] BY <4>1, <4>4, <1>5
      <4>6. p[2] <= q[2] BY <4>3, <4>5, <1>6 DEF MospfInv, Ordered, ToldInOrder
      <4>7. entry.version <= built[o] BY <4>1, <1>6, NothingLater
      <4>8. entry.version = built[o] BY <4>4, <4>6, <4>7, <3>1, <1>5
      <4>9. Informed(r, o) BY <4>1, <4>8 DEF Informed
      <4> QED BY <4>9, <2>4
    <3> QED BY <3>2, <3>3
  <2>6. ASSUME NEW links \in 1 .. MaxTtl, NEW w \in Ways(o, links)
        PROVE  Reaches(o, links, w)'
    <3>0. Neighbourly(o, links, w) BY <1>4, <2>2, WayFacts
    <3>1. /\ w[0] = o
          /\ \A i \in 1 .. links :
               /\ w[i - 1] \in Routers /\ w[i] \in Routers /\ w[i] # o
               /\ <<w[i - 1], w[i]>> \in up /\ <<w[i - 1], w[i]>> \in Links
               /\ w[i] \in nbr_list[w[i - 1]]
          /\ \A i \in 1 .. links : i # links =>
               i + 1 \in 1 .. links /\ w[i + 1] # w[i - 1]
      BY <3>0 DEF Neighbourly
    <3>2. Reaches(o, links, w) BY <2>1 DEF Spreads, AllReach
    <3>3. ToLeave(o, w[1]) => ToLeave(o, w[1])' BY <1>2 DEF ToLeave, Busy
    <3>4. links \in 1 .. links BY MospfAssumption
    <3>4a. w[links] \in Routers BY <3>1, <3>4
    <3>5. Informed(w[links], o) => Informed(w[links], o)' BY <3>4a, <2>4
    <3>6. ASSUME NEW i \in 1 .. links, UnderWay(o, w, i) PROVE Reaches(o, links, w)'
      <4>1. PICK m \in Members(channel[<<w[i - 1], w[i]>>]) : Latest(m, o) /\ m.ttl + i > MaxTtl
        BY <3>6 DEF UnderWay
      <4>2. Latest(m, o)' BY <4>1, <1>2 DEF Latest
      <4>3. CASE m \in Members(channel'[<<w[i - 1], w[i]>>])
        BY <4>1, <4>2, <4>3 DEF UnderWay, Reaches
      <4>4. CASE <<w[i - 1], w[i]>> = <<from, r>> /\ m = lsu
        <5>1. w[i] = r /\ w[i - 1] = from /\ r # o BY <4>4, <3>1
        <5>2. CASE i = links
          <6>1. Informed(w[links], o)' BY <5>1, <5>2, <4>1, <4>4, <2>5
          <6> QED BY <6>1 DEF Reaches
        <5>3. CASE i # links
          <6>1. /\ i + 1 \in 1 .. links /\ w[i + 1] # from
                /\ <<w[(i + 1) - 1], w[i + 1]>> \in up /\ w[i + 1] \in nbr_list[w[(i + 1) - 1]]
            BY <5>1, <5>3, <3>1
          <6>2. (i + 1) - 1 = i /\ lsu.ttl > 1 /\ (lsu.ttl - 1) + (i + 1) > MaxTtl
            BY <6>1, <4>1, <4>4, <1>5
          <6>3. <<r, w[i + 1]>> \in up /\ w[i + 1] \in nbr_list[r] BY <6>1, <6>2, <5>1
          <6>4. PICK n \in Members(channel'[<<r, w[i + 1]>>]) :
                  n.rid = lsu.rid /\ n.version = lsu.version /\ n.ttl = lsu.ttl - 1
            BY <6>1, <6>2, <6>3, <1>2
          <6>5. Latest(n, o)' BY <6>4, <4>2, <4>4 DEF Latest
          <6>6. n \in Members(channel'[<<w[(i + 1) - 1], w[i + 1]>>]) BY <6>4, <6>2, <5>1
          <6>7. n.ttl + (i + 1) > MaxTtl BY <6>2, <6>4
          <6>8. UnderWay(o, w, i + 1)' BY <6>5, <6>6, <6>7 DEF UnderWay
          <6> QED BY <6>1, <6>8 DEF Reaches
        <5> QED BY <5>2, <5>3
      <4> QED BY <4>3, <4>4, <3>1, <1>2
    <3> QED BY <3>2, <3>3, <3>5, <3>6 DEF Reaches
  <2>7. \A links \in 1 .. MaxTtl : Ways(o, links)' = Ways(o, links) BY <1>2 DEF Ways
  <2>8. AllReach(o)' BY <2>6, <2>7 DEF AllReach
  <2> QED BY <2>2, <2>3, <2>8 DEF Spreads
<1> QED BY <1>2, <1>4, <1>6 DEF FloodInv

LEMMA FloodInit ==
  MospfInit => FloodInv
BY DEF MospfInit, FloodInv

LEMMA FloodKeeps ==
  ASSUME MospfInv, MospfInv', FloodInv, [MospfNext]_mospfVars
  PROVE  FloodInv'
<1>0. Typed /\ current \in [Routers -> BOOLEAN] BY DEF MospfInv, FloodInv
<1>1. ASSUME UNCHANGED <<up, nbr_list, mospf_db, channel, built, overlapped, current>>,
             \A o \in Routers, t \in Threads :
               thread'[o][t] = thread[o][t] \/ (~ Busy(o, t) /\ ~ Busy(o, t)')
      PROVE  FloodInv'
  <2>1. ASSUME NEW o \in Routers, current[o], ~ overlapped[o] PROVE Spreads(o)'
    <3>1. Spreads(o) BY <2>1 DEF FloodInv
    <3> QED BY <3>1, <1>1, ElsewhereSpreads
  <2> QED BY <2>1, <1>0, <1>1 DEF FloodInv
<1>2. CASE UNCHANGED mospfVars BY <1>1, <1>2 DEF mospfVars
<1>3. \A l \in Links : l[1] \in Routers /\ l[2] \in Routers /\ l = <<l[1], l[2]>>
  BY MospfAssumption
<1>4. ASSUME NEW r \in Routers, NEW t \in Threads, lsu_update(r, t) PROVE FloodInv'
  BY <1>4, BuildSpreads, NumberSpreads, EmitSpreads DEF lsu_update
<1>5. ASSUME NEW l \in Links, handle_mospf_hello(l[1], l[2]) PROVE FloodInv'
  BY <1>5, NoneCurrent DEF handle_mospf_hello
<1>6. ASSUME NEW l \in Links, handle_mospf_lsu(l[1], l[2]) PROVE FloodInv'
  BY <1>3, <1>6, UpdateSpreads
<1>7. ASSUME NEW l \in Links, change(l[1], l[2]) PROVE FloodInv'
  BY <1>7, NoneCurrent DEF change
<1>8. ASSUME NEW r \in Routers, checking_nbr(r) PROVE FloodInv'
  BY <1>8, NoneCurrent DEF checking_nbr
<1>9. ASSUME NEW r \in Routers, sending_mospf_lsu(r) PROVE FloodInv'
  <2>1. /\ thread[r]["lsu"] = IDLE
        /\ thread' = [thread EXCEPT ![r]["lsu"] = [at |-> "called"]]
        /\ UNCHANGED <<up, nbr_list, mospf_db, channel, built, overlapped, current>>
    BY <1>9 DEF sending_mospf_lsu, Call
  <2>2. thread \in [Routers -> [Threads -> Jobs]] /\ "lsu" \in Threads
    BY <1>0 DEF Typed, Threads
  <2>3. ASSUME NEW o \in Routers, NEW t \in Threads
        PROVE  thread'[o][t] = thread[o][t] \/ (~ Busy(o, t) /\ ~ Busy(o, t)')
    <3>1. CASE o = r /\ t = "lsu"
      <4>1. thread[o][t] = IDLE /\ thread'[o][t].at = "called" BY <3>1, <2>1, <2>2
      <4> QED BY <4>1 DEF Busy, IDLE
    <3>2. CASE ~ (o = r /\ t = "lsu") BY <3>2, <2>1, <2>2
    <3> QED BY <3>1, <3>2
  <2> QED BY <2>1, <2>3, <1>1
<1> QED BY <1>2, <1>4, <1>5, <1>6, <1>7, <1>8, <1>9 DEF MospfNext

(***************************************************************************)
(* Flooding leaves nobody within MaxTtl links with older news: when all is     *)
(* quiet, each router that a current list of o can reach over working links    *)
(* knows o as it is.  It holds for every network, the copies of an update       *)
(* going every way at once and overtaking each other.                        *)
(***************************************************************************)
THEOREM NewsReachesAll == MospfSpec => []FloodReachesAll
<1>1. ASSUME FloodInv, MospfInv PROVE FloodReachesAll
  <2> SUFFICES ASSUME Quiet, NEW o \in Routers, current[o], ~ overlapped[o],
                      NEW r \in Joined(o)
               PROVE  mospf_db[r][o] # NONE /\ mospf_db[r][o].nbrs = nbr_list[o]
    BY DEF FloodReachesAll
  <2>1. Spreads(o) BY <1>1 DEF FloodInv
  <2>2. PICK links \in 1 .. MaxTtl : \E w \in Ways(o, links) : r = w[links]
    BY DEF Joined
  <2>3. PICK w \in Ways(o, links) : r = w[links] BY <2>2
  <2>4. Typed /\ Settled BY <1>1, <2>1 DEF MospfInv, Spreads
  <2>4a. Neighbourly(o, links, w) BY <2>4, WayFacts
  <2>5. \A i \in 1 .. links : <<w[i - 1], w[i]>> \in Links /\ w[i] \in Routers
    BY <2>4a DEF Neighbourly
  <2>6. links \in 1 .. links BY MospfAssumption
  <2>7. ~ ToLeave(o, w[1]) BY DEF Quiet, ToLeave, Busy, IDLE
  <2>8. \A i \in 1 .. links : ~ UnderWay(o, w, i)
    BY <2>5, EmptyMembers DEF Quiet, UnderWay
  <2>9. Informed(r, o) BY <2>1, <2>3, <2>7, <2>8 DEF Spreads, AllReach, Reaches
  <2>10. r \in Routers BY <2>3, <2>5, <2>6
  <2> QED BY <2>1, <2>9, <2>10 DEF Informed, Spreads, ToldRight
<1>2. MospfInit => FloodInv BY FloodInit
<1>3. MospfInv /\ MospfInv' /\ FloodInv /\ [MospfNext]_mospfVars => FloodInv' BY FloodKeeps
<1> QED BY <1>1, <1>2, <1>3, MospfInvariant, PTL DEF MospfSpec
-----------------------------------------------------------------------------
(* The routes.                                                              *)

(* Steps that are functions can be taken one after the other. *)
Steps(S, n) == [1 .. n -> [S -> S]]
Iterated(f, S, n, base, step) ==
  f \in [0 .. n -> S] /\ f[0] = base /\ \A i \in 1 .. n : f[i] = step[i][f[i - 1]]

LEMMA Iterates ==
  ASSUME NEW S, NEW n \in Nat, NEW base \in S, NEW step \in Steps(S, n)
  PROVE  \E f : Iterated(f, S, n, base, step)
<1> USE DEF Steps
<1> DEFINE Good(f, m) == f[0] = base /\ \A i \in 1 .. m : f[i] = step[i][f[i - 1]]
           T == {m \in 0 .. n : \E f \in [0 .. m -> S] : Good(f, m)}
<1>1. 0 \in T
  <2> DEFINE f0 == [i \in 0 .. 0 |-> base]
  <2>1. f0 \in [0 .. 0 -> S] /\ f0[0] = base OBVIOUS
  <2>2. 1 .. 0 = {} /\ 0 \in 0 .. n OBVIOUS
  <2> HIDE DEF f0
  <2>3. Good(f0, 0) BY <2>1, <2>2
  <2> QED BY <2>1, <2>2, <2>3
<1>2. ASSUME NEW m \in 0 .. n - 1, m \in T PROVE m + 1 \in T
  <2>1. PICK f \in [0 .. m -> S] : Good(f, m) BY <1>2
  <2> DEFINE g == [i \in 0 .. m + 1 |-> IF i = m + 1 THEN step[m + 1][f[m]] ELSE f[i]]
  <2>2. m \in 0 .. m /\ m + 1 \in 1 .. n /\ m + 1 \in 0 .. n OBVIOUS
  <2>3. step[m + 1][f[m]] \in S BY <2>2
  <2>4. g \in [0 .. m + 1 -> S] BY <2>3
  <2>5. g[0] = base BY <2>1
  <2>6. ASSUME NEW i \in 1 .. m + 1 PROVE g[i] = step[i][g[i - 1]]
    <3>1. CASE i = m + 1
      <4>1. m \in 0 .. m + 1 /\ m # m + 1 /\ m + 1 \in 0 .. m + 1 /\ m + 1 - 1 = m OBVIOUS
      <4>2. g[m] = f[m] /\ g[m + 1] = step[m + 1][f[m]] BY <4>1
      <4> HIDE DEF g
      <4>3. i - 1 = m BY <3>1
      <4> QED BY <3>1, <4>2, <4>3
    <3>2. CASE i # m + 1
      <4>1. i \in 1 .. m /\ i - 1 \in 0 .. m /\ i - 1 # m + 1 /\ i \in 0 .. m + 1 /\ i - 1 \in 0 .. m + 1
        BY <3>2
      <4>2. g[i] = f[i] /\ g[i - 1] = f[i - 1] BY <4>1, <3>2
      <4> QED BY <4>1, <4>2, <2>1
    <3> QED BY <3>1, <3>2
  <2> HIDE DEF g
  <2>7. Good(g, m + 1) BY <2>5, <2>6
  <2> QED BY <2>2, <2>4, <2>7
<1>3. \A i \in 0 .. n - 1 : i \in T => i + 1 \in T BY <1>2
<1> HIDE DEF T
<1>4. \A i \in 0 .. n : i \in T BY <1>1, <1>3, Induct
<1>5. n \in T BY <1>4
<1> QED BY <1>5 DEF T, Iterated

LEMMA WithinIs ==
  ASSUME NEW s \in SUBSET Nodes
  PROVE  /\ Cardinality(Nodes) \in Nat
         /\ Within(s) \in [0 .. Cardinality(Nodes) -> SUBSET Nodes]
         /\ Within(s)[0] = s
         /\ \A k \in 1 .. Cardinality(Nodes) :
              Within(s)[k] = Within(s)[k - 1] \cup UNION {Beyond(a) : a \in Within(s)[k - 1]}
<1> DEFINE N == Cardinality(Nodes)
           More(u) == u \cup UNION {Beyond(a) : a \in u}
           step == [k \in 1 .. N |-> [u \in SUBSET Nodes |-> More(u)]]
<1>1. N \in Nat BY RoutesAssumption, FS_CardinalityType
<1>2. \A u \in SUBSET Nodes : More(u) \in SUBSET Nodes BY DEF Beyond
<1>3. step \in Steps(SUBSET Nodes, N) BY <1>2 DEF Steps
<1> HIDE DEF N
<1>4. PICK f : Iterated(f, SUBSET Nodes, N, s, step)
  <2> DEFINE S == SUBSET Nodes
  <2>1. s \in S /\ step \in Steps(S, N) BY <1>3
  <2> HIDE DEF step, S
  <2>2. \E f : Iterated(f, S, N, s, step) BY <1>1, <2>1, Iterates
  <2> QED BY <2>2 DEF S
<1>5. \A i \in 1 .. N : f[i] = More(f[i - 1])
  <2> SUFFICES ASSUME NEW i \in 1 .. N PROVE f[i] = More(f[i - 1])
    OBVIOUS
  <2>1. i - 1 \in 0 .. N BY <1>1
  <2>2. f[i - 1] \in SUBSET Nodes BY <2>1, <1>4 DEF Iterated
  <2> QED BY <2>2, <1>4 DEF Iterated
<1>6. f = [k \in 0 .. N |-> IF k = 0 THEN s
             ELSE f[k - 1] \cup UNION {Beyond(a) : a \in f[k - 1]}]
  <2>1. \A k \in 0 .. N : k # 0 => k \in 1 .. N BY <1>1
  <2>2. \A k \in 0 .. N : f[k] = IF k = 0 THEN s
             ELSE f[k - 1] \cup UNION {Beyond(a) : a \in f[k - 1]}
    BY <2>1, <1>4, <1>5 DEF Iterated
  <2> QED BY <2>2, <1>4 DEF Iterated
<1> DEFINE W == Within(s)
<1>7. W = [k \in 0 .. N |-> IF k = 0 THEN s
             ELSE W[k - 1] \cup UNION {Beyond(a) : a \in W[k - 1]}]
  BY <1>6 DEF Within, N
<1> HIDE DEF W
<1>8. W[0] = s /\ DOMAIN W = 0 .. N BY <1>1, <1>7
<1>9. ASSUME NEW k \in 1 .. N PROVE W[k] = W[k - 1] \cup UNION {Beyond(a) : a \in W[k - 1]}
  <2>1. k \in 0 .. N /\ k # 0 BY <1>1
  <2> QED BY <2>1, <1>7
<1>10. W \in [0 .. N -> SUBSET Nodes]
  <2> DEFINE T == {k \in 0 .. N : W[k] \in SUBSET Nodes}
  <2>1. 0 \in T BY <1>1, <1>8
  <2>2. ASSUME NEW i \in 0 .. N - 1, i \in T PROVE i + 1 \in T
    <3>1. i + 1 \in 1 .. N /\ i + 1 \in 0 .. N /\ i + 1 - 1 = i BY <1>1
    <3>2. W[i + 1] = More(W[i]) BY <3>1, <1>9
    <3> QED BY <3>1, <3>2, <1>2, <2>2
  <2>3. \A i \in 0 .. N - 1 : i \in T => i + 1 \in T BY <2>2
  <2> HIDE DEF T
  <2>4. \A i \in 0 .. N : i \in T BY <1>1, <2>1, <2>3, Induct
  <2>5. \A i \in 0 .. N : W[i] \in SUBSET Nodes BY <2>4 DEF T
  <2>6. W = [k \in 0 .. N |-> W[k]] BY <1>7, <1>8
  <2> QED BY <2>5, <2>6
<1> QED BY <1>1, <1>8, <1>9, <1>10 DEF N, W

LEMMA MoreIsWithin ==
  ASSUME NEW s \in SUBSET Nodes
  PROVE  \A k \in 0 .. Cardinality(Nodes) : s \subseteq Within(s)[k]
<1> DEFINE N == Cardinality(Nodes)
           W == Within(s)
           T == {k \in 0 .. N : s \subseteq W[k]}
<1>1. /\ N \in Nat /\ W[0] = s
      /\ \A k \in 1 .. N : W[k] = W[k - 1] \cup UNION {Beyond(a) : a \in W[k - 1]}
  BY WithinIs
<1> HIDE DEF N, W
<1>2. 0 \in T BY <1>1
<1>3. ASSUME NEW i \in 0 .. N - 1, i \in T PROVE i + 1 \in T
  <2>1. i + 1 \in 1 .. N /\ i + 1 \in 0 .. N /\ i + 1 - 1 = i BY <1>1
  <2>2. W[i] \subseteq W[i + 1] BY <2>1, <1>1
  <2> QED BY <2>1, <2>2, <1>3
<1>4. \A i \in 0 .. N - 1 : i \in T => i + 1 \in T BY <1>3
<1> HIDE DEF T
<1>5. \A i \in 0 .. N : i \in T BY <1>1, <1>2, <1>4, Induct
<1> QED BY <1>5 DEF T, N, W

LEMMA NeighboursJoined ==
  ASSUME NEW r \in Nodes
  PROVE  /\ JoinedTo(r) \in SUBSET Nodes
         /\ Beyond(r) \subseteq Database(r)
         /\ Database(r) \in SUBSET Nodes /\ r \notin Database(r)
<1> DEFINE N == Cardinality(Nodes)
           W == Within({r})
<1>1. {r} \in SUBSET Nodes OBVIOUS
<1>2. /\ N \in Nat /\ W \in [0 .. N -> SUBSET Nodes]
      /\ \A k \in 1 .. N : W[k] = W[k - 1] \cup UNION {Beyond(a) : a \in W[k - 1]}
  BY <1>1, WithinIs
<1>3. \A k \in 0 .. N : {r} \subseteq W[k] BY <1>1, MoreIsWithin
<1>4. N # 0
  <2>1. Nodes # {} OBVIOUS
  <2> QED BY <2>1, FS_EmptySet, RoutesAssumption
<1> HIDE DEF N, W
<1>5. N \in 1 .. N /\ N \in 0 .. N /\ N - 1 \in 0 .. N BY <1>2, <1>4
<1>6. r \in W[N - 1] BY <1>3, <1>5
<1>7. Beyond(r) \subseteq W[N] BY <1>2, <1>5, <1>6
<1>8. W[N] \in SUBSET Nodes BY <1>2, <1>5
<1>9. JoinedTo(r) = W[N] BY DEF JoinedTo, N, W
<1>10. r \notin Beyond(r) BY DEF Beyond
<1> QED BY <1>7, <1>8, <1>9, <1>10 DEF Database

(* What a router is from a subnet, in links: none, one, or two. *)
LEMMA HopsAre ==
  ASSUME NEW r \in Nodes, NEW s \in SUBSET Nodes
  PROVE  /\ r \in s => Hops(r, s) = 0
         /\ \A a \in s : r \in Beyond(a) /\ r \notin s => Hops(r, s) = 1
         /\ \A a \in s : \A g \in Beyond(a) :
              /\ r \in Beyond(g) /\ r \notin s
              /\ \A b \in s : r \notin Beyond(b)
              => Hops(r, s) = 2
<1> DEFINE N == Cardinality(Nodes)
           W == Within(s)
           enough == {k \in 0 .. N : r \in W[k]}
<1>1. /\ N \in Nat /\ W[0] = s
      /\ \A k \in 1 .. N : W[k] = W[k - 1] \cup UNION {Beyond(a) : a \in W[k - 1]}
  BY WithinIs
<1>2. Hops(r, s) = IF enough = {} THEN -1 ELSE CHOOSE k \in enough : \A m \in enough : k <= m
  BY DEF Hops
<1> HIDE DEF N, W
<1>3. ASSUME NEW k \in enough, \A m \in enough : k <= m PROVE Hops(r, s) = k
  <2>1. enough \subseteq Nat BY <1>1
  <2> DEFINE c == CHOOSE l \in enough : \A m \in enough : l <= m
  <2>2. c \in enough /\ \A m \in enough : c <= m BY <1>3
  <2> HIDE DEF c
  <2>3. c <= k /\ k <= c /\ c \in Nat /\ k \in Nat BY <1>3, <2>1, <2>2
  <2>4. enough # {} BY <1>3
  <2> HIDE DEF enough
  <2> QED BY <1>2, <2>3, <2>4 DEF c
<1>4. ASSUME r \in s PROVE Hops(r, s) = 0
  <2>1. 0 \in enough /\ \A m \in enough : 0 <= m BY <1>1, <1>4
  <2> HIDE DEF enough
  <2> QED BY <2>1, <1>3
<1>5. ASSUME NEW a \in s, r \in Beyond(a), r \notin s PROVE Hops(r, s) = 1
  <2>1. N # 0
    <3>1. Nodes # {} OBVIOUS
    <3> QED BY <3>1, FS_EmptySet, RoutesAssumption DEF N
  <2>2. 1 \in 1 .. N /\ 1 \in 0 .. N /\ 1 - 1 = 0 BY <1>1, <2>1
  <2>3. W[1] = W[0] \cup UNION {Beyond(b) : b \in W[0]} BY <2>2, <1>1
  <2>4. r \in W[1] /\ r \notin W[0] BY <2>3, <1>1, <1>5
  <2>5. 1 \in enough /\ \A m \in enough : 1 <= m BY <1>1, <2>2, <2>4
  <2> HIDE DEF enough
  <2> QED BY <2>5, <1>3
<1>6. ASSUME NEW a \in s, NEW g \in Beyond(a), r \in Beyond(g), r \notin s,
             \A b \in s : r \notin Beyond(b)
      PROVE  Hops(r, s) = 2
  <2>1. N >= 2
    <3>1. g # r /\ g \in Nodes BY <1>6 DEF Beyond
    <3>2. IsFiniteSet({g}) /\ Cardinality({g}) = 1 BY FS_Singleton
    <3> DEFINE P == {g}
    <3>3. r \notin P BY <3>1
    <3>4. Cardinality(P \cup {r}) = 2
      <4> HIDE DEF P
      <4>1. IsFiniteSet(P) /\ Cardinality(P) = 1 BY <3>2 DEF P
      <4>2. Cardinality(P \cup {r}) = 1 + 1 BY <4>1, <3>3, FS_AddElement
      <4> QED BY <4>2
    <3>5. P \cup {r} \in SUBSET Nodes BY <3>1
    <3> HIDE DEF P
    <3>6. Cardinality(P \cup {r}) <= Cardinality(Nodes)
      BY <3>5, FS_Subset, RoutesAssumption
    <3> QED BY <3>4, <3>6, <1>1 DEF N
  <2>2. /\ 1 \in 1 .. N /\ 1 \in 0 .. N /\ 1 - 1 = 0
        /\ 2 \in 1 .. N /\ 2 \in 0 .. N /\ 2 - 1 = 1
    BY <1>1, <2>1
  <2>3. W[1] = W[0] \cup UNION {Beyond(b) : b \in W[0]} BY <2>2, <1>1
  <2>4. W[2] = W[1] \cup UNION {Beyond(b) : b \in W[1]} BY <2>2, <1>1
  <2>5. g \in W[1] BY <2>3, <1>1, <1>6
  <2>6. r \in W[2] /\ r \notin W[1] /\ r \notin W[0] BY <2>3, <2>4, <2>5, <1>1, <1>6
  <2>7. 2 \in enough /\ \A m \in enough : 2 <= m
    <3>1. \A m \in enough : m \in Nat /\ m # 0 /\ m # 1 BY <1>1, <2>6
    <3>2. 2 \in enough BY <2>2, <2>6
    <3> HIDE DEF enough
    <3> QED BY <3>1, <3>2
  <2> HIDE DEF enough
  <2> QED BY <2>7, <1>3
<1> QED BY <1>4, <1>5, <1>6

-----------------------------------------------------------------------------
(* A finite set of numbers can be listed. *)
LEMMA GreatestNumber ==
  ASSUME NEW S \in SUBSET Nat, IsFiniteSet(S), S # {}
  PROVE  \E m \in S : \A x \in S : x <= m
<1> DEFINE Cardinals == {n \in Nat : \E U \in SUBSET Nat : U # {} /\ IsFiniteSet(U)
                            /\ Cardinality(U) = n /\ ~ \E m \in U : \A x \in U : x <= m}
<1> SUFFICES Cardinals = {}
  <2>1. Cardinality(S) \in Nat BY FS_CardinalityType
  <2> QED BY <2>1
<1> SUFFICES ASSUME Cardinals # {} PROVE FALSE
  OBVIOUS
<1>1. Cardinals \in SUBSET Nat OBVIOUS
<1>2. PICK n \in Cardinals : \A k \in Cardinals : n <= k
  <2> HIDE DEF Cardinals
  <2> QED BY <1>1, LeastNumber
<1>3. PICK U \in SUBSET Nat : U # {} /\ IsFiniteSet(U) /\ Cardinality(U) = n
                            /\ ~ \E m \in U : \A x \in U : x <= m
  BY <1>2
<1>4. PICK u \in U : TRUE BY <1>3
<1>5. IsFiniteSet(U \ {u}) /\ Cardinality(U \ {u}) = n - 1 BY <1>3, <1>4, FS_RemoveElement
<1>6. n \in Nat /\ n - 1 \in Nat BY <1>2, <1>5, FS_CardinalityType
<1>7. n - 1 \notin Cardinals
  <2>1. ~ (n <= n - 1) BY <1>6
  <2> HIDE DEF Cardinals
  <2> QED BY <2>1, <1>2
<1>8. U \ {u} = {} \/ \E m \in U \ {u} : \A x \in U \ {u} : x <= m
  BY <1>5, <1>6, <1>7
<1>9. CASE U \ {u} = {}
  <2>1. \A x \in U : x = u BY <1>9
  <2> QED BY <2>1, <1>3, <1>4
<1>10. CASE \E m \in U \ {u} : \A x \in U \ {u} : x <= m
  <2>1. PICK m \in U \ {u} : \A x \in U \ {u} : x <= m BY <1>10
  <2>2. CASE u <= m BY <2>1, <2>2, <1>3
  <2>3. CASE ~ (u <= m)
    <3>1. \A x \in U : x <= u BY <2>1, <2>3, <1>3
    <3> QED BY <3>1, <1>3
  <2> QED BY <2>2, <2>3
<1> QED BY <1>8, <1>9, <1>10

LEMMA InOrderIs ==
  ASSUME NEW S \in SUBSET Nat, IsFiniteSet(S)
  PROVE  /\ InOrder(S) \in [1 .. Cardinality(S) -> S]
         /\ \A x \in S : \E i \in 1 .. Cardinality(S) : InOrder(S)[i] = x
<1> DEFINE Lists(U) == {list \in [1 .. Cardinality(U) -> U] :
                          \A i, j \in DOMAIN list : i < j => list[i] < list[j]}
           T == {n \in 0 .. Cardinality(S) : \A U \in SUBSET Nat :
                   IsFiniteSet(U) /\ Cardinality(U) = n => Lists(U) # {}}
<1>1. Cardinality(S) \in Nat BY FS_CardinalityType
<1>2. 0 \in T
  <2> SUFFICES ASSUME NEW U \in SUBSET Nat, IsFiniteSet(U), Cardinality(U) = 0
               PROVE  Lists(U) # {}
    BY <1>1
  <2> DEFINE none == [i \in 1 .. 0 |-> 0]
  <2>1. none \in [1 .. Cardinality(U) -> U] /\ DOMAIN none = {} OBVIOUS
  <2> QED BY <2>1
<1>3. ASSUME NEW n \in 0 .. Cardinality(S) - 1, n \in T PROVE n + 1 \in T
  <2> SUFFICES ASSUME NEW U \in SUBSET Nat, IsFiniteSet(U), Cardinality(U) = n + 1
               PROVE  Lists(U) # {}
    BY <1>1
  <2>1. U # {}
    <3>1. n + 1 # 0 OBVIOUS
    <3> QED BY <3>1, FS_EmptySet
  <2>2. PICK m \in U : \A x \in U : x <= m BY <2>1, GreatestNumber
  <2> DEFINE V == U \ {m}
  <2>3. IsFiniteSet(V) /\ Cardinality(V) = n + 1 - 1
    <3>1. IsFiniteSet(U \ {m}) /\ Cardinality(U \ {m}) = Cardinality(U) - 1
      BY <2>2, FS_RemoveElement
    <3> QED BY <3>1
  <2>4. V \in SUBSET Nat /\ n \in Nat /\ n + 1 - 1 = n /\ \A x \in V : x < m BY <2>2
  <2> HIDE DEF V
  <2>5. PICK list \in Lists(V) : TRUE BY <2>3, <2>4, <1>3
  <2>6. /\ list \in [1 .. n -> V]
        /\ \A i, j \in 1 .. n : i < j => list[i] < list[j]
    BY <2>3, <2>4, <2>5
  <2> DEFINE more == [i \in 1 .. n + 1 |-> IF i = n + 1 THEN m ELSE list[i]]
  <2>7. ASSUME NEW i \in 1 .. n + 1, i # n + 1 PROVE i \in 1 .. n /\ list[i] \in V
    <3>1. i \in 1 .. n BY <2>4, <2>7
    <3> QED BY <3>1, <2>6
  <2>8. more \in [1 .. n + 1 -> U] BY <2>7 DEF V
  <2>9. ASSUME NEW i \in 1 .. n + 1, NEW j \in 1 .. n + 1, i < j PROVE more[i] < more[j]
    <3>1. i \in 1 .. n /\ i # n + 1 BY <2>4, <2>9
    <3>2. more[i] = list[i] /\ list[i] \in V BY <3>1, <2>7
    <3>3. CASE j = n + 1
      <4>1. more[j] = m BY <3>3
      <4> QED BY <4>1, <3>2, <2>4
    <3>4. CASE j # n + 1
      <4>1. j \in 1 .. n /\ more[j] = list[j] BY <3>4, <2>7
      <4> QED BY <4>1, <3>1, <3>2, <2>6, <2>9
    <3> QED BY <3>3, <3>4
  <2>10. DOMAIN more = 1 .. n + 1 OBVIOUS
  <2> HIDE DEF more
  <2>11. more \in Lists(U) BY <2>8, <2>9, <2>10
  <2> QED BY <2>11
<1>4. \A n \in 0 .. Cardinality(S) - 1 : n \in T => n + 1 \in T BY <1>3
<1>5. Cardinality(S) \in T
  <2> HIDE DEF T
  <2>1. \A n \in 0 .. Cardinality(S) : n \in T BY <1>1, <1>2, <1>4, Induct
  <2> QED BY <2>1, <1>1
<1>6. Lists(S) # {} BY <1>5
<1>7. InOrder(S) \in Lists(S)
  <2>1. InOrder(S) = CHOOSE list \in [1 .. Cardinality(S) -> S] :
                      \A i, j \in DOMAIN list : i < j => list[i] < list[j]
    BY DEF InOrder
  <2> QED BY <2>1, <1>6
<1> DEFINE n == Cardinality(S)
           list == InOrder(S)
<1>8. /\ list \in [1 .. n -> S]
      /\ \A i, j \in 1 .. n : i < j => list[i] < list[j]
  BY <1>7
<1> HIDE DEF n, list, Lists
<1>9. \A i, j \in 1 .. n : list[i] = list[j] => i = j
  <2> SUFFICES ASSUME NEW i \in 1 .. n, NEW j \in 1 .. n, list[i] = list[j], i # j
               PROVE  FALSE
    OBVIOUS
  <2>1. list[i] \in Nat /\ list[j] \in Nat BY <1>8
  <2>2. i < j \/ j < i BY <1>1 DEF n
  <2> QED BY <2>1, <2>2, <1>8
<1>10. list \in Injection(1 .. n, S) BY <1>8, <1>9 DEF Injection, IsInjective
<1>11. Cardinality(1 .. n) = n
  <2>1. n \in Nat BY <1>1 DEF n
  <2>2. Cardinality(1 .. n) = IF 1 > n THEN 0 ELSE n - 1 + 1 BY <2>1, FS_Interval
  <2> QED BY <2>1, <2>2
<1>12. list \in Surjection(1 .. n, S) BY <1>10, <1>11, FS_Injection DEF n
<1> QED BY <1>8, <1>12 DEF n, list, Surjection

LEMMA ConcatMembers ==
  ASSUME NEW S, NEW a \in Seq(S), NEW b \in Seq(S)
  PROVE  a \o b \in Seq(S) /\ Members(a \o b) = Members(a) \cup Members(b)
<1> DEFINE m == Len(a)
           n == Len(b)
           c == a \o b
<1>1. m \in Nat /\ n \in Nat BY LenProperties
<1>2. /\ c \in Seq(S) /\ Len(c) = m + n
      /\ \A i \in 1 .. m + n : c[i] = IF i <= m THEN a[i] ELSE b[i - m]
  BY ConcatProperties
<1> HIDE DEF m, n, c
<1>3. Members(c) \subseteq Members(a) \cup Members(b)
  <2> SUFFICES ASSUME NEW i \in 1 .. m + n PROVE c[i] \in Members(a) \cup Members(b)
    BY <1>2 DEF Members
  <2>1. CASE i <= m
    <3>1. i \in 1 .. m /\ c[i] = a[i] BY <2>1, <1>1, <1>2
    <3> QED BY <3>1 DEF Members, m
  <2>2. CASE ~ (i <= m)
    <3>1. i - m \in 1 .. n /\ c[i] = b[i - m] BY <2>2, <1>1, <1>2
    <3> QED BY <3>1 DEF Members, n
  <2> QED BY <2>1, <2>2
<1>4. Members(a) \subseteq Members(c)
  <2> SUFFICES ASSUME NEW i \in 1 .. m PROVE a[i] \in Members(c)
    BY DEF Members, m
  <2>1. i \in 1 .. m + n /\ c[i] = a[i] BY <1>1, <1>2
  <2> QED BY <2>1, <1>2 DEF Members
<1>5. Members(b) \subseteq Members(c)
  <2> SUFFICES ASSUME NEW i \in 1 .. n PROVE b[i] \in Members(c)
    BY DEF Members, n
  <2> DEFINE k == i + m
  <2>1. k \in 1 .. m + n /\ ~ (k <= m) /\ k - m = i BY <1>1
  <2> HIDE DEF k
  <2>2. c[k] = b[i] BY <2>1, <1>2
  <2> QED BY <2>1, <2>2, <1>2 DEF Members
<1> QED BY <1>2, <1>3, <1>4, <1>5 DEF c
-----------------------------------------------------------------------------
(* The subnets of a network, and the interfaces to them.                       *)
NetTyped ==
  network \in [subnets : {HostSubnets \cup l : l \in SUBSET LinkSubnets}, hosts_first : BOOLEAN]

LEMMA SubnetsAre ==
  ASSUME NetTyped, NEW v \in Nodes
  PROVE  /\ {v} \in network.subnets /\ network.subnets \subseteq SUBSET Nodes
         /\ \A b \in Beyond(v) : {v, b} \in network.subnets /\ v \in Beyond(b)
         /\ \A s \in network.subnets :
              v \in s => s = {v} \/ \E b \in Beyond(v) : s = {v, b}
<1>1. PICK l \in SUBSET LinkSubnets : network.subnets = HostSubnets \cup l BY DEF NetTyped
<1>2. {v} \in network.subnets BY <1>1 DEF HostSubnets
<1>3. network.subnets \subseteq SUBSET Nodes BY <1>1 DEF HostSubnets, LinkSubnets
<1>4. ASSUME NEW b \in Beyond(v) PROVE {v, b} \in network.subnets /\ v \in Beyond(b)
  <2>1. {v, b} = {b, v} OBVIOUS
  <2> QED BY <2>1 DEF Beyond
<1>5. ASSUME NEW s \in network.subnets, v \in s
      PROVE  s = {v} \/ \E b \in Beyond(v) : s = {v, b}
  <2>1. CASE s \in HostSubnets BY <2>1, <1>5 DEF HostSubnets
  <2>2. CASE s \in LinkSubnets
    <3>1. s \in SUBSET Nodes /\ Cardinality(s) = 2 BY <2>2 DEF LinkSubnets
    <3>2. IsFiniteSet(s) BY <3>1, FS_Subset, RoutesAssumption
    <3>3. IsFiniteSet(s \ {v}) /\ Cardinality(s \ {v}) = 2 - 1
      BY <3>1, <3>2, <1>5, FS_RemoveElement
    <3>4. Cardinality(s \ {v}) = 1 BY <3>3
    <3>5. PICK b : s \ {v} = {b} BY <3>3, <3>4, FS_Singleton
    <3>6. s = {v, b} /\ b # v /\ b \in Nodes BY <3>1, <3>5, <1>5
    <3>7. {v, b} \in network.subnets BY <3>6
    <3>8. b \in Beyond(v) BY <3>6, <3>7 DEF Beyond
    <3> QED BY <3>6, <3>8
  <2> QED BY <2>1, <2>2, <1>1
<1> QED BY <1>2, <1>3, <1>4, <1>5

LEMMA BeyondListed ==
  ASSUME NEW v
  PROVE  /\ Beyond(v) \in SUBSET Nat /\ Beyond(v) \in SUBSET Nodes /\ IsFiniteSet(Beyond(v))
         /\ Cardinality(Beyond(v)) \in Nat
         /\ InOrder(Beyond(v)) \in Seq(Beyond(v))
         /\ Len(InOrder(Beyond(v))) = Cardinality(Beyond(v))
         /\ Members(InOrder(Beyond(v))) = Beyond(v)
<1> DEFINE B == Beyond(v)
           list == InOrder(Beyond(v))
           n == Cardinality(B)
<1>1. B \in SUBSET Nodes BY DEF Beyond
<1>2. B \in SUBSET Nat BY <1>1, RoutesAssumption
<1>3. IsFiniteSet(B) BY <1>1, FS_Subset, RoutesAssumption
<1>4. n \in Nat BY <1>3, FS_CardinalityType
<1>5. list \in [1 .. n -> B] /\ \A x \in B : \E i \in 1 .. n : list[i] = x
  BY <1>2, <1>3, InOrderIs
<1> HIDE DEF B, n, list
<1>6. list \in Seq(B) /\ Len(list) = n
  <2>1. list \in Seq(B) BY <1>4, <1>5, IsASeq
  <2> QED BY <2>1, <1>4, <1>5, LenProperties
<1>7. Members(list) = B BY <1>5, <1>6 DEF Members
<1> QED BY <1>1, <1>2, <1>3, <1>4, <1>6, <1>7 DEF B, n, list

Lsa(v, b) == [subnet |-> {v, b}, rid |-> b]
Lsas == [subnet : SUBSET Nodes, rid : Nodes \cup {0}]

LEMMA ArrayIs ==
  ASSUME NEW v \in Nodes
  PROVE  /\ array(v) \in Seq(Lsas)
         /\ Members(array(v)) = {Lsa(v, b) : b \in Beyond(v)} \cup {[subnet |-> {v}, rid |-> 0]}
<1> DEFINE nbrs == InOrder(Beyond(v))
           linked == [i \in 1 .. Len(nbrs) |-> [subnet |-> {v, nbrs[i]}, rid |-> nbrs[i]]]
           host == [subnet |-> {v}, rid |-> 0]
           hosts == <<host>>
<1>1. /\ nbrs \in Seq(Beyond(v)) /\ Members(nbrs) = Beyond(v) /\ Beyond(v) \in SUBSET Nodes
      /\ Len(nbrs) \in Nat
  BY BeyondListed
<1> HIDE DEF nbrs
<1>2. \A i \in 1 .. Len(nbrs) : nbrs[i] \in Beyond(v) BY <1>1, ElementOfSeq
<1>3. \A i \in 1 .. Len(nbrs) : linked[i] = Lsa(v, nbrs[i]) /\ linked[i] \in Lsas
  BY <1>1, <1>2 DEF Lsa, Lsas
<1>4. linked \in [1 .. Len(nbrs) -> Lsas] BY <1>3
<1>5. DOMAIN linked = 1 .. Len(nbrs) OBVIOUS
<1> HIDE DEF linked
<1>6. linked \in Seq(Lsas) /\ Len(linked) = Len(nbrs)
  <2>1. linked \in Seq(Lsas) BY <1>1, <1>4, IsASeq
  <2> QED BY <2>1, <1>1, <1>5, LenProperties
<1>7. Members(linked) = {Lsa(v, b) : b \in Beyond(v)}
  <2>1. Members(linked) = {Lsa(v, nbrs[i]) : i \in 1 .. Len(nbrs)} BY <1>3, <1>6 DEF Members
  <2>2. Beyond(v) = {nbrs[i] : i \in 1 .. Len(nbrs)} BY <1>1 DEF Members
  <2> QED BY <2>1, <2>2
<1>8. host \in Lsas BY DEF Lsas
<1> HIDE DEF host
<1>9. hosts \in Seq(Lsas) /\ Members(hosts) = {host}
  <2>1. hosts \in Seq(Lsas) /\ Len(hosts) = 1 /\ hosts[1] = host BY <1>8
  <2>2. 1 .. 1 = {1} OBVIOUS
  <2> HIDE DEF hosts
  <2> QED BY <2>1, <2>2 DEF Members
<1>10. array(v) = IF network.hosts_first THEN hosts \o linked ELSE linked \o hosts
  BY DEF array, nbrs, linked, host
<1> HIDE DEF hosts
<1>11. \A a, b \in Seq(Lsas) : a \o b \in Seq(Lsas) /\ Members(a \o b) = Members(a) \cup Members(b)
  BY ConcatMembers
<1> QED BY <1>6, <1>7, <1>9, <1>10, <1>11 DEF host

(* What an LSA lists: a neighbour or hosts, and all the subnets of the router. *)
LEMMA LsasAre ==
  ASSUME NetTyped, NEW v \in Nodes
  PROVE  /\ Len(array(v)) \in Nat /\ DOMAIN array(v) = 1 .. Len(array(v))
         /\ \A i \in 1 .. Len(array(v)) : array(v)[i].rid \in Beyond(v) \cup {0}
         /\ {array(v)[i].subnet : i \in DOMAIN array(v)} = {s \in network.subnets : v \in s}
<1> DEFINE list == array(v)
           all == {Lsa(v, b) : b \in Beyond(v)} \cup {[subnet |-> {v}, rid |-> 0]}
<1>1. list \in Seq(Lsas) /\ Members(list) = all BY ArrayIs
<1> HIDE DEF list
<1>2. Len(list) \in Nat /\ DOMAIN list = 1 .. Len(list) BY <1>1, LenProperties
<1>3. \A e \in all : e.rid \in Beyond(v) \cup {0} BY DEF Lsa
<1>4. \A i \in 1 .. Len(list) : list[i].rid \in Beyond(v) \cup {0}
  <2>1. \A i \in 1 .. Len(list) : list[i] \in all BY <1>1 DEF Members
  <2> HIDE DEF all
  <2> QED BY <2>1, <1>3
<1>5. {list[i].subnet : i \in 1 .. Len(list)} = {e.subnet : e \in all}
  <2> HIDE DEF all
  <2> QED BY <1>1 DEF Members
<1>6. \A s : s \in {e.subnet : e \in all} <=> s = {v} \/ \E b \in Beyond(v) : s = {v, b}
  <2>1. ASSUME NEW e \in all PROVE e.subnet = {v} \/ \E b \in Beyond(v) : e.subnet = {v, b}
    BY DEF Lsa
  <2>2. \E e \in all : e.subnet = {v}
    <3>1. [subnet |-> {v}, rid |-> 0] \in all /\ [subnet |-> {v}, rid |-> 0].subnet = {v}
      OBVIOUS
    <3> QED BY <3>1
  <2>3. ASSUME NEW b \in Beyond(v) PROVE \E e \in all : e.subnet = {v, b}
    <3>1. Lsa(v, b) \in all /\ Lsa(v, b).subnet = {v, b} BY DEF Lsa
    <3> QED BY <3>1
  <2> HIDE DEF all
  <2> QED BY <2>1, <2>2, <2>3
<1>7. \A s : s \in {t \in network.subnets : v \in t}
              <=> s = {v} \/ \E b \in Beyond(v) : s = {v, b}
  <2>1. /\ {v} \in network.subnets
        /\ \A b \in Beyond(v) : {v, b} \in network.subnets
        /\ \A s \in network.subnets : v \in s => s = {v} \/ \E b \in Beyond(v) : s = {v, b}
    BY SubnetsAre
  <2>2. v \in {v} /\ \A b : v \in {v, b} OBVIOUS
  <2> HIDE DEF all
  <2> SUFFICES ASSUME NEW s
               PROVE  (s \in network.subnets /\ v \in s)
                        <=> s = {v} \/ \E b \in Beyond(v) : s = {v, b}
    OBVIOUS
  <2>3. CASE s = {v} BY <2>1, <2>2, <2>3
  <2>4. ASSUME NEW b \in Beyond(v), s = {v, b} PROVE s \in network.subnets /\ v \in s
    BY <2>1, <2>2, <2>4
  <2> QED BY <2>1, <2>3, <2>4
<1>8. {list[i].subnet : i \in 1 .. Len(list)} = {s \in network.subnets : v \in s}
  <2> HIDE DEF all
  <2> QED BY <1>5, <1>6, <1>7
<1> QED BY <1>2, <1>4, <1>8 DEF list
-----------------------------------------------------------------------------
(***************************************************************************)
(* The graph of a router r.  Its first places are its neighbours; the others   *)
(* are free until the first router, or network of hosts, beyond a neighbour    *)
(* takes them all.                                                          *)
(***************************************************************************)
GraphNodes == [rid : Nodes \cup {0, FREE}, dist : Nat, gw : Nodes \cup {0}, visited : BOOLEAN]
Near(r) == 1 .. Cardinality(Beyond(r))
Far(r) == (Cardinality(Beyond(r)) + 1) .. rt_count(r)

Found(r, x, g) ==
  /\ x \in (Nodes \cup {0}) \ (Beyond(r) \cup {r})
  /\ g \in Beyond(r) /\ (x # 0 => x \in Beyond(g))
FarFree(r, nodes) == \A j \in Far(r) : nodes[j].rid = FREE /\ nodes[j].dist = FAR
FarFound(r, nodes) ==
  \E x, g \in Nodes \cup {0} : Found(r, x, g) /\
    \A j \in Far(r) : nodes[j].rid = x /\ nodes[j].dist = 2 /\ nodes[j].gw = g
NearTrue(r, nodes) ==
  \A j \in Near(r) : nodes[j].rid \in Beyond(r) /\ nodes[j].gw = nodes[j].rid /\ nodes[j].dist = 1
AllNear(r, nodes) == \A b \in Beyond(r) : \E j \in Near(r) : nodes[j].rid = b

PlacesTrue(r, nodes) ==
  /\ nodes \in [1 .. rt_count(r) -> GraphNodes]
  /\ NearTrue(r, nodes) /\ AllNear(r, nodes)
  /\ FarFree(r, nodes) \/ FarFound(r, nodes)

(* The place that is visited, and what stays through a visit. *)
Visiting(r, nodes, node) ==
  /\ node \in GraphNodes /\ node.rid \in Nodes
  /\ \/ node.dist = 1 /\ node.rid \in Beyond(r) /\ node.gw = node.rid
     \/ node.dist = 2 /\ FarFound(r, nodes)
SameSeen(r, nodes, more) ==
  /\ \A j \in 1 .. rt_count(r) : more[j].visited = nodes[j].visited
  /\ \A j \in Near(r) : more[j].rid = nodes[j].rid

LEMMA PlacesOf ==
  ASSUME NEW r \in Nodes
  PROVE  /\ rt_count(r) \in Nat /\ Cardinality(Beyond(r)) \in Nat
         /\ Cardinality(Beyond(r)) <= rt_count(r)
         /\ IsFiniteSet(Database(r))
         /\ 1 .. rt_count(r) = Near(r) \cup Far(r)
         /\ \A j \in Near(r), k \in Far(r) : j \in Nat /\ k \in Nat /\ j < k
<1> DEFINE m == Cardinality(Beyond(r))
           n == rt_count(r)
<1>1. Database(r) \in SUBSET Nodes /\ Beyond(r) \in SUBSET Database(r) BY NeighboursJoined
<1>2. IsFiniteSet(Database(r)) BY <1>1, FS_Subset, RoutesAssumption
<1>3. m <= Cardinality(Database(r)) BY <1>1, <1>2, FS_Subset
<1>4. m \in Nat /\ n \in Nat BY <1>2, BeyondListed, FS_CardinalityType DEF rt_count
<1>5. m <= n BY <1>3 DEF rt_count
<1>6. Near(r) = 1 .. m /\ Far(r) = (m + 1) .. n BY DEF Near, Far
<1> HIDE DEF m, n
<1>7. 1 .. n = (1 .. m) \cup ((m + 1) .. n) BY <1>4, <1>5
<1>8. \A j \in 1 .. m, k \in (m + 1) .. n : j \in Nat /\ k \in Nat /\ j < k BY <1>4
<1> QED BY <1>2, <1>4, <1>5, <1>6, <1>7, <1>8 DEF m, n

Onward(node, rid, d) == [node EXCEPT !.rid = rid, !.dist = d]
IsOnward(via, node, rid, d) ==
  via \in GraphNodes /\ via.rid = rid /\ via.dist = d /\ via.gw = node.gw
LEMMA Further ==
  ASSUME NEW node \in GraphNodes, NEW rid \in Nodes \cup {0}, NEW d \in Nat
  PROVE  IsOnward(Onward(node, rid, d), node, rid, d)
<1> DEFINE here == [node EXCEPT !.rid = rid]
<1>1. here \in GraphNodes /\ here.rid = rid /\ here.gw = node.gw BY DEF GraphNodes
<1> DEFINE via == [here EXCEPT !.dist = d]
<1> HIDE DEF here
<1>2. via \in GraphNodes /\ via.rid = rid /\ via.dist = d /\ via.gw = node.gw
  BY <1>1 DEF GraphNodes
<1> QED BY <1>2 DEF here, Onward, IsOnward

LEMMA PlaceKeeps ==
  ASSUME NEW r \in Nodes, NEW nodes, NEW node, PlacesTrue(r, nodes), Visiting(r, nodes, node),
         NEW rid \in Beyond(node.rid) \cup {0}, rid # r
  PROVE  /\ PlacesTrue(r, place(nodes, rid, node))
         /\ Visiting(r, place(nodes, rid, node), node)
         /\ SameSeen(r, nodes, place(nodes, rid, node))
<1> DEFINE n == rt_count(r)
           via == [node EXCEPT !.rid = rid, !.dist = @ + 1]
           good == {j \in DOMAIN nodes : nodes[j].rid = rid /\ nodes[j].dist <= via.dist}
           taken(j) == nodes[j].rid \in {rid, FREE} /\ \A k \in good : j < k
           other(j) == [via EXCEPT !.visited = nodes[j].visited]
           more == place(nodes, rid, node)
<1>1. /\ n \in Nat /\ 1 .. n = Near(r) \cup Far(r)
      /\ \A j \in Near(r), k \in Far(r) : j \in Nat /\ k \in Nat /\ j < k
      /\ \A j \in 1 .. n : ~ (j < j)
  BY PlacesOf
<1>2. /\ nodes \in [1 .. n -> GraphNodes] /\ NearTrue(r, nodes) /\ AllNear(r, nodes)
      /\ FarFree(r, nodes) \/ FarFound(r, nodes)
  BY DEF PlacesTrue
<1>3. /\ node \in GraphNodes /\ node.rid \in Nodes /\ node.dist \in {1, 2}
      /\ node.dist = 1 => node.rid \in Beyond(r) /\ node.gw = node.rid
      /\ node.dist = 2 => FarFound(r, nodes)
  BY DEF Visiting
<1>4. /\ rid \in Nodes \cup {0} /\ rid # FREE /\ FREE \notin Nodes
      /\ \A b \in Beyond(r) : b # FREE /\ b \in Nodes
  BY <1>3, RoutesAssumption DEF FREE, Beyond
<1>5. /\ via \in GraphNodes /\ via.rid = rid /\ via.dist = node.dist + 1 /\ via.gw = node.gw
      /\ via.dist \in {2, 3}
  <2>1. node.dist \in Nat /\ node.dist + 1 \in Nat /\ node.dist + 1 \in {2, 3} BY <1>3
  <2> DEFINE d == node.dist + 1
  <2>2. via = Onward(node, rid, d) BY DEF Onward
  <2>3. d \in Nat /\ node \in GraphNodes /\ rid \in Nodes \cup {0} BY <2>1, <1>3, <1>4
  <2> HIDE DEF d, via
  <2>4. IsOnward(Onward(node, rid, d), node, rid, d) BY <2>3, Further
  <2>5. IsOnward(via, node, rid, d) BY <2>2, <2>4
  <2> QED BY <2>1, <2>5 DEF d, IsOnward
<1>6. more = [j \in 1 .. n |-> IF taken(j) THEN other(j) ELSE nodes[j]]
  BY <1>2 DEF place
<1>7. ASSUME NEW j \in 1 .. n
      PROVE  /\ other(j) \in GraphNodes /\ other(j).rid = rid /\ other(j).dist = node.dist + 1
             /\ other(j).gw = node.gw /\ other(j).visited = nodes[j].visited
  <2>1. nodes[j].visited \in BOOLEAN BY <1>2 DEF GraphNodes
  <2> HIDE DEF via
  <2> QED BY <2>1, <1>5 DEF GraphNodes
<1>8. good = {j \in 1 .. n : nodes[j].rid = rid /\ nodes[j].dist <= node.dist + 1}
  BY <1>2, <1>5
<1> HIDE DEF n, via, good, more
<1>9. \A j \in Near(r) : ~ taken(j)
  <2> SUFFICES ASSUME NEW j \in Near(r), taken(j) PROVE FALSE
    OBVIOUS
  <2>1. nodes[j].rid \in Beyond(r) /\ nodes[j].dist = 1 BY <1>2 DEF NearTrue
  <2>2. nodes[j].rid = rid BY <2>1, <1>4
  <2>3. 1 <= node.dist + 1 BY <1>3
  <2>4. j \in good BY <2>1, <2>2, <2>3, <1>1, <1>8
  <2> QED BY <2>4, <1>1
<1>10. more \in [1 .. n -> GraphNodes] BY <1>2, <1>6, <1>7
<1>11. \A j \in Near(r) : more[j] = nodes[j] BY <1>1, <1>6, <1>9
<1>12. SameSeen(r, nodes, more)
  <2>1. \A j \in 1 .. n : more[j].visited = nodes[j].visited BY <1>6, <1>7
  <2> QED BY <2>1, <1>11 DEF SameSeen, n
<1>13. NearTrue(r, more) /\ AllNear(r, more) BY <1>2, <1>11 DEF NearTrue, AllNear
<1>14. ASSUME \A j \in Far(r) : ~ taken(j)
       PROVE  (FarFree(r, nodes) => FarFree(r, more)) /\ (FarFound(r, nodes) => FarFound(r, more))
  <2>1. \A j \in Far(r) : more[j] = nodes[j] BY <1>1, <1>6, <1>14
  <2> QED BY <2>1 DEF FarFree, FarFound
<1>15. /\ FarFree(r, more) \/ FarFound(r, more)
       /\ FarFound(r, nodes) => FarFound(r, more)
  <2>1. CASE rid \in Beyond(r)
    <3>1. PICK k \in Near(r) : nodes[k].rid = rid BY <2>1, <1>2 DEF AllNear
    <3>2. nodes[k].dist = 1 /\ 1 <= node.dist + 1 BY <1>2, <1>3 DEF NearTrue
    <3>3. k \in good BY <3>1, <3>2, <1>1, <1>8
    <3>4. \A j \in Far(r) : ~ (j < k) BY <1>1
    <3>5. \A j \in Far(r) : ~ taken(j) BY <3>3, <3>4
    <3> QED BY <3>5, <1>2, <1>14
  <2>2. CASE FarFound(r, nodes)
    <3>1. PICK x, g \in Nodes \cup {0} :
            /\ Found(r, x, g)
            /\ \A j \in Far(r) : nodes[j].rid = x /\ nodes[j].dist = 2 /\ nodes[j].gw = g
      BY <2>2 DEF FarFound
    <3>2. x # FREE BY <1>4 DEF FREE
    <3>3. ASSUME NEW j \in Far(r), taken(j) PROVE FALSE
      <4>1. nodes[j].rid = rid /\ nodes[j].dist = 2 BY <3>1, <3>2, <3>3
      <4>2. 2 <= node.dist + 1 BY <1>3
      <4>3. j \in good BY <4>1, <4>2, <1>1, <1>8
      <4> QED BY <4>3, <3>3, <1>1
    <3> QED BY <2>2, <3>3, <1>14
  <2>3. CASE rid \notin Beyond(r) /\ ~ FarFound(r, nodes)
    <3>1. FarFree(r, nodes) /\ node.dist = 1 BY <2>3, <1>2, <1>3
    <3>2. good = {}
      <4> SUFFICES ASSUME NEW j \in good PROVE FALSE
        OBVIOUS
      <4>1. j \in 1 .. n /\ nodes[j].rid = rid BY <1>8
      <4>2. CASE j \in Near(r) BY <4>1, <4>2, <2>3, <1>2 DEF NearTrue
      <4>3. CASE j \in Far(r) BY <4>1, <4>3, <3>1, <1>4 DEF FarFree
      <4> QED BY <4>1, <4>2, <4>3, <1>1
    <3>3. \A j \in Far(r) : taken(j) BY <3>1, <3>2 DEF FarFree
    <3>4. \A j \in Far(r) : more[j] = other(j) BY <3>3, <1>1, <1>6
    <3>5. \A j \in Far(r) : more[j].rid = rid /\ more[j].dist = 2 /\ more[j].gw = node.rid
      <4> SUFFICES ASSUME NEW j \in Far(r)
                   PROVE  more[j].rid = rid /\ more[j].dist = 2 /\ more[j].gw = node.rid
        OBVIOUS
      <4>1. j \in 1 .. n /\ more[j] = other(j) /\ node.dist + 1 = 2 /\ node.gw = node.rid
        BY <3>1, <3>4, <1>1, <1>3
      <4> HIDE DEF other
      <4> QED BY <4>1, <1>7
    <3>6. Found(r, rid, node.rid) BY <3>1, <2>3, <1>3, <1>4 DEF Found
    <3>7. FarFound(r, more) BY <3>5, <3>6, <1>3, <1>4 DEF FarFound
    <3> QED BY <3>7
  <2> QED BY <2>1, <2>2, <2>3
<1>16. PlacesTrue(r, more) BY <1>10, <1>13, <1>15 DEF PlacesTrue, n
<1>17. Visiting(r, more, node) BY <1>15 DEF Visiting
<1> QED BY <1>12, <1>16, <1>17 DEF more

LEMMA SeenStays ==
  ASSUME NEW r, NEW a, NEW b, NEW c, SameSeen(r, a, b), SameSeen(r, b, c)
  PROVE  SameSeen(r, a, c)
BY DEF SameSeen

(* What each step keeps, all of them keep. *)
LEMMA StepsKeep ==
  ASSUME NEW n \in Nat, NEW G, NEW step \in Steps(G, n), NEW h, h[0] \in G,
         \A i \in 1 .. n : h[i - 1] \in G => h[i] = step[i][h[i - 1]]
  PROVE  \A i \in 0 .. n : h[i] \in G
<1> DEFINE T == {i \in 0 .. n : h[i] \in G}
<1>1. 0 \in T OBVIOUS
<1>2. ASSUME NEW i \in 0 .. n - 1, i \in T PROVE i + 1 \in T
  <2>1. i + 1 \in 1 .. n /\ i + 1 \in 0 .. n /\ i + 1 - 1 = i OBVIOUS
  <2>2. h[i + 1] = step[i + 1][h[i]]
    <3>1. h[i + 1 - 1] \in G BY <2>1, <1>2
    <3>2. h[i + 1] = step[i + 1][h[i + 1 - 1]] BY <2>1, <3>1
    <3> QED BY <2>1, <3>2
  <2>3. step[i + 1] \in [G -> G] BY <2>1 DEF Steps
  <2> QED BY <2>1, <2>2, <2>3, <1>2
<1>3. \A i \in 0 .. n - 1 : i \in T => i + 1 \in T BY <1>2
<1> HIDE DEF T
<1>4. \A i \in 0 .. n : i \in T BY <1>1, <1>3, Induct
<1> QED BY <1>4 DEF T

LEMMA NeighboursKeep ==
  ASSUME NetTyped, NEW r \in Nodes, NEW nodes, NEW node,
         PlacesTrue(r, nodes), Visiting(r, nodes, node)
  PROVE  /\ PlacesTrue(r, nbr_update(r, nodes, node))
         /\ SameSeen(r, nodes, nbr_update(r, nodes, node))
<1> DEFINE lsas == array(node.rid)
           n == Len(lsas)
           G == {g \in [1 .. rt_count(r) -> GraphNodes] :
                   PlacesTrue(r, g) /\ Visiting(r, g, node) /\ SameSeen(r, nodes, g)}
           after(i, g) == IF lsas[i].rid = r THEN g ELSE place(g, lsas[i].rid, node)
           step == [i \in 1 .. n |-> [g \in G |-> after(i, g)]]
<1>1. node.rid \in Nodes BY DEF Visiting
<1>2. n \in Nat /\ \A i \in 1 .. n : lsas[i].rid \in Beyond(node.rid) \cup {0}
  BY <1>1, LsasAre
<1>3. nodes \in G BY DEF PlacesTrue, SameSeen
<1> HIDE DEF n, lsas
<1>4. ASSUME NEW i \in 1 .. n, NEW g \in G PROVE after(i, g) \in G
  <2>1. CASE lsas[i].rid = r BY <2>1
  <2>2. CASE lsas[i].rid # r
    <3> DEFINE rid == lsas[i].rid
               more == place(g, rid, node)
    <3>1. rid \in Beyond(node.rid) \cup {0} /\ rid # r BY <2>2, <1>2
    <3> HIDE DEF rid
    <3>2. PlacesTrue(r, more) /\ Visiting(r, more, node) /\ SameSeen(r, g, more)
      BY <3>1, PlaceKeeps
    <3>3. SameSeen(r, nodes, more) BY <3>2, SeenStays
    <3>4. more \in G
      <4> HIDE DEF more
      <4> QED BY <3>2, <3>3 DEF PlacesTrue
    <3> QED BY <3>4, <2>2 DEF rid
  <2> QED BY <2>1, <2>2
<1>5. step \in Steps(G, n)
  <2> HIDE DEF after, G
  <2> QED BY <1>4 DEF Steps
<1>6. \A i \in 1 .. n, g \in G : step[i][g] = after(i, g) OBVIOUS
<1> HIDE DEF step, G
<1>7. PICK f : Iterated(f, G, n, nodes, step)
  BY <1>2, <1>3, <1>5, Iterates
<1>8. f = [i \in 0 .. n |-> IF i = 0 THEN nodes
             ELSE IF lsas[i].rid = r THEN f[i - 1] ELSE place(f[i - 1], lsas[i].rid, node)]
  <2>1. \A i \in 0 .. n : i # 0 => i \in 1 .. n /\ i - 1 \in 0 .. n BY <1>2
  <2>2. \A i \in 0 .. n : f[i] = IF i = 0 THEN nodes ELSE after(i, f[i - 1])
    <3> HIDE DEF after
    <3> QED BY <2>1, <1>6, <1>7 DEF Iterated
  <2>3. f = [i \in 0 .. n |-> f[i]] BY <1>7 DEF Iterated
  <2> QED BY <2>2, <2>3
<1>9. PICK graph :
        /\ graph = [i \in 0 .. n |-> IF i = 0 THEN nodes
             ELSE IF lsas[i].rid = r THEN graph[i - 1] ELSE place(graph[i - 1], lsas[i].rid, node)]
        /\ nbr_update(r, nodes, node) = graph[n]
  BY <1>8 DEF nbr_update, n, lsas
<1>10. graph[0] = nodes /\ \A i \in 1 .. n : graph[i] = after(i, graph[i - 1])
  <2>1. 0 \in 0 .. n /\ \A i \in 1 .. n : i # 0 /\ i \in 0 .. n BY <1>2
  <2> QED BY <2>1, <1>9
<1>11. \A i \in 1 .. n : graph[i - 1] \in G => graph[i] = step[i][graph[i - 1]]
  <2> HIDE DEF after
  <2> QED BY <1>6, <1>10
<1>12. \A i \in 0 .. n : graph[i] \in G
  BY <1>2, <1>3, <1>5, <1>10, <1>11, StepsKeep
<1>13. graph[n] \in G BY <1>2, <1>12
<1> QED BY <1>9, <1>13 DEF G

-----------------------------------------------------------------------------
Open(nodes) == {j \in DOMAIN nodes : ~ nodes[j].visited}

LEMMA NearestIs ==
  ASSUME NEW n \in Nat, NEW nodes \in [1 .. n -> GraphNodes], Open(nodes) # {}
  PROVE  /\ Nearest(nodes) \in Open(nodes)
         /\ \A k \in Open(nodes) : nodes[Nearest(nodes)].dist <= nodes[k].dist
<1> DEFINE open == Open(nodes)
           dists == {nodes[j].dist : j \in open}
           Soonest(j) == \A k \in open :
             nodes[j].dist < nodes[k].dist \/ (nodes[j].dist = nodes[k].dist /\ j <= k)
<1>1. open \in SUBSET Nat /\ open \subseteq 1 .. n BY DEF Open
<1>2. \A j \in 1 .. n : nodes[j].dist \in Nat BY DEF GraphNodes
<1>3. dists \in SUBSET Nat /\ dists # {} BY <1>1, <1>2
<1>4. Nearest(nodes) = CHOOSE j \in open : Soonest(j) BY DEF Nearest, Open
<1> HIDE DEF open
<1>5. PICK d \in dists : \A e \in dists : d <= e
  <2> HIDE DEF dists
  <2> QED BY <1>3, LeastNumber
<1> DEFINE firsts == {j \in open : nodes[j].dist = d}
<1>6. firsts \in SUBSET Nat /\ firsts # {} BY <1>1, <1>5
<1>7. PICK i \in firsts : \A k \in firsts : i <= k
  <2> HIDE DEF firsts
  <2> QED BY <1>6, LeastNumber
<1>8. Soonest(i)
  <2> SUFFICES ASSUME NEW k \in open
               PROVE  nodes[i].dist < nodes[k].dist \/ (nodes[i].dist = nodes[k].dist /\ i <= k)
    OBVIOUS
  <2>1. d <= nodes[k].dist /\ nodes[i].dist = d BY <1>5, <1>7
  <2>2. d \in Nat /\ nodes[k].dist \in Nat BY <1>1, <1>2, <1>3, <1>5
  <2>3. CASE nodes[k].dist = d BY <2>1, <2>3, <1>7
  <2>4. CASE nodes[k].dist # d BY <2>1, <2>2, <2>4
  <2> QED BY <2>3, <2>4
<1> DEFINE c == CHOOSE j \in open : Soonest(j)
<1>9. c \in open /\ Soonest(c) BY <1>7, <1>8
<1>10. \A k \in open : nodes[c].dist <= nodes[k].dist
  <2> SUFFICES ASSUME NEW k \in open PROVE nodes[c].dist <= nodes[k].dist
    OBVIOUS
  <2>1. nodes[c].dist < nodes[k].dist \/ nodes[c].dist = nodes[k].dist BY <1>9
  <2>2. nodes[c].dist \in Nat /\ nodes[k].dist \in Nat BY <1>1, <1>2, <1>9
  <2> HIDE DEF c
  <2> QED BY <2>1, <2>2
<1> QED BY <1>4, <1>9, <1>10 DEF open

(* What a table says is true. *)
Leads(r, s, gw) ==
  IF gw = 0 THEN r \in s ELSE gw \in Beyond(r) /\ Hops(gw, s) = Hops(r, s) - 1
Tables == UNION {[T -> Nodes \cup {0}] : T \in SUBSET network.subnets}
TableTrue(r, table) ==
  /\ table \in Tables
  /\ \A s \in DOMAIN table : Leads(r, s, table[s])
  /\ \A s \in network.subnets : r \in s => s \in DOMAIN table
SeenListed(r, nodes, table) ==
  \A j \in Near(r) : nodes[j].visited =>
    \A s \in network.subnets : nodes[j].rid \in s => s \in DOMAIN table

Graph(r) ==
  {g \in [nodes : [1 .. rt_count(r) -> GraphNodes], table : Tables] :
     PlacesTrue(r, g.nodes) /\ TableTrue(r, g.table) /\ SeenListed(r, g.nodes, g.table)}

Beginning(r) == [nodes |-> initial_graph(r), table |-> Attached(r)]

LEMMA InitialKeeps ==
  ASSUME NetTyped, NEW r \in Nodes
  PROVE  Beginning(r) \in Graph(r) /\ Open(Beginning(r).nodes) = 1 .. rt_count(r)
<1> DEFINE n == rt_count(r)
           m == Cardinality(Beyond(r))
           nbrs == InOrder(Beyond(r))
           nodes == initial_graph(r)
           table == Attached(r)
<1>1. /\ n \in Nat /\ m \in Nat /\ m <= n /\ 1 .. n = Near(r) \cup Far(r)
      /\ Near(r) = 1 .. m /\ Far(r) = (m + 1) .. n
  BY PlacesOf DEF Near, Far
<1>2. /\ Beyond(r) \in SUBSET Nodes /\ nbrs \in Seq(Beyond(r)) /\ Len(nbrs) = m
      /\ Beyond(r) = {nbrs[i] : i \in 1 .. m}
  BY BeyondListed DEF Members
<1>3. \A i \in 1 .. m : nbrs[i] \in Beyond(r) BY <1>2
<1> DEFINE near(j) == [rid |-> nbrs[j], dist |-> 1, gw |-> nbrs[j], visited |-> FALSE]
           free == [rid |-> FREE, dist |-> FAR, gw |-> 0, visited |-> FALSE]
<1>4. nodes = [j \in 1 .. n |-> IF j <= m THEN near(j) ELSE free]
  BY <1>2 DEF initial_graph
<1> HIDE DEF n, m, nbrs, nodes, table
<1>5. ASSUME NEW j \in Near(r)
      PROVE  /\ nodes[j] \in GraphNodes /\ nodes[j].rid = nbrs[j] /\ nodes[j].dist = 1
             /\ nodes[j].gw = nbrs[j] /\ nodes[j].visited = FALSE
  <2>1. j \in 1 .. n /\ j <= m /\ nbrs[j] \in Nodes BY <1>1, <1>2, <1>3
  <2>2. near(j) \in GraphNodes BY <2>1 DEF GraphNodes
  <2> DEFINE v == near(j)
  <2>3. /\ v.rid = nbrs[j] /\ v.dist = 1 /\ v.gw = nbrs[j] /\ v.visited = FALSE
    OBVIOUS
  <2> HIDE DEF near
  <2>4. nodes[j] = v BY <2>1, <1>4
  <2> QED BY <2>2, <2>3, <2>4
<1>6. ASSUME NEW j \in Far(r) PROVE nodes[j] = free /\ free \in GraphNodes /\ free.visited = FALSE
  <2>1. j \in 1 .. n /\ ~ (j <= m) BY <1>1
  <2>2. free \in GraphNodes BY DEF GraphNodes, FAR
  <2>3. free.visited = FALSE OBVIOUS
  <2> HIDE DEF near, free
  <2> QED BY <2>1, <2>2, <2>3, <1>4
<1>7. nodes \in [1 .. n -> GraphNodes]
  <2> HIDE DEF near, free
  <2>1. \A j \in 1 .. n : nodes[j] \in GraphNodes BY <1>1, <1>5, <1>6
  <2>2. nodes = [j \in 1 .. n |-> nodes[j]] BY <1>4
  <2> QED BY <2>1, <2>2
<1> HIDE DEF near
<1>8. NearTrue(r, nodes) /\ AllNear(r, nodes)
  <2>1. NearTrue(r, nodes) BY <1>1, <1>3, <1>5 DEF NearTrue
  <2>2. ASSUME NEW b \in Beyond(r) PROVE \E j \in Near(r) : nodes[j].rid = b
    <3>1. PICK i \in 1 .. m : nbrs[i] = b BY <1>2
    <3> QED BY <3>1, <1>1, <1>5
  <2> QED BY <2>1, <2>2 DEF AllNear
<1>9. FarFree(r, nodes) BY <1>6 DEF FarFree
<1>10. PlacesTrue(r, nodes) BY <1>7, <1>8, <1>9 DEF PlacesTrue, n
<1>11. \A j \in 1 .. n : ~ nodes[j].visited
  <2> HIDE DEF free
  <2>1. \A j \in Near(r) : nodes[j].visited = FALSE BY <1>5
  <2>2. \A j \in Far(r) : nodes[j].visited = FALSE BY <1>6
  <2> QED BY <1>1, <2>1, <2>2
<1>12. TableTrue(r, table)
  <2> DEFINE mine == {t \in network.subnets : r \in t}
  <2>1. table = [s \in mine |-> 0] BY DEF Attached, table
  <2>2. mine \in SUBSET network.subnets OBVIOUS
  <2>3. table \in [mine -> Nodes \cup {0}] BY <2>1
  <2>4. table \in Tables BY <2>2, <2>3 DEF Tables
  <2>5. \A s \in DOMAIN table : Leads(r, s, table[s]) BY <2>1 DEF Leads
  <2> QED BY <2>1, <2>4, <2>5 DEF TableTrue
<1>13. SeenListed(r, nodes, table) BY <1>1, <1>11 DEF SeenListed
<1>14. Beginning(r) = [nodes |-> nodes, table |-> table] BY DEF Beginning, nodes, table
<1>15. Beginning(r) \in Graph(r)
  BY <1>7, <1>10, <1>12, <1>13, <1>14 DEF Graph, TableTrue, n
<1>16. Open(nodes) = 1 .. n BY <1>7, <1>11 DEF Open
<1> QED BY <1>14, <1>15, <1>16 DEF n

Reached(r, node) ==
  /\ node.rid \in Nodes
  /\ \/ node.dist = 1 /\ node.rid \in Beyond(r) /\ node.gw = node.rid
     \/ node.dist = 2 /\ Found(r, node.rid, node.gw)

(* The subnets of a visited router that the table lacks get true routes. *)
LEMMA TableKeeps ==
  ASSUME NetTyped, NEW r \in Nodes, NEW node, NEW table,
         Reached(r, node), TableTrue(r, table),
         node.dist = 2 => \A b \in Beyond(r) : \A s \in network.subnets : b \in s => s \in DOMAIN table
  PROVE  /\ TableTrue(r, set_visited(table, node))
         /\ DOMAIN table \subseteq DOMAIN set_visited(table, node)
         /\ \A s \in network.subnets : node.rid \in s => s \in DOMAIN set_visited(table, node)
<1> DEFINE v == node.rid
           gw == node.gw
           new == {s \in network.subnets : v \in s} \ DOMAIN table
           more == set_visited(table, node)
<1>1. /\ v \in Nodes /\ gw \in Beyond(r) /\ Beyond(r) \in SUBSET Nodes
      /\ (v \in Beyond(r) /\ gw = v) \/ (node.dist = 2 /\ Found(r, v, gw))
  <2>1. Beyond(r) \in SUBSET Nodes BY DEF Beyond
  <2>2. Found(r, v, gw) => gw \in Beyond(r) BY DEF Found
  <2> QED BY <2>1, <2>2 DEF Reached
<1>2. {array(v)[i].subnet : i \in DOMAIN array(v)} = {s \in network.subnets : v \in s}
  BY <1>1, LsasAre
<1>3. PICK T \in SUBSET network.subnets : table \in [T -> Nodes \cup {0}]
  BY DEF TableTrue, Tables
<1>4. /\ DOMAIN table = T
      /\ \A s \in T : Leads(r, s, table[s])
      /\ \A s \in network.subnets : r \in s => s \in T
  BY <1>3 DEF TableTrue
<1>5. more = [s \in T \cup new |-> IF s \in T THEN table[s] ELSE gw]
  BY <1>2, <1>4 DEF set_visited
<1> HIDE DEF v, gw, more
<1>6. T \cup new \in SUBSET network.subnets /\ more \in [T \cup new -> Nodes \cup {0}]
  BY <1>1, <1>3, <1>5
<1>7. more \in Tables BY <1>6 DEF Tables
<1>8. \A b \in Beyond(r) : b # 0 /\ r \in Beyond(b)
  <2>1. 0 \notin Nodes BY RoutesAssumption
  <2> QED BY <2>1, <1>1, SubnetsAre
<1>9. ASSUME NEW s \in new PROVE Leads(r, s, gw)
  <2>1. /\ s \in SUBSET Nodes /\ v \in s /\ s \in network.subnets /\ s \notin T /\ r \notin s
    BY <1>1, <1>4, SubnetsAre
  <2>2. CASE v \in Beyond(r) /\ gw = v
    <3>1. Hops(v, s) = 0 BY <1>1, <2>1, HopsAre
    <3>2. r \in Beyond(v) BY <1>8, <2>2
    <3>3. Hops(r, s) = 1 BY <2>1, <3>2, HopsAre
    <3> QED BY <2>2, <1>8, <3>1, <3>3 DEF Leads
  <2>3. CASE node.dist = 2 /\ Found(r, v, gw)
    <3>1. v # 0 /\ v \in Beyond(gw) /\ gw \in Nodes
      BY <2>3, <1>1, RoutesAssumption DEF Found
    <3>2. gw \in Beyond(v) BY <3>1, SubnetsAre
    <3>3. \A b \in Beyond(r) : b \notin s BY <2>1, <2>3, <1>4
    <3>4. \A b \in s : r \notin Beyond(b)
      <4>1. \A b \in Nodes : r \in Beyond(b) => b \in Beyond(r) BY SubnetsAre
      <4> QED BY <4>1, <3>3, <2>1
    <3>5. gw \notin s /\ r \in Beyond(gw) BY <1>1, <1>8, <3>3
    <3>6. Hops(gw, s) = 1 BY <2>1, <3>1, <3>2, <3>5, HopsAre
    <3>7. Hops(r, s) = 2 BY <2>1, <3>2, <3>4, <3>5, HopsAre
    <3> QED BY <1>1, <1>8, <3>6, <3>7 DEF Leads
  <2> QED BY <1>1, <2>2, <2>3
<1>10. \A s \in DOMAIN more : Leads(r, s, more[s])
  <2> SUFFICES ASSUME NEW s \in T \cup new PROVE Leads(r, s, more[s])
    BY <1>5
  <2>1. CASE s \in T
    <3>1. more[s] = table[s] BY <2>1, <1>5
    <3> QED BY <3>1, <2>1, <1>4
  <2>2. CASE s \notin T
    <3>1. more[s] = gw /\ s \in new BY <2>2, <1>5
    <3> QED BY <3>1, <1>9
  <2> QED BY <2>1, <2>2
<1>11. DOMAIN more = T \cup {s \in network.subnets : v \in s} BY <1>4, <1>5
<1>12. TableTrue(r, more) BY <1>4, <1>7, <1>10, <1>11 DEF TableTrue
<1> QED BY <1>4, <1>11, <1>12 DEF more, v

LEMMA VisitKeeps ==
  ASSUME NetTyped, NEW r \in Nodes, NEW g \in Graph(r), Open(g.nodes) # {}
  PROVE  /\ visit(r, g) \in Graph(r)
         /\ \E j \in Open(g.nodes) : Open(visit(r, g).nodes) = Open(g.nodes) \ {j}
<1> DEFINE n == rt_count(r)
           old == g.nodes
           table == g.table
           index == Nearest(old)
           node == old[index]
           seen == [node EXCEPT !.visited = TRUE]
           nodes == [old EXCEPT ![index].visited = TRUE]
           grown == visit(r, g)
<1>1. /\ n \in Nat /\ 1 .. n = Near(r) \cup Far(r)
      /\ \A j \in Near(r), k \in Far(r) : j \in Nat /\ k \in Nat /\ j < k
  BY PlacesOf
<1>2. /\ g = [nodes |-> old, table |-> table] /\ table \in Tables
      /\ PlacesTrue(r, old) /\ TableTrue(r, table) /\ SeenListed(r, old, table)
  BY DEF Graph
<1>3. /\ old \in [1 .. n -> GraphNodes] /\ NearTrue(r, old) /\ AllNear(r, old)
      /\ FarFree(r, old) \/ FarFound(r, old)
  BY <1>2 DEF PlacesTrue
<1>4. /\ index \in Open(old) /\ \A k \in Open(old) : node.dist <= old[k].dist
  BY <1>1, <1>3, NearestIs
<1>5. index \in 1 .. n /\ node \in GraphNodes BY <1>3, <1>4 DEF Open
<1>6. nodes = [old EXCEPT ![index] = seen] OBVIOUS
<1>7. grown = IF node.rid \notin Database(r) THEN [g EXCEPT !.nodes = nodes]
             ELSE [nodes |-> nbr_update(r, nodes, node), table |-> set_visited(table, node)]
  BY DEF visit
<1>8. /\ seen \in GraphNodes /\ seen.visited = TRUE
      /\ seen.rid = node.rid /\ seen.dist = node.dist /\ seen.gw = node.gw
  <2> HIDE DEF node
  <2> QED BY <1>5 DEF GraphNodes
<1> HIDE DEF n, old, table, index, seen, nodes, grown
<1>9. /\ nodes \in [1 .. n -> GraphNodes]
      /\ nodes[index] = seen /\ \A j \in 1 .. n : j # index => nodes[j] = old[j]
  BY <1>3, <1>5, <1>6, <1>8
<1>10. \A j \in 1 .. n : nodes[j].rid = old[j].rid /\ nodes[j].dist = old[j].dist
                         /\ nodes[j].gw = old[j].gw
  BY <1>8, <1>9
<1>11. PlacesTrue(r, nodes)
  <2>1. NearTrue(r, nodes) /\ AllNear(r, nodes)
    BY <1>1, <1>3, <1>10 DEF NearTrue, AllNear
  <2>2. FarFree(r, old) => FarFree(r, nodes) BY <1>1, <1>10 DEF FarFree
  <2>3. FarFound(r, old) => FarFound(r, nodes)
    <3>1. \A j \in Far(r) : nodes[j].rid = old[j].rid /\ nodes[j].dist = old[j].dist
                            /\ nodes[j].gw = old[j].gw
      BY <1>1, <1>10
    <3> QED BY <3>1 DEF FarFound
  <2> QED BY <2>1, <2>2, <2>3, <1>3, <1>9 DEF PlacesTrue, n
<1>12. Open(nodes) = Open(old) \ {index}
  <2> SUFFICES ASSUME NEW j PROVE j \in Open(nodes) <=> j \in Open(old) /\ j # index
    OBVIOUS
  <2>1. DOMAIN nodes = 1 .. n /\ DOMAIN old = 1 .. n BY <1>3, <1>9
  <2>2. CASE j = index BY <2>2, <1>8, <1>9 DEF Open
  <2>3. CASE j # index BY <2>1, <2>3, <1>9 DEF Open
  <2> QED BY <2>2, <2>3
<1>13. \A j \in Near(r) : j # index => nodes[j] = old[j] BY <1>1, <1>9
<1>14. CASE node.rid \notin Database(r)
  <2>1. grown = [nodes |-> nodes, table |-> table] BY <1>14, <1>2, <1>7
  <2>2. index \notin Near(r)
    <3>1. Beyond(r) \subseteq Database(r) BY NeighboursJoined
    <3> QED BY <3>1, <1>3, <1>14 DEF NearTrue
  <2>3. SeenListed(r, nodes, table)
    <3>1. \A j \in Near(r) : nodes[j] = old[j] BY <1>13, <2>2
    <3> QED BY <3>1, <1>2 DEF SeenListed
  <2>4. grown \in Graph(r) BY <2>1, <2>3, <1>2, <1>9, <1>11 DEF Graph, n
  <2>5. grown.nodes = nodes BY <2>1
  <2> QED BY <2>4, <2>5, <1>4, <1>12 DEF grown, old
<1>15. CASE node.rid \in Database(r)
  <2> DEFINE more == nbr_update(r, nodes, node)
             full == set_visited(table, node)
  <2>1. grown = [nodes |-> more, table |-> full] BY <1>15, <1>7
  <2>2. node.rid \in Nodes /\ FREE \notin Nodes
    BY <1>15, NeighboursJoined, RoutesAssumption DEF FREE
  <2>3. Reached(r, node) /\ Visiting(r, nodes, node)
    <3>1. CASE index \in Near(r)
      <4>1. node.dist = 1 /\ node.rid \in Beyond(r) /\ node.gw = node.rid
        BY <3>1, <1>3 DEF NearTrue
      <4> HIDE DEF node
      <4> QED BY <4>1, <2>2, <1>5 DEF Reached, Visiting
    <3>2. CASE index \in Far(r)
      <4>1. FarFound(r, old) BY <3>2, <2>2, <1>3 DEF FarFree
      <4>2. PICK x, b \in Nodes \cup {0} : Found(r, x, b) /\
              \A j \in Far(r) : old[j].rid = x /\ old[j].dist = 2 /\ old[j].gw = b
        BY <4>1 DEF FarFound
      <4>3. node.rid = x /\ node.dist = 2 /\ node.gw = b BY <3>2, <4>2
      <4>4. FarFound(r, nodes)
        <5>1. \A j \in Far(r) : nodes[j].rid = x /\ nodes[j].dist = 2 /\ nodes[j].gw = b
          BY <4>2, <1>1, <1>10
        <5> QED BY <5>1, <4>2 DEF FarFound
      <4> HIDE DEF node
      <4> QED BY <4>2, <4>3, <4>4, <2>2, <1>5 DEF Reached, Visiting
    <3> QED BY <3>1, <3>2, <1>1, <1>5
  <2>4. node.dist = 2 => \A b \in Beyond(r) : \A s \in network.subnets : b \in s => s \in DOMAIN table
    <3> SUFFICES ASSUME node.dist = 2, NEW b \in Beyond(r), NEW s \in network.subnets, b \in s
                 PROVE  s \in DOMAIN table
      OBVIOUS
    <3>1. PICK j \in Near(r) : old[j].rid = b BY <1>3 DEF AllNear
    <3>2. old[j].dist = 1 /\ ~ (node.dist <= 1) /\ j \in 1 .. n BY <3>1, <1>1, <1>3 DEF NearTrue
    <3>3. j \notin Open(old) BY <3>2, <1>4
    <3>4. old[j].visited
      <4>1. DOMAIN old = 1 .. n BY <1>3
      <4> QED BY <3>2, <3>3, <4>1 DEF Open
    <3> QED BY <3>1, <3>4, <1>2 DEF SeenListed
  <2> HIDE DEF node, more, full
  <2>5. PlacesTrue(r, more) /\ SameSeen(r, nodes, more) BY <1>11, <2>3, NeighboursKeep DEF more
  <2>6. /\ TableTrue(r, full) /\ DOMAIN table \subseteq DOMAIN full
        /\ \A s \in network.subnets : node.rid \in s => s \in DOMAIN full
    BY <2>3, <2>4, <1>2, TableKeeps DEF full
  <2>7. SeenListed(r, more, full)
    <3> SUFFICES ASSUME NEW j \in Near(r), more[j].visited,
                        NEW s \in network.subnets, more[j].rid \in s
                 PROVE  s \in DOMAIN full
      BY DEF SeenListed
    <3>1. j \in 1 .. n BY <1>1
    <3>2. nodes[j].visited /\ nodes[j].rid \in s
      BY <2>5, <3>1 DEF SameSeen, n
    <3>3. CASE j = index BY <3>2, <3>3, <1>8, <1>9, <2>6
    <3>4. CASE j # index
      <4>1. nodes[j] = old[j] BY <3>1, <3>4, <1>9
      <4>2. s \in DOMAIN table BY <3>2, <4>1, <1>2 DEF SeenListed
      <4> QED BY <4>2, <2>6
    <3> QED BY <3>3, <3>4
  <2>8. more \in [1 .. n -> GraphNodes] /\ full \in Tables
    BY <2>5, <2>6 DEF PlacesTrue, TableTrue, n
  <2>9. grown \in Graph(r) BY <2>1, <2>5, <2>6, <2>7, <2>8 DEF Graph, n
  <2>10. Open(more) = Open(nodes)
    <3>1. DOMAIN more = 1 .. n /\ DOMAIN nodes = 1 .. n BY <2>8, <1>9
    <3>2. \A j \in 1 .. n : more[j].visited = nodes[j].visited BY <2>5 DEF SameSeen, n
    <3> QED BY <3>1, <3>2 DEF Open
  <2>11. grown.nodes = more BY <2>1
  <2> QED BY <2>9, <2>10, <2>11, <1>4, <1>12 DEF grown, old
<1> QED BY <1>14, <1>15

LEMMA ComputedIs ==
  ASSUME NetTyped, NEW r \in Nodes
  PROVE  TableTrue(r, Computed(r))
<1> DEFINE n == rt_count(r)
           G == Graph(r)
           base == [nodes |-> initial_graph(r), table |-> Attached(r)]
           after(g) == IF Open(g.nodes) # {} THEN visit(r, g) ELSE g
           step == [i \in 1 .. n |-> [g \in G |-> after(g)]]
           Left(g, i) == IsFiniteSet(Open(g.nodes)) /\ Cardinality(Open(g.nodes)) = n - i
<1>1. n \in Nat BY PlacesOf
<1>2. base \in G /\ Left(base, 0)
  <2>1. base = Beginning(r) BY DEF Beginning
  <2>2. base \in G /\ Open(base.nodes) = 1 .. n
    <3> HIDE DEF base
    <3> QED BY <2>1, InitialKeeps
  <2>3. IsFiniteSet(1 .. n) /\ Cardinality(1 .. n) = n - 0
    <3>1. IsFiniteSet(1 .. n) /\ Cardinality(1 .. n) = IF 1 > n THEN 0 ELSE n - 1 + 1
      <4> HIDE DEF n
      <4> QED BY <1>1, FS_Interval
    <3> QED BY <3>1, <1>1
  <2> HIDE DEF base, n
  <2> QED BY <2>2, <2>3
<1>3. ASSUME NEW g \in G, Open(g.nodes) # {} PROVE visit(r, g) \in G
  BY <1>3, VisitKeeps
<1>4. ASSUME NEW i \in 1 .. n, NEW g \in G, Left(g, i - 1)
      PROVE  Open(g.nodes) # {} /\ visit(r, g) \in G /\ Left(visit(r, g), i)
  <2> DEFINE open == Open(g.nodes)
             more == Open(visit(r, g).nodes)
  <2>1. n - (i - 1) \in Nat /\ n - (i - 1) # 0 /\ n - (i - 1) - 1 = n - i BY <1>1
  <2>2. open # {} BY <2>1, <1>4, FS_EmptySet
  <2>3. visit(r, g) \in G /\ \E j \in open : more = open \ {j} BY <2>2, VisitKeeps
  <2>4. IsFiniteSet(open) /\ Cardinality(open) = n - (i - 1) BY <1>4
  <2> HIDE DEF open, more
  <2>5. IsFiniteSet(more) /\ Cardinality(more) = n - (i - 1) - 1
    BY <2>3, <2>4, FS_RemoveElement
  <2>6. Left(visit(r, g), i) BY <2>1, <2>5 DEF more
  <2> QED BY <2>2, <2>3, <2>6 DEF open
<1>5. step \in Steps(G, n)
  <2>1. \A g \in G : after(g) \in G BY <1>3
  <2> HIDE DEF after, G
  <2> QED BY <2>1 DEF Steps
<1>6. \A i \in 1 .. n, g \in G : step[i][g] = after(g) OBVIOUS
<1> HIDE DEF n, G, base, step, after, Left
<1>7. PICK f : Iterated(f, G, n, base, step)
  BY <1>1, <1>2, <1>5, Iterates
(* Any function that follows these steps has an open place left at each.       *)
<1> DEFINE Follows(h) ==
      \A i \in 1 .. n : (h[i - 1] \in G /\ Left(h[i - 1], i - 1)) => h[i] = visit(r, h[i - 1])
<1>8. ASSUME NEW h, h[0] = base, Follows(h)
      PROVE  \A i \in 0 .. n : h[i] \in G /\ Left(h[i], i)
  <2> DEFINE T == {i \in 0 .. n : h[i] \in G /\ Left(h[i], i)}
  <2>1. 0 \in T BY <1>1, <1>2, <1>8
  <2>2. ASSUME NEW i \in 0 .. n - 1, i \in T PROVE i + 1 \in T
    <3>1. i + 1 \in 1 .. n /\ i + 1 \in 0 .. n /\ i + 1 - 1 = i BY <1>1
    <3> DEFINE k == i + 1
    <3>2. h[k - 1] \in G /\ Left(h[k - 1], k - 1) BY <3>1, <2>2
    <3>3. k \in 1 .. n /\ k \in 0 .. n BY <3>1
    <3> HIDE DEF k
    <3>4. h[k] = visit(r, h[k - 1]) BY <3>2, <3>3, <1>8
    <3>5. h[k] \in G /\ Left(h[k], k) BY <3>2, <3>3, <3>4, <1>4
    <3> QED BY <3>3, <3>5 DEF k
  <2>3. \A i \in 0 .. n - 1 : i \in T => i + 1 \in T BY <2>2
  <2> HIDE DEF T
  <2>4. \A i \in 0 .. n : i \in T BY <1>1, <2>1, <2>3, Induct
  <2> QED BY <2>4 DEF T
<1>9. \A i \in 0 .. n : f[i] \in G /\ Left(f[i], i)
  <2>1. f[0] = base BY <1>7 DEF Iterated
  <2>2. Follows(f)
    <3> SUFFICES ASSUME NEW i \in 1 .. n, f[i - 1] \in G, Left(f[i - 1], i - 1)
                 PROVE  f[i] = visit(r, f[i - 1])
      OBVIOUS
    <3>1. f[i] = after(f[i - 1]) BY <1>6, <1>7 DEF Iterated
    <3>2. Open(f[i - 1].nodes) # {} BY <1>4
    <3> QED BY <3>1, <3>2 DEF after
  <2> HIDE DEF Follows
  <2> QED BY <2>1, <2>2, <1>8
<1>10. f = [i \in 0 .. n |-> IF i = 0 THEN base ELSE visit(r, f[i - 1])]
  <2>1. \A i \in 0 .. n : f[i] = IF i = 0 THEN base ELSE visit(r, f[i - 1])
    <3> SUFFICES ASSUME NEW i \in 0 .. n, i # 0 PROVE f[i] = visit(r, f[i - 1])
      BY <1>7 DEF Iterated
    <3>1. i \in 1 .. n /\ i - 1 \in 0 .. n BY <1>1
    <3>2. f[i] = after(f[i - 1]) BY <3>1, <1>6, <1>7, <1>9 DEF Iterated
    <3>3. Open(f[i - 1].nodes) # {} BY <3>1, <1>4, <1>9
    <3> QED BY <3>2, <3>3 DEF after
  <2>2. f = [i \in 0 .. n |-> f[i]] BY <1>7 DEF Iterated
  <2> QED BY <2>1, <2>2
<1>11. PICK graph :
         /\ graph = [i \in 0 .. n |-> IF i = 0 THEN base ELSE visit(r, graph[i - 1])]
         /\ Computed(r) = graph[n].table
  BY <1>10 DEF Computed, n, base
<1>12. graph[0] = base /\ Follows(graph)
  <2>1. 0 \in 0 .. n /\ \A i \in 1 .. n : i # 0 /\ i \in 0 .. n BY <1>1
  <2> QED BY <2>1, <1>11
<1> HIDE DEF Follows
<1>13. graph[n] \in G BY <1>1, <1>8, <1>12
<1> QED BY <1>11, <1>13 DEF G, Graph

(* Leads, of a network that is an argument: a step that leaves the network alone
   leaves it alone.                                                          *)
BeyondIn(net, r) == {b \in Nodes \ {r} : {r, b} \in net.subnets}
WithinIn(net, set) ==
  LET within[k \in 0 .. Cardinality(Nodes)] ==
        IF k = 0 THEN set ELSE within[k - 1] \cup UNION {BeyondIn(net, a) : a \in within[k - 1]}
  IN within
HopsIn(net, r, subnet) ==
  LET enough == {k \in 0 .. Cardinality(Nodes) : r \in WithinIn(net, subnet)[k]}
  IN IF enough = {} THEN -1 ELSE CHOOSE k \in enough : \A m \in enough : k <= m
LeadsIn(net, r, s, gw) ==
  IF gw = 0 THEN r \in s
  ELSE gw \in BeyondIn(net, r) /\ HopsIn(net, gw, s) = HopsIn(net, r, s) - 1

LEMMA LeadsIs ==
  ASSUME NEW r, NEW s, NEW gw
  PROVE  Leads(r, s, gw) <=> LeadsIn(network, r, s, gw)
<1>1. \A a : Beyond(a) = BeyondIn(network, a) BY DEF Beyond, BeyondIn
<1>2. \A u : Within(u) = WithinIn(network, u) BY DEF Within, WithinIn, Beyond, BeyondIn
<1>3. \A a, u : Hops(a, u) = HopsIn(network, a, u)
  BY DEF Hops, HopsIn, Within, WithinIn, Beyond, BeyondIn
<1> QED BY <1>1, <1>3 DEF Leads, LeadsIn

(* The networks stay as they are; every table that was computed is true.       *)
RoutesInv ==
  /\ NetTyped
  /\ DOMAIN rtable = Nodes
  /\ \A r \in Nodes : \A s \in DOMAIN rtable[r] : LeadsIn(network, r, s, rtable[r][s])

(* Routes.RoutesGetNearer holds in every network of any number of routers.     *)
THEOREM RoutesLeadNearer == RoutesSpec => []RoutesGetNearer
<1>1. RoutesInit => RoutesInv
  <2> SUFFICES ASSUME RoutesInit PROVE RoutesInv
    OBVIOUS
  <2>1. \A r \in Nodes : DOMAIN rtable[r] = {} BY DEF RoutesInit
  <2> QED BY <2>1 DEF RoutesInit, RoutesInv, NetTyped
<1>2. RoutesInv /\ [RoutesNext]_routesVars => RoutesInv'
  <2> SUFFICES ASSUME RoutesInv, [RoutesNext]_routesVars PROVE RoutesInv'
    OBVIOUS
  <2>1. CASE UNCHANGED routesVars
    <3>1. network' = network /\ rtable' = rtable BY <2>1 DEF routesVars
    <3> QED BY <3>1 DEF RoutesInv, NetTyped
  <2>2. ASSUME NEW q \in Nodes, rtable_update(q) PROVE RoutesInv'
    <3>1. network' = network /\ rtable' = [rtable EXCEPT ![q] = Computed(q)]
      BY <2>2 DEF rtable_update
    <3>2. TableTrue(q, Computed(q)) BY ComputedIs DEF RoutesInv
    <3>3. ASSUME NEW r \in Nodes, NEW s \in DOMAIN rtable'[r] PROVE LeadsIn(network, r, s, rtable'[r][s])
      <4>1. CASE r = q
        <5>1. rtable'[r] = Computed(q) BY <4>1, <3>1 DEF RoutesInv
        <5> QED BY <5>1, <4>1, <3>2, LeadsIs DEF TableTrue
      <4>2. CASE r # q
        <5>1. rtable'[r] = rtable[r] BY <4>2, <3>1 DEF RoutesInv
        <5> QED BY <5>1 DEF RoutesInv
      <4> QED BY <4>1, <4>2
    <3> QED BY <3>1, <3>3 DEF RoutesInv, NetTyped
  <2> QED BY <2>1, <2>2 DEF RoutesNext
<1>3. RoutesInv => RoutesGetNearer BY LeadsIs DEF RoutesInv, RoutesGetNearer, Leads
<1> QED BY <1>1, <1>2, <1>3, PTL DEF RoutesSpec
=============================================================================

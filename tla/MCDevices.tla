------------------------------ MODULE MCDevices ------------------------------
(***************************************************************************)
(* One of the programs of the laboratories runs: the initial state says       *)
(* which, and the others stay as they begin.                                 *)
(***************************************************************************)
EXTENDS Mospf, Routes, ArpCache, Nat, MacTable, MipsTop, Bitwise, TLC

VARIABLE device

(* mospf: three routers on a chain that boot, or in a triangle that was at rest
   and in which something happens. *)
MCLinks == {l \in Routers \X Routers : l[1] # l[2]}
Left(periods, misses, changes) ==
  [periods |-> [r \in Routers |-> IF r \in periods THEN 1 ELSE 0],
   misses |-> [r \in Routers |-> IF r \in misses THEN 1 ELSE 0],
   changes |-> [l \in Links |-> IF l = <<2, 3>> THEN changes ELSE 0]]
AtRest ==
  [nbr_list |-> [r \in Routers |-> Routers \ {r}],
   sequence_num |-> [r \in Routers |-> 3],
   mospf_db |-> [r \in Routers |-> [o \in Routers |->
     IF r = o THEN NONE ELSE [seq |-> 2, nbrs |-> Routers \ {o}, version |-> 2]]],
   built |-> [r \in Routers |-> 2]]
Boot == [state |-> Booting, up |-> Links \ {<<1, 3>>, <<3, 1>>}, left |-> Left({}, {}, 0)]
MCStarts == {Boot} \cup
  {[state |-> AtRest, up |-> Links, left |-> l] :
     l \in {Left({}, {1}, 0), Left({1, 2}, {}, 0), Left({1}, {}, 1)}}

(* arp: two hosts on the wire, of which one answers, and one far away. *)
Packet(id, src, dst, ttl, echo) ==
  [id |-> id, src |-> src, dst |-> dst, ttl |-> ttl, echo |-> echo]
MCNextHop == [ip \in Addresses |-> IF ip = "far" THEN NO_ROUTE ELSE ip]
MCArriving ==
  {Packet(1, "a", "b", 3, FALSE),      \* forwarded, and given up or not
   Packet(3, "a", "far", 2, FALSE),    \* an error: no route
   Packet(4, "far", "own", 2, TRUE),   \* a reply without a route
   Packet(6, "b", "own", 1, FALSE)}    \* consumed
MCUpdates == {Packet(5, "own", "a", 1, FALSE)}

(* mac: three hosts in one bucket, one in another. *)
MCLocation == [m \in Macs |-> m]
MCHash == [m \in Macs |-> IF m = 4 THEN 2 ELSE 1]

(* mips: words of eight bits, of which some stand for instructions, and the others
   for one that does nothing. *)
MCBitOr(a, b) == a | b
Field(op, rs, rt, rd, imm, sa, target) ==
  [op |-> op, rs |-> rs, rt |-> rt, rd |-> rd, imm |-> imm, sa |-> sa, target |-> target]
MCValues == <<0, 1, 5, 16, -8, 127, -128>>
SetRegister(r, k) == 16 * r + k
JumpTo(target) == 64 + target
Tested == <<
  Field("addiu", 1, 3, 0, -3, 0, 0), Field("slti", 1, 3, 0, -3, 0, 0),
  Field("sltiu", 1, 3, 0, -3, 0, 0), Field("lui", 0, 3, 0, 5, 0, 0),
  Field("addu", 1, 2, 3, 0, 0, 0),   Field("or", 1, 2, 3, 0, 0, 0),
  Field("slt", 1, 2, 3, 0, 0, 0),    Field("sll", 0, 2, 3, 0, 3, 0),
  Field("beq", 1, 2, 0, 1, 0, 0),    Field("bne", 1, 2, 0, 1, 0, 0),
  Field("addu", 1, 2, 0, 0, 0, 0),   Field("jal", 0, 0, 0, 0, 0, 4),
  Field("jr", 1, 0, 0, 0, 0, 0)>>
LINK == 92      \* jal, which a jump to a register reaches in the last region
LOAD == 100
STORE == 101
MCDecode ==
  [w \in {SetRegister(r, k) : r \in {1, 2}, k \in DOMAIN MCValues} |->
     Field("addiu", 0, w \div 16, 0, MCValues[w % 16], 0, 0)]
  @@ [w \in {JumpTo(t) : t \in 0 .. MemoryWords - 1} |-> Field("j", 0, 0, 0, 0, 0, w - 64)]
  @@ [w \in {80 + k : k \in DOMAIN Tested} |-> Tested[w - 80]]
  @@ LOAD :> Field("lw", 0, 2, 0, 28, 0, 0)
  @@ STORE :> Field("sw", 0, 2, 0, 12, 0, 0)
  @@ [w \in Words |-> Field("sll", 0, 0, 0, 0, 0, 0)]
MCRegisters == {0, 1, 2, 3, 31}

(* Each instruction on each pair of values. *)
InstructionTests ==
  {[memory |-> [a \in 0 .. MemoryWords - 1 |->
      CASE a = 0 -> SetRegister(1, x) [] a = 1 -> SetRegister(2, y)
        [] a = 2 -> 80 + k [] a = 6 -> LINK [] a = 4 -> JumpTo(4) [] OTHER -> JumpTo(3)],
    script |-> <<resetn(1)>>] : x, y \in DOMAIN MCValues, k \in DOMAIN Tested}
(* A program of which the loader loads two words stores its result. *)
LoadAndRun ==
  [memory |-> [a \in 0 .. MemoryWords - 1 |->
     CASE a = 0 -> JumpTo(4) [] a = 4 -> LOAD [] a = 5 -> STORE [] a = 7 -> 7 [] OTHER -> 0],
   script |-> main(<<[address |-> FINISH, data |-> AllOnes], [address |-> 6, data |-> JumpTo(5)]>>)]
MCImages == InstructionTests \cup {LoadAndRun}

(* Who does not run: every packet has left the router, and the other programs
   have one state to begin with. *)
MospfIdle == MospfInit /\ up = Boot.up /\ nbr_list = Booting.nbr_list
RoutesIdle == RoutesInit /\ network = [subnets |-> HostSubnets, hosts_first |-> TRUE]
ArpIdle == /\ coming = {} /\ arp_entries = {} /\ req_list = <<>> /\ pkt_list = {} /\ gone = Packets
           /\ hand = [t \in Senders |-> NOTHING]
TopIdle == TopInit /\ mem = LoadAndRun.memory /\ script = LoadAndRun.script

Init ==
  /\ device \in {"mospf", "routes", "arp", "nat", "mac", "mips"}
  /\ IF device = "mospf" THEN MospfInit ELSE MospfIdle
  /\ IF device = "routes" THEN RoutesInit ELSE RoutesIdle
  /\ IF device = "arp" THEN ArpInit ELSE ArpIdle
  /\ IF device = "mips" THEN TopInit ELSE TopIdle
  /\ NatInit /\ MacInit

NotMospf == UNCHANGED <<routesVars, arpVars, natVars, macVars, topVars, device>>
NotRoutes == UNCHANGED <<mospfVars, arpVars, natVars, macVars, topVars, device>>
NotArp == UNCHANGED <<mospfVars, routesVars, natVars, macVars, topVars, device>>
NotNat == UNCHANGED <<mospfVars, routesVars, arpVars, macVars, topVars, device>>
NotMac == UNCHANGED <<mospfVars, routesVars, arpVars, natVars, topVars, device>>
NotMips == UNCHANGED <<mospfVars, routesVars, arpVars, natVars, macVars, device>>

Next ==
  \/ device = "mospf" /\ MospfNext /\ NotMospf
  \/ device = "routes" /\ RoutesNext /\ NotRoutes
  \/ device = "arp" /\ ArpNext /\ NotArp
  \/ device = "nat" /\ NatNext /\ NotNat
  \/ device = "mac" /\ MacNext /\ NotMac
  \/ device = "mips" /\ Clock /\ NotMips

allVars == <<mospfVars, routesVars, arpVars, natVars, macVars, topVars, device>>
Spec == Init /\ [][Next]_allVars /\ ArpFairness
=============================================================================

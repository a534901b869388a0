------------------------------ MODULE MacTable ------------------------------
(***************************************************************************)
(* The learning switch (pr2, mac.c with handle_packet of main.c): the main    *)
(* thread forwards frames and learns where hosts are, the sweeping thread     *)
(* removes entries that were not looked up for 30 seconds.                    *)
(*                                                                         *)
(* The lock is taken for each look-up, insertion and sweep alone, and the      *)
(* entry a look-up found is read after it.  Times are left out: any entries    *)
(* may be old at a sweep.  Hosts do not move; the code would not notice.       *)
(***************************************************************************)
EXTENDS Naturals, Sequences

CONSTANTS
  Macs,         \* the hosts
  location,     \* the interface each is on
  hash8         \* the bucket of each

Ifaces == {location[m] : m \in Macs}
Buckets == {hash8[m] : m \in Macs}

VARIABLES
  hash_table,   \* of each bucket: its entries [mac, iface], the newest first
  frame,        \* the frame the main thread handles, and what it looked up
  sent,         \* history: the last frame sent, with the interfaces
  ended         \* the program used memory that is not its own, and ended

macVars == <<hash_table, frame, sent, ended>>

IDLE_PORT == [at |-> "poll"]

MacInit ==
  /\ hash_table = [b \in Buckets |-> <<>>]
  /\ frame = IDLE_PORT
  /\ sent = IDLE_PORT
  /\ ended = FALSE

Entries(mac) == {e \in {hash_table[hash8[mac]][i] : i \in DOMAIN hash_table[hash8[mac]]} : e.mac = mac}
Present(mac) == Entries(mac) # {}

(* lookup_port of the destination. *)
lookup_dst(src, dst) ==
  /\ ~ ended /\ frame = IDLE_PORT /\ src # dst
  /\ frame' = [at |-> "dst", src |-> src, dst |-> dst, found |-> Present(dst)]
  /\ UNCHANGED <<hash_table, sent, ended>>

(* Its entry is read, which may have been freed since the lock was released; then
   that of the source is looked up. *)
lookup_src ==
  /\ ~ ended /\ frame.at = "dst"
  /\ ended' = (frame.found /\ ~ Present(frame.dst))
  /\ frame' = [at |-> "src", src |-> frame.src, dst |-> frame.dst, known |-> Present(frame.src),
               out |-> IF frame.found THEN {e.iface : e \in Entries(frame.dst)}
                       ELSE Ifaces \ {location[frame.src]}]
  /\ UNCHANGED <<hash_table, sent>>

\* Mutant of Learned: the interface the frame leaves by.
LearnedOut(src, out) == CHOOSE i \in out \cup {location[src]} : out # {} => i \in out
(* insert_mac_port is given the interface the frame came from. *)
Learned(src, out) == location[src]

(* iface_send_packet or broadcast_packet, and insert_mac_port. *)
send ==
  /\ ~ ended /\ frame.at = "src"
  /\ sent' = [at |-> "sent", src |-> frame.src, dst |-> frame.dst, out |-> frame.out]
  /\ hash_table' = IF frame.known THEN hash_table
                   ELSE [hash_table EXCEPT ![hash8[frame.src]] =
                           <<[mac |-> frame.src, iface |-> Learned(frame.src, frame.out)]>> \o @]
  /\ frame' = IDLE_PORT
  /\ UNCHANGED ended

(* What a sweep makes of a bucket: one entry is never looked at; of more, the old
   ones at the front are freed, and it must be all but the last: the walk takes the
   successor of the successor of every other and ends at a null pointer. *)
Survives(b, old) ==
  LET list == hash_table[b] IN
  Len(list) <= 1 \/ ({i \in DOMAIN list : list[i] \in old} = 1 .. Len(list) - 1)

sweep_aged_mac_port_entry ==
  /\ ~ ended
  /\ \E old \in SUBSET UNION {Entries(m) : m \in Macs} :
       IF \A b \in Buckets : Survives(b, old)
       THEN /\ hash_table' = [b \in Buckets |->
                 IF Len(hash_table[b]) <= 1 THEN hash_table[b]
                 ELSE <<hash_table[b][Len(hash_table[b])]>>]
            /\ UNCHANGED ended
       ELSE ended' = TRUE /\ UNCHANGED hash_table
  /\ UNCHANGED <<frame, sent>>

MacNext ==
  \/ \E src, dst \in Macs : lookup_dst(src, dst)
  \/ lookup_src
  \/ send
  \/ sweep_aged_mac_port_entry

MacSpec == MacInit /\ [][MacNext]_macVars
-----------------------------------------------------------------------------
(* While entries come and go between the look-ups and the insertion of a frame, and
   until the program ends: a frame is sent where its destination is, and a host has
   one entry, which says where it is (handle_packet, mac.c). *)
FramesReachTheirHost ==
  /\ sent.at = "sent" => location[sent.dst] \in sent.out \cup {location[sent.src]}
  /\ \A b \in Buckets : \A i, j \in DOMAIN hash_table[b] :
       /\ hash_table[b][i].iface = location[hash_table[b][i].mac]
       /\ hash_table[b][i].mac = hash_table[b][j].mac => i = j
=============================================================================

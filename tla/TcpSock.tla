------------------------------ MODULE TcpSock ------------------------------
(***************************************************************************)
(* One socket of the TCP stack of pr11 (tcp_sock.h, tcp_out.c, tcp_in.c):    *)
(* its record, the packets it sends, and what sending and receiving do to    *)
(* its lists.  Data is counted in units; the payload of a segment is the      *)
(* units its sequence numbers stand for.                                     *)
(*                                                                         *)
(* snd_una is left out, for no decision reads it, and so is rcv_wnd, which    *)
(* keeps its initial value.  Sequence numbers do not wrap: rand() gives an    *)
(* initial one below 2^31, and a run sends far less than the rest.            *)
(***************************************************************************)
EXTENDS Integers, Sequences, FiniteSets

CONSTANTS
  Client, Server,   \* the two ends of the connection
  ISS,              \* the initial sequence number of each
  Units,            \* how many units of data the client writes
  Window,           \* TCP_DEFAULT_WINDOW, in units
  MSS,              \* the units that fit a segment
  MaxTries          \* how often a segment is sent again (10 in the code)

End == {Client, Server}

ASSUME TcpAssumption ==
  /\ Client # Server
  /\ ISS \in [End -> Nat \ {0}]     \* 0 is the acknowledgement of a SYN
  /\ Units \in Nat \ {0} /\ MaxTries \in Nat
  /\ Window \in Nat
  /\ MSS \in 1 .. Window - 1         \* a segment fits an empty ring buffer

Peer(e) == IF e = Client THEN Server ELSE Client

\* TCP_SYN, TCP_SYN|TCP_ACK, TCP_ACK, TCP_PSH|TCP_ACK, TCP_FIN|TCP_ACK, TCP_RST|TCP_ACK.
Flags == {"SYN", "SYN_ACK", "ACK", "PSH", "FIN", "RST"}

Packets == [flags : Flags, seq : Nat, ack : Nat, len : 0 .. MSS]

States == {"CLOSED", "SYN_SENT", "SYN_RECV", "ESTABLISHED", "CLOSE_WAIT", "LAST_ACK",
           "FIN_WAIT_1", "FIN_WAIT_2", "TIME_WAIT"}

Socks == [
  state : States,
  snd_nxt : Nat,
  rcv_nxt : Nat,
  snd_wnd : 0 .. Window,
  send_list : SUBSET [pkt : Packets, num : 0 .. MaxTries],   \* sent and not acknowledged
  recv_list : SUBSET [seq : Nat, len : 0 .. MSS],            \* came ahead of their turn
  rcv_buf : Seq(Nat),                                        \* the ring buffer
  hashed : BOOLEAN,                                          \* in established_table
  timewait : BOOLEAN]                                        \* the 2 MSL timer runs

alloc_tcp_sock == [
  state |-> "CLOSED", snd_nxt |-> 0, rcv_nxt |-> 0, snd_wnd |-> 0, send_list |-> {},
  recv_list |-> {}, rcv_buf |-> <<>>, hashed |-> FALSE, timewait |-> FALSE]

-----------------------------------------------------------------------------
(* Sending *)

Segment(s, flags, len) == [flags |-> flags, seq |-> s.snd_nxt, ack |-> s.rcv_nxt, len |-> len]

\* The first packet of a connection acknowledges nothing: rcv_nxt is 0 then.
insert_send(s, pkt) == [s EXCEPT !.send_list = @ \cup {[pkt |-> pkt, num |-> 0]}]

\* The list is in the order of the sequence numbers.  An empty segment has the
\* number of the one that is queued after it.
Ahead(b, c) ==
  \/ b.pkt.seq < c.pkt.seq
  \/ b.pkt.seq = c.pkt.seq /\ b.pkt.len < c.pkt.len
  \/ b.pkt.seq = c.pkt.seq /\ b.pkt.len = c.pkt.len /\ b.num >= c.num
Oldest(list) == CHOOSE b \in list : \A c \in list : Ahead(b, c)

\* tcp_send_control_packet with a flag that has to be acknowledged.
SendFlag(s, flags) ==
  [insert_send(s, Segment(s, flags, 0)) EXCEPT !.snd_nxt = @ + 1]

\* Nobody reads the numbers of a reset, nor the sequence number of a plain
\* acknowledgement: they are 0.
Ack(s) == [flags |-> "ACK", seq |-> 0, ack |-> s.rcv_nxt, len |-> 0]
tcp_send_reset == [flags |-> "RST", seq |-> 0, ack |-> 0, len |-> 0]

-----------------------------------------------------------------------------
(* Acknowledgements *)

Covered(pkts) == UNION {p.seq .. p.seq + p.len - 1 : p \in pkts}
InSendList(s) == {b.pkt : b \in s.send_list}

\* Mutant of Acked: a segment goes when its first unit is acknowledged.
AckedFirst(pkt, ack) == pkt.seq <= ack

\* A SYN or a FIN has a data_size of 0 and goes once its own number is acknowledged.
Acked(pkt, ack) == pkt.seq + pkt.len <= ack

\* Mutant of Wrapped: snd_wnd has more bits than rwnd.
WrappedNot(wnd) == wnd

\* snd_wnd has 16 bits, and TCP_DEFAULT_WINDOW is 2^16 - 1.
Wrapped(wnd) == wnd % (Window + 1)

remove_from_send_list(s, ack) ==
  LET gone == {p \in InSendList(s) : Acked(p, ack)}
  IN  [s EXCEPT !.send_list = {b \in @ : ~Acked(b.pkt, ack)},
                !.snd_wnd = Wrapped(@ + Cardinality(Covered(gone)))]

-----------------------------------------------------------------------------
(* Data *)

\* The units of a segment, numbered from 1; only the client sends data.  Those
\* above Units are what lies behind the buffer it writes (tcp_sock_write).
Payload(g) == [i \in 1 .. g.len |-> g.seq + i - 1 - ISS[Client]]

\* Where the data ends that the list holds from number n on.  Segments are sent
\* again unchanged, so they do not overlap, and the search of the code for one
\* that starts where the last ended goes on to the first number not covered.
EndOfRun(list, n) ==
  CHOOSE k \in {n} \cup {m + 1 : m \in Covered(list)} :
    n <= k /\ k \notin Covered(list) /\ n .. k - 1 \subseteq Covered(list)

\* The ring buffer keeps one place free: it holds Window - 1 units.
HasRoom(buf, len) == Len(buf) + len <= Window - 1

\* Mutant of InTurn: one unit may be missing.
InTurnOrNext(s, p) == p.seq \in s.rcv_nxt .. s.rcv_nxt + 1

InTurn(s, p) == p.seq = s.rcv_nxt

\* recv_data, "seq == rcv_nxt": the segment, then the stored ones that follow it.
\* A stored copy of a segment that was taken, or an empty one, stays in the list
\* and is never used.
TakeInOrder(s, p) ==
  LET next == EndOfRun(s.recv_list, p.seq + p.len)
  IN  [s EXCEPT !.rcv_nxt = next,
                !.rcv_buf = @ \o Payload([seq |-> p.seq, len |-> next - p.seq]),
                !.recv_list = {g \in @ : g.seq \notin p.seq + p.len .. next - 1}]

Store(s, p) == [s EXCEPT !.recv_list = @ \cup {[seq |-> p.seq, len |-> p.len]}]
=============================================================================

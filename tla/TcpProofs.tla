------------------------------ MODULE TcpProofs ------------------------------
(***************************************************************************)
(* The connection of Tcp for every amount of data, window and number of      *)
(* tries: type correctness, the agreement of the two ends at the handshake   *)
(* and at the tear-down, and the data that the server is given.              *)
(***************************************************************************)
EXTENDS Tcp, ListProofs, FiniteSetTheorems, FunctionTheorems

-----------------------------------------------------------------------------
(***************************************************************************)
(* The inductive invariant.  The client numbers its SYN ISS[Client], its      *)
(* units from First on and its FIN by the number after the last one; Written  *)
(* is the number after the last unit it has queued, which lies behind its     *)
(* buffer when todo is negative.                                             *)
(***************************************************************************)
First == ISS[Client] + 1
Written == First + Units - todo

ClosedByClient == pc[Client] \in {"to_fin_wait_1", "done"}
ClosedByServer == pc[Server] \in {"to_last_ack", "done"}

FromClient == net[Server] \cup InSendList(sock[Client]) \cup {pend.pkt}
FromServer == net[Client] \cup InSendList(sock[Server])

\* What a packet of either end says, in whatever copy.
ClientPacket(p) ==
  /\ p.ack <= sock[Client].rcv_nxt
  /\ p.flags \in {"SYN", "ACK", "PSH", "FIN", "RST"}
  /\ p.flags = "SYN" => p.seq = ISS[Client]
  /\ p.flags = "PSH" => First <= p.seq /\ p.seq + p.len <= Written
  /\ p.flags = "FIN" => ClosedByClient /\ p.seq = Written
  /\ p.flags # "PSH" => p.len = 0

ServerPacket(p) ==
  /\ p.ack <= sock[Server].rcv_nxt
  /\ p.flags \in {"SYN_ACK", "ACK", "FIN", "RST"}
  /\ p.flags = "SYN_ACK" => p.seq = ISS[Server]
  /\ p.flags = "FIN" => last /\ p.seq = ISS[Server] + 1
  /\ p.len = 0

PacketsTrue ==
  /\ \A p \in FromClient : ClientPacket(p)
  /\ \A p \in FromServer : ServerPacket(p)

ClientLocations ==
  {"connect", "to_sleep_connect", "asleep_connect", "write", "compare", "fetch", "advance", "store",
   "to_sleep_send", "asleep_send", "close", "to_fin_wait_1", "done"}

ClientStates ==
  {"CLOSED", "SYN_SENT", "ESTABLISHED", "CLOSE_WAIT", "FIN_WAIT_1", "FIN_WAIT_2", "TIME_WAIT"}

ClientInv ==
  LET c == sock[Client]
  IN  /\ pc[Client] \in ClientLocations /\ c.state \in ClientStates
      /\ pc[Client] = "connect" => /\ c.snd_nxt = 0 /\ c.rcv_nxt = 0 /\ c.state = "CLOSED"
                                   /\ ~c.hashed /\ todo = Units
      /\ pc[Client] \in {"compare", "fetch"} => todo > 0
      /\ pc[Client] = "close" \/ ClosedByClient => todo <= 0
      /\ pc[Client] = "advance" => c.snd_nxt + pend.pkt.len = Written
      /\ ClosedByClient => c.snd_nxt = Written + 1
      /\ pc[Client] \notin {"connect", "advance"} /\ ~ClosedByClient => c.snd_nxt = Written
      /\ pc[Client] \in {"advance", "store"} => pend.pkt.flags = "PSH"
      /\ c.rcv_nxt \in {0, ISS[Server] + 1, ISS[Server] + 2}
      /\ c.state = "SYN_SENT" => c.rcv_nxt = 0
      /\ c.state \notin {"CLOSED", "SYN_SENT"} \/ ClosedByClient => c.rcv_nxt > ISS[Server]
      /\ c.state \in {"FIN_WAIT_1", "FIN_WAIT_2", "TIME_WAIT"} => ClosedByClient
      /\ c.state \in {"CLOSE_WAIT", "FIN_WAIT_2", "TIME_WAIT"} => last
      /\ last => ClosedByClient
      /\ c.recv_list = {}

ServerLocations ==
  {"accept", "to_sleep_accept", "asleep_accept", "dequeue", "read", "to_sleep_recv",
   "asleep_recv", "take", "close", "to_last_ack", "done"}

ServerInv ==
  LET s == sock[Server]
  IN  /\ pc[Server] \in ServerLocations
      /\ s.state \in {"CLOSED", "SYN_RECV", "ESTABLISHED", "CLOSE_WAIT", "LAST_ACK"}
      /\ ~s.timewait
      /\ ~s.hashed => s = alloc_tcp_sock /\ ~last /\ delivered = <<>>
      /\ s.hashed => (last <=> s.state \notin {"SYN_RECV", "ESTABLISHED"})
      /\ s.hashed => s.snd_nxt = IF ClosedByServer THEN ISS[Server] + 2 ELSE ISS[Server] + 1
      /\ s.hashed /\ ~last => First <= s.rcv_nxt /\ s.rcv_nxt <= Written
      /\ s.hashed /\ last => s.rcv_nxt = Written + 1
      /\ s.state = "SYN_RECV" => s.rcv_nxt = First /\ s.hashed
      /\ s.state \in {"CLOSED", "LAST_ACK"} /\ s.hashed => pc[Server] = "done"
      /\ s.state = "CLOSED" /\ s.hashed => sock[Client].rcv_nxt = ISS[Server] + 2
      /\ pc[Server] = "close" \/ ClosedByServer => last /\ s.rcv_buf = <<>>
      /\ \A g \in s.recv_list : First <= g.seq /\ g.seq + g.len <= Written

\* The connection is accepted after the client has taken the SYN of the server.
AcceptInv ==
  \/ queue \in {"accept", "taken"} \/ wait["accept"].notified
  \/ pc[Server] \notin {"accept", "to_sleep_accept", "asleep_accept"}
  => sock[Client].rcv_nxt > ISS[Server]

\* The data of the server is a prefix of the client's, and what is not in it
\* yet is still in the list of the client.
DataInv ==
  LET s == sock[Server]
  IN  /\ "data" \notin skipped =>
           /\ Received = Whole(Len(Received)) /\ Len(Received) <= Units - todo
           /\ s.hashed /\ ~last => Len(Received) = s.rcv_nxt - First
      /\ skipped = {} /\ last => Len(Received) = Units - todo
      /\ \A n \in First .. Written - 1 : n \in Covered(InSendList(sock[Client])) \/ n < s.rcv_nxt

TInv == TcpTypeOK /\ PacketsTrue /\ ClientInv /\ ServerInv /\ AcceptInv /\ DataInv


-----------------------------------------------------------------------------
(* The constants, the types and the parts of a socket.                       *)

LEMMA Ends ==
  /\ Client \in End /\ Server \in End /\ Client # Server
  /\ Peer(Client) = Server /\ Peer(Server) = Client
  /\ \A e \in End : e = Client \/ e = Server
BY TcpAssumption DEF End, Peer

LEMMA Numbers ==
  /\ ISS[Client] \in Nat \ {0} /\ ISS[Server] \in Nat \ {0}
  /\ Units \in Nat /\ Window \in Nat /\ MaxTries \in Nat
  /\ MSS \in Nat /\ 1 <= MSS /\ MSS < Window
  /\ First \in Nat /\ Units > 0
BY TcpAssumption, Ends DEF First

LEMMA Bounds ==
  ASSUME TcpTypeOK
  PROVE  /\ todo \in Int /\ todo <= Units /\ 1 - MSS <= todo
         /\ Written \in Nat /\ First <= Written /\ Written - First = Units - todo
<1>1. todo \in 1 - MSS .. Units BY DEF TcpTypeOK
<1>2. todo \in Int /\ todo <= Units /\ 1 - MSS <= todo BY <1>1, Numbers
<1> QED BY <1>2, Numbers DEF Written

LEMMA BoundsNext ==
  ASSUME TcpTypeOK'
  PROVE  /\ todo' \in Int /\ todo' <= Units /\ 1 - MSS <= todo'
         /\ Written' \in Nat /\ First <= Written' /\ Written' - First = Units - todo'
<1>1. todo' \in 1 - MSS .. Units BY DEF TcpTypeOK
<1>2. Written' = First + Units - todo' BY DEF Written, First
<1>3. First \in Nat /\ Units \in Nat /\ MSS \in Nat BY Numbers
<1>4. ASSUME NEW w, NEW t \in Int, t <= Units, w = First + Units - t
      PROVE  w \in Nat /\ First <= w /\ w - First = Units - t
  BY <1>3, <1>4
<1>5. todo' \in Int /\ todo' <= Units /\ 1 - MSS <= todo' BY <1>1, <1>3
<1> QED BY <1>2, <1>4, <1>5

LEMMA SockFields ==
  ASSUME NEW s \in Socks
  PROVE  /\ s.snd_nxt \in Nat /\ s.rcv_nxt \in Nat /\ s.snd_wnd \in 0 .. Window
         /\ s.rcv_buf \in Seq(Nat)
         /\ s.hashed \in BOOLEAN /\ s.timewait \in BOOLEAN
         /\ s.send_list \subseteq [pkt : Packets, num : 0 .. MaxTries]
         /\ InSendList(s) \subseteq Packets
<1>1. s.send_list \subseteq [pkt : Packets, num : 0 .. MaxTries] BY DEF Socks
<1>2. InSendList(s) \subseteq Packets BY <1>1 DEF InSendList
<1> QED BY <1>1, <1>2 DEF Socks

LEMMA SocksOf ==
  /\ TcpTypeOK => sock[Client] \in Socks /\ sock[Server] \in Socks
  /\ TcpTypeOK' => sock'[Client] \in Socks /\ sock'[Server] \in Socks
BY Ends DEF TcpTypeOK

LEMMA PacketTypes ==
  ASSUME TcpTypeOK
  PROVE  /\ \A p \in FromClient : p \in Packets
         /\ \A p \in FromServer : p \in Packets
<1>1. pend.pkt \in Packets BY DEF TcpTypeOK
<1>2. net[Client] \subseteq Packets /\ net[Server] \subseteq Packets BY Ends DEF TcpTypeOK
<1>3. InSendList(sock[Client]) \subseteq Packets /\ InSendList(sock[Server]) \subseteq Packets
  BY SocksOf, SockFields
<1> QED BY <1>1, <1>2, <1>3 DEF FromClient, FromServer

LEMMA PacketFields ==
  ASSUME NEW p \in Packets
  PROVE  p.seq \in Nat /\ p.ack \in Nat /\ p.len \in 0 .. MSS /\ p.len \in Nat /\ p.flags \in Flags
BY Numbers DEF Packets

LEMMA BecomesIs ==
  ASSUME TcpTypeOK, NEW e \in End, NEW s, sock' = [sock EXCEPT ![e] = s]
  PROVE  sock'[e] = s /\ \A d \in End : d # e => sock'[d] = sock[d]
BY DEF TcpTypeOK

(***************************************************************************)
(* What was sent stays true as the two ends go on.                           *)
(***************************************************************************)
Goes ==
  /\ sock[Client].rcv_nxt <= sock'[Client].rcv_nxt
  /\ sock[Server].rcv_nxt <= sock'[Server].rcv_nxt
  /\ Written <= Written'
  /\ ClosedByClient => ClosedByClient'
  /\ last => last'
  /\ ClosedByClient \/ last => Written' = Written

LEMMA OldPackets ==
  ASSUME TcpTypeOK, TcpTypeOK', PacketsTrue, Goes
  PROVE  /\ \A p \in FromClient : ClientPacket(p)'
         /\ \A p \in FromServer : ServerPacket(p)'
<1>1. /\ sock[Client].rcv_nxt \in Nat /\ sock'[Client].rcv_nxt \in Nat
      /\ sock[Server].rcv_nxt \in Nat /\ sock'[Server].rcv_nxt \in Nat
      /\ Written \in Nat /\ Written' \in Nat
  BY SocksOf, SockFields, Bounds, BoundsNext
<1>2. ASSUME NEW p \in FromClient PROVE ClientPacket(p)'
  <2>1. ClientPacket(p) BY DEF PacketsTrue
  <2>2. p.seq \in Nat /\ p.ack \in Nat /\ p.len \in Nat BY PacketTypes, PacketFields
  <2> QED BY <1>1, <2>1, <2>2 DEF ClientPacket, Goes
<1>3. ASSUME NEW p \in FromServer PROVE ServerPacket(p)'
  <2>1. ServerPacket(p) BY DEF PacketsTrue
  <2>2. p.seq \in Nat /\ p.ack \in Nat /\ p.len \in Nat BY PacketTypes, PacketFields
  <2> QED BY <1>1, <2>1, <2>2 DEF ServerPacket, Goes
<1> QED BY <1>2, <1>3


-----------------------------------------------------------------------------
(* What sending and receiving do to a socket.                                *)

ReceiveSame(s, t) ==
  /\ t.rcv_nxt = s.rcv_nxt /\ t.recv_list = s.recv_list /\ t.rcv_buf = s.rcv_buf
  /\ t.hashed = s.hashed /\ t.timewait = s.timewait

LEMMA SegmentType ==
  ASSUME NEW s \in Socks, NEW flags \in Flags, NEW len \in 0 .. MSS
  PROVE  /\ Segment(s, flags, len) \in Packets
         /\ Ack(s) \in Packets /\ tcp_send_reset \in Packets
<1>1. s.snd_nxt \in Nat /\ s.rcv_nxt \in Nat BY SockFields
<1>2. 0 \in 0 .. MSS BY Numbers
<1> QED BY <1>1, <1>2 DEF Segment, Ack, tcp_send_reset, Packets, Flags

LEMMA InsertIs ==
  ASSUME NEW s \in Socks, NEW pkt \in Packets, NEW t, t = insert_send(s, pkt)
  PROVE  /\ t \in Socks /\ t.state = s.state /\ t.snd_nxt = s.snd_nxt /\ t.snd_wnd = s.snd_wnd
         /\ InSendList(t) = InSendList(s) \cup {pkt}
         /\ ReceiveSame(s, t)
<1> DEFINE b == [pkt |-> pkt, num |-> 0]
           list == s.send_list \cup {b}
<1>1. b \in [pkt : Packets, num : 0 .. MaxTries] /\ b.pkt = pkt BY Numbers
<1>2. s.send_list \subseteq [pkt : Packets, num : 0 .. MaxTries] BY SockFields
<1>3. t = [s EXCEPT !.send_list = list] BY DEF insert_send
<1> HIDE DEF b
<1>4. list \subseteq [pkt : Packets, num : 0 .. MaxTries] BY <1>1, <1>2
<1>5. InSendList(s) \cup {pkt} = {x.pkt : x \in list} BY <1>1 DEF InSendList
<1> HIDE DEF list
<1>6. t \in Socks BY <1>3, <1>4 DEF Socks
<1>7. t.send_list = list BY <1>3 DEF Socks
<1>8. t.state = s.state /\ t.snd_nxt = s.snd_nxt /\ t.snd_wnd = s.snd_wnd /\ ReceiveSame(s, t)
  BY <1>3 DEF Socks, ReceiveSame
<1> QED BY <1>5, <1>6, <1>7, <1>8 DEF InSendList

LEMMA SendFlagIs ==
  ASSUME NEW s \in Socks, NEW flags \in Flags, NEW t, t = SendFlag(s, flags)
  PROVE  /\ t \in Socks /\ t.state = s.state /\ t.snd_nxt = s.snd_nxt + 1 /\ t.snd_wnd = s.snd_wnd
         /\ InSendList(t) = InSendList(s) \cup {Segment(s, flags, 0)}
         /\ ReceiveSame(s, t)
<1> DEFINE pkt == Segment(s, flags, 0)
           u == insert_send(s, pkt)
<1>1. 0 \in 0 .. MSS BY Numbers
<1>2. pkt \in Packets BY <1>1, SegmentType
<1>3. t = [u EXCEPT !.snd_nxt = @ + 1] BY DEF SendFlag
<1> HIDE DEF pkt
<1>4. /\ u \in Socks /\ u.state = s.state /\ u.snd_nxt = s.snd_nxt /\ u.snd_wnd = s.snd_wnd
      /\ InSendList(u) = InSendList(s) \cup {pkt}
      /\ ReceiveSame(s, u)
  BY <1>2, InsertIs
<1> HIDE DEF u
<1>5. u.snd_nxt + 1 \in Nat BY <1>4, SockFields
<1>6. t \in Socks BY <1>3, <1>4, <1>5 DEF Socks
<1>7. /\ t.snd_nxt = u.snd_nxt + 1 /\ t.state = u.state /\ t.snd_wnd = u.snd_wnd
      /\ t.send_list = u.send_list /\ ReceiveSame(u, t)
  BY <1>3, <1>4 DEF Socks, ReceiveSame
<1>8. InSendList(t) = InSendList(u) BY <1>7 DEF InSendList
<1> QED BY <1>4, <1>6, <1>7, <1>8 DEF ReceiveSame, pkt

LEMMA WrappedType ==
  ASSUME NEW n \in Nat
  PROVE  Wrapped(n) \in 0 .. Window
<1>1. Window + 1 \in Nat \ {0} BY Numbers
<1>2. n % (Window + 1) \in 0 .. (Window + 1) - 1 BY <1>1
<1> QED BY <1>2, Numbers DEF Wrapped

LEMMA CoveredCount ==
  ASSUME NEW S \in SUBSET Nat, NEW n \in Nat, \A m \in S : m <= n
  PROVE  Cardinality(S) \in Nat
BY FS_BoundedSetOfNaturals, FS_CardinalityType

LEMMA CoveredBounded ==
  ASSUME NEW segs, NEW n \in Nat,
         \A g \in segs : g.seq \in Nat /\ g.len \in Nat /\ (g.len # 0 => g.seq + g.len <= n)
  PROVE  Covered(segs) \in SUBSET Nat /\ \A m \in Covered(segs) : m < n
<1> SUFFICES ASSUME NEW m \in Covered(segs) PROVE m \in Nat /\ m < n
  OBVIOUS
<1>1. PICK g \in segs : m \in g.seq .. g.seq + g.len - 1 BY DEF Covered
<1>2. g.seq \in Nat /\ g.len \in Nat OBVIOUS
<1>3. g.len # 0 BY <1>1, <1>2
<1> QED BY <1>1, <1>2, <1>3

LEMMA RemoveIs ==
  ASSUME NEW s \in Socks, NEW n \in Nat,
         \A p \in InSendList(s) : p.len # 0 => p.seq + p.len <= n,
         NEW ack, NEW t, t = remove_from_send_list(s, ack)
  PROVE  /\ t \in Socks /\ t.state = s.state /\ t.snd_nxt = s.snd_nxt
         /\ InSendList(t) = {p \in InSendList(s) : ~Acked(p, ack)}
         /\ ReceiveSame(s, t)
<1> DEFINE gone == {p \in InSendList(s) : Acked(p, ack)}
           list == {b \in s.send_list : ~Acked(b.pkt, ack)}
           count == Cardinality(Covered(gone))
           wnd == Wrapped(s.snd_wnd + count)
<1>1. t = [s EXCEPT !.send_list = list, !.snd_wnd = wnd] BY DEF remove_from_send_list
<1>2. gone \in SUBSET Packets BY SockFields
<1>3. \A p \in gone : p.len # 0 => p.seq + p.len <= n OBVIOUS
<1> HIDE DEF gone
<1>4. Covered(gone) \in SUBSET Nat /\ \A m \in Covered(gone) : m < n
  <2>1. \A p \in gone : p.seq \in Nat /\ p.len \in Nat /\ (p.len # 0 => p.seq + p.len <= n)
    BY <1>2, <1>3, PacketFields
  <2> QED BY <2>1, CoveredBounded
<1>5. \A m \in Covered(gone) : m <= n BY <1>4
<1>6. count \in Nat BY <1>4, <1>5, CoveredCount
<1> HIDE DEF count
<1>7. s.snd_wnd + count \in Nat BY <1>6, SockFields, Numbers
<1>8. wnd \in 0 .. Window BY <1>7, WrappedType
<1>9. list \subseteq [pkt : Packets, num : 0 .. MaxTries] BY SockFields
<1>10. {b.pkt : b \in list} = {p \in InSendList(s) : ~Acked(p, ack)} BY DEF InSendList
<1> HIDE DEF list, wnd
<1>11. t \in Socks BY <1>1, <1>8, <1>9 DEF Socks
<1>12. t.send_list = list BY <1>1 DEF Socks
<1>13. t.state = s.state /\ t.snd_nxt = s.snd_nxt /\ ReceiveSame(s, t)
  BY <1>1 DEF Socks, ReceiveSame
<1> QED BY <1>10, <1>11, <1>12, <1>13 DEF InSendList


-----------------------------------------------------------------------------
(* The data.                                                                 *)

Segments == [seq : Nat, len : 0 .. MSS]

LEMMA EndOfRunIs ==
  ASSUME NEW list \in SUBSET Segments, NEW n \in Nat, NEW w \in Nat, n <= w,
         \A g \in list : g.seq + g.len <= w,
         NEW e, e = EndOfRun(list, n)
  PROVE  e \in Nat /\ n <= e /\ e <= w
<1> DEFINE C == Covered(list)
<1>1. C \in SUBSET Nat /\ \A m \in C : m < w
  <2>1. \A g \in list : g.seq \in Nat /\ g.len \in Nat /\ (g.len # 0 => g.seq + g.len <= w)
    BY Numbers DEF Segments
  <2> QED BY <2>1, CoveredBounded
<1>2. e = CHOOSE k \in {n} \cup {m + 1 : m \in C} : n <= k /\ k \notin C /\ n .. k - 1 \subseteq C
  BY DEF EndOfRun
<1> HIDE DEF C
<1> DEFINE free == {k \in Nat : n <= k /\ k \notin C}
<1>3. free \in SUBSET Nat /\ free # {}
  <2>1. w \in free BY <1>1
  <2> QED BY <2>1
<1>4. PICK k \in free : \A m \in free : k <= m BY <1>3, LeastNumber
<1>5. n .. k - 1 \subseteq C
  <2> SUFFICES ASSUME NEW m \in n .. k - 1, m \notin C PROVE FALSE
    OBVIOUS
  <2>1. m \in Nat /\ n <= m /\ m < k BY <1>4
  <2>2. m \in free BY <2>1
  <2> QED BY <1>4, <2>1, <2>2
<1>6. k \in {n} \cup {m + 1 : m \in C}
  <2>1. CASE k = n BY <2>1
  <2>2. CASE k # n
    <3>1. k - 1 \in n .. k - 1 /\ k = (k - 1) + 1 BY <2>2, <1>4
    <3> QED BY <3>1, <1>5
  <2> QED BY <2>1, <2>2
<1>7. n <= k /\ k \notin C BY <1>4
<1>8. e \in {n} \cup {m + 1 : m \in C} /\ n <= e BY <1>2, <1>5, <1>6, <1>7
<1>9. CASE e = n BY <1>9
<1>10. CASE \E m \in C : e = m + 1 BY <1>1, <1>8, <1>10
<1> QED BY <1>8, <1>9, <1>10

LEMMA PayloadIs ==
  ASSUME NEW g, g.seq \in Nat, g.len \in Nat, First <= g.seq \/ g.len = 0
  PROVE  /\ Payload(g) \in Seq(Nat) /\ Len(Payload(g)) = g.len
         /\ \A i \in 1 .. g.len : Payload(g)[i] = g.seq + i - First
<1> DEFINE s == Payload(g)
           n == g.len
           q == g.seq
<1>1. n \in Nat /\ q \in Nat /\ (First <= q \/ n = 0) OBVIOUS
<1>2. s = [i \in 1 .. n |-> q + i - 1 - ISS[Client]] BY DEF Payload
<1>3. First = ISS[Client] + 1 /\ ISS[Client] \in Nat BY Numbers DEF First
<1> HIDE DEF s, n, q
<1>4. \A i \in 1 .. n : q + i - 1 - ISS[Client] \in Nat /\ q + i - 1 - ISS[Client] = q + i - First
  BY <1>1, <1>3
<1>5. s \in [1 .. n -> Nat] BY <1>2, <1>4
<1>6. s \in Seq(Nat) BY <1>1, <1>5, SeqDef
<1>7. Len(s) \in Nat /\ DOMAIN s = 1 .. Len(s) BY <1>6, LenProperties
<1>8. Len(s) = n
  <2>1. 1 .. n = 1 .. Len(s) BY <1>5, <1>7
  <2> QED BY <2>1, <1>1, <1>7, SameLength
<1>9. \A i \in 1 .. n : s[i] = q + i - First BY <1>2, <1>4
<1> QED BY <1>6, <1>8, <1>9 DEF s, n, q

LEMMA WholeIs ==
  ASSUME NEW n \in Nat
  PROVE  Whole(n) \in Seq(Nat) /\ Len(Whole(n)) = n /\ \A i \in 1 .. n : Whole(n)[i] = i
<1> DEFINE s == Whole(n)
<1>1. s = [i \in 1 .. n |-> i] BY DEF Whole
<1> HIDE DEF s
<1>2. s \in [1 .. n -> Nat] BY <1>1
<1>3. s \in Seq(Nat) BY <1>2, SeqDef
<1>4. Len(s) \in Nat /\ DOMAIN s = 1 .. Len(s) BY <1>3, LenProperties
<1>5. Len(s) = n
  <2>1. 1 .. n = 1 .. Len(s) BY <1>2, <1>4
  <2> QED BY <2>1, <1>4, SameLength
<1> QED BY <1>1, <1>3, <1>5 DEF s

\* The segment that is next makes the prefix longer.
LEMMA WholeGrows ==
  ASSUME NEW n \in Nat, NEW g, g.seq \in Nat, g.len \in Nat, g.seq = First + n
  PROVE  Whole(n) \o Payload(g) = Whole(n + g.len)
<1> DEFINE a == Whole(n)
           b == Payload(g)
           c == a \o b
           d == Whole(n + g.len)
           k == g.len
<1>0. First \in Nat /\ First <= g.seq /\ k \in Nat /\ n + k \in Nat BY Numbers
<1>1. a \in Seq(Nat) /\ Len(a) = n /\ \A i \in 1 .. n : a[i] = i BY WholeIs
<1>2. b \in Seq(Nat) /\ Len(b) = k /\ \A i \in 1 .. k : b[i] = g.seq + i - First
  BY <1>0, PayloadIs
<1>3. d \in Seq(Nat) /\ Len(d) = n + k /\ \A i \in 1 .. n + k : d[i] = i BY <1>0, WholeIs
<1> HIDE DEF a, b, d, k
<1>4. /\ c \in Seq(Nat) /\ Len(c) = n + k
      /\ \A i \in 1 .. n + k : c[i] = IF i <= n THEN a[i] ELSE b[i - n]
  BY <1>1, <1>2, ConcatProperties
<1> HIDE DEF c
<1>5. \A i \in 1 .. n + k : c[i] = d[i]
  <2> SUFFICES ASSUME NEW i \in 1 .. n + k PROVE c[i] = d[i]
    OBVIOUS
  <2>1. CASE i <= n BY <2>1, <1>0, <1>1, <1>3, <1>4
  <2>2. CASE ~ (i <= n)
    <3>1. i - n \in 1 .. k BY <2>2, <1>0
    <3>2. c[i] = g.seq + (i - n) - First BY <2>2, <3>1, <1>2, <1>4
    <3> QED BY <3>2, <1>0, <1>3
  <2> QED BY <2>1, <2>2
<1>6. c = d BY <1>3, <1>4, <1>5, SeqEqual
<1> QED BY <1>6 DEF a, b, c, d, k


\* How a taken segment changes the socket: next is where the data ends then.
Takes(s, p, t, next) ==
  /\ t.state = s.state /\ t.snd_nxt = s.snd_nxt /\ t.rcv_nxt = next
  /\ t.rcv_buf = s.rcv_buf \o Payload([seq |-> p.seq, len |-> next - p.seq])
  /\ t.recv_list \subseteq s.recv_list /\ InSendList(t) = InSendList(s)
  /\ t.hashed = s.hashed /\ t.timewait = s.timewait

LEMMA TakeIs ==
  ASSUME NEW s \in Socks, NEW p \in Packets, NEW w \in Nat, p.seq + p.len <= w,
         First <= p.seq, \A g \in s.recv_list : g.seq + g.len <= w,
         NEW t, t = TakeInOrder(s, p)
  PROVE  /\ t \in Socks
         /\ \E next \in Nat : p.seq + p.len <= next /\ next <= w /\ Takes(s, p, t, next)
<1> DEFINE next == EndOfRun(s.recv_list, p.seq + p.len)
           seg == [seq |-> p.seq, len |-> next - p.seq]
           buf == s.rcv_buf \o Payload(seg)
           list == {g \in s.recv_list : g.seq \notin p.seq + p.len .. next - 1}
<1>1. p.seq \in Nat /\ p.len \in Nat /\ p.seq + p.len \in Nat BY PacketFields
<1>2. s.recv_list \in SUBSET Segments BY DEF Socks, Segments
<1>3. next \in Nat /\ p.seq + p.len <= next /\ next <= w BY <1>1, <1>2, EndOfRunIs
<1>4. t = [s EXCEPT !.rcv_nxt = next, !.rcv_buf = buf, !.recv_list = list]
  BY DEF TakeInOrder
<1> HIDE DEF next
<1>5. seg.seq = p.seq /\ seg.len = next - p.seq /\ next - p.seq \in Nat BY <1>1, <1>3
<1>6. Payload(seg) \in Seq(Nat)
  <2> HIDE DEF seg
  <2>1. seg.seq \in Nat /\ seg.len \in Nat /\ First <= seg.seq BY <1>1, <1>5
  <2> QED BY <2>1, PayloadIs
<1>7. buf \in Seq(Nat) BY <1>6, SockFields, ConcatProperties
<1>8. list \subseteq s.recv_list /\ list \in SUBSET Segments BY <1>2
<1> HIDE DEF buf, list
<1>9. t \in Socks BY <1>3, <1>4, <1>7, <1>8 DEF Socks, Segments
<1>10. /\ t.state = s.state /\ t.snd_nxt = s.snd_nxt /\ t.rcv_nxt = next
       /\ t.rcv_buf = buf /\ t.recv_list = list /\ t.send_list = s.send_list
       /\ t.hashed = s.hashed /\ t.timewait = s.timewait
  BY <1>4 DEF Socks
<1>11. InSendList(t) = InSendList(s) BY <1>10 DEF InSendList
<1>12. Takes(s, p, t, next) BY <1>8, <1>10, <1>11 DEF Takes, buf, seg
<1> QED BY <1>3, <1>9, <1>12

-----------------------------------------------------------------------------
(***************************************************************************)
(* Parts of the invariant that a step leaves alone.                          *)
(***************************************************************************)
LEMMA ClientKept ==
  ASSUME ClientInv, sock'[Client] = sock[Client], pc'[Client] = pc[Client],
         todo' = todo, pend'.pkt = pend.pkt, last' = last
  PROVE  ClientInv'
<1>1. Written' = Written BY DEF Written, First
<1>2. ClosedByClient' = ClosedByClient BY DEF ClosedByClient
<1> QED BY <1>1, <1>2 DEF ClientInv, Written, First

LEMMA ServerKept ==
  ASSUME TcpTypeOK, TcpTypeOK', ServerInv, ClientInv',
         sock'[Server] = sock[Server], pc'[Server] = pc[Server],
         last' = last, delivered' = delivered, Goes
  PROVE  ServerInv'
<1>1. ClosedByServer' = ClosedByServer BY DEF ClosedByServer
<1>2. Written \in Nat /\ Written' \in Nat /\ Written <= Written'
  BY Bounds, BoundsNext DEF Goes
<1>3. sock[Server] \in Socks /\ sock[Server].rcv_nxt \in Nat
      /\ sock[Server].recv_list \subseteq Segments
  BY SocksOf, SockFields DEF Socks, Segments
<1>4. \A g \in sock[Server].recv_list : First <= g.seq /\ g.seq + g.len <= Written'
  <2> SUFFICES ASSUME NEW g \in sock[Server].recv_list PROVE First <= g.seq /\ g.seq + g.len <= Written'
    OBVIOUS
  <2>1. First <= g.seq /\ g.seq + g.len <= Written BY DEF ServerInv
  <2>2. g.seq \in Nat /\ g.len \in Nat BY <1>3, Numbers DEF Segments
  <2> QED BY <2>1, <2>2, <1>2
<1>5. sock[Server].hashed /\ ~last => First <= sock[Server].rcv_nxt /\ sock[Server].rcv_nxt <= Written'
  BY <1>2, <1>3 DEF ServerInv
<1>6. sock[Server].state = "CLOSED" /\ sock[Server].hashed => sock'[Client].rcv_nxt = ISS[Server] + 2
  <2> SUFFICES ASSUME sock[Server].state = "CLOSED", sock[Server].hashed
               PROVE  sock'[Client].rcv_nxt = ISS[Server] + 2
    OBVIOUS
  <2>1. sock[Client].rcv_nxt = ISS[Server] + 2 BY DEF ServerInv
  <2>2. sock'[Client].rcv_nxt \in {0, ISS[Server] + 1, ISS[Server] + 2} BY DEF ClientInv
  <2> QED BY <2>1, <2>2, Numbers DEF Goes
<1>7. last => Written' = Written BY DEF Goes
<1> QED BY <1>1, <1>4, <1>5, <1>6, <1>7 DEF ServerInv, First

LEMMA AcceptKept ==
  ASSUME TcpTypeOK, TcpTypeOK', AcceptInv, Goes, queue' = queue, pc'[Server] = pc[Server],
         wait'["accept"].notified = wait["accept"].notified
  PROVE  AcceptInv'
<1>1. sock[Client].rcv_nxt \in Nat /\ sock'[Client].rcv_nxt \in Nat BY SocksOf, SockFields
<1> QED BY <1>1, Numbers DEF AcceptInv, Goes

LEMMA DataKept ==
  ASSUME DataInv, sock'[Server] = sock[Server], todo' = todo, last' = last,
         delivered' = delivered, skipped' = skipped,
         InSendList(sock'[Client]) = InSendList(sock[Client])
  PROVE  DataInv'
<1>1. Written' = Written BY DEF Written, First
<1>2. Received' = Received BY DEF Received
<1> QED BY <1>1, <1>2 DEF DataInv, First


LEMMA GoesOn ==
  ASSUME TcpTypeOK, sock'[Client].rcv_nxt = sock[Client].rcv_nxt,
         sock'[Server].rcv_nxt = sock[Server].rcv_nxt, todo' = todo,
         ClosedByClient => ClosedByClient', last => last'
  PROVE  Goes
<1>1. Written' = Written BY DEF Written, First
<1>2. Written \in Nat /\ sock[Client].rcv_nxt \in Nat /\ sock[Server].rcv_nxt \in Nat
  BY Bounds, SocksOf, SockFields
<1> QED BY <1>1, <1>2 DEF Goes

LEMMA PacketsKept ==
  ASSUME TcpTypeOK, TcpTypeOK', PacketsTrue, Goes,
         \A p \in FromClient' : p \in FromClient \/ ClientPacket(p)',
         \A p \in FromServer' : p \in FromServer \/ ServerPacket(p)'
  PROVE  PacketsTrue'
BY OldPackets DEF PacketsTrue

-----------------------------------------------------------------------------
(* The programs and their sleeps.                                            *)

Resting ==
  {"to_sleep_connect", "asleep_connect", "write", "compare", "fetch", "to_sleep_send", "asleep_send"}

LEMMA ClientMoves ==
  ASSUME ClientInv, sock' = sock, todo' = todo, pend' = pend, last' = last,
         pc[Client] \in Resting, pc'[Client] \in Resting,
         pc'[Client] \in {"compare", "fetch"} => todo > 0
  PROVE  ClientInv'
<1>1. Written' = Written BY DEF Written, First
<1>2. ~ClosedByClient /\ ~ClosedByClient' /\ pc[Client] \notin {"connect", "advance", "store", "close"}
      /\ pc'[Client] \notin {"connect", "advance", "store", "close"}
      /\ pc'[Client] \in ClientLocations
  BY DEF ClosedByClient, Resting, ClientLocations
<1> QED BY <1>1, <1>2 DEF ClientInv, Written, First

Reading ==
  {"accept", "to_sleep_accept", "asleep_accept", "dequeue", "read", "to_sleep_recv",
   "asleep_recv", "take"}

LEMMA ServerMoves ==
  ASSUME ServerInv, sock' = sock, todo' = todo, last' = last, delivered' = delivered,
         pc[Server] \in Reading, pc'[Server] \in Reading
  PROVE  ServerInv'
<1>1. Written' = Written BY DEF Written, First
<1>2. /\ ~ClosedByServer /\ ~ClosedByServer' /\ pc[Server] # "close" /\ pc'[Server] # "close"
      /\ pc[Server] # "done" /\ pc'[Server] # "done" /\ pc'[Server] \in ServerLocations
  BY DEF ClosedByServer, Reading, ServerLocations
<1> QED BY <1>1, <1>2 DEF ServerInv, Written, First

LEMMA CallPlaces ==
  /\ Caller["connect"] = Client /\ Caller["send"] = Client
  /\ Caller["accept"] = Server /\ Caller["recv"] = Server
  /\ \A c \in Calls : Caller[c] \in End
  /\ \A c \in {"connect", "send"} :
       Sleeping[c] \in Resting /\ Asleep[c] \in Resting /\ After[c] \in Resting
  /\ \A c \in {"accept", "recv"} :
       Sleeping[c] \in Reading /\ Asleep[c] \in Reading /\ After[c] \in Reading
  /\ Sleeping["accept"] = "to_sleep_accept" /\ Asleep["accept"] = "asleep_accept"
  /\ Sleeping["recv"] = "to_sleep_recv" /\ Asleep["recv"] = "asleep_recv"
  /\ \A c \in Calls : Sleeping[c] \in Locations /\ Asleep[c] \in Locations /\ After[c] \in Locations
BY Ends DEF Caller, Calls, Sleeping, Asleep, After, Resting, Reading, Locations

LEMMA WaitTypes ==
  /\ wait_init \in SynchWaits /\ ~wait_init.notified
  /\ \A w \in SynchWaits : SleepOn(w) \in SynchWaits /\ WakeUp(w) \in SynchWaits
  /\ \A w \in SynchWaits : SleepOn(w).notified = w.notified
BY DEF SynchWaits, wait_init, SleepOn, WakeUp

LEMMA SleepKeeps ==
  ASSUME TInv, NEW c \in Calls, sleep_on(c) \/ return_sleep(c)
  PROVE  TInv'
<1>1. /\ sock' = sock /\ net' = net /\ halt' = halt /\ UNCHANGED appVars /\ UNCHANGED inVars
  BY DEF sleep_on, return_sleep, netVars
<1>2. /\ todo' = todo /\ pend' = pend /\ delivered' = delivered /\ held' = held
      /\ queue' = queue /\ last' = last /\ skipped' = skipped
  BY <1>1 DEF appVars, inVars
<1>3. PICK l : /\ pc' = [pc EXCEPT ![Caller[c]] = l]
               /\ \/ pc[Caller[c]] = Sleeping[c] /\ l = Asleep[c] /\ wait' = [wait EXCEPT ![c] = SleepOn(@)]
                  \/ /\ pc[Caller[c]] = Asleep[c] /\ l = After[c] /\ wait' = [wait EXCEPT ![c] = Returned(@)]
                     /\ wait[c].notified
  BY DEF sleep_on, return_sleep, Goto, At, MayReturn
<1>4. /\ TcpTypeOK /\ wait \in [Calls -> SynchWaits] /\ pc \in [End -> Locations]
  BY DEF TInv, TcpTypeOK
<1>5. /\ wait' \in [Calls -> SynchWaits]
      /\ \A d \in Calls : wait'[d].notified => wait[d].notified
  <2>1. PICK w \in SynchWaits : wait' = [wait EXCEPT ![c] = w] /\ (w.notified => wait[c].notified)
    <3>1. wait[c] \in SynchWaits BY <1>4
    <3> QED BY <1>3, <3>1, WaitTypes DEF Returned
  <2> QED BY <2>1, <1>4
<1>6. pc' \in [End -> Locations] BY <1>3, <1>4, CallPlaces
<1>7. TcpTypeOK' BY <1>1, <1>2, <1>4, <1>5, <1>6 DEF TcpTypeOK
<1>8. /\ ClientInv' /\ ServerInv' /\ (ClosedByClient => ClosedByClient')
      /\ pc'[Server] \in {"accept", "to_sleep_accept", "asleep_accept"}
           \/ pc[Server] \notin {"accept", "to_sleep_accept", "asleep_accept"}
           \/ wait["accept"].notified
  <2>1. CASE c \in {"connect", "send"}
    <3>1. /\ pc[Client] \in Resting /\ pc'[Client] \in Resting /\ pc'[Server] = pc[Server]
      BY <2>1, <1>3, <1>4, CallPlaces, Ends
    <3>0. pc'[Client] \notin {"compare", "fetch"}
      BY <2>1, <1>3, <1>4, Ends DEF Caller, Calls, Asleep, After
    <3>2. ClientInv' BY <3>0, <3>1, <1>1, <1>2, ClientMoves DEF TInv
    <3>3. ~ClosedByClient BY <3>1 DEF ClosedByClient, Resting
    <3>4. Goes BY <3>3, <1>1, <1>2, <1>4, GoesOn
    <3>5. ServerInv' BY <3>1, <3>2, <3>4, <1>1, <1>2, <1>4, <1>7, ServerKept DEF TInv
    <3> QED BY <3>1, <3>2, <3>3, <3>5
  <2>2. CASE c \in {"accept", "recv"}
    <3>1. /\ pc[Server] \in Reading /\ pc'[Server] \in Reading /\ pc'[Client] = pc[Client]
      BY <2>2, <1>3, <1>4, CallPlaces, Ends
    <3>2. ClientInv' BY <3>1, <1>1, <1>2, ClientKept DEF TInv
    <3>3. ServerInv' BY <3>1, <1>1, <1>2, ServerMoves DEF TInv
    <3>4. CASE c = "accept"
      <4>1. \/ pc'[Server] \in {"accept", "to_sleep_accept", "asleep_accept"}
            \/ wait["accept"].notified
        <5>1. CASE wait[c].notified BY <5>1, <3>4
        <5>2. CASE ~wait[c].notified
          <6>1. pc' = [pc EXCEPT ![Server] = Asleep[c]] BY <5>2, <3>4, <1>3, CallPlaces
          <6>2. pc'[Server] = "asleep_accept" BY <6>1, <3>4, <1>4, CallPlaces, Ends
          <6> QED BY <6>2
        <5> QED BY <5>1, <5>2
      <4> QED BY <4>1, <3>1, <3>2, <3>3 DEF ClosedByClient
    <3>5. CASE c = "recv" BY <3>5, <3>1, <3>2, <3>3, <1>3, CallPlaces DEF ClosedByClient
    <3> QED BY <3>4, <3>5, <2>2
  <2> QED BY <2>1, <2>2 DEF Calls
<1>9. Goes BY <1>1, <1>2, <1>4, <1>8, GoesOn
<1>10. PacketsTrue'
  <2>1. FromClient' = FromClient /\ FromServer' = FromServer
    BY <1>1, <1>2 DEF FromClient, FromServer
  <2> QED BY <2>1, <1>4, <1>7, <1>9, PacketsKept DEF TInv
<1>11. AcceptInv'
  <2>1. wait'["accept"].notified => wait["accept"].notified BY <1>5 DEF Calls
  <2> QED BY <2>1, <1>1, <1>2, <1>8 DEF AcceptInv, TInv
<1>12. DataInv' BY <1>1, <1>2, DataKept DEF TInv
<1> QED BY <1>7, <1>8, <1>10, <1>11, <1>12 DEF TInv


-----------------------------------------------------------------------------
(* Every step preserves the invariant, action by action.                     *)

LEMMA InitInvariant ==
  ASSUME Init
  PROVE  TInv
<1> DEFINE none == alloc_tcp_sock
<1>1. none \in Socks
  <2>1. 0 \in 0 .. Window /\ <<>> \in Seq(Nat) BY Numbers
  <2> QED BY <2>1 DEF alloc_tcp_sock, Socks, States
<1>2. /\ none.state = "CLOSED" /\ none.snd_nxt = 0 /\ none.rcv_nxt = 0 /\ none.recv_list = {}
      /\ none.send_list = {} /\ none.rcv_buf = <<>> /\ none.hashed = FALSE /\ none.timewait = FALSE
  BY DEF alloc_tcp_sock
<1> HIDE DEF none
<1>3. /\ sock[Client] = none /\ sock[Server] = none /\ net[Client] = {} /\ net[Server] = {}
      /\ pc[Client] = "connect" /\ pc[Server] = "accept"
      /\ wait["accept"] = wait_init /\ todo = Units /\ pend = NoWrite /\ queue = "none"
      /\ last = FALSE /\ delivered = <<>> /\ skipped = {}
  BY Ends DEF Init, Calls, none
<1>4. NoWrite.pkt \in Packets /\ NoWrite \in [pkt : Packets, wnd : 0 .. Window]
  BY Numbers DEF NoWrite, Packets, Flags
<1>5. TcpTypeOK
  <2>1. sock \in [End -> Socks] BY <1>1 DEF Init, none
  <2>2. net \in [End -> SUBSET Packets] BY DEF Init
  <2>3. pc \in [End -> Locations] BY DEF Init, Locations
  <2>4. wait \in [Calls -> SynchWaits] BY WaitTypes DEF Init
  <2>5. halt \in [End -> Halts] BY DEF Init, Halts
  <2>6. todo \in 1 - MSS .. Units BY <1>3, Numbers
  <2>7. delivered \in Seq(Nat) BY <1>3
  <2>8. last \in BOOLEAN /\ held \in BOOLEAN BY DEF Init
  <2> QED BY <1>3, <1>4, <2>1, <2>2, <2>3, <2>4, <2>5, <2>6, <2>7, <2>8 DEF TcpTypeOK
<1>6. InSendList(sock[Client]) = {} /\ InSendList(sock[Server]) = {} BY <1>2, <1>3 DEF InSendList
<1>7. Written = First BY <1>3, Numbers DEF Written
<1>8. PacketsTrue
  <2>1. FromClient = {NoWrite.pkt} /\ FromServer = {} BY <1>3, <1>6 DEF FromClient, FromServer
  <2>2. NoWrite.pkt.flags = "ACK" /\ NoWrite.pkt.ack = 0 /\ NoWrite.pkt.len = 0 BY DEF NoWrite
  <2> QED BY <2>1, <2>2, <1>2, <1>3 DEF PacketsTrue, ClientPacket
<1>9. ClientInv
  <2>1. ~ClosedByClient BY <1>3 DEF ClosedByClient
  <2> QED BY <2>1, <1>2, <1>3 DEF ClientInv, ClientLocations, ClientStates
<1>10. ServerInv
  <2>1. ~ClosedByServer BY <1>3 DEF ClosedByServer
  <2> QED BY <2>1, <1>2, <1>3 DEF ServerInv, ServerLocations, none
<1>11. AcceptInv BY <1>3, WaitTypes DEF AcceptInv
<1>12. DataInv
  <2>1. Received = Whole(Len(Received))
    <3> DEFINE r == Received
               w == Whole(0)
    <3>0. <<>> \o <<>> = <<>> /\ <<>> \in Seq(Nat) /\ Len(<<>>) = 0 BY ConcatEmptySeq, EmptySeq
    <3>1. r = <<>> BY <3>0, <1>2, <1>3 DEF Received
    <3>2. w \in Seq(Nat) /\ Len(w) = 0 BY WholeIs
    <3> HIDE DEF r, w
    <3>3. r = w BY <3>1, <3>2, EmptySeq
    <3> QED BY <3>0, <3>1, <3>3 DEF r, w
  <2>2. First .. Written - 1 = {} BY <1>7, Numbers
  <2>3. Len(Received) = 0
    <3>1. <<>> \o <<>> = <<>> /\ Len(<<>>) = 0 BY ConcatEmptySeq, EmptySeq
    <3> QED BY <3>1, <1>2, <1>3 DEF Received
  <2>4. Len(Received) <= Units - todo BY <2>3, <1>3, Numbers
  <2> QED BY <2>1, <2>2, <2>4, <1>2, <1>3 DEF DataInv
<1> QED BY <1>5, <1>8, <1>9, <1>10, <1>11, <1>12 DEF TInv


(***************************************************************************)
(* A step of the client: what is left to show.                               *)
(***************************************************************************)
OthersKept ==
  /\ last' = last /\ delivered' = delivered /\ skipped' = skipped /\ queue' = queue
  /\ pc'[Server] = pc[Server] /\ wait'["accept"].notified = wait["accept"].notified
  /\ net'[Client] = net[Client]

HeldOrTaken(t) ==
  \A n \in First .. Written - 1 : n \in Covered(InSendList(t)) \/ n < sock[Server].rcv_nxt

LEMMA ReceivedType ==
  ASSUME TcpTypeOK
  PROVE  Received \in Seq(Nat) /\ Len(Received) \in Nat
<1>1. delivered \in Seq(Nat) /\ sock[Server].rcv_buf \in Seq(Nat)
  BY SocksOf, SockFields DEF TcpTypeOK
<1> DEFINE r == Received
<1>2. r \in Seq(Nat) BY <1>1, ConcatProperties DEF Received
<1> HIDE DEF r
<1>3. Len(r) \in Nat BY <1>2, LenProperties
<1> QED BY <1>2, <1>3 DEF r

LEMMA ClientStep ==
  ASSUME TInv, TcpTypeOK', OthersKept, ClientInv',
         sock'[Server] = sock[Server],
         sock[Client].rcv_nxt <= sock'[Client].rcv_nxt,
         Written <= Written', ClosedByClient => ClosedByClient' /\ Written' = Written,
         \A p \in FromClient' : p \in FromClient \/ ClientPacket(p)',
         HeldOrTaken(sock[Client])'
  PROVE  TInv'
<1>1. TcpTypeOK /\ sock[Server] \in Socks /\ sock[Server].rcv_nxt \in Nat
  BY SocksOf, SockFields DEF TInv
<1>2. Goes
  <2>1. last => ClosedByClient BY DEF TInv, ClientInv
  <2> QED BY <1>1, <2>1 DEF Goes, OthersKept
<1>3. FromServer' = FromServer BY DEF FromServer, OthersKept
<1>4. PacketsTrue' BY <1>1, <1>2, <1>3, PacketsKept DEF TInv
<1>5. ServerInv' BY <1>1, <1>2, ServerKept DEF TInv, OthersKept
<1>6. AcceptInv' BY <1>1, <1>2, AcceptKept DEF TInv, OthersKept
<1>7. DataInv'
  <2>1. Received' = Received BY DEF Received, OthersKept
  <2>2. /\ "data" \notin skipped =>
           /\ Received = Whole(Len(Received)) /\ Len(Received) <= Units - todo'
           /\ sock[Server].hashed /\ ~last => Len(Received) = sock[Server].rcv_nxt - First
        /\ skipped = {} /\ last => Len(Received) = Units - todo'
    <3>1. Units - todo <= Units - todo' /\ (last => todo' = todo)
      <4>1. last => ClosedByClient BY DEF TInv, ClientInv
      <4>2. Written - First = Units - todo /\ Written' - First = Units - todo'
            /\ Written \in Nat /\ Written' \in Nat /\ First \in Nat
            /\ todo \in Int /\ todo' \in Int /\ Units \in Nat
        BY <1>1, Bounds, BoundsNext, Numbers
      <4> QED BY <4>1, <4>2
    <3>2. Len(Received) \in Nat /\ todo \in Int /\ todo' \in Int /\ Units \in Nat
      BY <1>1, ReceivedType, Bounds, BoundsNext, Numbers
    <3> QED BY <3>1, <3>2 DEF TInv, DataInv
  <2>3. \A n \in First' .. Written' - 1 :
           n \in Covered(InSendList(sock'[Client])) \/ n < sock'[Server].rcv_nxt
    BY DEF HeldOrTaken
  <2> QED BY <2>1, <2>2, <2>3 DEF DataInv, OthersKept, First
<1> QED BY <1>4, <1>5, <1>6, <1>7 DEF TInv

(***************************************************************************)
(* A step of the server: what is left to show.                               *)
(***************************************************************************)
LEMMA ServerStep ==
  ASSUME TInv, TcpTypeOK', ServerInv', AcceptInv', DataInv',
         sock'[Client] = sock[Client], pc'[Client] = pc[Client], todo' = todo,
         pend'.pkt = pend.pkt, net'[Server] = net[Server],
         sock[Server].rcv_nxt <= sock'[Server].rcv_nxt,
         last => last', last' => ClosedByClient,
         \A p \in FromServer' : p \in FromServer \/ ServerPacket(p)'
  PROVE  TInv'
<1>1. TcpTypeOK /\ sock[Client] \in Socks /\ sock[Client].rcv_nxt \in Nat
  BY SocksOf, SockFields DEF TInv
<1>2. Written' = Written /\ ClosedByClient' = ClosedByClient
  BY DEF Written, First, ClosedByClient
<1>3. Goes BY <1>1, <1>2, Bounds DEF Goes
<1>4. FromClient' = FromClient BY DEF FromClient
<1>5. PacketsTrue' BY <1>1, <1>3, <1>4, PacketsKept DEF TInv
<1>6. ClientInv' BY <1>2 DEF TInv, ClientInv, Written, First
<1> QED BY <1>5, <1>6 DEF TInv

LEMMA ListHolds ==
  ASSUME TInv
  PROVE  HeldOrTaken(sock[Client])
BY DEF TInv, DataInv, HeldOrTaken


LEMMA SendIs ==
  ASSUME TcpTypeOK, NEW e \in End, NEW pkts \in SUBSET Packets, Send(e, pkts)
  PROVE  /\ net' \in [End -> SUBSET Packets]
         /\ e = Client => net'[Client] = net[Client] /\ net'[Server] = net[Server] \cup pkts
         /\ e = Server => net'[Server] = net[Server] /\ net'[Client] = net[Client] \cup pkts
<1>1. net \in [End -> SUBSET Packets] BY DEF TcpTypeOK
<1>2. /\ Client \in End /\ Server \in End /\ Client # Server
      /\ Peer(Client) = Server /\ Peer(Server) = Client
      /\ e = Client \/ e = Server
  BY Ends
<1>3. net' = [net EXCEPT ![Peer(e)] = net[Peer(e)] \cup pkts] BY DEF Send
<1>4. net[Peer(e)] \cup pkts \in SUBSET Packets BY <1>1, <1>2
<1> QED BY <1>1, <1>2, <1>3, <1>4

LEMMA BecomesType ==
  ASSUME TcpTypeOK, NEW e \in End, NEW s \in Socks, sock' = [sock EXCEPT ![e] = s]
  PROVE  /\ sock' \in [End -> Socks] /\ sock'[e] = s
         /\ e = Client => sock'[Server] = sock[Server]
         /\ e = Server => sock'[Client] = sock[Client]
<1>1. sock \in [End -> Socks] BY DEF TcpTypeOK
<1>2. Client \in End /\ Server \in End /\ Client # Server BY Ends
<1> QED BY <1>1, <1>2

LEMMA GotoIs ==
  ASSUME TcpTypeOK, NEW e \in End, NEW l \in Locations, Goto(e, l)
  PROVE  /\ pc' \in [End -> Locations] /\ pc'[e] = l
         /\ e = Client => pc'[Server] = pc[Server]
         /\ e = Server => pc'[Client] = pc[Client]
<1>1. pc \in [End -> Locations] BY DEF TcpTypeOK
<1>2. Client \in End /\ Server \in End /\ Client # Server BY Ends
<1> QED BY <1>1, <1>2 DEF Goto

LEMMA ConnectKeeps ==
  ASSUME TInv, tcp_sock_connect
  PROVE  TInv'
<1> DEFINE c == sock[Client]
           s == [c EXCEPT !.snd_nxt = ISS[Client], !.state = "SYN_SENT", !.hashed = TRUE]
           t == SendFlag(s, "SYN")
           pkt == Segment(s, "SYN", 0)
<1>1. /\ TcpTypeOK /\ Client \in End /\ Server \in End /\ Client # Server
      /\ ISS[Client] \in Nat /\ 0 \in 0 .. MSS
  BY Ends, Numbers DEF TInv
<1>2. c \in Socks BY <1>1, SocksOf
<1>3. /\ pc[Client] = "connect" /\ sock' = [sock EXCEPT ![Client] = t]
      /\ Send(Client, {pkt}) /\ Goto(Client, "to_sleep_connect")
      /\ wait' = wait /\ halt' = halt /\ UNCHANGED appVars /\ UNCHANGED inVars
  BY DEF tcp_sock_connect, At, Becomes, Sleeping
<1>4. /\ todo' = todo /\ pend' = pend /\ delivered' = delivered /\ held' = held
      /\ queue' = queue /\ last' = last /\ skipped' = skipped
  BY <1>3 DEF appVars, inVars
<1>5. c.snd_nxt = 0 /\ c.rcv_nxt = 0 /\ todo = Units /\ c.recv_list = {} /\ ~last
      /\ ~ClosedByClient
  BY <1>3 DEF TInv, ClientInv, ClosedByClient
<1> HIDE DEF c
<1>6. s \in Socks BY <1>1, <1>2 DEF Socks, States
<1>7. /\ s.snd_nxt = ISS[Client] /\ s.state = "SYN_SENT" /\ s.rcv_nxt = 0 /\ s.recv_list = {}
      /\ s.send_list = c.send_list
  BY <1>2, <1>5 DEF Socks
<1> HIDE DEF s
<1>8. "SYN" \in Flags BY DEF Flags
<1>9. /\ t \in Socks /\ t.state = "SYN_SENT" /\ t.snd_nxt = First /\ t.rcv_nxt = 0
      /\ t.recv_list = {} /\ InSendList(t) = InSendList(c) \cup {pkt}
  <2>1. InSendList(s) = InSendList(c) BY <1>7 DEF InSendList
  <2> QED BY <2>1, <1>6, <1>7, <1>8, SendFlagIs DEF ReceiveSame, First
<1>10. pkt \in Packets /\ pkt.flags = "SYN" /\ pkt.seq = ISS[Client] /\ pkt.ack = 0 /\ pkt.len = 0
  <2>1. pkt \in Packets BY <1>1, <1>6, <1>8, SegmentType
  <2> QED BY <2>1, <1>7 DEF Segment
<1> HIDE DEF t, pkt
<1>11. sock'[Client] = t /\ sock'[Server] = sock[Server] /\ sock' \in [End -> Socks]
  BY <1>1, <1>3, <1>9, BecomesType
<1>12. /\ net' \in [End -> SUBSET Packets]
       /\ net'[Client] = net[Client] /\ net'[Server] = net[Server] \cup {pkt}
  BY <1>1, <1>3, <1>10, SendIs
<1>13. /\ pc' \in [End -> Locations] /\ pc'[Client] = "to_sleep_connect"
       /\ pc'[Server] = pc[Server]
  <2>1. "to_sleep_connect" \in Locations BY CallPlaces DEF Locations, Calls, Sleeping
  <2> QED BY <2>1, <1>1, <1>3, GotoIs
<1>14. TcpTypeOK' BY <1>1, <1>3, <1>4, <1>11, <1>12, <1>13 DEF TcpTypeOK
<1>15. Written' = First /\ Written = First BY <1>4, <1>5, Numbers DEF Written, First
<1>16. ClientInv'
  <2>1. ~ClosedByClient' BY <1>13 DEF ClosedByClient
  <2> QED BY <2>1, <1>4, <1>5, <1>9, <1>11, <1>13, <1>15
      DEF ClientInv, ClientLocations, ClientStates
<1>17. \A p \in FromClient' : p \in FromClient \/ ClientPacket(p)'
  <2>1. FromClient' = FromClient \cup {pkt}
    BY <1>4, <1>9, <1>11, <1>12 DEF FromClient, c
  <2>2. ASSUME NEW p, p = pkt PROVE ClientPacket(p)'
    BY <2>2, <1>9, <1>10, <1>11 DEF ClientPacket
  <2> QED BY <2>1, <2>2
<1>18. HeldOrTaken(sock[Client])'
  <2>1. First' .. Written' - 1 = {} BY <1>15, Numbers DEF First
  <2> QED BY <2>1 DEF HeldOrTaken
<1>19. OthersKept BY <1>3, <1>4, <1>12, <1>13 DEF OthersKept
<1>20. Written <= Written' /\ sock[Client].rcv_nxt <= sock'[Client].rcv_nxt
  BY <1>5, <1>9, <1>11, <1>15, Numbers DEF c
<1> QED BY <1>5, <1>11, <1>14, <1>16, <1>17, <1>18, <1>19, <1>20, ClientStep


LEMMA CoveredMore ==
  ASSUME NEW S, NEW T, S \subseteq T
  PROVE  Covered(S) \subseteq Covered(T)
BY DEF Covered

LEMMA SmallestIs ==
  ASSUME NEW a \in Nat, NEW b \in Nat, NEW n, n = Smallest({a, b})
  PROVE  n \in {a, b} /\ n <= a /\ n <= b
<1> DEFINE T == {a, b}
<1>1. T \in SUBSET Nat /\ T # {} OBVIOUS
<1> HIDE DEF T
<1>2. \E x \in T : \A y \in T : x <= y BY <1>1, LeastNumber
<1>3. n = CHOOSE x \in T : \A y \in T : x <= y BY DEF Smallest, T
<1>4. n \in T /\ \A y \in T : n <= y BY <1>2, <1>3
<1> QED BY <1>4 DEF T

\* A look at snd_wnd that only says where the client goes on.
LEMMA LookKeeps ==
  ASSUME TInv, UNCHANGED <<netVars, wait, halt, appVars, inVars>>, NEW l, Goto(Client, l),
         pc[Client] \in Resting, l \in Resting, l \in Locations,
         l \in {"compare", "fetch"} => todo > 0
  PROVE  TInv'
<1>1. /\ TcpTypeOK /\ Client \in End /\ Server \in End /\ Client # Server
      /\ sock[Client].rcv_nxt \in Nat
  BY Ends, SocksOf, SockFields DEF TInv
<1>2. /\ sock' = sock /\ net' = net /\ wait' = wait /\ halt' = halt
      /\ todo' = todo /\ pend' = pend /\ delivered' = delivered /\ held' = held
      /\ queue' = queue /\ last' = last /\ skipped' = skipped
  BY DEF netVars, appVars, inVars
<1>3. pc' \in [End -> Locations] /\ pc'[Client] = l /\ pc'[Server] = pc[Server]
  BY <1>1, GotoIs
<1>4. TcpTypeOK' BY <1>1, <1>2, <1>3 DEF TcpTypeOK
<1>5. ClientInv' BY <1>2, <1>3, ClientMoves DEF TInv
<1>6. Written' = Written BY <1>2 DEF Written, First
<1>7. FromClient' = FromClient BY <1>2 DEF FromClient
<1>8. HeldOrTaken(sock[Client])' BY <1>2, <1>6, ListHolds DEF HeldOrTaken, First
<1>9. OthersKept BY <1>2, <1>3 DEF OthersKept
<1>10. Written <= Written' /\ sock[Client].rcv_nxt <= sock'[Client].rcv_nxt
  BY <1>1, <1>2, <1>6, Bounds
<1>11. ~ClosedByClient BY DEF ClosedByClient, Resting
<1> QED BY <1>2, <1>4, <1>5, <1>7, <1>8, <1>9, <1>10, <1>11, ClientStep

\* The segment, which may be longer than what is left to write, or empty.
LEMMA QueueKeeps ==
  ASSUME TInv, NEW length \in Nat, queue_segment(length), pc[Client] \in {"compare", "fetch"}
  PROVE  TInv'
<1> DEFINE c == sock[Client]
           len == Smallest({length, MSS})
           pkt == Segment(c, "PSH", len)
           t == insert_send(c, pkt)
<1>1. /\ TcpTypeOK /\ Client \in End /\ Server \in End /\ Client # Server
  BY Ends DEF TInv
<1>2. c \in Socks /\ c.snd_nxt \in Nat /\ c.rcv_nxt \in Nat /\ c.snd_wnd \in Nat
  BY <1>1, SocksOf, SockFields, Numbers
<1>3. /\ sock' = [sock EXCEPT ![Client] = t] /\ pend' = [pend EXCEPT !.pkt = pkt]
      /\ todo' = todo - len /\ Goto(Client, "advance")
      /\ net' = net /\ wait' = wait /\ halt' = halt
      /\ held' = held /\ delivered' = delivered /\ UNCHANGED inVars
  BY DEF queue_segment, Becomes
<1>4. queue' = queue /\ last' = last /\ skipped' = skipped BY <1>3 DEF inVars
<1>5. ~ClosedByClient /\ c.snd_nxt = Written /\ todo \in Int /\ todo <= Units /\ todo > 0
  BY <1>1, <1>3, Bounds DEF TInv, ClientInv, ClosedByClient
<1>6. len \in 0 .. MSS /\ len \in Nat
  <2>1. MSS \in Nat BY Numbers
  <2>2. len \in {length, MSS} /\ len <= MSS BY <2>1, SmallestIs
  <2> QED BY <2>1, <2>2
<1> HIDE DEF len, c
<1>7. "PSH" \in Flags /\ len \in 0 .. MSS BY <1>6, Numbers DEF Flags
<1>8. pkt \in Packets BY <1>2, <1>7, SegmentType
<1>9. /\ pkt.flags = "PSH" /\ pkt.seq = c.snd_nxt /\ pkt.len = len /\ pkt.ack = c.rcv_nxt
  BY DEF Segment
<1> HIDE DEF pkt
<1>10. /\ t \in Socks /\ t.state = c.state /\ t.snd_nxt = c.snd_nxt /\ ReceiveSame(c, t)
      /\ InSendList(t) = InSendList(c) \cup {pkt}
  BY <1>2, <1>8, InsertIs
<1> HIDE DEF t
<1>11. sock'[Client] = t /\ sock'[Server] = sock[Server] /\ sock' \in [End -> Socks]
  BY <1>1, <1>3, <1>10, BecomesType
<1>12. /\ pend' \in [pkt : Packets, wnd : 0 .. Window] /\ pend'.pkt = pkt
  BY <1>1, <1>3, <1>8 DEF TcpTypeOK
<1>13. /\ pc' \in [End -> Locations] /\ pc'[Client] = "advance" /\ pc'[Server] = pc[Server]
  <2>1. "advance" \in Locations BY DEF Locations
  <2> QED BY <2>1, <1>1, <1>3, GotoIs
<1>14. todo' \in 1 - MSS .. Units
  <2>1. MSS \in Nat /\ Units \in Nat /\ len <= MSS BY <1>6, Numbers
  <2> QED BY <2>1, <1>3, <1>5, <1>6
<1>15. TcpTypeOK' BY <1>1, <1>3, <1>4, <1>11, <1>12, <1>13, <1>14 DEF TcpTypeOK
<1>16. Written' = Written + len /\ Written \in Nat /\ Written' \in Nat
  <2>1. First \in Nat /\ Units \in Nat BY Numbers
  <2>2. Written = First + Units - todo /\ Written' = First + Units - todo'
    BY DEF Written, First
  <2>3. ASSUME NEW x, NEW y, NEW w, x = y - len, w = First + Units - x, y \in Int, y <= Units
        PROVE  w = (First + Units - y) + len
    BY <2>1, <2>3, <1>6
  <2> QED BY <2>2, <2>3, <1>1, <1>5, <1>3, <1>15, Bounds, BoundsNext
<1>17. ClientInv'
  <2>1. ~ClosedByClient' BY <1>13 DEF ClosedByClient
  <2>2. t.snd_nxt + pkt.len = Written' BY <1>5, <1>9, <1>10, <1>16 DEF c
  <2> QED BY <2>1, <2>2, <1>3, <1>4, <1>5, <1>9, <1>10, <1>11, <1>12, <1>13
      DEF TInv, ClientInv, ClientLocations, ReceiveSame, c
<1>18. \A p \in FromClient' : p \in FromClient \/ ClientPacket(p)'
  <2>1. FromClient' \subseteq FromClient \cup {pkt}
    BY <1>3, <1>10, <1>11, <1>12 DEF FromClient, c
  <2>2. pkt.seq = Written /\ First <= Written /\ First' = First
    BY <1>1, <1>5, <1>9, Bounds DEF c, First
  <2>3. sock'[Client].rcv_nxt = c.rcv_nxt BY <1>10, <1>11 DEF ReceiveSame
  <2>4. ASSUME NEW p, p = pkt PROVE ClientPacket(p)'
    <3>1. p.ack <= sock'[Client].rcv_nxt BY <2>3, <2>4, <1>2, <1>9
    <3>2. p.flags = "PSH" BY <2>4, <1>9
    <3>3. First <= p.seq /\ p.seq + p.len <= Written'
      <4>1. p.seq = Written /\ p.len = len BY <2>2, <2>4, <1>9
      <4>2. Written + len <= Written' BY <1>6, <1>16
      <4> QED BY <4>1, <4>2, <2>2
    <3> QED BY <3>1, <3>2, <3>3, <2>2 DEF ClientPacket
  <2> QED BY <2>1, <2>4
<1>19. HeldOrTaken(sock[Client])'
  <2> SUFFICES ASSUME NEW n \in First .. Written' - 1
               PROVE  n \in Covered(InSendList(t)) \/ n < sock[Server].rcv_nxt
    BY <1>11 DEF HeldOrTaken, First
  <2>1. First \in Nat /\ n \in Nat BY Numbers, <1>16
  <2>2. CASE n < Written
    <3>1. n \in First .. Written - 1 BY <2>1, <2>2, <1>16
    <3>2. n \in Covered(InSendList(c)) \/ n < sock[Server].rcv_nxt
      BY <3>1, ListHolds DEF HeldOrTaken, c
    <3> QED BY <3>2, <1>10, CoveredMore
  <2>3. CASE ~(n < Written)
    <3>1. pkt.seq = Written BY <1>5, <1>9 DEF c
    <3>0. n < Written' /\ Written' = Written + len /\ Written \in Nat
      BY <2>1, <1>16
    <3>2. n \in pkt.seq .. pkt.seq + pkt.len - 1
      <4>1. ASSUME NEW w, w = pkt.seq, w = Written PROVE n \in w .. w + len - 1
        BY <4>1, <3>0, <2>1, <2>3, <1>6
      <4> QED BY <4>1, <3>1, <1>9
    <3> QED BY <3>2, <1>10 DEF Covered
  <2> QED BY <2>2, <2>3
<1>20. OthersKept BY <1>3, <1>4, <1>13 DEF OthersKept
<1>21. Written <= Written' /\ sock[Client].rcv_nxt <= sock'[Client].rcv_nxt
  BY <1>2, <1>6, <1>10, <1>11, <1>16 DEF ReceiveSame, c
<1> QED BY <1>5, <1>11, <1>15, <1>17, <1>18, <1>19, <1>20, <1>21, ClientStep

LEMMA WriteKeeps ==
  ASSUME TInv, tcp_sock_write \/ compare \/ fetch
  PROVE  TInv'
<1>1. /\ sock[Client].snd_wnd \in Nat /\ todo \in Int
  BY SocksOf, SockFields, Bounds, Numbers DEF TInv
<1>2. /\ {"write", "compare", "fetch", "to_sleep_send"} \subseteq Resting
      /\ {"compare", "fetch", "to_sleep_send"} \subseteq Locations
      /\ Sleeping["send"] = "to_sleep_send"
  BY CallPlaces DEF Resting, Locations, Sleeping, Calls
<1>3. CASE tcp_sock_write
  <2>1. PICK l \in {"compare", "to_sleep_send"} : Goto(Client, l)
    BY <1>2, <1>3 DEF tcp_sock_write
  <2>2. /\ pc[Client] = "write" /\ todo > 0 /\ UNCHANGED <<netVars, wait, halt, appVars, inVars>>
    BY <1>3 DEF tcp_sock_write, At
  <2>3. l \in Resting /\ l \in Locations BY <2>1, <1>2
  <2> QED BY <2>1, <2>2, <2>3, <1>2, LookKeeps
<1>4. CASE compare
  <2>1. pc[Client] = "compare" BY <1>4 DEF compare, At
  <2>2. todo \in Nat BY <2>1, <1>1 DEF TInv, ClientInv
  <2>3. CASE queue_segment(todo) BY <2>1, <2>2, <2>3, QueueKeeps
  <2>4. CASE Goto(Client, "fetch") /\ UNCHANGED <<netVars, wait, halt, appVars, inVars>>
    <3>1. todo > 0 BY <2>1 DEF TInv, ClientInv
    <3> QED BY <3>1, <2>1, <2>4, <1>2, LookKeeps
  <2> QED BY <1>4, <2>3, <2>4 DEF compare
<1>5. CASE fetch
  <2>1. pc[Client] = "fetch" /\ queue_segment(sock[Client].snd_wnd) BY <1>5 DEF fetch, At
  <2> QED BY <2>1, <1>1, QueueKeeps
<1> QED BY <1>3, <1>4, <1>5

LEMMA AdvanceKeeps ==
  ASSUME TInv, advance
  PROVE  TInv'
<1> DEFINE c == sock[Client]
           len == pend.pkt.len
           t == [c EXCEPT !.snd_nxt = c.snd_nxt + len]
           wnd == Wrapped(c.snd_wnd + (Window + 1) - len)
<1>1. /\ TcpTypeOK /\ Client \in End /\ Server \in End /\ Client # Server
  BY Ends DEF TInv
<1>2. c \in Socks /\ c.snd_nxt \in Nat /\ c.rcv_nxt \in Nat /\ c.snd_wnd \in Nat
  BY <1>1, SocksOf, SockFields, Numbers
<1>3. /\ pc[Client] = "advance" /\ sock' = [sock EXCEPT ![Client].snd_nxt = @ + pend.pkt.len]
      /\ pend' = [pend EXCEPT !.wnd = wnd] /\ Goto(Client, "store")
      /\ net' = net /\ wait' = wait /\ halt' = halt /\ todo' = todo
      /\ held' = held /\ delivered' = delivered /\ UNCHANGED inVars
  BY DEF advance, At
<1>4. queue' = queue /\ last' = last /\ skipped' = skipped BY <1>3 DEF inVars
<1>5. sock' = [sock EXCEPT ![Client] = t] BY <1>1, <1>3 DEF TcpTypeOK
<1>6. pend \in [pkt : Packets, wnd : 0 .. Window] /\ len \in 0 .. MSS /\ len \in Nat
  <2>1. pend \in [pkt : Packets, wnd : 0 .. Window] BY <1>1 DEF TcpTypeOK
  <2>2. pend.pkt \in Packets BY <2>1
  <2> QED BY <2>1, <2>2, PacketFields
<1>7. ~ClosedByClient /\ c.snd_nxt + len = Written /\ pend.pkt.flags = "PSH"
  BY <1>3 DEF TInv, ClientInv, ClosedByClient
<1> HIDE DEF len, c
<1>8. wnd \in 0 .. Window
  <2>1. c.snd_wnd + (Window + 1) - len \in Nat BY <1>2, <1>6, Numbers
  <2> QED BY <2>1, WrappedType
<1> HIDE DEF wnd
<1>9. /\ t \in Socks /\ t.snd_nxt = c.snd_nxt + len /\ t.state = c.state
      /\ t.send_list = c.send_list /\ ReceiveSame(c, t)
  <2>1. c.snd_nxt + len \in Nat BY <1>2, <1>6
  <2> QED BY <2>1, <1>2 DEF Socks, ReceiveSame
<1>10. InSendList(t) = InSendList(c) BY <1>9 DEF InSendList
<1> HIDE DEF t
<1>11. sock'[Client] = t /\ sock'[Server] = sock[Server] /\ sock' \in [End -> Socks]
  BY <1>1, <1>5, <1>9, BecomesType
<1>12. pend' \in [pkt : Packets, wnd : 0 .. Window] /\ pend'.pkt = pend.pkt
  BY <1>3, <1>6, <1>8
<1>13. /\ pc' \in [End -> Locations] /\ pc'[Client] = "store" /\ pc'[Server] = pc[Server]
  <2>1. "store" \in Locations BY DEF Locations
  <2> QED BY <2>1, <1>1, <1>3, GotoIs
<1>14. TcpTypeOK' BY <1>1, <1>3, <1>4, <1>11, <1>12, <1>13 DEF TcpTypeOK
<1>15. Written' = Written /\ Written \in Nat BY <1>1, <1>3, Bounds DEF Written, First
<1>16. ClientInv'
  <2>1. ~ClosedByClient' BY <1>13 DEF ClosedByClient
  <2> QED BY <2>1, <1>3, <1>4, <1>7, <1>9, <1>11, <1>12, <1>13, <1>15
      DEF TInv, ClientInv, ClientLocations, ReceiveSame, c
<1>17. FromClient' = FromClient BY <1>3, <1>10, <1>11, <1>12 DEF FromClient, c
<1>18. HeldOrTaken(sock[Client])'
  BY <1>10, <1>11, <1>15, ListHolds DEF HeldOrTaken, First, c
<1>19. OthersKept BY <1>3, <1>4, <1>13 DEF OthersKept
<1>20. Written <= Written' /\ sock[Client].rcv_nxt <= sock'[Client].rcv_nxt
  BY <1>2, <1>9, <1>11, <1>15 DEF ReceiveSame, c
<1> QED BY <1>7, <1>11, <1>14, <1>16, <1>17, <1>18, <1>19, <1>20, ClientStep

LEMMA StoreKeeps ==
  ASSUME TInv, store
  PROVE  TInv'
<1> DEFINE c == sock[Client]
           t == [c EXCEPT !.snd_wnd = pend.wnd]
<1>1. /\ TcpTypeOK /\ Client \in End /\ Server \in End /\ Client # Server
  BY Ends DEF TInv
<1>2. c \in Socks /\ c.snd_nxt \in Nat /\ c.rcv_nxt \in Nat
  BY <1>1, SocksOf, SockFields, Numbers
<1>3. /\ pc[Client] = "store" /\ sock' = [sock EXCEPT ![Client].snd_wnd = pend.wnd]
      /\ pend' = NoWrite /\ Goto(Client, "write") /\ Send(Client, {pend.pkt})
      /\ wait' = wait /\ halt' = halt /\ todo' = todo
      /\ held' = held /\ delivered' = delivered /\ UNCHANGED inVars
  BY DEF store, At
<1>4. queue' = queue /\ last' = last /\ skipped' = skipped BY <1>3 DEF inVars
<1>5. sock' = [sock EXCEPT ![Client] = t] BY <1>1, <1>3 DEF TcpTypeOK
<1>6. pend \in [pkt : Packets, wnd : 0 .. Window] /\ pend.pkt \in Packets
  BY <1>1 DEF TcpTypeOK
<1>7. ~ClosedByClient /\ c.snd_nxt = Written
  BY <1>3 DEF TInv, ClientInv, ClosedByClient
<1> HIDE DEF c
<1>9. /\ t \in Socks /\ t.snd_nxt = c.snd_nxt /\ t.state = c.state
      /\ t.send_list = c.send_list /\ ReceiveSame(c, t)
  BY <1>2, <1>6 DEF Socks, ReceiveSame
<1>10. InSendList(t) = InSendList(c) BY <1>9 DEF InSendList
<1> HIDE DEF t
<1>11. sock'[Client] = t /\ sock'[Server] = sock[Server] /\ sock' \in [End -> Socks]
  BY <1>1, <1>5, <1>9, BecomesType
<1>12. /\ NoWrite \in [pkt : Packets, wnd : 0 .. Window] /\ NoWrite.pkt.flags = "ACK"
       /\ NoWrite.pkt.ack = 0 /\ NoWrite.pkt.len = 0
  BY Numbers DEF NoWrite, Packets, Flags
<1>13. /\ pc' \in [End -> Locations] /\ pc'[Client] = "write" /\ pc'[Server] = pc[Server]
  <2>1. "write" \in Locations BY DEF Locations
  <2> QED BY <2>1, <1>1, <1>3, GotoIs
<1>14. /\ net' \in [End -> SUBSET Packets]
       /\ net'[Client] = net[Client] /\ net'[Server] = net[Server] \cup {pend.pkt}
  BY <1>1, <1>3, <1>6, SendIs
<1>15. TcpTypeOK' BY <1>1, <1>3, <1>4, <1>11, <1>12, <1>13, <1>14 DEF TcpTypeOK
<1>16. Written' = Written /\ Written \in Nat BY <1>1, <1>3, Bounds DEF Written, First
<1>17. ClientInv'
  <2>1. ~ClosedByClient' BY <1>13 DEF ClosedByClient
  <2> QED BY <2>1, <1>3, <1>4, <1>7, <1>9, <1>11, <1>13, <1>16
      DEF TInv, ClientInv, ClientLocations, ReceiveSame, c
<1>18. \A p \in FromClient' : p \in FromClient \/ ClientPacket(p)'
  <2>1. FromClient' \subseteq FromClient \cup {NoWrite.pkt}
    BY <1>3, <1>10, <1>11, <1>14 DEF FromClient, c
  <2>2. sock'[Client].rcv_nxt \in Nat BY <1>2, <1>9, <1>11 DEF ReceiveSame
  <2>3. ASSUME NEW p, p = NoWrite.pkt PROVE ClientPacket(p)'
    BY <2>2, <2>3, <1>12 DEF ClientPacket
  <2> QED BY <2>1, <2>3
<1>19. HeldOrTaken(sock[Client])'
  BY <1>10, <1>11, <1>16, ListHolds DEF HeldOrTaken, First, c
<1>20. OthersKept BY <1>3, <1>4, <1>13, <1>14 DEF OthersKept
<1>21. Written <= Written' /\ sock[Client].rcv_nxt <= sock'[Client].rcv_nxt
  BY <1>2, <1>9, <1>11, <1>16 DEF ReceiveSame, c
<1> QED BY <1>7, <1>11, <1>15, <1>17, <1>18, <1>19, <1>20, <1>21, ClientStep

LEMMA WrittenKeeps ==
  ASSUME TInv, written
  PROVE  TInv'
<1>1. /\ TcpTypeOK /\ Client \in End /\ Server \in End /\ Client # Server
      /\ sock[Client].rcv_nxt \in Nat
  BY Ends, SocksOf, SockFields DEF TInv
<1>2. /\ pc[Client] = "write" /\ todo <= 0 /\ Goto(Client, "close")
      /\ sock' = sock /\ net' = net /\ wait' = wait /\ halt' = halt
      /\ UNCHANGED appVars /\ UNCHANGED inVars
  BY DEF written, At, netVars
<1>3. /\ todo' = todo /\ pend' = pend /\ delivered' = delivered /\ held' = held
      /\ queue' = queue /\ last' = last /\ skipped' = skipped
  BY <1>2 DEF appVars, inVars
<1>4. /\ pc' \in [End -> Locations] /\ pc'[Client] = "close" /\ pc'[Server] = pc[Server]
  <2>1. "close" \in Locations BY DEF Locations
  <2> QED BY <2>1, <1>1, <1>2, GotoIs
<1>5. TcpTypeOK' BY <1>1, <1>2, <1>3, <1>4 DEF TcpTypeOK
<1>6. Written' = Written /\ Written \in Nat BY <1>1, <1>3, Bounds DEF Written, First
<1>7. ~ClosedByClient /\ ~ClosedByClient' BY <1>2, <1>4 DEF ClosedByClient
<1>8. ClientInv'
  BY <1>2, <1>3, <1>4, <1>6, <1>7 DEF TInv, ClientInv, ClientLocations
<1>9. FromClient' = FromClient BY <1>2, <1>3 DEF FromClient
<1>10. HeldOrTaken(sock[Client])' BY <1>2, <1>6, ListHolds DEF HeldOrTaken, First
<1>11. OthersKept BY <1>2, <1>3, <1>4 DEF OthersKept
<1> QED BY <1>1, <1>2, <1>5, <1>6, <1>7, <1>8, <1>9, <1>10, <1>11, ClientStep


(***************************************************************************)
(* A step that changes the state of the client, and what it holds, alone.    *)
(***************************************************************************)
StateTrue(x) ==
  /\ x \in ClientStates
  /\ x = "SYN_SENT" => sock[Client].rcv_nxt = 0
  /\ x \notin {"CLOSED", "SYN_SENT"} => sock[Client].rcv_nxt > ISS[Server]
  /\ x \in {"FIN_WAIT_1", "FIN_WAIT_2", "TIME_WAIT"} => ClosedByClient
  /\ x \in {"CLOSE_WAIT", "FIN_WAIT_2", "TIME_WAIT"} => last

LEMMA ClientQuiet ==
  ASSUME TInv, TcpTypeOK', OthersKept, NEW c, NEW t, c = sock[Client], t = sock'[Client],
         sock'[Server] = sock[Server], pc'[Client] = pc[Client], todo' = todo,
         pend'.pkt = pend.pkt,
         t.snd_nxt = c.snd_nxt, t.rcv_nxt = c.rcv_nxt, t.recv_list = c.recv_list,
         StateTrue(t.state), pc[Client] = "connect" => t.state = "CLOSED" /\ ~t.hashed,
         \A p \in FromClient' : p \in FromClient \/ ClientPacket(p)',
         HeldOrTaken(t)
  PROVE  TInv'
<1>1. TcpTypeOK /\ c \in Socks /\ c.rcv_nxt \in Nat BY SocksOf, SockFields DEF TInv
<1>2. Written' = Written /\ Written \in Nat BY <1>1, Bounds DEF Written, First
<1>3. ClosedByClient' = ClosedByClient BY DEF ClosedByClient
<1>4. ClientInv'
  BY <1>2, <1>3 DEF TInv, ClientInv, StateTrue, OthersKept, Written, First
<1>5. HeldOrTaken(sock[Client])' BY <1>2 DEF HeldOrTaken, First
<1> QED BY <1>1, <1>2, <1>3, <1>4, <1>5, ClientStep

LEMMA StateStays ==
  ASSUME TInv
  PROVE  /\ StateTrue(sock[Client].state) /\ StateTrue("CLOSED")
         /\ pc[Client] = "connect" => sock[Client].state = "CLOSED" /\ ~sock[Client].hashed
BY DEF TInv, ClientInv, StateTrue, ClientStates

(***************************************************************************)
(* A step of the server that changes only what it holds.                     *)
(***************************************************************************)
LEMMA ServerQuiet ==
  ASSUME TInv, TcpTypeOK', NEW s, NEW t, s = sock[Server], t = sock'[Server],
         s.hashed \/ t = s, t.state = s.state, t.snd_nxt = s.snd_nxt, ReceiveSame(s, t),
         sock'[Client] = sock[Client], pc' = pc, todo' = todo, pend'.pkt = pend.pkt,
         net'[Server] = net[Server], last' = last, delivered' = delivered,
         skipped' = skipped, queue' = queue,
         wait'["accept"].notified = wait["accept"].notified,
         \A p \in FromServer' : p \in FromServer \/ ServerPacket(p)'
  PROVE  TInv'
<1>1. TcpTypeOK /\ s \in Socks /\ s.rcv_nxt \in Nat BY SocksOf, SockFields DEF TInv
<1>2. Written' = Written /\ ClosedByServer' = ClosedByServer
  BY DEF Written, First, ClosedByServer
<1>3. ServerInv'
  BY <1>2 DEF TInv, ServerInv, ReceiveSame, Written, First
<1>4. AcceptInv' BY DEF TInv, AcceptInv
<1>5. DataInv'
  <2>1. Received' = Received BY DEF Received, ReceiveSame
  <2> QED BY <1>2, <2>1 DEF TInv, DataInv, First, ReceiveSame
<1>6. last => ClosedByClient BY DEF TInv, ClientInv
<1>7. s.rcv_nxt <= t.rcv_nxt BY <1>1 DEF ReceiveSame
<1> QED BY <1>3, <1>4, <1>5, <1>6, <1>7, ServerStep

\* Some segment of a list is ahead of the others: one with the least number, of
\* those one of the least length, and of those one that was sent most often.
LEMMA SomeAhead ==
  ASSUME NEW list, list \subseteq [pkt : Packets, num : 0 .. MaxTries], list # {}
  PROVE  \E x \in list : \A y \in list : Ahead(x, y)
<1>1. \A x \in list : x.pkt.seq \in Nat /\ x.pkt.len \in Nat /\ x.num \in Nat /\ x.num <= MaxTries
  BY PacketFields, Numbers
<1> DEFINE seqs == {x.pkt.seq : x \in list}
<1>2. PICK n \in seqs : \A m \in seqs : n <= m
  <2>1. seqs \in SUBSET Nat /\ seqs # {} BY <1>1
  <2> HIDE DEF seqs
  <2> QED BY <2>1, LeastNumber
<1> DEFINE lens == {x.pkt.len : x \in {y \in list : y.pkt.seq = n}}
<1>3. PICK l \in lens : \A m \in lens : l <= m
  <2>1. lens \in SUBSET Nat /\ lens # {} BY <1>1, <1>2
  <2> HIDE DEF lens
  <2> QED BY <2>1, LeastNumber
<1> DEFINE rest == {MaxTries - x.num : x \in {y \in list : y.pkt.seq = n /\ y.pkt.len = l}}
<1>4. PICK k \in rest : \A m \in rest : k <= m
  <2>1. rest \in SUBSET Nat /\ rest # {} BY <1>1, <1>2, <1>3, Numbers
  <2> HIDE DEF rest
  <2> QED BY <2>1, LeastNumber
<1>5. PICK x \in list : x.pkt.seq = n /\ x.pkt.len = l /\ k = MaxTries - x.num BY <1>4
<1>6. ASSUME NEW y \in list PROVE Ahead(x, y)
  <2>1. n <= y.pkt.seq BY <1>2
  <2>2. y.pkt.seq = n => l <= y.pkt.len BY <1>3
  <2>3. y.pkt.seq = n /\ y.pkt.len = l => MaxTries - x.num <= MaxTries - y.num BY <1>4, <1>5
  <2>4. /\ x.pkt.seq \in Nat /\ x.pkt.len \in Nat /\ x.num \in Nat
        /\ y.pkt.seq \in Nat /\ y.pkt.len \in Nat /\ y.num \in Nat /\ MaxTries \in Nat
    BY <1>1, Numbers
  <2>5. y.pkt.seq = n /\ y.pkt.len = l => y.num <= x.num BY <2>3, <2>4
  <2> HIDE DEF seqs, lens, rest
  <2> QED BY <1>5, <2>1, <2>2, <2>4, <2>5 DEF Ahead
<1> QED BY <1>6

LEMMA RetryIs ==
  ASSUME NEW s \in Socks, s.send_list # {}, NEW b, b = Oldest(s.send_list)
  PROVE  /\ b \in [pkt : Packets, num : 0 .. MaxTries] /\ b.pkt \in InSendList(s)
         /\ b.num < MaxTries =>
              \A t : t = [s EXCEPT !.send_list = (@ \ {b}) \cup {[b EXCEPT !.num = @ + 1]}] =>
                /\ t \in Socks /\ t.state = s.state /\ t.snd_nxt = s.snd_nxt /\ ReceiveSame(s, t)
                /\ InSendList(t) = InSendList(s)
<1> DEFINE list == s.send_list
<1>1. list \subseteq [pkt : Packets, num : 0 .. MaxTries] BY SockFields
<1>2. b \in list
  <2>1. \E x \in list : \A y \in list : Ahead(x, y)
    BY <1>1, SomeAhead
  <2>2. b = CHOOSE x \in list : \A y \in list : Ahead(x, y) BY DEF Oldest, list
  <2> HIDE DEF list
  <2> QED BY <2>1, <2>2
<1>3. b \in [pkt : Packets, num : 0 .. MaxTries] /\ b.pkt \in InSendList(s)
  BY <1>1, <1>2 DEF InSendList
<1>4. ASSUME b.num < MaxTries, NEW t,
             t = [s EXCEPT !.send_list = (@ \ {b}) \cup {[b EXCEPT !.num = @ + 1]}]
      PROVE  /\ t \in Socks /\ t.state = s.state /\ t.snd_nxt = s.snd_nxt /\ ReceiveSame(s, t)
             /\ InSendList(t) = InSendList(s)
  <2> DEFINE d == [b EXCEPT !.num = b.num + 1]
             more == (list \ {b}) \cup {d}
  <2>1. d \in [pkt : Packets, num : 0 .. MaxTries] /\ d.pkt = b.pkt
    <3>1. b.num + 1 \in 0 .. MaxTries BY <1>3, <1>4, Numbers
    <3> QED BY <3>1, <1>3
  <2>2. t = [s EXCEPT !.send_list = more] BY <1>4
  <2> HIDE DEF d
  <2>3. more \subseteq [pkt : Packets, num : 0 .. MaxTries] BY <1>1, <2>1
  <2>4. {x.pkt : x \in more} = {x.pkt : x \in list} BY <1>2, <2>1
  <2> HIDE DEF more
  <2>5. t \in Socks BY <2>2, <2>3 DEF Socks
  <2>6. t.send_list = more BY <2>2 DEF Socks
  <2>7. t.state = s.state /\ t.snd_nxt = s.snd_nxt /\ ReceiveSame(s, t)
    BY <2>2 DEF Socks, ReceiveSame
  <2> QED BY <2>4, <2>5, <2>6, <2>7 DEF InSendList
<1> QED BY <1>3, <1>4


\* A step after which the stack of an end has stopped, and at most others are woken.
LEMMA StopKeeps ==
  ASSUME TInv, sock' = sock, net' = net, pc' = pc, halt' \in [End -> Halts],
         UNCHANGED appVars, UNCHANGED inVars, wait' \in [Calls -> SynchWaits],
         wait'["accept"].notified = wait["accept"].notified
  PROVE  TInv'
<1>1. /\ todo' = todo /\ pend' = pend /\ delivered' = delivered /\ held' = held
      /\ queue' = queue /\ last' = last /\ skipped' = skipped
  BY DEF appVars, inVars
<1>2. TcpTypeOK' BY <1>1 DEF TInv, TcpTypeOK
<1>3. FromServer' = FromServer BY DEF FromServer
<1> QED BY <1>1, <1>2, <1>3, ServerQuiet DEF ReceiveSame

LEMMA HaltIs ==
  ASSUME TcpTypeOK, NEW e \in End, NEW how \in Halts, Halt(e, how)
  PROVE  halt' \in [End -> Halts]
BY DEF TcpTypeOK, Halt

LEMMA CloseClientKeeps ==
  ASSUME TInv, tcp_sock_close(Client)
  PROVE  TInv'
<1> DEFINE c == sock[Client]
           t == SendFlag(c, "FIN")
           pkt == Segment(c, "FIN", 0)
<1>1. /\ TcpTypeOK /\ Client \in End /\ Server \in End /\ Client # Server /\ 0 \in 0 .. MSS
  BY Ends, Numbers DEF TInv
<1>2. c \in Socks /\ c.snd_nxt \in Nat /\ c.rcv_nxt \in Nat
  BY <1>1, SocksOf, SockFields
<1>3. /\ pc[Client] = "close" /\ c.state \in {"ESTABLISHED", "CLOSE_WAIT"}
      /\ sock' = [sock EXCEPT ![Client] = t] /\ Send(Client, {pkt})
      /\ Goto(Client, Closing[CloseTarget(c.state)])
      /\ wait' = wait /\ halt' = halt /\ UNCHANGED appVars /\ UNCHANGED inVars
  BY DEF tcp_sock_close, At, Becomes
<1>4. /\ todo' = todo /\ pend' = pend /\ delivered' = delivered /\ held' = held
      /\ queue' = queue /\ last' = last /\ skipped' = skipped
  BY <1>3 DEF appVars, inVars
<1>5. ~ClosedByClient /\ todo <= 0 /\ c.snd_nxt = Written /\ ~last /\ c.state = "ESTABLISHED"
      /\ Written = Written /\ c.rcv_nxt > ISS[Server]
  <2>1. ~ClosedByClient BY <1>3 DEF ClosedByClient
  <2>2. todo <= 0 /\ c.snd_nxt = Written /\ ~last /\ c.state = "ESTABLISHED"
        /\ c.rcv_nxt > ISS[Server]
    BY <2>1, <1>3 DEF TInv, ClientInv
  <2> QED BY <2>1, <2>2, <1>1, Bounds
<1>6. Goto(Client, "to_fin_wait_1") BY <1>3, <1>5 DEF Closing, CloseTarget
<1> HIDE DEF c
<1>7. "FIN" \in Flags BY DEF Flags
<1>8. /\ t \in Socks /\ t.state = c.state /\ t.snd_nxt = c.snd_nxt + 1
      /\ InSendList(t) = InSendList(c) \cup {pkt} /\ ReceiveSame(c, t)
  BY <1>2, <1>7, SendFlagIs
<1>9. pkt \in Packets /\ pkt.flags = "FIN" /\ pkt.seq = Written /\ pkt.ack = c.rcv_nxt
      /\ pkt.len = 0
  <2>1. pkt \in Packets BY <1>1, <1>2, <1>7, SegmentType
  <2> QED BY <2>1, <1>5 DEF Segment, c
<1> HIDE DEF t, pkt
<1>10. sock'[Client] = t /\ sock'[Server] = sock[Server] /\ sock' \in [End -> Socks]
  BY <1>1, <1>3, <1>8, BecomesType
<1>11. /\ net' \in [End -> SUBSET Packets]
       /\ net'[Client] = net[Client] /\ net'[Server] = net[Server] \cup {pkt}
  BY <1>1, <1>3, <1>9, SendIs
<1>12. /\ pc' \in [End -> Locations] /\ pc'[Client] = "to_fin_wait_1" /\ pc'[Server] = pc[Server]
  <2>1. "to_fin_wait_1" \in Locations BY DEF Locations, Closing
  <2> QED BY <2>1, <1>1, <1>6, GotoIs
<1>13. TcpTypeOK' BY <1>1, <1>3, <1>4, <1>10, <1>11, <1>12 DEF TcpTypeOK
<1>14. Written' = Written /\ Written \in Nat BY <1>1, <1>4, Bounds DEF Written, First
<1>15. ClosedByClient' BY <1>12 DEF ClosedByClient
<1>16. ClientInv'
  <2>1. t.snd_nxt = Written + 1 /\ t.rcv_nxt = c.rcv_nxt /\ t.recv_list = c.recv_list
    BY <1>5, <1>8 DEF c, ReceiveSame
  <2> QED BY <2>1, <1>3, <1>4, <1>5, <1>8, <1>10, <1>12, <1>15
      DEF TInv, ClientInv, ClientLocations, ClientStates, Written, First, c
<1>17. \A p \in FromClient' : p \in FromClient \/ ClientPacket(p)'
  <2>1. FromClient' \subseteq FromClient \cup {pkt}
    BY <1>4, <1>8, <1>10, <1>11 DEF FromClient, c
  <2>2. sock'[Client].rcv_nxt = c.rcv_nxt BY <1>8, <1>10 DEF ReceiveSame
  <2>3. ASSUME NEW p, p = pkt PROVE ClientPacket(p)'
    BY <2>2, <2>3, <1>2, <1>9, <1>14, <1>15 DEF ClientPacket, First
  <2> QED BY <2>1, <2>3
<1>18. HeldOrTaken(sock[Client])'
  <2>1. Covered(InSendList(c)) \subseteq Covered(InSendList(t)) BY <1>8, CoveredMore
  <2> QED BY <2>1, <1>10, <1>14, ListHolds DEF HeldOrTaken, First, c
<1>19. OthersKept BY <1>3, <1>4, <1>11, <1>12 DEF OthersKept
<1>20. Written <= Written' /\ sock[Client].rcv_nxt <= sock'[Client].rcv_nxt
  BY <1>2, <1>8, <1>10, <1>14 DEF ReceiveSame, c
<1> QED BY <1>10, <1>13, <1>14, <1>15, <1>16, <1>17, <1>18, <1>19, <1>20, ClientStep

LEMMA SetClosingClientKeeps ==
  ASSUME TInv, set_closing(Client)
  PROVE  TInv'
<1> DEFINE c == sock[Client]
           t == [c EXCEPT !.state = "FIN_WAIT_1"]
<1>1. /\ TcpTypeOK /\ Client \in End /\ Server \in End /\ Client # Server
  BY Ends DEF TInv
<1>2. c \in Socks /\ c.snd_nxt \in Nat /\ c.rcv_nxt \in Nat
  BY <1>1, SocksOf, SockFields
<1>3. /\ Goto(Client, "done") /\ net' = net
      /\ wait' = wait /\ halt' = halt /\ UNCHANGED appVars /\ UNCHANGED inVars
  BY DEF set_closing
<1>4. /\ todo' = todo /\ pend' = pend /\ delivered' = delivered /\ held' = held
      /\ queue' = queue /\ last' = last /\ skipped' = skipped
  BY <1>3 DEF appVars, inVars
<1>5. pc[Client] = "to_fin_wait_1" /\ sock' = [sock EXCEPT ![Client].state = "FIN_WAIT_1"]
  <2>1. PICK x \in {"FIN_WAIT_1", "LAST_ACK"} :
          pc[Client] = Closing[x] /\ sock' = [sock EXCEPT ![Client].state = x]
    BY DEF set_closing, At
  <2>2. pc[Client] # "to_last_ack" BY DEF TInv, ClientInv, ClientLocations
  <2>3. Closing["LAST_ACK"] = "to_last_ack" /\ Closing["FIN_WAIT_1"] = "to_fin_wait_1"
    BY DEF Closing
  <2>4. x = "FIN_WAIT_1" BY <2>1, <2>2, <2>3
  <2> QED BY <2>1, <2>3, <2>4
<1>6. sock' = [sock EXCEPT ![Client] = t] BY <1>1, <1>5 DEF TcpTypeOK
<1>7. /\ t \in Socks /\ t.state = "FIN_WAIT_1" /\ t.snd_nxt = c.snd_nxt
      /\ t.send_list = c.send_list /\ ReceiveSame(c, t)
  BY <1>2 DEF Socks, States, ReceiveSame
<1>8. InSendList(t) = InSendList(c) BY <1>7 DEF InSendList
<1> HIDE DEF c, t
<1>9. sock'[Client] = t /\ sock'[Server] = sock[Server] /\ sock' \in [End -> Socks]
  BY <1>1, <1>6, <1>7, BecomesType
<1>10. /\ pc' \in [End -> Locations] /\ pc'[Client] = "done" /\ pc'[Server] = pc[Server]
  <2>1. "done" \in Locations BY DEF Locations
  <2> QED BY <2>1, <1>1, <1>3, GotoIs
<1>11. TcpTypeOK' BY <1>1, <1>3, <1>4, <1>9, <1>10 DEF TcpTypeOK
<1>12. Written' = Written /\ Written \in Nat BY <1>1, <1>4, Bounds DEF Written, First
<1>13. ClosedByClient /\ ClosedByClient' BY <1>5, <1>10 DEF ClosedByClient
<1>14. ClientInv'
  <2>1. /\ todo <= 0 /\ c.snd_nxt = Written + 1 /\ c.rcv_nxt > ISS[Server]
        /\ c.rcv_nxt \in {0, ISS[Server] + 1, ISS[Server] + 2} /\ c.recv_list = {}
    BY <1>13 DEF TInv, ClientInv, c
  <2>2. t.snd_nxt = c.snd_nxt /\ t.rcv_nxt = c.rcv_nxt /\ t.recv_list = c.recv_list
    BY <1>7 DEF ReceiveSame
  <2> QED BY <2>1, <2>2, <1>4, <1>7, <1>9, <1>10, <1>13
      DEF ClientInv, ClientLocations, ClientStates, Written, First
<1>15. FromClient' = FromClient BY <1>3, <1>4, <1>8, <1>9 DEF FromClient, c
<1>16. HeldOrTaken(sock[Client])'
  BY <1>8, <1>9, <1>12, ListHolds DEF HeldOrTaken, First, c
<1>17. OthersKept BY <1>3, <1>4, <1>10 DEF OthersKept
<1>18. Written <= Written' /\ sock[Client].rcv_nxt <= sock'[Client].rcv_nxt
  BY <1>2, <1>7, <1>9, <1>12 DEF ReceiveSame, c
<1> QED BY <1>9, <1>11, <1>12, <1>13, <1>14, <1>15, <1>16, <1>17, <1>18, ClientStep


LEMMA RetransmitKeeps ==
  ASSUME TInv, NEW e \in End, retransmit(e)
  PROVE  TInv'
<1> DEFINE s == sock[e]
           b == Oldest(s.send_list)
           t == [s EXCEPT !.send_list = (@ \ {b}) \cup {[b EXCEPT !.num = @ + 1]}]
<1>1. /\ TcpTypeOK /\ Client \in End /\ Server \in End /\ Client # Server
      /\ sock \in [End -> Socks]
  BY Ends DEF TInv, TcpTypeOK
<1>2. s \in Socks BY <1>1
<1>3. /\ s.send_list # {} /\ pc' = pc /\ wait' = wait /\ UNCHANGED appVars /\ UNCHANGED inVars
      /\ \/ /\ b.num < MaxTries /\ Send(e, {b.pkt}) /\ halt' = halt
            /\ sock' = [sock EXCEPT ![e].send_list = (@ \ {b}) \cup {[b EXCEPT !.num = @ + 1]}]
         \/ Halt(e, "exit") /\ UNCHANGED netVars
  BY DEF retransmit
<1>4. /\ todo' = todo /\ pend' = pend /\ delivered' = delivered /\ held' = held
      /\ queue' = queue /\ last' = last /\ skipped' = skipped
  BY <1>3 DEF appVars, inVars
<1>5. CASE Halt(e, "exit") /\ UNCHANGED netVars
  <2>1. halt' \in [End -> Halts] BY <1>1, <1>5, HaltIs DEF Halts
  <2>2. wait' \in [Calls -> SynchWaits] BY <1>1, <1>3 DEF TcpTypeOK
  <2> QED BY <2>1, <2>2, <1>3, <1>5, StopKeeps DEF netVars
<1>6. CASE /\ b.num < MaxTries /\ Send(e, {b.pkt}) /\ halt' = halt
           /\ sock' = [sock EXCEPT ![e].send_list = (@ \ {b}) \cup {[b EXCEPT !.num = @ + 1]}]
  <2>1. sock' = [sock EXCEPT ![e] = t] BY <1>1, <1>6
  <2>2. b.num < MaxTries /\ s.send_list # {} BY <1>3, <1>6
  <2> HIDE DEF s
  <2>3. /\ b.pkt \in Packets /\ b.pkt \in InSendList(s)
        /\ t \in Socks /\ t.state = s.state /\ t.snd_nxt = s.snd_nxt /\ ReceiveSame(s, t)
        /\ InSendList(t) = InSendList(s)
    <3> HIDE DEF b
    <3>1. b \in [pkt : Packets, num : 0 .. MaxTries] /\ b.pkt \in InSendList(s)
      BY <1>2, <2>2, RetryIs DEF b
    <3>2. /\ t \in Socks /\ t.state = s.state /\ t.snd_nxt = s.snd_nxt /\ ReceiveSame(s, t)
          /\ InSendList(t) = InSendList(s)
      BY <1>2, <2>2, RetryIs DEF b
    <3> QED BY <3>1, <3>2
  <2> HIDE DEF t
  <2>4. /\ sock' \in [End -> Socks] /\ sock'[e] = t
        /\ e = Client => sock'[Server] = sock[Server]
        /\ e = Server => sock'[Client] = sock[Client]
    BY <1>1, <2>1, <2>3, BecomesType
  <2> DEFINE pkt == b.pkt
  <2> HIDE DEF b
  <2>5. /\ net' \in [End -> SUBSET Packets]
        /\ e = Client => net'[Client] = net[Client] /\ net'[Server] = net[Server] \cup {pkt}
        /\ e = Server => net'[Server] = net[Server] /\ net'[Client] = net[Client] \cup {pkt}
    BY <1>1, <1>6, <2>3, SendIs
  <2>6. TcpTypeOK' BY <1>1, <1>3, <1>4, <1>6, <2>4, <2>5 DEF TcpTypeOK
  <2>7. CASE e = Client
    <3>1. OthersKept BY <1>3, <1>4, <2>5, <2>7 DEF OthersKept
    <3>2. FromClient' = FromClient BY <1>4, <2>3, <2>4, <2>5, <2>7 DEF FromClient, s
    <3>3. HeldOrTaken(t) BY <2>3, <2>7, ListHolds DEF HeldOrTaken, s
    <3>4. /\ s = sock[Client] /\ t = sock'[Client] /\ t.rcv_nxt = s.rcv_nxt
          /\ t.recv_list = s.recv_list /\ t.hashed = s.hashed
      BY <2>3, <2>4, <2>7 DEF ReceiveSame, s
    <3>5. /\ StateTrue(t.state)
          /\ pc[Client] = "connect" => t.state = "CLOSED" /\ ~t.hashed
      BY <2>3, <3>4, StateStays
    <3> QED BY <1>3, <1>4, <2>3, <2>4, <2>6, <2>7, <3>1, <3>2, <3>3, <3>4, <3>5, ClientQuiet
  <2>8. CASE e = Server
    <3>1. s = sock[Server] /\ t = sock'[Server] BY <2>4, <2>8 DEF s
    <3>2. s.hashed
      <4>1. ~s.hashed => s = alloc_tcp_sock BY <3>1 DEF TInv, ServerInv
      <4> QED BY <4>1, <2>2 DEF alloc_tcp_sock
    <3>3. FromServer' = FromServer BY <2>3, <2>4, <2>5, <2>8 DEF FromServer, s
    <3> QED BY <1>3, <1>4, <2>3, <2>4, <2>5, <2>6, <2>8, <3>1, <3>2, <3>3, ServerQuiet
  <2> QED BY <2>7, <2>8, Ends
<1> QED BY <1>3, <1>5, <1>6

LEMMA TimewaitKeeps ==
  ASSUME TInv, NEW e \in End, timewait_over(e)
  PROVE  TInv'
<1> DEFINE c == sock[Client]
           t == [c EXCEPT !.timewait = FALSE, !.state = "CLOSED"]
<1>1. /\ TcpTypeOK /\ Client \in End /\ Server \in End /\ Client # Server
      /\ sock \in [End -> Socks] /\ halt \in [End -> Halts]
  BY Ends DEF TInv, TcpTypeOK
<1>2. c \in Socks BY <1>1
<1>3. e = Client
  <2>1. ~sock[Server].timewait BY DEF TInv, ServerInv
  <2> QED BY <2>1, Ends DEF timewait_over
<1>4. /\ sock' = [sock EXCEPT ![Client].timewait = FALSE, ![Client].state = "CLOSED"]
      /\ net' = net /\ pc' = pc /\ wait' = wait /\ UNCHANGED appVars /\ UNCHANGED inVars
      /\ halt' = halt \/ Halt(e, "fault")
  BY <1>3 DEF timewait_over
<1>5. halt' \in [End -> Halts] BY <1>1, <1>4, HaltIs DEF Halts
<1>6. /\ todo' = todo /\ pend' = pend /\ delivered' = delivered /\ held' = held
      /\ queue' = queue /\ last' = last /\ skipped' = skipped
  BY <1>4 DEF appVars, inVars
<1>7. sock' = [sock EXCEPT ![Client] = t] BY <1>1, <1>4
<1> HIDE DEF c
<1>8. /\ t \in Socks /\ t.state = "CLOSED" /\ t.snd_nxt = c.snd_nxt /\ t.send_list = c.send_list
      /\ t.rcv_nxt = c.rcv_nxt /\ t.recv_list = c.recv_list /\ t.hashed = c.hashed
  BY <1>2 DEF Socks, States
<1>9. InSendList(t) = InSendList(c) BY <1>8 DEF InSendList
<1> HIDE DEF t
<1>10. sock'[Client] = t /\ sock'[Server] = sock[Server] /\ sock' \in [End -> Socks]
  BY <1>1, <1>7, <1>8, BecomesType
<1>11. TcpTypeOK' BY <1>1, <1>4, <1>5, <1>6, <1>10 DEF TcpTypeOK
<1>12. OthersKept BY <1>4, <1>6 DEF OthersKept
<1>13. FromClient' = FromClient BY <1>4, <1>6, <1>9, <1>10 DEF FromClient, c
<1>14. HeldOrTaken(t) BY <1>9, ListHolds DEF HeldOrTaken, c
<1>15. StateTrue("CLOSED") /\ (pc[Client] = "connect" => ~t.hashed)
  BY <1>8, StateStays DEF c
<1> QED BY <1>4, <1>6, <1>8, <1>10, <1>11, <1>12, <1>13, <1>14, <1>15, ClientQuiet DEF c

LEMMA NullKeeps ==
  ASSUME TInv, NEW e \in End, NEW p, tcp_process_null(e, p)
  PROVE  TInv'
<1>1. /\ Halt(e, "fault") /\ sock' = sock /\ net' = net /\ pc' = pc /\ wait' = wait
      /\ UNCHANGED appVars /\ UNCHANGED inVars
  BY DEF tcp_process_null, netVars
<1>2. TcpTypeOK /\ wait' \in [Calls -> SynchWaits] BY <1>1 DEF TInv, TcpTypeOK
<1>3. halt' \in [End -> Halts] BY <1>1, <1>2, HaltIs DEF Halts
<1> QED BY <1>1, <1>2, <1>3, StopKeeps

LEMMA ClosedKeeps ==
  ASSUME TInv, NEW e \in End, NEW p, tcp_state_closed(e, p)
  PROVE  TInv'
<1> DEFINE pkt == tcp_send_reset
<1>1. /\ TcpTypeOK /\ Client \in End /\ Server \in End /\ Client # Server
  BY Ends DEF TInv
<1>2. /\ Send(e, {pkt}) /\ sock' = sock /\ pc' = pc /\ wait' = wait /\ halt' = halt
      /\ UNCHANGED appVars /\ UNCHANGED inVars
  BY DEF tcp_state_closed
<1>3. /\ todo' = todo /\ pend' = pend /\ delivered' = delivered /\ held' = held
      /\ queue' = queue /\ last' = last /\ skipped' = skipped
  BY <1>2 DEF appVars, inVars
<1>4. pkt \in Packets /\ pkt.flags = "RST" /\ pkt.ack = 0 /\ pkt.len = 0
  BY Numbers DEF tcp_send_reset, Packets, Flags
<1> HIDE DEF pkt
<1>5. /\ net' \in [End -> SUBSET Packets]
      /\ e = Client => net'[Client] = net[Client] /\ net'[Server] = net[Server] \cup {pkt}
      /\ e = Server => net'[Server] = net[Server] /\ net'[Client] = net[Client] \cup {pkt}
  BY <1>1, <1>2, <1>4, SendIs
<1>6. TcpTypeOK' BY <1>1, <1>2, <1>3, <1>5 DEF TcpTypeOK
<1>7. sock[Client].rcv_nxt \in Nat /\ sock[Server].rcv_nxt \in Nat
  BY <1>1, SocksOf, SockFields
<1>8. CASE e = Client
  <2>1. OthersKept BY <1>2, <1>3, <1>5, <1>8 DEF OthersKept
  <2>2. FromClient' = FromClient \cup {pkt} BY <1>2, <1>3, <1>5, <1>8 DEF FromClient
  <2>3. ASSUME NEW q, q = pkt PROVE ClientPacket(q)' BY <2>3, <1>2, <1>4, <1>7 DEF ClientPacket
  <2> QED BY <1>2, <1>3, <1>6, <2>1, <2>2, <2>3, StateStays, ListHolds, ClientQuiet
<1>9. CASE e = Server
  <2>1. FromServer' = FromServer \cup {pkt} BY <1>2, <1>5, <1>9 DEF FromServer
  <2>2. ASSUME NEW q, q = pkt PROVE ServerPacket(q)' BY <2>2, <1>2, <1>4, <1>7 DEF ServerPacket
  <2> QED BY <1>2, <1>3, <1>5, <1>6, <1>9, <2>1, <2>2, ServerQuiet DEF ReceiveSame
<1> QED BY <1>8, <1>9, Ends

LEMMA ResetKeeps ==
  ASSUME TInv, NEW e \in End, NEW p, reset(e, p)
  PROVE  TInv'
<1> DEFINE c == sock[Client]
           t == [c EXCEPT !.state = "CLOSED", !.hashed = FALSE]
<1>1. /\ TcpTypeOK /\ Client \in End /\ Server \in End /\ Client # Server
      /\ sock \in [End -> Socks] /\ halt \in [End -> Halts] /\ wait \in [Calls -> SynchWaits]
  BY Ends DEF TInv, TcpTypeOK
<1>2. c \in Socks BY <1>1
<1>3. /\ net' = net /\ pc' = pc /\ wait' = wait /\ UNCHANGED appVars /\ UNCHANGED inVars
      /\ \/ Halt(e, "fault") /\ sock' = sock
         \/ /\ e = Client /\ halt' = halt
            /\ sock' = [sock EXCEPT ![e].state = "CLOSED", ![e].hashed = FALSE]
  BY DEF reset
<1>4. CASE Halt(e, "fault") /\ sock' = sock
  <2>1. halt' \in [End -> Halts] BY <1>1, <1>4, HaltIs DEF Halts
  <2> QED BY <2>1, <1>1, <1>3, <1>4, StopKeeps
<1>5. CASE /\ e = Client /\ halt' = halt
           /\ sock' = [sock EXCEPT ![e].state = "CLOSED", ![e].hashed = FALSE]
  <2>1. /\ todo' = todo /\ pend' = pend /\ delivered' = delivered /\ held' = held
        /\ queue' = queue /\ last' = last /\ skipped' = skipped
    BY <1>3 DEF appVars, inVars
  <2>2. sock' = [sock EXCEPT ![Client] = t] BY <1>1, <1>5
  <2> HIDE DEF c
  <2>3. /\ t \in Socks /\ t.state = "CLOSED" /\ t.snd_nxt = c.snd_nxt /\ t.send_list = c.send_list
        /\ t.rcv_nxt = c.rcv_nxt /\ t.recv_list = c.recv_list /\ ~t.hashed
    BY <1>2 DEF Socks, States
  <2>4. InSendList(t) = InSendList(c) BY <2>3 DEF InSendList
  <2> HIDE DEF t
  <2>5. sock'[Client] = t /\ sock'[Server] = sock[Server] /\ sock' \in [End -> Socks]
    BY <1>1, <2>2, <2>3, BecomesType
  <2>6. TcpTypeOK' BY <1>1, <1>3, <1>5, <2>1, <2>5 DEF TcpTypeOK
  <2>7. OthersKept BY <1>3, <2>1 DEF OthersKept
  <2>8. FromClient' = FromClient BY <1>3, <2>1, <2>4, <2>5 DEF FromClient, c
  <2>9. HeldOrTaken(t) BY <2>4, ListHolds DEF HeldOrTaken, c
  <2>10. StateTrue("CLOSED") BY StateStays
  <2> QED BY <1>3, <2>1, <2>3, <2>5, <2>6, <2>7, <2>8, <2>9, <2>10, ClientQuiet DEF c
<1> QED BY <1>3, <1>4, <1>5


LEMMA WakeIs ==
  ASSUME TcpTypeOK, NEW cs, Wake(cs)
  PROVE  /\ wait' \in [Calls -> SynchWaits]
         /\ "accept" \notin cs => wait'["accept"] = wait["accept"]
<1>1. wait \in [Calls -> SynchWaits] BY DEF TcpTypeOK
<1>2. wait' = [c \in Calls |-> IF c \in cs THEN WakeUp(wait[c]) ELSE wait[c]] BY DEF Wake
<1>3. \A c \in Calls : wait[c] \in SynchWaits /\ WakeUp(wait[c]) \in SynchWaits
  BY <1>1, WaitTypes
<1> QED BY <1>2, <1>3 DEF Calls

LEMMA SynSentKeeps ==
  ASSUME TInv, NEW e \in End, NEW p, tcp_state_syn_sent(e, p)
  PROVE  TInv'
<1> DEFINE c == sock[Client]
           t == [c EXCEPT !.state = "ESTABLISHED", !.rcv_nxt = p.seq + 1, !.snd_wnd = Window]
           pkt == Ack(t)
<1>1. /\ TcpTypeOK /\ Client \in End /\ Server \in End /\ Client # Server
      /\ sock \in [End -> Socks] /\ ISS[Server] \in Nat
  BY Ends, Numbers DEF TInv, TcpTypeOK
<1>2. c \in Socks /\ c.rcv_nxt \in Nat BY <1>1, SocksOf, SockFields
<1>3. e = Client
  <2>1. sock[Server].state # "SYN_SENT" BY DEF TInv, ServerInv
  <2> QED BY <2>1, Ends DEF tcp_state_syn_sent
<1>4. /\ p \in net[Client] /\ c.state = "SYN_SENT" /\ p.flags = "SYN_ACK"
      /\ sock' = [sock EXCEPT ![Client] = t] /\ Send(Client, {pkt}) /\ Wake({"connect"})
      /\ pc' = pc /\ halt' = halt /\ UNCHANGED appVars /\ UNCHANGED inVars
  BY <1>3 DEF tcp_state_syn_sent, Arrives, Becomes
<1>5. /\ todo' = todo /\ pend' = pend /\ delivered' = delivered /\ held' = held
      /\ queue' = queue /\ last' = last /\ skipped' = skipped
  BY <1>4 DEF appVars, inVars
<1>6. p.seq = ISS[Server]
  <2>1. ServerPacket(p) BY <1>4 DEF TInv, PacketsTrue, FromServer
  <2> QED BY <2>1, <1>4 DEF ServerPacket
<1>7. c.rcv_nxt = 0 /\ pc[Client] # "connect" BY <1>4 DEF TInv, ClientInv
<1> HIDE DEF c
<1>8. /\ t \in Socks /\ t.state = "ESTABLISHED" /\ t.snd_nxt = c.snd_nxt
      /\ t.send_list = c.send_list /\ t.rcv_nxt = ISS[Server] + 1 /\ t.recv_list = c.recv_list
  <2>1. p.seq + 1 \in Nat /\ Window \in 0 .. Window BY <1>1, <1>6, Numbers
  <2> QED BY <2>1, <1>2, <1>6 DEF Socks, States
<1>9. InSendList(t) = InSendList(c) BY <1>8 DEF InSendList
<1> HIDE DEF t
<1>10. pkt \in Packets /\ pkt.flags = "ACK" /\ pkt.ack = t.rcv_nxt /\ pkt.len = 0
  <2>1. "ACK" \in Flags /\ 0 \in 0 .. MSS BY Numbers DEF Flags
  <2> QED BY <2>1, <1>8, SegmentType DEF Ack
<1> HIDE DEF pkt
<1>11. sock'[Client] = t /\ sock'[Server] = sock[Server] /\ sock' \in [End -> Socks]
  BY <1>1, <1>4, <1>8, BecomesType
<1>12. /\ net' \in [End -> SUBSET Packets]
       /\ net'[Client] = net[Client] /\ net'[Server] = net[Server] \cup {pkt}
  BY <1>1, <1>4, <1>10, SendIs
<1>13. wait' \in [Calls -> SynchWaits] /\ wait'["accept"] = wait["accept"]
  BY <1>1, <1>4, WakeIs
<1>14. TcpTypeOK' BY <1>1, <1>4, <1>5, <1>11, <1>12, <1>13 DEF TcpTypeOK
<1>15. Written' = Written /\ Written \in Nat BY <1>1, <1>5, Bounds DEF Written, First
<1>16. ClosedByClient' = ClosedByClient BY <1>4 DEF ClosedByClient
<1>17. ClientInv'
  <2>1. t.rcv_nxt > ISS[Server] BY <1>1, <1>8
  <2> QED BY <2>1, <1>4, <1>5, <1>7, <1>8, <1>11, <1>15, <1>16
      DEF TInv, ClientInv, ClientStates, Written, First, c
<1>18. \A q \in FromClient' : q \in FromClient \/ ClientPacket(q)'
  <2>1. FromClient' \subseteq FromClient \cup {pkt}
    BY <1>5, <1>9, <1>11, <1>12 DEF FromClient, c
  <2>2. ASSUME NEW q, q = pkt PROVE ClientPacket(q)'
    BY <2>2, <1>1, <1>8, <1>10, <1>11 DEF ClientPacket
  <2> QED BY <2>1, <2>2
<1>19. HeldOrTaken(sock[Client])'
  BY <1>9, <1>11, <1>15, ListHolds DEF HeldOrTaken, First, c
<1>20. OthersKept BY <1>4, <1>5, <1>12, <1>13 DEF OthersKept
<1>21. Written <= Written' /\ sock[Client].rcv_nxt <= sock'[Client].rcv_nxt
  BY <1>1, <1>7, <1>8, <1>11, <1>15 DEF c
<1> QED BY <1>11, <1>14, <1>15, <1>16, <1>17, <1>18, <1>19, <1>20, <1>21, ClientStep

DataBelow(s, n) == \A p \in InSendList(s) : p.len # 0 => p.seq + p.len <= n

AckedFrom(s, t, ack) ==
  /\ t \in Socks /\ t.state = s.state /\ t.snd_nxt = s.snd_nxt /\ ReceiveSame(s, t)
  /\ InSendList(t) = {p \in InSendList(s) : ~Acked(p, ack)}

LEMMA AcknowledgedIs ==
  ASSUME TcpTypeOK, NEW e \in End, NEW s \in Socks, NEW n \in Nat, DataBelow(s, n),
         NEW ack, Acknowledged(e, s, ack)
  PROVE  /\ pend' \in [pkt : Packets, wnd : 0 .. Window] /\ pend'.pkt = pend.pkt
         /\ \E t : sock' = [sock EXCEPT ![e] = t] /\ AckedFrom(s, t, ack)
<1> DEFINE t == remove_from_send_list(s, ack)
<1>1. /\ sock' = [sock EXCEPT ![e] = t]
      /\ pend' = pend \/ pend' = [pend EXCEPT !.wnd = t.snd_wnd]
  BY DEF Acknowledged, Becomes
<1> HIDE DEF t
<1>2. /\ t \in Socks /\ t.state = s.state /\ t.snd_nxt = s.snd_nxt
      /\ InSendList(t) = {p \in InSendList(s) : ~Acked(p, ack)}
      /\ ReceiveSame(s, t)
  <2>1. \A p \in InSendList(s) : p.len # 0 => p.seq + p.len <= n BY DEF DataBelow
  <2>2. t = remove_from_send_list(s, ack) BY DEF t
  <2> QED BY <2>1, <2>2, RemoveIs
<1>3. pend \in [pkt : Packets, wnd : 0 .. Window] BY DEF TcpTypeOK
<1>4. t.snd_wnd \in 0 .. Window BY <1>2, SockFields
<1>5. AckedFrom(s, t, ack) BY <1>2 DEF AckedFrom
<1>6. pend' \in [pkt : Packets, wnd : 0 .. Window] /\ pend'.pkt = pend.pkt
  BY <1>1, <1>3, <1>4
<1> QED BY <1>1, <1>5, <1>6


(***************************************************************************)
(* The client receives.                                                      *)
(***************************************************************************)
LEMMA PassedTrue ==
  ASSUME TInv, NEW p \in net[Client], sock[Client].state \notin {"CLOSED", "SYN_SENT"}
  PROVE  StateTrue(Passed(sock[Client], p))
<1> DEFINE c == sock[Client]
           s == sock[Server]
<1>1. TcpTypeOK BY DEF TInv
<1>2. /\ c \in Socks /\ s \in Socks /\ c.rcv_nxt \in Nat /\ s.rcv_nxt \in Nat
      /\ Written \in Nat
  BY <1>1, SocksOf, SockFields, Bounds, Numbers
<1>3. StateTrue(c.state) BY StateStays
<1>4. c.state # "LAST_ACK" BY DEF TInv, ClientInv, ClientStates
<1>5. CASE c.state = "FIN_WAIT_1" /\ p.ack = c.snd_nxt
  <2>1. ServerPacket(p) BY DEF TInv, PacketsTrue, FromServer
  <2>2. ClosedByClient /\ c.rcv_nxt > ISS[Server] BY <1>3, <1>5 DEF StateTrue
  <2>3. c.snd_nxt = Written + 1 BY <2>2 DEF TInv, ClientInv
  <2>4. Written + 1 <= s.rcv_nxt BY <1>5, <2>1, <2>3 DEF ServerPacket
  <2>5. last
    <3>1. CASE ~s.hashed
      <4>1. s = alloc_tcp_sock BY <3>1 DEF TInv, ServerInv
      <4>2. s.rcv_nxt = 0 BY <4>1 DEF alloc_tcp_sock
      <4> QED BY <4>2, <2>4, <1>2
    <3>2. CASE s.hashed /\ ~last
      <4>1. s.rcv_nxt <= Written BY <3>2 DEF TInv, ServerInv
      <4> QED BY <4>1, <2>4, <1>2
    <3> QED BY <3>1, <3>2
  <2>6. Passed(c, p) = "FIN_WAIT_2" BY <1>5 DEF Passed
  <2> QED BY <2>2, <2>5, <2>6 DEF StateTrue, ClientStates
<1>6. CASE ~(c.state = "FIN_WAIT_1" /\ p.ack = c.snd_nxt)
  <2>1. Passed(c, p) = c.state BY <1>4, <1>6 DEF Passed
  <2> QED BY <2>1, <1>3
<1> QED BY <1>5, <1>6

LEMMA ClientSegments ==
  ASSUME TInv
  PROVE  \A q \in InSendList(sock[Client]) :
           /\ q \in Packets
           /\ q.len # 0 => q.seq + q.len <= Written
<1> SUFFICES ASSUME NEW q \in InSendList(sock[Client])
             PROVE  q \in Packets /\ (q.len # 0 => q.seq + q.len <= Written)
  OBVIOUS
<1>1. q \in Packets BY PacketTypes DEF TInv, FromClient
<1>2. ClientPacket(q) BY DEF TInv, PacketsTrue, FromClient
<1> QED BY <1>1, <1>2 DEF ClientPacket

\* What an acknowledgement removes the server has.
LEMMA AckedTaken ==
  ASSUME TInv, NEW p \in net[Client], NEW t,
         InSendList(t) = {q \in InSendList(sock[Client]) : ~Acked(q, p.ack)}
  PROVE  HeldOrTaken(t)
<1>1. TcpTypeOK BY DEF TInv
<1>2. sock[Server].rcv_nxt \in Nat /\ Written \in Nat /\ First \in Nat
  BY <1>1, SocksOf, SockFields, Bounds, Numbers
<1>3. p.ack <= sock[Server].rcv_nxt
  <2>1. ServerPacket(p) BY DEF TInv, PacketsTrue, FromServer
  <2> QED BY <2>1 DEF ServerPacket
<1>4. p.ack \in Nat
  <2>1. p \in Packets BY <1>1, PacketTypes DEF FromServer
  <2> QED BY <2>1, PacketFields
<1> SUFFICES ASSUME NEW n \in First .. Written - 1, n \notin Covered(InSendList(t))
             PROVE  n < sock[Server].rcv_nxt
  BY DEF HeldOrTaken
<1>5. n \in Nat BY <1>2
<1>6. CASE n \in Covered(InSendList(sock[Client]))
  <2>1. PICK q \in InSendList(sock[Client]) : n \in q.seq .. q.seq + q.len - 1
    BY <1>6 DEF Covered
  <2>2. Acked(q, p.ack) BY <2>1 DEF Covered
  <2>3. q.seq \in Nat /\ q.len \in Nat BY ClientSegments, PacketFields
  <2> QED BY <2>1, <2>2, <2>3, <1>2, <1>3, <1>4, <1>5 DEF Acked
<1>7. CASE n \notin Covered(InSendList(sock[Client]))
  BY <1>7, ListHolds DEF HeldOrTaken
<1> QED BY <1>6, <1>7

LEMMA ClientReceives ==
  ASSUME TInv, NEW p \in net[Client], NEW c, c = sock[Client],
         c.state \notin {"CLOSED", "SYN_SENT"},
         NEW s, s = [c EXCEPT !.state = Passed(c, p)], Acknowledged(Client, s, p.ack),
         net' = net \/ Send(Client, {Ack(s)}), Wake({"send"}),
         pc' = pc, halt' = halt, todo' = todo, held' = held, delivered' = delivered,
         UNCHANGED inVars
  PROVE  TInv'
<1>1. /\ TcpTypeOK /\ Client \in End /\ Server \in End /\ Client # Server
  BY Ends DEF TInv
<1>2. c \in Socks /\ c.rcv_nxt \in Nat /\ Written \in Nat BY <1>1, SocksOf, SockFields, Bounds
<1>3. queue' = queue /\ last' = last /\ skipped' = skipped BY DEF inVars
<1>4. StateTrue(Passed(c, p)) BY PassedTrue
<1>5. /\ s \in Socks /\ s.state = Passed(c, p) /\ s.snd_nxt = c.snd_nxt
      /\ s.send_list = c.send_list /\ s.rcv_nxt = c.rcv_nxt /\ s.recv_list = c.recv_list
  <2>1. Passed(c, p) \in States BY <1>4 DEF StateTrue, ClientStates, States
  <2> QED BY <2>1, <1>2 DEF Socks
<1>6. InSendList(s) = InSendList(c) BY <1>5 DEF InSendList
<1>7. DataBelow(s, Written) BY <1>6, ClientSegments DEF DataBelow
<1> DEFINE ack == p.ack
           n == Written
<1>8. PICK t : sock' = [sock EXCEPT ![Client] = t] /\ AckedFrom(s, t, ack)
  <2>1. Acknowledged(Client, s, ack) OBVIOUS
  <2> HIDE DEF ack, n
  <2> QED BY <2>1, <1>1, <1>2, <1>5, <1>7, AcknowledgedIs DEF n
<1>9. pend' \in [pkt : Packets, wnd : 0 .. Window] /\ pend'.pkt = pend.pkt
  <2>1. Acknowledged(Client, s, ack) OBVIOUS
  <2> HIDE DEF ack, n
  <2> QED BY <2>1, <1>1, <1>2, <1>5, <1>7, AcknowledgedIs DEF n
<1>8a. /\ t \in Socks /\ t.state = s.state /\ t.snd_nxt = s.snd_nxt /\ ReceiveSame(s, t)
       /\ InSendList(t) = {q \in InSendList(s) : ~Acked(q, p.ack)}
  BY <1>8 DEF AckedFrom
<1>10. sock'[Client] = t /\ sock'[Server] = sock[Server] /\ sock' \in [End -> Socks]
  BY <1>1, <1>8, <1>8a, BecomesType
<1>11. Ack(s) \in Packets /\ Ack(s).flags = "ACK" /\ Ack(s).ack = c.rcv_nxt /\ Ack(s).len = 0
  <2>1. "ACK" \in Flags /\ 0 \in 0 .. MSS BY Numbers DEF Flags
  <2> QED BY <2>1, <1>5, SegmentType DEF Ack
<1>12. PICK pkts : /\ pkts \subseteq {Ack(s)} /\ net' \in [End -> SUBSET Packets]
                   /\ net'[Client] = net[Client] /\ net'[Server] = net[Server] \cup pkts
  <2>1. CASE net' = net
    <3>1. net' \in [End -> SUBSET Packets] BY <2>1, <1>1 DEF TcpTypeOK
    <3>2. {} \subseteq {Ack(s)} /\ net'[Server] = net[Server] \cup {} BY <2>1
    <3> QED BY <3>1, <3>2, <2>1
  <2>2. CASE Send(Client, {Ack(s)})
    <3> DEFINE pkts == {Ack(s)}
    <3>1. pkts \in SUBSET Packets /\ Send(Client, pkts) BY <2>2, <1>11
    <3> HIDE DEF pkts
    <3>2. /\ net' \in [End -> SUBSET Packets]
          /\ net'[Client] = net[Client] /\ net'[Server] = net[Server] \cup pkts
      BY <3>1, <1>1, SendIs
    <3> QED BY <3>2 DEF pkts
  <2> QED BY <2>1, <2>2
<1>13. wait' \in [Calls -> SynchWaits] /\ wait'["accept"] = wait["accept"]
  BY <1>1, WakeIs
<1>14. TcpTypeOK' BY <1>1, <1>3, <1>9, <1>10, <1>12, <1>13 DEF TcpTypeOK
<1>15. OthersKept BY <1>3, <1>12, <1>13 DEF OthersKept
<1>16. t.rcv_nxt = c.rcv_nxt /\ t.recv_list = c.recv_list /\ t.snd_nxt = c.snd_nxt
       /\ t.state = Passed(c, p)
  BY <1>5, <1>8a DEF ReceiveSame
<1>17. \A q \in FromClient' : q \in FromClient \/ ClientPacket(q)'
  <2>1. InSendList(t) \subseteq InSendList(c) BY <1>6, <1>8a
  <2>2. FromClient' \subseteq FromClient \cup pkts
    BY <2>1, <1>9, <1>10, <1>12 DEF FromClient
  <2>3. ASSUME NEW q \in pkts PROVE ClientPacket(q)'
    <3>1. q = Ack(s) BY <1>12
    <3>2. q.flags = "ACK" /\ q.ack = c.rcv_nxt /\ q.len = 0 BY <3>1, <1>11
    <3>3. sock'[Client].rcv_nxt = c.rcv_nxt BY <1>10, <1>16
    <3> QED BY <3>2, <3>3, <1>2 DEF ClientPacket
  <2> QED BY <2>2, <2>3
<1>18. HeldOrTaken(t) BY <1>6, <1>8a, AckedTaken
<1>19. pc[Client] # "connect" BY DEF TInv, ClientInv
<1> QED BY <1>4, <1>9, <1>10, <1>14, <1>15, <1>16, <1>17, <1>18, <1>19, ClientQuiet


LEMMA AckClientKeeps ==
  ASSUME TInv, NEW p, receive_ack(Client, p)
  PROVE  TInv'
<1> DEFINE c == sock[Client]
           s == [c EXCEPT !.state = Passed(c, p)]
<1>1. /\ p \in net[Client] /\ c.state \notin {"CLOSED", "SYN_SENT"}
      /\ Acknowledged(Client, s, p.ack) /\ Wake({"send"}) /\ net' = net
      /\ pc' = pc /\ halt' = halt /\ todo' = todo /\ held' = held /\ delivered' = delivered
      /\ UNCHANGED inVars
  BY DEF receive_ack, InProgress, Synchronised, Arrives
<1> HIDE DEF c
<1> HIDE DEF s
<1> QED BY <1>1, ClientReceives DEF c, s

LEMMA DataClientKeeps ==
  ASSUME TInv, NEW p, tcp_recv_data(Client, p)
  PROVE  TInv'
<1> DEFINE c == sock[Client]
           s == [c EXCEPT !.state = Passed(c, p)]
<1>1. TcpTypeOK /\ c \in Socks /\ c.rcv_nxt \in Nat /\ ISS[Server] \in Nat
  BY SocksOf, SockFields, Numbers DEF TInv
<1>2. /\ p \in net[Client] /\ c.state \notin {"CLOSED", "SYN_SENT"}
      /\ p.flags \in {"PSH", "SYN", "SYN_ACK"}
      /\ pc' = pc /\ todo' = todo /\ held' = held /\ delivered' = delivered
      /\ UNCHANGED inVars
  BY DEF tcp_recv_data, InProgress, Synchronised, Arrives
<1>3. p.seq < c.rcv_nxt
  <2>1. ServerPacket(p) BY <1>2 DEF TInv, PacketsTrue, FromServer
  <2>2. p.seq = ISS[Server] BY <2>1, <1>2 DEF ServerPacket
  <2>3. c.rcv_nxt > ISS[Server] BY <1>2 DEF TInv, ClientInv
  <2> QED BY <2>2, <2>3, <1>1
<1>4. p.seq \in Nat
  <2>1. p \in Packets BY <1>1, <1>2, PacketTypes DEF FromServer
  <2> QED BY <2>1, PacketFields
<1>5. s.rcv_nxt = c.rcv_nxt BY <1>1 DEF Socks
<1>6. \/ InTurn(s, p)
      \/ p.seq > s.rcv_nxt
      \/ /\ Acknowledged(Client, s, p.ack) /\ Send(Client, {Ack(s)}) /\ Wake({"send"})
         /\ halt' = halt
  BY DEF tcp_recv_data
<1>7. /\ Acknowledged(Client, s, p.ack) /\ Send(Client, {Ack(s)}) /\ Wake({"send"})
      /\ halt' = halt
  BY <1>1, <1>3, <1>4, <1>5, <1>6 DEF InTurn
<1> HIDE DEF c
<1> HIDE DEF s
<1> QED BY <1>2, <1>7, ClientReceives DEF c, s

LEMMA FinClientKeeps ==
  ASSUME TInv, NEW p, receive_fin(Client, p)
  PROVE  TInv'
<1> DEFINE c == sock[Client]
           now == Passed(c, p)
           s == [c EXCEPT !.state = OnFin[now], !.rcv_nxt = p.seq + 1,
                   !.timewait = @ \/ now = "FIN_WAIT_2"]
           u == [c EXCEPT !.state = now]
           pkt == Ack(s)
<1>1. /\ TcpTypeOK /\ Client \in End /\ Server \in End /\ Client # Server
      /\ sock \in [End -> Socks] /\ ISS[Server] \in Nat
  BY Ends, Numbers DEF TInv, TcpTypeOK
<1>2. c \in Socks /\ c.rcv_nxt \in Nat /\ Written \in Nat BY <1>1, SocksOf, SockFields, Bounds
<1>3. /\ p \in net[Client] /\ c.state \notin {"CLOSED", "SYN_SENT"} /\ p.flags = "FIN"
      /\ pc' = pc /\ wait' = wait /\ halt' = halt /\ UNCHANGED appVars /\ queue' = queue
  BY DEF receive_fin, InProgress, Synchronised, Arrives
<1>4. \/ /\ now \in DOMAIN OnFin /\ sock' = [sock EXCEPT ![Client] = s] /\ Send(Client, {pkt})
         /\ last' = last /\ skipped' = skipped
      \/ /\ now \notin DOMAIN OnFin /\ sock' = [sock EXCEPT ![Client].state = now]
         /\ net' = net /\ last' = last /\ skipped' = skipped
  <2>1. last' = (last \/ (Client = Server /\ now = "ESTABLISHED")) => last' = last
    BY <1>1 DEF TcpTypeOK
  <2>2. ASSUME NEW x, skipped' = skipped \cup (IF Client = Server /\ x THEN {"fin"} ELSE {})
        PROVE  skipped' = skipped
    BY <2>2, <1>1
  <2> QED BY <2>1, <2>2 DEF receive_fin, Becomes
<1>5. /\ todo' = todo /\ pend' = pend /\ delivered' = delivered /\ held' = held
      /\ last' = last /\ skipped' = skipped
  BY <1>3, <1>4 DEF appVars
<1>6. last /\ p.seq = ISS[Server] + 1
  <2>1. ServerPacket(p) BY <1>3 DEF TInv, PacketsTrue, FromServer
  <2> QED BY <2>1, <1>3 DEF ServerPacket
<1>7. StateTrue(now) BY <1>3, PassedTrue
<1>8. pc[Client] # "connect" BY <1>3 DEF TInv, ClientInv
<1>9. CASE /\ now \in DOMAIN OnFin /\ sock' = [sock EXCEPT ![Client] = s] /\ Send(Client, {pkt})
  <2>1. /\ now \in {"ESTABLISHED", "FIN_WAIT_2"}
        /\ OnFin[now] \in {"CLOSE_WAIT", "TIME_WAIT"}
        /\ OnFin[now] = "TIME_WAIT" => now = "FIN_WAIT_2"
    BY <1>9 DEF OnFin
  <2>2. /\ s \in Socks /\ s.state = OnFin[now] /\ s.snd_nxt = c.snd_nxt
        /\ s.send_list = c.send_list /\ s.rcv_nxt = ISS[Server] + 2 /\ s.recv_list = c.recv_list
    <3>1. p.seq + 1 \in Nat /\ p.seq + 1 = ISS[Server] + 2 BY <1>1, <1>6
    <3>2. OnFin[now] \in States BY <2>1 DEF States
    <3> HIDE DEF now
    <3>3. (c.timewait \/ now = "FIN_WAIT_2") \in BOOLEAN BY <1>2 DEF Socks
    <3> QED BY <3>1, <3>2, <3>3, <1>2 DEF Socks
  <2>3. InSendList(s) = InSendList(c) BY <2>2 DEF InSendList
  <2>4. ClosedByClient
    BY <1>6 DEF TInv, ClientInv
  <2> HIDE DEF s, now, c
  <2>5. pkt \in Packets /\ pkt.flags = "ACK" /\ pkt.ack = s.rcv_nxt /\ pkt.len = 0
    <3>1. "ACK" \in Flags /\ 0 \in 0 .. MSS BY Numbers DEF Flags
    <3> QED BY <3>1, <2>2, SegmentType DEF Ack
  <2> HIDE DEF pkt
  <2>6. sock'[Client] = s /\ sock'[Server] = sock[Server] /\ sock' \in [End -> Socks]
    BY <1>1, <1>9, <2>2, BecomesType
  <2>7. /\ net' \in [End -> SUBSET Packets]
        /\ net'[Client] = net[Client] /\ net'[Server] = net[Server] \cup {pkt}
    BY <1>1, <1>9, <2>5, SendIs
  <2>8. TcpTypeOK' BY <1>1, <1>3, <1>5, <2>6, <2>7 DEF TcpTypeOK
  <2>9. Written' = Written BY <1>5 DEF Written, First
  <2>10. ClosedByClient' = ClosedByClient BY <1>3 DEF ClosedByClient
  <2>11. s.rcv_nxt > ISS[Server] /\ c.rcv_nxt <= s.rcv_nxt
    <3>1. c.rcv_nxt \in {0, ISS[Server] + 1, ISS[Server] + 2} BY DEF TInv, ClientInv, c
    <3> QED BY <3>1, <2>2, <1>1
  <2>12. ClientInv'
    BY <1>3, <1>5, <1>6, <1>8, <2>1, <2>2, <2>4, <2>6, <2>9, <2>10, <2>11
    DEF TInv, ClientInv, ClientStates, Written, First, c
  <2>13. \A q \in FromClient' : q \in FromClient \/ ClientPacket(q)'
    <3>1. FromClient' \subseteq FromClient \cup {pkt}
      BY <1>5, <2>3, <2>6, <2>7 DEF FromClient, c
    <3>2. ASSUME NEW q, q = pkt PROVE ClientPacket(q)'
      BY <3>2, <1>1, <2>2, <2>5, <2>6 DEF ClientPacket
    <3> QED BY <3>1, <3>2
  <2>14. HeldOrTaken(sock[Client])'
    BY <2>3, <2>6, <2>9, ListHolds DEF HeldOrTaken, First, c
  <2>15. OthersKept BY <1>3, <1>5, <2>7 DEF OthersKept
  <2>16. Written <= Written' /\ sock[Client].rcv_nxt <= sock'[Client].rcv_nxt
    BY <1>2, <2>6, <2>9, <2>11 DEF c
  <2> QED BY <2>4, <2>6, <2>8, <2>9, <2>10, <2>12, <2>13, <2>14, <2>15, <2>16, ClientStep
<1>10. CASE sock' = [sock EXCEPT ![Client].state = now] /\ net' = net
  <2>1. sock' = [sock EXCEPT ![Client] = u] BY <1>1, <1>10
  <2>2. /\ u \in Socks /\ u.state = now /\ u.snd_nxt = c.snd_nxt /\ u.rcv_nxt = c.rcv_nxt
        /\ u.send_list = c.send_list /\ u.recv_list = c.recv_list
    <3>1. now \in States BY <1>7 DEF StateTrue, ClientStates, States
    <3> HIDE DEF now
    <3> QED BY <3>1, <1>2 DEF Socks
  <2>3. InSendList(u) = InSendList(c) BY <2>2 DEF InSendList
  <2> HIDE DEF u, now, c
  <2>4. sock'[Client] = u /\ sock'[Server] = sock[Server] /\ sock' \in [End -> Socks]
    BY <1>1, <2>1, <2>2, BecomesType
  <2>5. TcpTypeOK' BY <1>1, <1>3, <1>5, <1>10, <2>4 DEF TcpTypeOK
  <2>6. OthersKept BY <1>3, <1>5, <1>10 DEF OthersKept
  <2>7. FromClient' = FromClient BY <1>5, <1>10, <2>3, <2>4 DEF FromClient, c
  <2>8. HeldOrTaken(u) BY <2>3, ListHolds DEF HeldOrTaken, c
  <2> QED BY <1>3, <1>5, <1>7, <1>8, <2>2, <2>4, <2>5, <2>6, <2>7, <2>8, ClientQuiet DEF c
<1> QED BY <1>4, <1>9, <1>10


(***************************************************************************)
(* The program of the server.                                                *)
(***************************************************************************)
LEMMA AcceptKeeps ==
  ASSUME TInv, tcp_sock_accept \/ tcp_sock_accept_dequeue
  PROVE  TInv'
<1>1. /\ TcpTypeOK /\ Client \in End /\ Server \in End /\ Client # Server
      /\ sock[Server].rcv_nxt \in Nat
  BY Ends, SocksOf, SockFields DEF TInv
<1>2. /\ sock' = sock /\ net' = net /\ wait' = wait /\ halt' = halt
      /\ UNCHANGED appVars /\ last' = last /\ skipped' = skipped
  BY DEF tcp_sock_accept, tcp_sock_accept_dequeue, netVars, inVars
<1>3. /\ todo' = todo /\ pend' = pend /\ delivered' = delivered /\ held' = held
  BY <1>2 DEF appVars
<1>4. PICK l : /\ Goto(Server, l)
               /\ \/ /\ pc[Server] = "accept" /\ queue' = queue
                     /\ \/ l = "dequeue" /\ queue = "accept"
                        \/ l = "to_sleep_accept"
                  \/ pc[Server] = "dequeue" /\ queue' = "taken" /\ l = "read"
  <2>1. CASE tcp_sock_accept
    <3>1. Sleeping["accept"] = "to_sleep_accept" BY CallPlaces
    <3>2. /\ pc[Server] = "accept" /\ queue' = queue
          /\ Goto(Server, IF queue = "accept" THEN "dequeue" ELSE "to_sleep_accept")
      BY <2>1, <3>1 DEF tcp_sock_accept, At, inVars
    <3>3. CASE queue = "accept" BY <3>2, <3>3
    <3>4. CASE queue # "accept" BY <3>2, <3>4
    <3> QED BY <3>3, <3>4
  <2>2. CASE tcp_sock_accept_dequeue BY <2>2 DEF tcp_sock_accept_dequeue, At
  <2> QED BY <2>1, <2>2
<1>5. l \in Locations /\ l \in Reading /\ pc[Server] \in Reading
  BY <1>4, CallPlaces DEF Locations, Reading, Calls, Sleeping
<1>6. /\ pc' \in [End -> Locations] /\ pc'[Server] = l /\ pc'[Client] = pc[Client]
  BY <1>1, <1>4, <1>5, GotoIs
<1>7. TcpTypeOK' BY <1>1, <1>2, <1>3, <1>4, <1>6 DEF TcpTypeOK
<1>8. ServerInv' BY <1>2, <1>3, <1>5, <1>6, ServerMoves DEF TInv
<1>9. AcceptInv'
  <2>1. AcceptInv BY DEF TInv
  <2> QED BY <2>1, <1>2, <1>4, <1>6 DEF AcceptInv
<1>10. DataInv' BY <1>2, <1>3, DataKept DEF TInv
<1>11. FromServer' = FromServer BY <1>2 DEF FromServer
<1>12. last => ClosedByClient BY DEF TInv, ClientInv
<1> QED BY <1>1, <1>2, <1>3, <1>6, <1>7, <1>8, <1>9, <1>10, <1>11, <1>12, ServerStep

LEMMA ConcatParts ==
  ASSUME NEW a \in Seq(Nat), NEW b \in Seq(Nat), NEW c \in Seq(Nat)
  PROVE  (a \o b) \o c = a \o (b \o c)
BY ConcatAssociative

\* Reading moves units from the ring buffer to the program, in order.
LEMMA SplitIs ==
  ASSUME NEW a \in Seq(Nat), NEW b \in Seq(Nat), NEW n \in 1 .. Len(b)
  PROVE  /\ a \o SubSeq(b, 1, n) \in Seq(Nat) /\ SubSeq(b, n + 1, Len(b)) \in Seq(Nat)
         /\ (a \o SubSeq(b, 1, n)) \o SubSeq(b, n + 1, Len(b)) = a \o b
<1> DEFINE m == Len(b)
           x == SubSeq(b, 1, n)
           y == SubSeq(b, n + 1, m)
           c == x \o y
<1>1. m \in Nat /\ n \in Nat /\ 1 <= n /\ n <= m /\ n + 1 \in Int /\ 1 \in Int BY LenProperties
<1>2. \A i \in 1 .. m : b[i] \in Nat BY ElementOfSeq
<1> HIDE DEF m
<1>3. x \in Seq(Nat) /\ Len(x) = n /\ \A i \in 1 .. n : x[i] = b[i]
  <2>1. \A i \in 1 .. n : b[i] \in Nat BY <1>1, <1>2
  <2>2. /\ x \in Seq(Nat) /\ Len(x) = IF 1 <= n THEN n - 1 + 1 ELSE 0
        /\ \A i \in 1 .. n - 1 + 1 : x[i] = b[1 + i - 1]
    BY <2>1, <1>1, SubSeqProperties
  <2>3. \A i \in 1 .. n : i \in 1 .. n - 1 + 1 /\ 1 + i - 1 = i BY <1>1
  <2> QED BY <2>2, <2>3, <1>1
<1>4. y \in Seq(Nat) /\ Len(y) = m - n /\ \A i \in 1 .. m - n : y[i] = b[n + i]
  <2> DEFINE k == n + 1
  <2>1. \A i \in k .. m : b[i] \in Nat BY <1>1, <1>2
  <2>2. k \in Int /\ k = n + 1 /\ m \in Int BY <1>1
  <2> HIDE DEF k
  <2>3. /\ SubSeq(b, k, m) \in Seq(Nat)
        /\ Len(SubSeq(b, k, m)) = IF k <= m THEN m - k + 1 ELSE 0
        /\ \A i \in 1 .. m - k + 1 : SubSeq(b, k, m)[i] = b[k + i - 1]
    BY <2>1, <2>2, SubSeqProperties
  <2>4. y = SubSeq(b, k, m) BY DEF k
  <2> HIDE DEF y
  <2>5. Len(y) = m - n BY <2>2, <2>3, <2>4, <1>1
  <2>6. \A i \in 1 .. m - n : i \in 1 .. m - k + 1 /\ k + i - 1 = n + i BY <2>2, <1>1
  <2>7. \A i \in 1 .. m - n : y[i] = b[n + i]
    <3> SUFFICES ASSUME NEW i \in 1 .. m - n PROVE y[i] = b[n + i]
      OBVIOUS
    <3>1. i \in 1 .. m - k + 1 /\ k + i - 1 = n + i BY <2>6
    <3>2. y[i] = b[k + i - 1] BY <3>1, <2>3, <2>4
    <3> QED BY <3>1, <3>2
  <2> QED BY <2>3, <2>4, <2>5, <2>7
<1> HIDE DEF x, y
<1>5. /\ c \in Seq(Nat) /\ Len(c) = n + (m - n)
      /\ \A i \in 1 .. n + (m - n) : c[i] = IF i <= n THEN x[i] ELSE y[i - n]
  <2>1. x \in Seq(Nat) /\ y \in Seq(Nat) BY <1>3, <1>4
  <2>2. /\ c \in Seq(Nat) /\ Len(c) = Len(x) + Len(y)
        /\ \A i \in 1 .. Len(x) + Len(y) : c[i] = IF i <= Len(x) THEN x[i] ELSE y[i - Len(x)]
    BY <2>1, ConcatProperties
  <2>3. Len(x) = n /\ Len(y) = m - n BY <1>3, <1>4
  <2> HIDE DEF c
  <2> QED BY <2>2, <2>3
<1>9. (a \o x) \o y = a \o c /\ a \o x \in Seq(Nat)
  <2>1. x \in Seq(Nat) /\ y \in Seq(Nat) BY <1>3, <1>4
  <2>2. (a \o x) \o y = a \o (x \o y) BY <2>1, ConcatParts
  <2>3. a \o x \in Seq(Nat) BY <2>1, ConcatProperties
  <2> QED BY <2>2, <2>3
<1> HIDE DEF c
<1>6. Len(c) = m BY <1>1, <1>5
<1>7. \A i \in 1 .. m : c[i] = b[i]
  <2> SUFFICES ASSUME NEW i \in 1 .. m PROVE c[i] = b[i]
    OBVIOUS
  <2>1. i \in 1 .. n + (m - n) BY <1>1
  <2>2. CASE i <= n
    <3>1. i \in 1 .. n BY <2>2, <1>1
    <3> QED BY <2>1, <2>2, <3>1, <1>3, <1>5
  <2>3. CASE ~(i <= n)
    <3>1. i - n \in 1 .. m - n /\ n + (i - n) = i BY <2>3, <1>1
    <3>2. y[i - n] = b[n + (i - n)] BY <3>1, <1>4
    <3> QED BY <2>1, <2>3, <3>1, <3>2, <1>5
  <2> QED BY <2>2, <2>3
<1>8. c = b BY <1>5, <1>6, <1>7, SeqEqual DEF m
<1> QED BY <1>4, <1>8, <1>9 DEF m, x, y


\* How a read leaves the socket.
ReadFrom(s, t) ==
  /\ t \in Socks /\ t.state = s.state /\ t.snd_nxt = s.snd_nxt /\ t.rcv_nxt = s.rcv_nxt
  /\ t.send_list = s.send_list /\ t.recv_list = s.recv_list
  /\ t.hashed = s.hashed /\ t.timewait = s.timewait
  /\ s.rcv_buf = <<>> => t = s /\ delivered' = delivered

LEMMA ReadIs ==
  ASSUME TcpTypeOK, read_ring_buffer \/ UNCHANGED <<sock, delivered>>
  PROVE  /\ \E t : sock' = [sock EXCEPT ![Server] = t] /\ ReadFrom(sock[Server], t)
         /\ delivered' \in Seq(Nat) /\ Received' = Received
<1> DEFINE s == sock[Server]
           buf == s.rcv_buf
<1>1. /\ s \in Socks /\ buf \in Seq(Nat) /\ delivered \in Seq(Nat)
      /\ sock \in [End -> Socks] /\ Server \in End
  BY SocksOf, SockFields, Ends DEF TcpTypeOK
<1>2. CASE UNCHANGED <<sock, delivered>>
  <2>1. sock' = [sock EXCEPT ![Server] = s] /\ delivered' = delivered BY <1>1, <1>2
  <2>2. ReadFrom(s, s) BY <1>1, <2>1 DEF ReadFrom
  <2>3. Received' = Received BY <1>2 DEF Received
  <2> QED BY <1>1, <2>1, <2>2, <2>3
<1>3. CASE /\ buf # <<>>
           /\ \E n \in {1, Len(buf)} :
                /\ delivered' = delivered \o SubSeq(buf, 1, n)
                /\ sock' = [sock EXCEPT ![Server].rcv_buf = SubSeq(@, n + 1, Len(@))]
  <2>1. PICK n \in {1, Len(buf)} :
          /\ delivered' = delivered \o SubSeq(buf, 1, n)
          /\ sock' = [sock EXCEPT ![Server].rcv_buf = SubSeq(@, n + 1, Len(@))]
    BY <1>3
  <2> DEFINE rest == SubSeq(buf, n + 1, Len(buf))
             t == [s EXCEPT !.rcv_buf = rest]
  <2>2. n \in 1 .. Len(buf)
    <3> HIDE DEF buf
    <3>1. Len(buf) \in Nat \ {0} BY <1>1, <1>3, EmptySeq
    <3> QED BY <2>1, <3>1
  <2>3. sock' = [sock EXCEPT ![Server] = t] BY <2>1, <1>1
  <2>4. /\ delivered' \in Seq(Nat) /\ rest \in Seq(Nat) /\ delivered' \o rest = delivered \o buf
    <3> HIDE DEF buf
    <3> QED BY <2>1, <2>2, <1>1, SplitIs
  <2> HIDE DEF rest
  <2>5. ReadFrom(s, t) /\ t.rcv_buf = rest
    <3> HIDE DEF s
    <3> QED BY <1>1, <1>3, <2>4 DEF ReadFrom, Socks
  <2> HIDE DEF t
  <2>6. sock'[Server] = t BY <1>1, <2>3
  <2>7. Received' = Received BY <2>4, <2>5, <2>6 DEF Received
  <2> QED BY <2>3, <2>4, <2>5, <2>7
<1> QED BY <1>2, <1>3 DEF read_ring_buffer

LEMMA ReadKeeps ==
  ASSUME TInv, read_ring_buffer \/ UNCHANGED <<sock, delivered>>,
         pc[Server] \in {"read", "take"}, NEW l, Goto(Server, l),
         \/ l \in {"read", "take", "to_sleep_recv"}
         \/ l = "close" /\ last /\ sock[Server].rcv_buf = <<>>,
         net' = net, wait' = wait, halt' = halt, todo' = todo, pend' = pend,
         held' \in BOOLEAN, UNCHANGED inVars
  PROVE  TInv'
<1> DEFINE s == sock[Server]
<1>1. /\ TcpTypeOK /\ Client \in End /\ Server \in End /\ Client # Server
      /\ s \in Socks /\ s.rcv_nxt \in Nat
  BY Ends, SocksOf, SockFields DEF TInv
<1>2. queue' = queue /\ last' = last /\ skipped' = skipped BY DEF inVars
<1>3. /\ \E t : sock' = [sock EXCEPT ![Server] = t] /\ ReadFrom(s, t)
      /\ delivered' \in Seq(Nat) /\ Received' = Received
  BY <1>1, ReadIs
<1>4. PICK t : sock' = [sock EXCEPT ![Server] = t] /\ ReadFrom(s, t) BY <1>3
<1>5. t \in Socks BY <1>4 DEF ReadFrom
<1>6. sock'[Server] = t /\ sock'[Client] = sock[Client] /\ sock' \in [End -> Socks]
  BY <1>1, <1>4, <1>5, BecomesType
<1>7. /\ pc' \in [End -> Locations] /\ pc'[Server] = l /\ pc'[Client] = pc[Client]
  <2>1. Sleeping["recv"] = "to_sleep_recv" /\ Sleeping["recv"] \in Locations
    BY CallPlaces DEF Calls
  <2>2. l \in Locations BY <2>1 DEF Locations
  <2> QED BY <2>2, <1>1, GotoIs
<1>8. TcpTypeOK' BY <1>1, <1>2, <1>3, <1>6, <1>7 DEF TcpTypeOK
<1>9. Written' = Written BY DEF Written, First
<1>10. ~ClosedByServer /\ ~ClosedByServer' BY <1>7 DEF ClosedByServer
<1>11. ServerInv'
  <2> HIDE DEF s
  <2>1. /\ t.state = s.state /\ t.snd_nxt = s.snd_nxt /\ t.rcv_nxt = s.rcv_nxt
        /\ t.recv_list = s.recv_list /\ t.hashed = s.hashed /\ t.timewait = s.timewait
        /\ s.rcv_buf = <<>> => t = s /\ delivered' = delivered
    BY <1>4 DEF ReadFrom
  <2>2. ~s.hashed => s.rcv_buf = <<>>
    BY DEF TInv, ServerInv, s, alloc_tcp_sock
  <2>3. l \in ServerLocations /\ l # "done" BY DEF ServerLocations
  <2>4. l = "close" => last /\ t.rcv_buf = <<>> BY <2>1 DEF s
  <2> QED BY <2>1, <2>2, <2>3, <2>4, <1>2, <1>6, <1>7, <1>9, <1>10
      DEF TInv, ServerInv, Written, First, s
<1>12. AcceptInv'
  <2>1. sock[Client].rcv_nxt > ISS[Server] BY DEF TInv, AcceptInv
  <2> QED BY <2>1, <1>6 DEF AcceptInv
<1>13. DataInv'
  <2> HIDE DEF s
  <2>1. t.rcv_nxt = s.rcv_nxt /\ t.hashed = s.hashed BY <1>4 DEF ReadFrom
  <2> QED BY <2>1, <1>2, <1>3, <1>6, <1>9 DEF TInv, DataInv, First, s
<1>14. FromServer' = FromServer
  <2>1. t.send_list = s.send_list BY <1>4 DEF ReadFrom
  <2> QED BY <2>1, <1>6 DEF FromServer, InSendList
<1>15. last => ClosedByClient BY DEF TInv, ClientInv
<1>16. s.rcv_nxt <= sock'[Server].rcv_nxt BY <1>1, <1>4, <1>6 DEF ReadFrom
<1> QED BY <1>2, <1>6, <1>7, <1>8, <1>11, <1>12, <1>13, <1>14, <1>15, <1>16, ServerStep

LEMMA ReadsKeep ==
  ASSUME TInv, tcp_sock_read \/ take
  PROVE  TInv'
<1>1. Reads \in {"read", "close"} /\ (Reads = "close" => sock[Server].rcv_buf = <<>>)
  BY DEF Reads
<1>2. Sleeping["recv"] = "to_sleep_recv" BY CallPlaces
<1>3. last \in BOOLEAN /\ held \in BOOLEAN BY DEF TInv, TcpTypeOK
<1>4. CASE tcp_sock_read
  <2>1. /\ pc[Server] = "read" /\ net' = net /\ wait' = wait /\ halt' = halt /\ todo' = todo
        /\ pend' = pend /\ held' = held /\ UNCHANGED inVars
        /\ \/ last /\ read_ring_buffer /\ Goto(Server, Reads)
           \/ /\ Goto(Server, IF sock[Server].rcv_buf = <<>> THEN "to_sleep_recv" ELSE "take")
              /\ UNCHANGED <<sock, delivered>>
    BY <1>2, <1>4 DEF tcp_sock_read, At
  <2>2. PICK l : /\ Goto(Server, l)
                 /\ \/ l \in {"read", "take", "to_sleep_recv"}
                    \/ l = "close" /\ last /\ sock[Server].rcv_buf = <<>>
    <3>1. CASE last /\ Goto(Server, Reads) BY <3>1, <1>1
    <3>2. CASE Goto(Server, IF sock[Server].rcv_buf = <<>> THEN "to_sleep_recv" ELSE "take")
      BY <3>2
    <3> QED BY <3>1, <3>2, <2>1
  <2> QED BY <2>1, <2>2, <1>3, ReadKeeps
<1>5. CASE take
  <2>1. /\ pc[Server] = "take" /\ net' = net /\ wait' = wait /\ halt' = halt /\ todo' = todo
        /\ pend' = pend /\ held' = last /\ UNCHANGED inVars /\ read_ring_buffer
        /\ Goto(Server, IF last THEN Reads ELSE "read")
    BY <1>5 DEF take, At
  <2>2. PICK l : /\ Goto(Server, l)
                 /\ \/ l \in {"read", "take", "to_sleep_recv"}
                    \/ l = "close" /\ last /\ sock[Server].rcv_buf = <<>>
    <3>1. CASE last BY <3>1, <2>1, <1>1
    <3>2. CASE ~last BY <3>2, <2>1
    <3> QED BY <3>1, <3>2
  <2> QED BY <2>1, <2>2, <1>3, ReadKeeps
<1> QED BY <1>4, <1>5


LEMMA CloseServerKeeps ==
  ASSUME TInv, tcp_sock_close(Server)
  PROVE  TInv'
<1> DEFINE s == sock[Server]
           t == SendFlag(s, "FIN")
           pkt == Segment(s, "FIN", 0)
<1>1. /\ TcpTypeOK /\ Client \in End /\ Server \in End /\ Client # Server /\ 0 \in 0 .. MSS
  BY Ends, Numbers DEF TInv
<1>2. s \in Socks /\ s.snd_nxt \in Nat /\ s.rcv_nxt \in Nat
  BY <1>1, SocksOf, SockFields
<1>3. /\ pc[Server] = "close" /\ s.state \in {"ESTABLISHED", "CLOSE_WAIT"}
      /\ sock' = [sock EXCEPT ![Server] = t] /\ Send(Server, {pkt})
      /\ Goto(Server, Closing[CloseTarget(s.state)])
      /\ wait' = wait /\ halt' = halt /\ UNCHANGED appVars /\ UNCHANGED inVars
  BY DEF tcp_sock_close, At, Becomes
<1>4. /\ todo' = todo /\ pend' = pend /\ delivered' = delivered /\ held' = held
      /\ queue' = queue /\ last' = last /\ skipped' = skipped
  BY <1>3 DEF appVars, inVars
<1>5. last /\ s.rcv_buf = <<>> /\ s.hashed /\ ~ClosedByServer
  <2>1. last /\ s.rcv_buf = <<>> BY <1>3 DEF TInv, ServerInv
  <2>2. s.hashed BY <2>1 DEF TInv, ServerInv
  <2> QED BY <2>1, <2>2, <1>3 DEF ClosedByServer
<1>6. s.state = "CLOSE_WAIT" /\ s.snd_nxt = ISS[Server] + 1
  BY <1>3, <1>5 DEF TInv, ServerInv
<1>7. Goto(Server, "to_last_ack") BY <1>3, <1>6 DEF Closing, CloseTarget
<1> HIDE DEF s
<1>8. "FIN" \in Flags BY DEF Flags
<1>9. /\ t \in Socks /\ t.state = s.state /\ t.snd_nxt = s.snd_nxt + 1
      /\ InSendList(t) = InSendList(s) \cup {pkt} /\ ReceiveSame(s, t)
  BY <1>2, <1>8, SendFlagIs
<1>10. pkt \in Packets /\ pkt.flags = "FIN" /\ pkt.seq = ISS[Server] + 1 /\ pkt.ack = s.rcv_nxt
       /\ pkt.len = 0
  <2>1. pkt \in Packets BY <1>1, <1>2, <1>8, SegmentType
  <2> QED BY <2>1, <1>6 DEF Segment
<1> HIDE DEF t, pkt
<1>11. sock'[Server] = t /\ sock'[Client] = sock[Client] /\ sock' \in [End -> Socks]
  BY <1>1, <1>3, <1>9, BecomesType
<1>12. /\ net' \in [End -> SUBSET Packets]
       /\ net'[Server] = net[Server] /\ net'[Client] = net[Client] \cup {pkt}
  BY <1>1, <1>3, <1>10, SendIs
<1>13. /\ pc' \in [End -> Locations] /\ pc'[Server] = "to_last_ack" /\ pc'[Client] = pc[Client]
  <2>1. "to_last_ack" \in Locations BY DEF Locations, Closing
  <2> QED BY <2>1, <1>1, <1>7, GotoIs
<1>14. TcpTypeOK' BY <1>1, <1>3, <1>4, <1>11, <1>12, <1>13 DEF TcpTypeOK
<1>15. Written' = Written BY <1>4 DEF Written, First
<1>16. ClosedByServer' BY <1>13 DEF ClosedByServer
<1>17. t.rcv_nxt = s.rcv_nxt /\ t.recv_list = s.recv_list /\ t.rcv_buf = s.rcv_buf
       /\ t.hashed = s.hashed /\ t.timewait = s.timewait
  BY <1>9 DEF ReceiveSame
<1>18. ServerInv'
  <2>1. t.snd_nxt = ISS[Server] + 2 BY <1>6, <1>9, Numbers
  <2> QED BY <2>1, <1>4, <1>5, <1>6, <1>9, <1>11, <1>13, <1>15, <1>16, <1>17
      DEF TInv, ServerInv, ServerLocations, Written, First, s
<1>19. AcceptInv'
  <2>1. sock[Client].rcv_nxt > ISS[Server] BY <1>3 DEF TInv, AcceptInv
  <2> QED BY <2>1, <1>11 DEF AcceptInv
<1>20. DataInv'
  <2>1. Received' = Received BY <1>4, <1>11, <1>17 DEF Received, s
  <2> QED BY <2>1, <1>4, <1>11, <1>15, <1>17 DEF TInv, DataInv, First, s
<1>21. \A p \in FromServer' : p \in FromServer \/ ServerPacket(p)'
  <2>1. FromServer' \subseteq FromServer \cup {pkt}
    BY <1>9, <1>11, <1>12 DEF FromServer, s
  <2>2. ASSUME NEW p, p = pkt PROVE ServerPacket(p)'
    BY <2>2, <1>2, <1>4, <1>5, <1>10, <1>11, <1>17 DEF ServerPacket
  <2> QED BY <2>1, <2>2
<1>22. last => ClosedByClient BY DEF TInv, ClientInv
<1>23. sock[Server].rcv_nxt <= sock'[Server].rcv_nxt BY <1>2, <1>11, <1>17 DEF s
<1> QED BY <1>4, <1>11, <1>12, <1>13, <1>14, <1>18, <1>19, <1>20, <1>21, <1>22, <1>23, ServerStep

LEMMA SetClosingServerKeeps ==
  ASSUME TInv, set_closing(Server)
  PROVE  TInv'
<1> DEFINE s == sock[Server]
           t == [s EXCEPT !.state = "LAST_ACK"]
<1>1. /\ TcpTypeOK /\ Client \in End /\ Server \in End /\ Client # Server
  BY Ends DEF TInv
<1>2. s \in Socks /\ s.snd_nxt \in Nat /\ s.rcv_nxt \in Nat
  BY <1>1, SocksOf, SockFields
<1>3. /\ Goto(Server, "done") /\ net' = net
      /\ wait' = wait /\ halt' = halt /\ UNCHANGED appVars /\ UNCHANGED inVars
  BY DEF set_closing
<1>4. /\ todo' = todo /\ pend' = pend /\ delivered' = delivered /\ held' = held
      /\ queue' = queue /\ last' = last /\ skipped' = skipped
  BY <1>3 DEF appVars, inVars
<1>5. pc[Server] = "to_last_ack" /\ sock' = [sock EXCEPT ![Server].state = "LAST_ACK"]
  <2>1. PICK x \in {"FIN_WAIT_1", "LAST_ACK"} :
          pc[Server] = Closing[x] /\ sock' = [sock EXCEPT ![Server].state = x]
    BY DEF set_closing, At
  <2>2. pc[Server] # "to_fin_wait_1" BY DEF TInv, ServerInv, ServerLocations
  <2>3. Closing["LAST_ACK"] = "to_last_ack" /\ Closing["FIN_WAIT_1"] = "to_fin_wait_1"
    BY DEF Closing
  <2>4. x = "LAST_ACK" BY <2>1, <2>2, <2>3
  <2> QED BY <2>1, <2>3, <2>4
<1>6. sock' = [sock EXCEPT ![Server] = t] BY <1>1, <1>5 DEF TcpTypeOK
<1>7. /\ t \in Socks /\ t.state = "LAST_ACK" /\ t.snd_nxt = s.snd_nxt
      /\ t.send_list = s.send_list /\ ReceiveSame(s, t)
  BY <1>2 DEF Socks, States, ReceiveSame
<1>8. InSendList(t) = InSendList(s) BY <1>7 DEF InSendList
<1> HIDE DEF s, t
<1>9. sock'[Server] = t /\ sock'[Client] = sock[Client] /\ sock' \in [End -> Socks]
  BY <1>1, <1>6, <1>7, BecomesType
<1>10. /\ pc' \in [End -> Locations] /\ pc'[Server] = "done" /\ pc'[Client] = pc[Client]
  <2>1. "done" \in Locations BY DEF Locations
  <2> QED BY <2>1, <1>1, <1>3, GotoIs
<1>11. TcpTypeOK' BY <1>1, <1>3, <1>4, <1>9, <1>10 DEF TcpTypeOK
<1>12. Written' = Written BY <1>4 DEF Written, First
<1>13. ClosedByServer /\ ClosedByServer' BY <1>5, <1>10 DEF ClosedByServer
<1>14. t.rcv_nxt = s.rcv_nxt /\ t.recv_list = s.recv_list /\ t.rcv_buf = s.rcv_buf
       /\ t.hashed = s.hashed /\ t.timewait = s.timewait
  BY <1>7 DEF ReceiveSame
<1>15. last /\ s.hashed
  <2>1. last BY <1>13 DEF TInv, ServerInv
  <2> QED BY <2>1 DEF TInv, ServerInv, s
<1>16. ServerInv'
  BY <1>4, <1>7, <1>9, <1>10, <1>12, <1>13, <1>14, <1>15
  DEF TInv, ServerInv, ServerLocations, Written, First, s
<1>17. AcceptInv'
  <2>1. sock[Client].rcv_nxt > ISS[Server] BY <1>5 DEF TInv, AcceptInv
  <2> QED BY <2>1, <1>9 DEF AcceptInv
<1>18. DataInv'
  <2>1. Received' = Received BY <1>4, <1>9, <1>14 DEF Received, s
  <2> QED BY <2>1, <1>4, <1>9, <1>12, <1>14 DEF TInv, DataInv, First, s
<1>19. FromServer' = FromServer BY <1>3, <1>8, <1>9 DEF FromServer, s
<1>20. last => ClosedByClient BY DEF TInv, ClientInv
<1>21. sock[Server].rcv_nxt <= sock'[Server].rcv_nxt BY <1>2, <1>9, <1>14 DEF s
<1> QED BY <1>3, <1>4, <1>9, <1>10, <1>11, <1>16, <1>17, <1>18, <1>19, <1>20, <1>21, ServerStep

LEMMA ListenKeeps ==
  ASSUME TInv, NEW p, tcp_state_listen(p)
  PROVE  TInv'
<1> DEFINE none == alloc_tcp_sock
           s == [none EXCEPT !.state = "SYN_RECV", !.snd_nxt = ISS[Server],
                   !.rcv_nxt = p.seq + 1, !.snd_wnd = Window, !.hashed = TRUE]
           t == SendFlag(s, "SYN_ACK")
           pkt == Segment(s, "SYN_ACK", 0)
<1>1. /\ TcpTypeOK /\ Client \in End /\ Server \in End /\ Client # Server /\ 0 \in 0 .. MSS
      /\ ISS[Server] \in Nat /\ First \in Nat /\ sock[Server] \in Socks
  BY Ends, Numbers, SocksOf DEF TInv
<1>2. /\ p \in net[Server] /\ ~sock[Server].hashed /\ p.flags \in {"SYN", "SYN_ACK"}
      /\ sock' = [sock EXCEPT ![Server] = t] /\ Send(Server, {pkt}) /\ queue' = "listen"
      /\ pc' = pc /\ wait' = wait /\ halt' = halt /\ UNCHANGED appVars
      /\ last' = last /\ skipped' = skipped
  BY DEF tcp_state_listen, Arrives, Becomes
<1>3. /\ todo' = todo /\ pend' = pend /\ delivered' = delivered /\ held' = held
  BY <1>2 DEF appVars
<1>4. sock[Server] = none /\ ~last /\ delivered = <<>> /\ ~ClosedByServer /\ pc[Server] # "close"
  <2>1. sock[Server] = none /\ ~last /\ delivered = <<>> BY <1>2 DEF TInv, ServerInv
  <2> QED BY <2>1 DEF TInv, ServerInv
<1>5. p.seq + 1 = First
  <2>1. ClientPacket(p) BY <1>2 DEF TInv, PacketsTrue, FromClient
  <2>2. p.flags = "SYN" BY <2>1, <1>2 DEF ClientPacket
  <2> QED BY <2>1, <2>2 DEF ClientPacket, First
<1>6. /\ none \in Socks /\ none.recv_list = {} /\ none.rcv_buf = <<>> /\ none.hashed = FALSE
      /\ none.timewait = FALSE /\ none.send_list = {} /\ none.rcv_nxt = 0
  BY <1>1, <1>4 DEF alloc_tcp_sock
<1> HIDE DEF none
<1>7. /\ s \in Socks /\ s.state = "SYN_RECV" /\ s.snd_nxt = ISS[Server] /\ s.rcv_nxt = First
      /\ s.recv_list = {} /\ s.rcv_buf = <<>> /\ s.hashed = TRUE /\ s.timewait = FALSE
      /\ s.send_list = {}
  <2>1. p.seq + 1 \in Nat /\ Window \in 0 .. Window BY <1>1, <1>5, Numbers
  <2> QED BY <2>1, <1>1, <1>5, <1>6 DEF Socks, States
<1> HIDE DEF s
<1>8. "SYN_ACK" \in Flags BY DEF Flags
<1>9. /\ t \in Socks /\ t.state = s.state /\ t.snd_nxt = s.snd_nxt + 1
      /\ InSendList(t) = InSendList(s) \cup {pkt} /\ ReceiveSame(s, t)
  BY <1>7, <1>8, SendFlagIs
<1>10. InSendList(s) = {} BY <1>7 DEF InSendList
<1>11. pkt \in Packets /\ pkt.flags = "SYN_ACK" /\ pkt.seq = ISS[Server] /\ pkt.ack = First
       /\ pkt.len = 0
  <2>1. pkt \in Packets BY <1>1, <1>7, <1>8, SegmentType
  <2> QED BY <2>1, <1>7 DEF Segment
<1> HIDE DEF t, pkt
<1>12. sock'[Server] = t /\ sock'[Client] = sock[Client] /\ sock' \in [End -> Socks]
  BY <1>1, <1>2, <1>9, BecomesType
<1>13. /\ net' \in [End -> SUBSET Packets]
       /\ net'[Server] = net[Server] /\ net'[Client] = net[Client] \cup {pkt}
  BY <1>1, <1>2, <1>11, SendIs
<1>14. TcpTypeOK' BY <1>1, <1>2, <1>3, <1>12, <1>13 DEF TcpTypeOK
<1>15. Written' = Written /\ ClosedByServer' = ClosedByServer
  BY <1>2, <1>3 DEF Written, First, ClosedByServer
<1>16. t.rcv_nxt = First /\ t.recv_list = {} /\ t.rcv_buf = <<>> /\ t.hashed /\ ~t.timewait
       /\ t.state = "SYN_RECV" /\ t.snd_nxt = ISS[Server] + 1
  BY <1>7, <1>9 DEF ReceiveSame
<1>17. First <= Written BY <1>1, Bounds
<1>18. ServerInv'
  BY <1>1, <1>2, <1>4, <1>12, <1>15, <1>16, <1>17 DEF TInv, ServerInv, Written, First
<1>19. AcceptInv' BY <1>2, <1>12 DEF TInv, AcceptInv
<1>20. DataInv'
  <2>1. Received' = Received BY <1>3, <1>4, <1>6, <1>12, <1>16 DEF Received
  <2>2. Len(Received) = 0
    <3>1. <<>> \o <<>> = <<>> /\ Len(<<>>) = 0 BY ConcatEmptySeq, EmptySeq
    <3> QED BY <3>1, <1>4, <1>6 DEF Received
  <2>3. \A n \in First .. Written - 1 : n \in Covered(InSendList(sock[Client]))
    <3>1. \A n \in First .. Written - 1 : ~(n < 0) BY <1>1
    <3> QED BY <3>1, <1>4, <1>6 DEF TInv, DataInv
  <2>4. Units - todo \in Nat /\ todo' = todo
    <3>1. todo \in Int /\ todo <= Units /\ Units \in Nat BY <1>1, Bounds, Numbers
    <3> QED BY <3>1, <1>3
  <2>5. "data" \notin skipped' => Received' = Whole(Len(Received')) /\ Len(Received') <= Units - todo'
    <3>1. "data" \notin skipped => Received = Whole(Len(Received)) BY DEF TInv, DataInv
    <3> QED BY <3>1, <2>1, <2>2, <2>4, <1>2
  <2>6. sock'[Server].rcv_nxt - First = 0 BY <1>1, <1>12, <1>16
  <2>7. Len(Received') = 0 BY <2>1, <2>2
  <2>8. ~last' BY <1>2, <1>4
  <2>9. \A n \in First .. Written' - 1 :
           n \in Covered(InSendList(sock'[Client])) \/ n < sock'[Server].rcv_nxt
    BY <2>3, <1>12, <1>15
  <2> QED BY <2>5, <2>6, <2>7, <2>8, <2>9 DEF DataInv, First
<1>21. \A q \in FromServer' : q \in FromServer \/ ServerPacket(q)'
  <2>1. FromServer' \subseteq FromServer \cup {pkt}
    BY <1>9, <1>10, <1>12, <1>13 DEF FromServer
  <2>2. ASSUME NEW q, q = pkt PROVE ServerPacket(q)'
    BY <2>2, <1>1, <1>11, <1>12, <1>16 DEF ServerPacket
  <2> QED BY <2>1, <2>2
<1>22. 0 <= First BY <1>1
<1> QED BY <1>2, <1>3, <1>4, <1>6, <1>12, <1>13, <1>14, <1>16, <1>18, <1>19, <1>20, <1>21,
           <1>22, ServerStep


(***************************************************************************)
(* The server receives.                                                      *)
(***************************************************************************)
LEMMA PassedServer ==
  ASSUME TInv, NEW p \in net[Server], NEW s, s = sock[Server], s.hashed
  PROVE  \/ Passed(s, p) = s.state
         \/ /\ s.state = "LAST_ACK" /\ Passed(s, p) = "CLOSED" /\ last /\ pc[Server] = "done"
            /\ sock[Client].rcv_nxt = ISS[Server] + 2
<1>1. s.state # "FIN_WAIT_1" BY DEF TInv, ServerInv
<1>2. CASE s.state = "LAST_ACK" /\ p.ack = s.snd_nxt
  <2>1. ClientPacket(p) BY DEF TInv, PacketsTrue, FromClient
  <2>2. pc[Server] = "done" /\ last BY <1>2 DEF TInv, ServerInv
  <2>3. s.snd_nxt = ISS[Server] + 2
    <3>1. ClosedByServer BY <2>2 DEF ClosedByServer
    <3> QED BY <3>1 DEF TInv, ServerInv
  <2>4. ISS[Server] + 2 <= sock[Client].rcv_nxt BY <2>1, <2>3, <1>2 DEF ClientPacket
  <2>5. sock[Client].rcv_nxt \in {0, ISS[Server] + 1, ISS[Server] + 2} BY DEF TInv, ClientInv
  <2>6. sock[Client].rcv_nxt = ISS[Server] + 2 BY <2>4, <2>5, Numbers
  <2> QED BY <1>2, <2>2, <2>6 DEF Passed
<1>3. CASE ~(s.state = "LAST_ACK" /\ p.ack = s.snd_nxt)
  BY <1>1, <1>3 DEF Passed
<1> QED BY <1>2, <1>3

LEMMA ServerSegments ==
  ASSUME TInv, NEW s, InSendList(s) = InSendList(sock[Server])
  PROVE  DataBelow(s, 0)
<1> SUFFICES ASSUME NEW q \in InSendList(s) PROVE q.len = 0
  BY DEF DataBelow
<1>1. ServerPacket(q) BY DEF TInv, PacketsTrue, FromServer
<1> QED BY <1>1 DEF ServerPacket

\* What a packet has added to the data: nothing, or the segment that was next.
Adds(s, u) ==
  \/ u.rcv_nxt = s.rcv_nxt /\ u.rcv_buf = s.rcv_buf
  \/ /\ ~last /\ u.rcv_nxt <= Written
     /\ \E g : /\ g.seq = s.rcv_nxt /\ g.len = u.rcv_nxt - s.rcv_nxt /\ g.len \in Nat
               /\ u.rcv_buf = s.rcv_buf \o Payload(g)

LEMMA AddedData ==
  ASSUME TInv, NEW s, NEW u, s = sock[Server], s.hashed, u \in Socks, Adds(s, u)
  PROVE  /\ s.rcv_nxt <= u.rcv_nxt
         /\ last => u.rcv_nxt = s.rcv_nxt /\ u.rcv_buf = s.rcv_buf
         /\ ~last => First <= u.rcv_nxt /\ u.rcv_nxt <= Written
         /\ "data" \notin skipped =>
              /\ delivered \o u.rcv_buf = Whole(Len(delivered \o u.rcv_buf))
              /\ ~last => Len(delivered \o u.rcv_buf) = u.rcv_nxt - First
<1>1. /\ TcpTypeOK /\ s \in Socks /\ s.rcv_nxt \in Nat /\ u.rcv_nxt \in Nat
      /\ s.rcv_buf \in Seq(Nat) /\ delivered \in Seq(Nat) /\ First \in Nat /\ Written \in Nat
  BY SocksOf, SockFields, Numbers, Bounds DEF TInv, TcpTypeOK
<1>2. ~last => First <= s.rcv_nxt /\ s.rcv_nxt <= Written BY DEF TInv, ServerInv
<1>3. "data" \notin skipped =>
        /\ delivered \o s.rcv_buf = Whole(Len(delivered \o s.rcv_buf))
        /\ ~last => Len(delivered \o s.rcv_buf) = s.rcv_nxt - First
  BY DEF TInv, DataInv, Received
<1>4. CASE u.rcv_nxt = s.rcv_nxt /\ u.rcv_buf = s.rcv_buf BY <1>1, <1>2, <1>3, <1>4
<1>5. ASSUME NEW g, ~last, u.rcv_nxt <= Written, g.seq = s.rcv_nxt,
             g.len = u.rcv_nxt - s.rcv_nxt, g.len \in Nat,
             u.rcv_buf = s.rcv_buf \o Payload(g)
      PROVE  /\ s.rcv_nxt <= u.rcv_nxt /\ First <= u.rcv_nxt
             /\ "data" \notin skipped =>
                  /\ delivered \o u.rcv_buf = Whole(Len(delivered \o u.rcv_buf))
                  /\ Len(delivered \o u.rcv_buf) = u.rcv_nxt - First
  <2>1. s.rcv_nxt <= u.rcv_nxt /\ First <= u.rcv_nxt BY <1>1, <1>2, <1>5
  <2>2. ASSUME "data" \notin skipped
        PROVE  /\ delivered \o u.rcv_buf = Whole(Len(delivered \o u.rcv_buf))
               /\ Len(delivered \o u.rcv_buf) = u.rcv_nxt - First
    <3> DEFINE r == delivered \o s.rcv_buf
               n == s.rcv_nxt - First
               d == Payload(g)
               m == n + g.len
    <3>1. n \in Nat /\ g.seq = First + n /\ g.seq \in Nat BY <1>1, <1>2, <1>5
    <3>2. m \in Nat /\ m = u.rcv_nxt - First
      <4>1. ASSUME NEW a \in Nat, NEW b \in Nat, NEW c \in Nat, NEW k \in Nat, k = b - a
            PROVE  (a - c) + k = b - c
        BY <4>1
      <4>2. (s.rcv_nxt - First) + g.len = u.rcv_nxt - First BY <4>1, <1>1, <1>5
      <4>3. m \in Nat BY <3>1, <1>5
      <4> QED BY <4>2, <4>3
    <3>3. r = Whole(n)
      <4>1. Len(r) = n /\ r = Whole(Len(r)) BY <1>3, <1>5, <2>2
      <4> HIDE DEF r, n
      <4> QED BY <4>1
    <3>4. d \in Seq(Nat) BY <3>1, <1>1, <1>2, <1>5, PayloadIs
    <3> HIDE DEF n, m
    <3>5. Whole(n) \o d = Whole(m) BY <3>1, <1>5, WholeGrows DEF m
    <3> HIDE DEF d
    <3>6. delivered \o u.rcv_buf = r \o d
      <4> DEFINE b == s.rcv_buf
      <4>1. u.rcv_buf = b \o d /\ b \in Seq(Nat) BY <1>1, <1>5 DEF d
      <4> HIDE DEF b
      <4>2. (delivered \o b) \o d = delivered \o (b \o d) BY <4>1, <3>4, <1>1, ConcatParts
      <4> QED BY <4>1, <4>2 DEF b
    <3> HIDE DEF r
    <3>7. delivered \o u.rcv_buf = Whole(m) BY <3>3, <3>5, <3>6
    <3>8. Len(Whole(m)) = m BY <3>2, WholeIs
    <3> QED BY <3>2, <3>7, <3>8
  <2> QED BY <2>1, <2>2
<1>6. CASE /\ ~last /\ u.rcv_nxt <= Written
           /\ \E g : /\ g.seq = s.rcv_nxt /\ g.len = u.rcv_nxt - s.rcv_nxt /\ g.len \in Nat
                     /\ u.rcv_buf = s.rcv_buf \o Payload(g)
  <2>1. PICK g : /\ g.seq = s.rcv_nxt /\ g.len = u.rcv_nxt - s.rcv_nxt /\ g.len \in Nat
                 /\ u.rcv_buf = s.rcv_buf \o Payload(g)
    BY <1>6
  <2>2. /\ s.rcv_nxt <= u.rcv_nxt /\ First <= u.rcv_nxt
        /\ "data" \notin skipped =>
             /\ delivered \o u.rcv_buf = Whole(Len(delivered \o u.rcv_buf))
             /\ Len(delivered \o u.rcv_buf) = u.rcv_nxt - First
    BY <2>1, <1>5, <1>6
  <2> QED BY <2>2, <1>6
<1> QED BY <1>4, <1>6 DEF Adds


\* The socket as the handler has it before it looks at the acknowledgement.
Handled(s, p, u) ==
  /\ u \in Socks /\ u.state = Passed(s, p) /\ u.snd_nxt = s.snd_nxt
  /\ u.hashed /\ ~u.timewait /\ InSendList(u) = InSendList(s) /\ Adds(s, u)
  /\ \A g \in u.recv_list : First <= g.seq /\ g.seq + g.len <= Written

LEMMA ServerReceives ==
  ASSUME TInv, NEW p \in net[Server], NEW s, s = sock[Server], s.hashed,
         s.state # "SYN_RECV",
         NEW u, Handled(s, p, u), Acknowledged(Server, u, p.ack),
         net' = net \/ Send(Server, {Ack(u)}), NEW cs, Wake(cs), "accept" \notin cs,
         pc' = pc, halt' = halt, todo' = todo, held' = held, delivered' = delivered,
         UNCHANGED inVars
  PROVE  TInv'
<1>1. /\ TcpTypeOK /\ Client \in End /\ Server \in End /\ Client # Server
  BY Ends DEF TInv
<1>2. s \in Socks /\ s.rcv_nxt \in Nat /\ First \in Nat /\ Written \in Nat
  BY <1>1, SocksOf, SockFields, Bounds, Numbers
<1>3. queue' = queue /\ last' = last /\ skipped' = skipped BY DEF inVars
<1>4. /\ u \in Socks /\ u.state = Passed(s, p) /\ u.snd_nxt = s.snd_nxt
      /\ u.hashed /\ ~u.timewait /\ InSendList(u) = InSendList(s) /\ Adds(s, u)
      /\ \A g \in u.recv_list : First <= g.seq /\ g.seq + g.len <= Written
  BY DEF Handled
<1>5. \/ u.state = s.state
      \/ /\ s.state = "LAST_ACK" /\ u.state = "CLOSED" /\ last /\ pc[Server] = "done"
         /\ sock[Client].rcv_nxt = ISS[Server] + 2
  BY <1>4, PassedServer
<1>6. DataBelow(u, 0) BY <1>4, ServerSegments
<1>7. /\ s.rcv_nxt <= u.rcv_nxt
      /\ last => u.rcv_nxt = s.rcv_nxt /\ u.rcv_buf = s.rcv_buf
      /\ ~last => First <= u.rcv_nxt /\ u.rcv_nxt <= Written
      /\ "data" \notin skipped =>
           /\ delivered \o u.rcv_buf = Whole(Len(delivered \o u.rcv_buf))
           /\ ~last => Len(delivered \o u.rcv_buf) = u.rcv_nxt - First
  BY <1>4, AddedData
<1> DEFINE ack == p.ack
<1>8. Acknowledged(Server, u, ack) OBVIOUS
<1> HIDE DEF ack
<1>9. PICK t : sock' = [sock EXCEPT ![Server] = t] /\ AckedFrom(u, t, ack)
  BY <1>1, <1>4, <1>6, <1>8, AcknowledgedIs
<1>10. pend' \in [pkt : Packets, wnd : 0 .. Window] /\ pend'.pkt = pend.pkt
  BY <1>1, <1>4, <1>6, <1>8, AcknowledgedIs
<1>11. /\ t \in Socks /\ t.state = u.state /\ t.snd_nxt = s.snd_nxt
       /\ t.rcv_nxt = u.rcv_nxt /\ t.recv_list = u.recv_list /\ t.rcv_buf = u.rcv_buf
       /\ t.hashed /\ ~t.timewait /\ InSendList(t) \subseteq InSendList(s)
  BY <1>4, <1>9 DEF AckedFrom, ReceiveSame
<1>12. sock'[Server] = t /\ sock'[Client] = sock[Client] /\ sock' \in [End -> Socks]
  BY <1>1, <1>9, <1>11, BecomesType
<1>13. Ack(u) \in Packets /\ Ack(u).flags = "ACK" /\ Ack(u).ack = u.rcv_nxt /\ Ack(u).len = 0
  <2>1. "ACK" \in Flags /\ 0 \in 0 .. MSS BY Numbers DEF Flags
  <2> QED BY <2>1, <1>4, SegmentType DEF Ack
<1>14. PICK pkts : /\ pkts \subseteq {Ack(u)} /\ net' \in [End -> SUBSET Packets]
                   /\ net'[Server] = net[Server] /\ net'[Client] = net[Client] \cup pkts
  <2>1. CASE net' = net
    <3>1. net' \in [End -> SUBSET Packets] BY <2>1, <1>1 DEF TcpTypeOK
    <3>2. {} \subseteq {Ack(u)} /\ net'[Client] = net[Client] \cup {} BY <2>1
    <3> QED BY <3>1, <3>2, <2>1
  <2>2. CASE Send(Server, {Ack(u)})
    <3> DEFINE pkts == {Ack(u)}
    <3>1. pkts \in SUBSET Packets /\ Send(Server, pkts) BY <2>2, <1>13
    <3> HIDE DEF pkts
    <3>2. /\ net' \in [End -> SUBSET Packets]
          /\ net'[Server] = net[Server] /\ net'[Client] = net[Client] \cup pkts
      BY <3>1, <1>1, SendIs
    <3> QED BY <3>2 DEF pkts
  <2> QED BY <2>1, <2>2
<1>15. wait' \in [Calls -> SynchWaits] /\ wait'["accept"] = wait["accept"]
  BY <1>1, WakeIs
<1>16. TcpTypeOK' BY <1>1, <1>3, <1>10, <1>12, <1>14, <1>15 DEF TcpTypeOK
<1>17. Written' = Written /\ ClosedByServer' = ClosedByServer
  BY DEF Written, First, ClosedByServer
<1>18. ServerInv'
  <2>1. /\ pc[Server] \in ServerLocations
        /\ s.state \in {"CLOSED", "SYN_RECV", "ESTABLISHED", "CLOSE_WAIT", "LAST_ACK"}
        /\ last <=> s.state \notin {"SYN_RECV", "ESTABLISHED"}
        /\ s.snd_nxt = IF ClosedByServer THEN ISS[Server] + 2 ELSE ISS[Server] + 1
        /\ last => s.rcv_nxt = Written + 1
        /\ s.state \in {"CLOSED", "LAST_ACK"} => pc[Server] = "done"
        /\ s.state = "CLOSED" => sock[Client].rcv_nxt = ISS[Server] + 2
        /\ pc[Server] = "close" \/ ClosedByServer => last /\ s.rcv_buf = <<>>
    BY DEF TInv, ServerInv
  <2>2. /\ t.state \in {"CLOSED", "SYN_RECV", "ESTABLISHED", "CLOSE_WAIT", "LAST_ACK"}
        /\ last <=> t.state \notin {"SYN_RECV", "ESTABLISHED"}
        /\ t.state # "SYN_RECV"
        /\ t.state \in {"CLOSED", "LAST_ACK"} => pc[Server] = "done"
        /\ t.state = "CLOSED" => sock[Client].rcv_nxt = ISS[Server] + 2
    BY <2>1, <1>5, <1>11
  <2>3. t.snd_nxt = IF ClosedByServer THEN ISS[Server] + 2 ELSE ISS[Server] + 1
    BY <2>1, <1>11
  <2>4. /\ last => t.rcv_nxt = Written + 1
        /\ ~last => First <= t.rcv_nxt /\ t.rcv_nxt <= Written
        /\ pc[Server] = "close" \/ ClosedByServer => last /\ t.rcv_buf = <<>>
    BY <2>1, <1>7, <1>11
  <2>5. \A g \in t.recv_list : First <= g.seq /\ g.seq + g.len <= Written BY <1>4, <1>11
  <2> QED BY <2>1, <2>2, <2>3, <2>4, <2>5, <1>3, <1>11, <1>12, <1>17
      DEF ServerInv, Written, First
<1>19. AcceptInv' BY <1>3, <1>12, <1>15 DEF TInv, AcceptInv
<1>20. DataInv'
  <2>1. Received' = delivered \o u.rcv_buf BY <1>11, <1>12 DEF Received
  <2>2. skipped = {} /\ last => Len(delivered \o u.rcv_buf) = Units - todo
    BY <1>7 DEF TInv, DataInv, Received
  <2>3. \A n \in First .. Written - 1 :
           n \in Covered(InSendList(sock[Client])) \/ n < t.rcv_nxt
    <3> SUFFICES ASSUME NEW n \in First .. Written - 1,
                        n \notin Covered(InSendList(sock[Client]))
                 PROVE  n < t.rcv_nxt
      OBVIOUS
    <3>1. n < s.rcv_nxt BY DEF TInv, DataInv
    <3>2. n \in Nat /\ t.rcv_nxt \in Nat BY <1>2, <1>11, SockFields
    <3> QED BY <3>1, <3>2, <1>2, <1>7, <1>11
  <2>4. "data" \notin skipped => Len(delivered \o u.rcv_buf) <= Units - todo
    <3>1. CASE last
      <4>1. delivered \o u.rcv_buf = Received BY <3>1, <1>7 DEF Received
      <4> QED BY <4>1 DEF TInv, DataInv
    <3>2. CASE ~last
      <4>1. Written - First = Units - todo BY <1>1, Bounds
      <4>2. u.rcv_nxt \in Nat /\ u.rcv_nxt <= Written BY <3>2, <1>4, <1>7, SockFields
      <4>3. u.rcv_nxt - First <= Units - todo BY <4>1, <4>2, <1>2
      <4> QED BY <4>3, <3>2, <1>7
    <3> QED BY <3>1, <3>2
  <2>5. "data" \notin skipped' =>
          /\ Received' = Whole(Len(Received')) /\ Len(Received') <= Units - todo'
          /\ ~last' => Len(Received') = sock'[Server].rcv_nxt - First
    BY <2>1, <2>4, <1>3, <1>7, <1>11, <1>12
  <2>6. skipped' = {} /\ last' => Len(Received') = Units - todo' BY <2>1, <2>2, <1>3
  <2>7. \A n \in First .. Written' - 1 :
           n \in Covered(InSendList(sock'[Client])) \/ n < sock'[Server].rcv_nxt
    BY <2>3, <1>12, <1>17
  <2> QED BY <2>5, <2>6, <2>7 DEF DataInv, First
<1>21. \A q \in FromServer' : q \in FromServer \/ ServerPacket(q)'
  <2>1. FromServer' \subseteq FromServer \cup pkts
    BY <1>11, <1>12, <1>14 DEF FromServer
  <2>2. ASSUME NEW q \in pkts PROVE ServerPacket(q)'
    <3>1. q = Ack(u) BY <1>14
    <3>2. q.flags = "ACK" /\ q.ack = u.rcv_nxt /\ q.len = 0 BY <3>1, <1>13
    <3>3. sock'[Server].rcv_nxt = u.rcv_nxt /\ u.rcv_nxt \in Nat
      BY <1>4, <1>11, <1>12, SockFields
    <3> QED BY <3>2, <3>3 DEF ServerPacket
  <2> QED BY <2>1, <2>2
<1>22. last => ClosedByClient BY DEF TInv, ClientInv
<1> QED BY <1>3, <1>7, <1>10, <1>11, <1>12, <1>14, <1>16, <1>18, <1>19, <1>20, <1>21, <1>22,
           ServerStep


LEMMA HandledPlain ==
  ASSUME TInv, NEW p \in net[Server], NEW s, s = sock[Server], s.hashed,
         NEW u, u = [s EXCEPT !.state = Passed(s, p)]
  PROVE  Handled(s, p, u) /\ u.rcv_nxt = s.rcv_nxt /\ u.recv_list = s.recv_list
         /\ u.rcv_buf = s.rcv_buf
<1>1. s \in Socks BY SocksOf DEF TInv
<1>2. Passed(s, p) \in States BY <1>1, PassedServer DEF Socks, States
<1>3. /\ u \in Socks /\ u.state = Passed(s, p) /\ u.snd_nxt = s.snd_nxt
      /\ u.hashed = s.hashed /\ u.timewait = s.timewait /\ u.send_list = s.send_list
      /\ u.recv_list = s.recv_list /\ u.rcv_nxt = s.rcv_nxt /\ u.rcv_buf = s.rcv_buf
  BY <1>1, <1>2 DEF Socks
<1>4. InSendList(u) = InSendList(s) BY <1>3 DEF InSendList
<1>5. Adds(s, u) BY <1>3 DEF Adds
<1>6. ~s.timewait /\ \A g \in s.recv_list : First <= g.seq /\ g.seq + g.len <= Written
  BY DEF TInv, ServerInv
<1> QED BY <1>3, <1>4, <1>5, <1>6 DEF Handled

LEMMA AckServerKeeps ==
  ASSUME TInv, NEW p, receive_ack(Server, p)
  PROVE  TInv'
<1> DEFINE s == sock[Server]
           u == [s EXCEPT !.state = Passed(s, p)]
           cs == {}
<1>1. /\ p \in net[Server] /\ s.hashed /\ s.state # "SYN_RECV"
      /\ Acknowledged(Server, u, p.ack) /\ net' = net
      /\ pc' = pc /\ halt' = halt /\ todo' = todo /\ held' = held /\ delivered' = delivered
      /\ UNCHANGED inVars
  BY DEF receive_ack, InProgress, Synchronised, Arrives
<1>2. Wake(cs) /\ "accept" \notin cs BY Ends DEF receive_ack
<1> HIDE DEF s
<1> HIDE DEF u
<1>3. Handled(s, p, u) BY <1>1, HandledPlain DEF s, u
<1> HIDE DEF cs
<1> QED BY <1>1, <1>2, <1>3, ServerReceives DEF s

LEMMA DataServerKeeps ==
  ASSUME TInv, NEW p, tcp_recv_data(Server, p)
  PROVE  TInv'
<1> DEFINE s == sock[Server]
           u == [s EXCEPT !.state = Passed(s, p)]
           taken == TakeInOrder(u, p)
           stored == Store(u, p)
<1>1. /\ TcpTypeOK /\ Client \in End /\ Server \in End /\ Client # Server
      /\ s \in Socks /\ s.rcv_nxt \in Nat /\ First \in Nat /\ Written \in Nat
      /\ wait \in [Calls -> SynchWaits] /\ halt \in [End -> Halts]
  BY Ends, SocksOf, SockFields, Numbers, Bounds DEF TInv, TcpTypeOK
<1>2. /\ p \in net[Server] /\ s.hashed /\ s.state # "SYN_RECV"
      /\ p.flags \in {"PSH", "SYN", "SYN_ACK"}
      /\ pc' = pc /\ todo' = todo /\ held' = held /\ delivered' = delivered
      /\ UNCHANGED inVars
  BY DEF tcp_recv_data, InProgress, Synchronised, Arrives
<1>3. /\ Handled(s, p, u) /\ u.rcv_nxt = s.rcv_nxt /\ u.recv_list = s.recv_list
      /\ u.rcv_buf = s.rcv_buf
  <2> HIDE DEF s
  <2> HIDE DEF u
  <2> QED BY <1>2, HandledPlain DEF s, u
<1>4. p \in Packets /\ p.seq \in Nat /\ p.len \in 0 .. MSS /\ p.len \in Nat
  <2>1. p \in Packets BY <1>1, <1>2, PacketTypes DEF FromClient
  <2> QED BY <2>1, PacketFields
<1>5. /\ ClientPacket(p)
      /\ p.seq >= s.rcv_nxt =>
           p.flags = "PSH" /\ First <= p.seq /\ p.seq + p.len <= Written /\ ~last
  <2>1. ClientPacket(p) BY <1>2 DEF TInv, PacketsTrue, FromClient
  <2>2. /\ ~last => First <= s.rcv_nxt
        /\ last => s.rcv_nxt = Written + 1
    BY <1>2 DEF TInv, ServerInv
  <2>3. p.flags = "SYN" => p.seq < First BY <2>1, Numbers DEF ClientPacket, First
  <2>4. First <= Written + 1 BY <1>1, Bounds
  <2>5. p.flags \in {"PSH", "SYN"} BY <2>1, <1>2 DEF ClientPacket
  <2>6. ASSUME p.seq >= s.rcv_nxt
        PROVE  p.flags = "PSH" /\ First <= p.seq /\ p.seq + p.len <= Written /\ ~last
    <3>1. p.flags = "PSH" BY <2>2, <2>3, <2>4, <2>5, <2>6, <1>1, <1>4
    <3>2. First <= p.seq /\ p.seq + p.len <= Written BY <3>1, <2>1 DEF ClientPacket
    <3> QED BY <3>1, <3>2, <2>2, <2>6, <1>1, <1>4
  <2> QED BY <2>1, <2>6
<1>6. \/ /\ InTurn(u, p)
         /\ \/ Acknowledged(Server, taken, p.ack) /\ Send(Server, {Ack(taken)}) /\ halt' = halt
            \/ Halt(Server, "assert") /\ UNCHANGED <<netVars, pend>>
         /\ Wake({"recv"})
      \/ /\ p.seq > u.rcv_nxt /\ Acknowledged(Server, stored, p.ack) /\ Wake({})
         /\ net' = net /\ halt' = halt
      \/ /\ p.seq < u.rcv_nxt /\ Acknowledged(Server, u, p.ack) /\ Wake({})
         /\ Send(Server, {Ack(u)}) /\ halt' = halt
  BY <1>1 DEF tcp_recv_data
<1> HIDE DEF s
<1> HIDE DEF u
<1>7. /\ u \in Socks /\ u.state = Passed(s, p) /\ u.snd_nxt = s.snd_nxt
      /\ u.hashed /\ ~u.timewait /\ InSendList(u) = InSendList(s)
      /\ \A g \in u.recv_list : First <= g.seq /\ g.seq + g.len <= Written
  BY <1>3 DEF Handled
<1>8. CASE InTurn(u, p) /\ Halt(Server, "assert") /\ UNCHANGED <<netVars, pend>> /\ Wake({"recv"})
  <2>1. halt' \in [End -> Halts] BY <1>1, <1>8, HaltIs DEF Halts
  <2>2. wait' \in [Calls -> SynchWaits] /\ wait'["accept"] = wait["accept"]
    <3> DEFINE cs == {"recv"}
    <3>1. Wake(cs) /\ "accept" \notin cs BY <1>8
    <3> HIDE DEF cs
    <3> QED BY <3>1, <1>1, WakeIs
  <2> QED BY <2>1, <2>2, <1>2, <1>8, StopKeeps DEF netVars, appVars
<1>9. CASE /\ InTurn(u, p) /\ Acknowledged(Server, taken, p.ack) /\ Send(Server, {Ack(taken)})
           /\ halt' = halt /\ Wake({"recv"})
  <2>1. p.seq = s.rcv_nxt BY <1>3, <1>9 DEF InTurn
  <2>2. First <= p.seq /\ p.seq + p.len <= Written /\ ~last BY <2>1, <1>1, <1>5
  <2> DEFINE w == Written
  <2>3. \A g \in u.recv_list : g.seq + g.len <= w BY <1>7
  <2>4. w \in Nat /\ p.seq + p.len <= w BY <1>1, <2>2
  <2> HIDE DEF taken, w
  <2>5. /\ taken \in Socks
        /\ \E next \in Nat : p.seq + p.len <= next /\ next <= w /\ Takes(u, p, taken, next)
    <3>1. taken = TakeInOrder(u, p) BY DEF taken
    <3> QED BY <3>1, <2>2, <2>3, <2>4, <1>4, <1>7, TakeIs
  <2>6. PICK next \in Nat : p.seq + p.len <= next /\ next <= w /\ Takes(u, p, taken, next)
    BY <2>5
  <2>7. /\ taken.state = u.state /\ taken.snd_nxt = u.snd_nxt /\ taken.rcv_nxt = next
        /\ taken.rcv_buf = u.rcv_buf \o Payload([seq |-> p.seq, len |-> next - p.seq])
        /\ taken.recv_list \subseteq u.recv_list /\ InSendList(taken) = InSendList(u)
        /\ taken.hashed = u.hashed /\ taken.timewait = u.timewait
    BY <2>6 DEF Takes
  <2>8. Adds(s, taken)
    <3> DEFINE g == [seq |-> p.seq, len |-> next - p.seq]
    <3>1. g.seq = s.rcv_nxt /\ g.len = taken.rcv_nxt - s.rcv_nxt BY <2>1, <2>7
    <3>2. next - p.seq \in Nat BY <2>6, <1>4
    <3>3. g.len \in Nat BY <3>2
    <3>4. taken.rcv_buf = s.rcv_buf \o Payload(g) BY <2>7, <1>3
    <3>5. taken.rcv_nxt <= Written BY <2>6, <2>7 DEF w
    <3> HIDE DEF g
    <3> QED BY <3>1, <3>3, <3>4, <3>5, <2>2 DEF Adds
  <2>9. Handled(s, p, taken) BY <2>5, <2>7, <2>8, <1>7 DEF Handled
  <2> DEFINE cs == {"recv"}
  <2>10. Wake(cs) /\ "accept" \notin cs BY <1>9
  <2> HIDE DEF cs
  <2> QED BY <2>9, <2>10, <1>2, <1>9, ServerReceives DEF s
<1>10. CASE /\ p.seq > u.rcv_nxt /\ Acknowledged(Server, stored, p.ack) /\ Wake({})
            /\ net' = net /\ halt' = halt
  <2>1. p.seq >= s.rcv_nxt BY <1>1, <1>3, <1>4, <1>10
  <2>2. First <= p.seq /\ p.seq + p.len <= Written BY <2>1, <1>5
  <2> DEFINE g == [seq |-> p.seq, len |-> p.len]
             list == u.recv_list \cup {g}
  <2>3. stored = [u EXCEPT !.recv_list = list] BY DEF Store
  <2>4. g \in [seq : Nat, len : 0 .. MSS] /\ First <= g.seq /\ g.seq + g.len <= Written
    BY <2>2, <1>4
  <2> HIDE DEF g
  <2>5. /\ list \in SUBSET [seq : Nat, len : 0 .. MSS]
        /\ \A h \in list : First <= h.seq /\ h.seq + h.len <= Written
    BY <2>4, <1>7 DEF Socks
  <2> HIDE DEF list, stored
  <2>6. /\ stored \in Socks /\ stored.state = u.state /\ stored.snd_nxt = u.snd_nxt
        /\ stored.hashed = u.hashed /\ stored.timewait = u.timewait
        /\ stored.send_list = u.send_list /\ stored.recv_list = list
        /\ stored.rcv_nxt = u.rcv_nxt /\ stored.rcv_buf = u.rcv_buf
    BY <2>3, <2>5, <1>7 DEF Socks
  <2>7. InSendList(stored) = InSendList(u) BY <2>6 DEF InSendList
  <2>8. Adds(s, stored) BY <2>6, <1>3 DEF Adds
  <2>9. Handled(s, p, stored) BY <2>5, <2>6, <2>7, <2>8, <1>7 DEF Handled
  <2> DEFINE cs == {}
  <2>10. Wake(cs) /\ "accept" \notin cs BY <1>10
  <2> HIDE DEF cs
  <2> QED BY <2>9, <2>10, <1>2, <1>10, ServerReceives DEF s
<1>11. CASE /\ Acknowledged(Server, u, p.ack) /\ Wake({}) /\ Send(Server, {Ack(u)})
            /\ halt' = halt
  <2> DEFINE cs == {}
  <2>1. Wake(cs) /\ "accept" \notin cs BY <1>11
  <2> HIDE DEF cs
  <2> QED BY <2>1, <1>2, <1>3, <1>11, ServerReceives DEF s
<1> QED BY <1>6, <1>8, <1>9, <1>10, <1>11


LEMMA FinServerKeeps ==
  ASSUME TInv, NEW p, receive_fin(Server, p)
  PROVE  TInv'
<1> DEFINE s == sock[Server]
           now == Passed(s, p)
           t == [s EXCEPT !.state = OnFin[now], !.rcv_nxt = p.seq + 1,
                   !.timewait = @ \/ now = "FIN_WAIT_2"]
           u == [s EXCEPT !.state = now]
           pkt == Ack(t)
<1>1. /\ TcpTypeOK /\ Client \in End /\ Server \in End /\ Client # Server
      /\ sock \in [End -> Socks] /\ last \in BOOLEAN /\ skipped \subseteq {"data", "fin"}
  BY Ends DEF TInv, TcpTypeOK
<1>2. /\ s \in Socks /\ s.rcv_nxt \in Nat /\ Written \in Nat /\ First \in Nat
      /\ First <= Written /\ Units \in Nat /\ todo \in Int /\ Written - First = Units - todo
  BY <1>1, SocksOf, SockFields, Bounds, Numbers
<1>3. /\ p \in net[Server] /\ s.hashed /\ s.state # "SYN_RECV" /\ p.flags = "FIN"
      /\ s.state # "CLOSED"
      /\ pc' = pc /\ wait' = wait /\ halt' = halt /\ UNCHANGED appVars /\ queue' = queue
  BY DEF receive_fin, InProgress, Synchronised, Arrives
<1>4. \/ /\ now \in DOMAIN OnFin /\ sock' = [sock EXCEPT ![Server] = t] /\ Send(Server, {pkt})
         /\ last' = (last \/ now = "ESTABLISHED")
         /\ skipped' = skipped \cup (IF p.seq # s.rcv_nxt THEN {"fin"} ELSE {})
      \/ /\ now \notin DOMAIN OnFin /\ sock' = [sock EXCEPT ![Server].state = now]
         /\ net' = net /\ last' = last /\ skipped' = skipped
  BY DEF receive_fin, Becomes
<1>5. /\ todo' = todo /\ pend' = pend /\ delivered' = delivered /\ held' = held
  BY <1>3 DEF appVars
<1>6. ClosedByClient /\ p.seq = Written
  <2>1. ClientPacket(p) BY <1>3 DEF TInv, PacketsTrue, FromClient
  <2> QED BY <2>1, <1>3 DEF ClientPacket
<1>7. \/ now = s.state
      \/ /\ s.state = "LAST_ACK" /\ now = "CLOSED" /\ last /\ pc[Server] = "done"
         /\ sock[Client].rcv_nxt = ISS[Server] + 2
  BY <1>3, PassedServer
<1>8. /\ pc[Server] \in ServerLocations /\ ~s.timewait
      /\ s.state \in {"CLOSED", "SYN_RECV", "ESTABLISHED", "CLOSE_WAIT", "LAST_ACK"}
      /\ last <=> s.state \notin {"SYN_RECV", "ESTABLISHED"}
      /\ s.snd_nxt = IF ClosedByServer THEN ISS[Server] + 2 ELSE ISS[Server] + 1
      /\ ~last => s.rcv_nxt <= Written
      /\ last => s.rcv_nxt = Written + 1
      /\ s.state = "LAST_ACK" => pc[Server] = "done"
      /\ pc[Server] = "close" \/ ClosedByServer => last /\ s.rcv_buf = <<>>
      /\ \A g \in s.recv_list : First <= g.seq /\ g.seq + g.len <= Written
  BY <1>3 DEF TInv, ServerInv
<1>9. Written' = Written /\ ClosedByServer' = ClosedByServer
  BY <1>3, <1>5 DEF Written, First, ClosedByServer
<1>10. CASE /\ now \in DOMAIN OnFin /\ sock' = [sock EXCEPT ![Server] = t] /\ Send(Server, {pkt})
            /\ last' = (last \/ now = "ESTABLISHED")
            /\ skipped' = skipped \cup (IF p.seq # s.rcv_nxt THEN {"fin"} ELSE {})
  <2>1. now = "ESTABLISHED" /\ s.state = "ESTABLISHED" /\ OnFin[now] = "CLOSE_WAIT" /\ ~last
        /\ last' = TRUE
    <3>1. now \in {"ESTABLISHED", "FIN_WAIT_2"} BY <1>10 DEF OnFin
    <3>2. now = "ESTABLISHED" /\ s.state = "ESTABLISHED" BY <3>1, <1>7, <1>8
    <3>3. OnFin["ESTABLISHED"] = "CLOSE_WAIT" BY DEF OnFin
    <3> QED BY <3>2, <3>3, <1>8, <1>10
  <2>2. /\ t \in Socks /\ t.state = "CLOSE_WAIT" /\ t.snd_nxt = s.snd_nxt
        /\ t.send_list = s.send_list /\ t.rcv_nxt = Written + 1 /\ t.recv_list = s.recv_list
        /\ t.rcv_buf = s.rcv_buf /\ t.hashed = s.hashed /\ t.timewait = FALSE
    <3>1. p.seq + 1 \in Nat /\ p.seq + 1 = Written + 1 BY <1>2, <1>6
    <3>2. OnFin[now] \in States BY <2>1 DEF States
    <3> HIDE DEF now
    <3>3. (s.timewait \/ now = "FIN_WAIT_2") = FALSE BY <2>1, <1>8
    <3> HIDE DEF s
    <3> QED BY <3>1, <3>2, <3>3, <2>1, <1>2 DEF Socks
  <2>3. InSendList(t) = InSendList(s) BY <2>2 DEF InSendList
  <2> HIDE DEF t, now, s
  <2>4. pkt \in Packets /\ pkt.flags = "ACK" /\ pkt.ack = t.rcv_nxt /\ pkt.len = 0
    <3>1. "ACK" \in Flags /\ 0 \in 0 .. MSS BY Numbers DEF Flags
    <3> QED BY <3>1, <2>2, SegmentType DEF Ack
  <2> HIDE DEF pkt
  <2>5. sock'[Server] = t /\ sock'[Client] = sock[Client] /\ sock' \in [End -> Socks]
    BY <1>1, <1>10, <2>2, BecomesType
  <2>6. /\ net' \in [End -> SUBSET Packets]
        /\ net'[Server] = net[Server] /\ net'[Client] = net[Client] \cup {pkt}
    BY <1>1, <1>10, <2>4, SendIs
  <2>7. /\ skipped' \subseteq {"data", "fin"} /\ ("data" \in skipped' <=> "data" \in skipped)
        /\ skipped' = {} => skipped = {} /\ p.seq = s.rcv_nxt
    <3>1. CASE p.seq = s.rcv_nxt BY <3>1, <1>1, <1>10
    <3>2. CASE p.seq # s.rcv_nxt BY <3>2, <1>1, <1>10
    <3> QED BY <3>1, <3>2
  <2>8. TcpTypeOK'
    <3>1. last' \in BOOLEAN BY <2>1
    <3> QED BY <3>1, <1>1, <1>3, <1>5, <2>5, <2>6, <2>7 DEF TcpTypeOK
  <2>9. ServerInv'
    BY <1>3, <1>5, <1>8, <1>9, <2>1, <2>2, <2>5 DEF ServerInv, Written, First, s
  <2>10. AcceptInv' BY <1>3, <2>5 DEF TInv, AcceptInv
  <2>11. DataInv'
    <3>1. Received' = Received BY <1>5, <2>2, <2>5 DEF Received, s
    <3>2. "data" \notin skipped =>
             Received = Whole(Len(Received)) /\ Len(Received) = s.rcv_nxt - First
      BY <1>3, <2>1 DEF TInv, DataInv, s
    <3>3. skipped' = {} => Len(Received) = Units - todo
      BY <3>2, <2>7, <1>2, <1>6
    <3>4. \A n \in First .. Written - 1 : n < t.rcv_nxt BY <1>2, <2>2
    <3>5. "data" \notin skipped => Len(Received) <= Units - todo BY <1>3 DEF TInv, DataInv
    <3>6. "data" \notin skipped' => Received' = Whole(Len(Received')) /\ Len(Received') <= Units - todo'
      BY <3>1, <3>2, <3>5, <2>7, <1>5
    <3>7. skipped' = {} => Len(Received') = Units - todo' BY <3>1, <3>3, <1>5
    <3>8. \A n \in First .. Written' - 1 : n < sock'[Server].rcv_nxt BY <3>4, <1>9, <2>5
    <3> QED BY <3>6, <3>7, <3>8, <2>1 DEF DataInv, First
  <2>12. \A q \in FromServer' : q \in FromServer \/ ServerPacket(q)'
    <3>1. FromServer' \subseteq FromServer \cup {pkt}
      BY <2>3, <2>5, <2>6 DEF FromServer, s
    <3>2. ASSUME NEW q, q = pkt PROVE ServerPacket(q)'
      BY <3>2, <1>2, <2>2, <2>4, <2>5 DEF ServerPacket
    <3> QED BY <3>1, <3>2
  <2>13. sock[Server].rcv_nxt <= sock'[Server].rcv_nxt
    BY <1>2, <1>8, <2>1, <2>2, <2>5 DEF s
  <2> QED BY <1>3, <1>5, <1>6, <2>1, <2>5, <2>6, <2>8, <2>9, <2>10, <2>11, <2>12, <2>13, ServerStep
<1>11. CASE /\ sock' = [sock EXCEPT ![Server].state = now]
            /\ net' = net /\ last' = last /\ skipped' = skipped
  <2>1. sock' = [sock EXCEPT ![Server] = u] BY <1>1, <1>11
  <2> HIDE DEF s
  <2>2. u.rcv_nxt = s.rcv_nxt /\ u.recv_list = s.recv_list /\ u.rcv_buf = s.rcv_buf
        /\ Handled(s, p, u)
    <3> HIDE DEF u
    <3> QED BY <1>3, HandledPlain DEF s, u
  <2>3. /\ u \in Socks /\ u.state = now /\ u.snd_nxt = s.snd_nxt
        /\ u.hashed /\ ~u.timewait /\ InSendList(u) = InSendList(s)
    BY <2>2 DEF Handled
  <2> HIDE DEF u, now
  <2>4. sock'[Server] = u /\ sock'[Client] = sock[Client] /\ sock' \in [End -> Socks]
    BY <1>1, <2>1, <2>3, BecomesType
  <2>5. TcpTypeOK' BY <1>1, <1>3, <1>5, <1>11, <2>4 DEF TcpTypeOK
  <2>6. ServerInv'
    <3>1. s.state = "CLOSED" => sock[Client].rcv_nxt = ISS[Server] + 2
      BY <1>3 DEF TInv, ServerInv, s
    <3>2. /\ u.state \in {"CLOSED", "SYN_RECV", "ESTABLISHED", "CLOSE_WAIT", "LAST_ACK"}
          /\ last <=> u.state \notin {"SYN_RECV", "ESTABLISHED"}
          /\ u.state # "SYN_RECV"
          /\ u.state \in {"CLOSED", "LAST_ACK"} => pc[Server] = "done"
          /\ u.state = "CLOSED" => sock[Client].rcv_nxt = ISS[Server] + 2
      BY <3>1, <1>3, <1>7, <1>8, <2>3
    <3>3. ~last => First <= s.rcv_nxt BY <1>3 DEF TInv, ServerInv, s
    <3> QED BY <3>2, <3>3, <1>3, <1>5, <1>8, <1>9, <1>11, <2>2, <2>3, <2>4
        DEF ServerInv, Written, First
  <2>7. AcceptInv' BY <1>3, <2>4 DEF TInv, AcceptInv
  <2>8. DataInv'
    <3>1. Received' = Received BY <1>5, <2>2, <2>4 DEF Received, s
    <3> QED BY <3>1, <1>3, <1>5, <1>9, <1>11, <2>2, <2>3, <2>4 DEF TInv, DataInv, First, s
  <2>9. FromServer' = FromServer BY <1>11, <2>3, <2>4 DEF FromServer, s
  <2>10. sock[Server].rcv_nxt <= sock'[Server].rcv_nxt BY <1>2, <2>2, <2>4 DEF s
  <2> QED BY <1>3, <1>5, <1>6, <1>11, <2>4, <2>5, <2>6, <2>7, <2>8, <2>9, <2>10, ServerStep
<1> QED BY <1>4, <1>10, <1>11


\* The data the child is established with: if it was next, it makes the prefix longer.
LEMMA FirstData ==
  ASSUME TcpTypeOK, NEW s, s = sock[Server], s.rcv_nxt = First, NEW p \in Packets,
         First <= p.seq \/ p.len = 0,
         "data" \notin skipped =>
           Received = Whole(Len(Received)) /\ Len(Received) = s.rcv_nxt - First,
         NEW b, b = s.rcv_buf \o Payload(p)
  PROVE  /\ b \in Seq(Nat)
         /\ "data" \notin skipped /\ (p.len = 0 \/ p.seq = First) =>
              /\ delivered \o b = Whole(Len(delivered \o b))
              /\ Len(delivered \o b) = p.len
<1> DEFINE buf == s.rcv_buf
           d == Payload(p)
           r == delivered \o buf
           n == p.len
<1>1. /\ buf \in Seq(Nat) /\ delivered \in Seq(Nat) /\ First \in Nat
      /\ p.seq \in Nat /\ p.len \in Nat
  BY SocksOf, SockFields, Numbers, PacketFields DEF TcpTypeOK
<1>2. d \in Seq(Nat) /\ Len(d) = p.len
  <2>1. First <= p.seq \/ p.len = 0 OBVIOUS
  <2> QED BY <2>1, <1>1, PayloadIs
<1>3. b \in Seq(Nat) BY <1>1, <1>2, ConcatProperties
<1>4. ASSUME "data" \notin skipped, p.len = 0 \/ p.seq = First
      PROVE  delivered \o b = Whole(Len(delivered \o b)) /\ Len(delivered \o b) = p.len
  <2>1. r = Whole(0)
    <3>1. r = Whole(Len(r)) /\ Len(r) = First - First BY <1>4 DEF Received
    <3> HIDE DEF r
    <3>2. Len(r) = 0 BY <3>1, <1>1
    <3> QED BY <3>1, <3>2
  <2>2. Whole(0) \in Seq(Nat) /\ Len(Whole(0)) = 0 BY WholeIs
  <2> HIDE DEF d, n, buf
  <2>3. delivered \o b = Whole(0) \o d
    <3>1. b = buf \o d BY DEF buf, d
    <3>2. r \o d = delivered \o (buf \o d) BY <1>1, <1>2, ConcatParts
    <3> QED BY <3>1, <3>2, <2>1
  <2>4. Whole(0) \o d = Whole(n)
    <3>1. CASE p.len = 0
      <4>1. Len(d) = 0 BY <3>1, <1>2
      <4>2. d = <<>> BY <4>1, <1>2, EmptySeq
      <4>3. Whole(0) \o <<>> = Whole(0) BY <2>2, ConcatEmptySeq
      <4> QED BY <4>2, <4>3, <3>1 DEF n
    <3>2. CASE p.seq = First
      <4> DEFINE z == 0
                 m == z + n
      <4>1. z \in Nat /\ p.seq = First + z BY <3>2, <1>1
      <4>2. m = n BY <1>1 DEF n
      <4> HIDE DEF z
      <4>3. Whole(z) \o Payload(p) = Whole(z + p.len) BY <4>1, <1>1, WholeGrows
      <4> QED BY <4>2, <4>3 DEF z, n, d
    <3> QED BY <3>1, <3>2, <1>4
  <2>5. Len(Whole(n)) = n BY <1>1, WholeIs DEF n
  <2> QED BY <2>3, <2>4, <2>5 DEF n
<1> QED BY <1>3, <1>4

LEMMA SynRecvKeeps ==
  ASSUME TInv, NEW e \in End, NEW p, tcp_state_syn_recv(e, p)
  PROVE  TInv'
<1> DEFINE s == sock[Server]
           buf == s.rcv_buf \o Payload(p)
           u == [s EXCEPT !.state = "ESTABLISHED", !.rcv_nxt = @ + p.len, !.rcv_buf = buf]
           pkts == IF p.len = 0 THEN {} ELSE {Ack(u)}
           ack == p.ack
<1>1. /\ TcpTypeOK /\ Client \in End /\ Server \in End /\ Client # Server
      /\ skipped \subseteq {"data", "fin"}
  BY Ends DEF TInv, TcpTypeOK
<1>2. s \in Socks /\ s.rcv_nxt \in Nat /\ First \in Nat /\ Written \in Nat /\ First <= Written
  BY <1>1, SocksOf, SockFields, Bounds, Numbers
<1>3. e = Server
  <2>1. sock[Client].state # "SYN_RECV" BY DEF TInv, ClientInv, ClientStates
  <2> QED BY <2>1, Ends DEF tcp_state_syn_recv
<1>4. /\ p \in net[Server] /\ s.hashed /\ s.state = "SYN_RECV" /\ p.ack = s.snd_nxt
      /\ Acknowledged(Server, u, ack) /\ Send(Server, pkts)
      /\ skipped' = skipped \cup (IF p.len > 0 /\ ~InTurn(s, p) THEN {"data"} ELSE {})
      /\ queue' = "accept" /\ Wake({"accept"})
      /\ pc' = pc /\ halt' = halt /\ todo' = todo /\ held' = held /\ delivered' = delivered
      /\ last' = last
  BY <1>3 DEF tcp_state_syn_recv, Synchronised, Arrives, AcksAll
<1>5. /\ p \in Packets /\ p.seq \in Nat /\ p.len \in Nat
  <2>1. p \in Packets BY <1>1, <1>4, PacketTypes DEF FromClient
  <2> QED BY <2>1, PacketFields
<1>6. ClientPacket(p) BY <1>4 DEF TInv, PacketsTrue, FromClient
<1>7. p.len = 0 \/ (First <= p.seq /\ p.seq + p.len <= Written)
  BY <1>6 DEF ClientPacket
<1>8. /\ ~last /\ s.rcv_nxt = First /\ pc[Server] \in ServerLocations /\ ~ClosedByServer
      /\ pc[Server] # "close" /\ ~s.timewait /\ s.snd_nxt = ISS[Server] + 1
      /\ \A g \in s.recv_list : First <= g.seq /\ g.seq + g.len <= Written
  <2>1. ~last /\ s.rcv_nxt = First BY <1>4 DEF TInv, ServerInv
  <2>2. ~ClosedByServer /\ pc[Server] # "close" BY <2>1 DEF TInv, ServerInv
  <2> QED BY <2>1, <2>2, <1>4 DEF TInv, ServerInv
<1>9. First + p.len <= Written BY <1>2, <1>5, <1>7
<1>10. /\ "data" \notin skipped =>
            Received = Whole(Len(Received)) /\ Len(Received) = s.rcv_nxt - First
  BY <1>4, <1>8 DEF TInv, DataInv
<1>11. /\ buf \in Seq(Nat)
       /\ "data" \notin skipped /\ (p.len = 0 \/ p.seq = First) =>
            /\ delivered \o buf = Whole(Len(delivered \o buf))
            /\ Len(delivered \o buf) = p.len
  <2>1. First <= p.seq \/ p.len = 0 BY <1>7
  <2> HIDE DEF s
  <2>2. s = sock[Server] /\ buf = s.rcv_buf \o Payload(p) BY DEF s
  <2> HIDE DEF buf
  <2> QED BY <2>1, <2>2, <1>1, <1>5, <1>8, <1>10, FirstData
<1> HIDE DEF buf, s
<1>12. /\ u \in Socks /\ u.state = "ESTABLISHED" /\ u.snd_nxt = s.snd_nxt
       /\ u.send_list = s.send_list /\ u.rcv_nxt = First + p.len /\ u.recv_list = s.recv_list
       /\ u.rcv_buf = buf /\ u.hashed = s.hashed /\ u.timewait = s.timewait
  <2>1. s.rcv_nxt + p.len \in Nat BY <1>2, <1>5
  <2> QED BY <2>1, <1>2, <1>8, <1>11 DEF Socks, States
<1> HIDE DEF u
<1>13. InSendList(u) = InSendList(s) BY <1>12 DEF InSendList
<1>14. DataBelow(u, 0) BY <1>13, ServerSegments DEF s
<1> HIDE DEF ack, pkts
<1>15. PICK t : sock' = [sock EXCEPT ![Server] = t] /\ AckedFrom(u, t, ack)
  BY <1>1, <1>4, <1>12, <1>14, AcknowledgedIs
<1>16. pend' \in [pkt : Packets, wnd : 0 .. Window] /\ pend'.pkt = pend.pkt
  BY <1>1, <1>4, <1>12, <1>14, AcknowledgedIs
<1>17. /\ t \in Socks /\ t.state = "ESTABLISHED" /\ t.snd_nxt = s.snd_nxt
       /\ t.rcv_nxt = First + p.len /\ t.recv_list = s.recv_list /\ t.rcv_buf = buf
       /\ t.hashed /\ ~t.timewait /\ InSendList(t) \subseteq InSendList(s)
  BY <1>4, <1>8, <1>12, <1>13, <1>15 DEF AckedFrom, ReceiveSame
<1>18. sock'[Server] = t /\ sock'[Client] = sock[Client] /\ sock' \in [End -> Socks]
  BY <1>1, <1>15, <1>17, BecomesType
<1>19. pkts \in SUBSET Packets /\ \A q \in pkts : q.flags = "ACK" /\ q.ack = u.rcv_nxt /\ q.len = 0
  <2>1. "ACK" \in Flags /\ 0 \in 0 .. MSS BY Numbers DEF Flags
  <2>2. Ack(u) \in Packets /\ Ack(u).flags = "ACK" /\ Ack(u).ack = u.rcv_nxt /\ Ack(u).len = 0
    BY <2>1, <1>12, SegmentType DEF Ack
  <2> QED BY <2>2 DEF pkts
<1>20. /\ net' \in [End -> SUBSET Packets]
       /\ net'[Server] = net[Server] /\ net'[Client] = net[Client] \cup pkts
  BY <1>1, <1>4, <1>19, SendIs
<1>21. wait' \in [Calls -> SynchWaits]
  <2> DEFINE cs == {"accept"}
  <2>1. Wake(cs) BY <1>4
  <2> HIDE DEF cs
  <2> QED BY <2>1, <1>1, WakeIs
<1>22. /\ skipped' \subseteq {"data", "fin"} /\ (skipped' = {} => skipped = {})
       /\ "data" \notin skipped' => "data" \notin skipped /\ (p.len = 0 \/ p.seq = First)
  <2>1. CASE p.len > 0 /\ ~InTurn(s, p) BY <2>1, <1>1, <1>4
  <2>2. CASE ~(p.len > 0 /\ ~InTurn(s, p))
    <3>1. p.len = 0 \/ p.seq = First BY <2>2, <1>5, <1>8 DEF InTurn
    <3>2. skipped' = skipped BY <2>2, <1>4
    <3> QED BY <3>1, <3>2, <1>1
  <2> QED BY <2>1, <2>2
<1>23. TcpTypeOK' BY <1>1, <1>4, <1>16, <1>18, <1>20, <1>21, <1>22 DEF TcpTypeOK
<1>24. Written' = Written /\ ClosedByServer' = ClosedByServer
  BY <1>4 DEF Written, First, ClosedByServer
<1>25. First <= First + p.len BY <1>2, <1>5
<1>26. ServerInv'
  BY <1>4, <1>8, <1>9, <1>17, <1>18, <1>24, <1>25 DEF ServerInv, Written, First
<1>27. AcceptInv'
  <2>1. ISS[Server] + 1 <= sock[Client].rcv_nxt BY <1>4, <1>6, <1>8 DEF ClientPacket
  <2>2. sock[Client].rcv_nxt \in Nat BY <1>1, SocksOf, SockFields
  <2>3. sock[Client].rcv_nxt > ISS[Server] BY <2>1, <2>2, Numbers
  <2> QED BY <2>3, <1>18 DEF AcceptInv
<1>28. DataInv'
  <2>1. Received' = delivered \o buf BY <1>4, <1>17, <1>18 DEF Received
  <2>2. "data" \notin skipped' =>
          /\ Received' = Whole(Len(Received'))
          /\ Len(Received') = t.rcv_nxt - First
    <3>1. (First + p.len) - First = p.len BY <1>2, <1>5
    <3> QED BY <3>1, <2>1, <1>11, <1>17, <1>22
  <2>3. \A n \in First .. Written - 1 :
           n \in Covered(InSendList(sock[Client])) \/ n < t.rcv_nxt
    <3> SUFFICES ASSUME NEW n \in First .. Written - 1,
                        n \notin Covered(InSendList(sock[Client]))
                 PROVE  n < t.rcv_nxt
      OBVIOUS
    <3>1. n < s.rcv_nxt BY DEF TInv, DataInv, s
    <3> QED BY <3>1, <1>2, <1>8
  <2>4. Written - First = Units - todo /\ Units - todo \in Int
    <3>1. todo \in Int /\ Units \in Nat BY <1>1, Bounds, Numbers
    <3> QED BY <3>1, <1>1, Bounds
  <2>5. t.rcv_nxt - First <= Units - todo BY <2>4, <1>2, <1>5, <1>9, <1>17
  <2>6. "data" \notin skipped' =>
          /\ Received' = Whole(Len(Received')) /\ Len(Received') <= Units - todo'
          /\ Len(Received') = sock'[Server].rcv_nxt - First
    BY <2>2, <2>5, <1>4, <1>18
  <2>7. ~last' BY <1>4, <1>8
  <2>8. \A n \in First .. Written' - 1 :
           n \in Covered(InSendList(sock'[Client])) \/ n < sock'[Server].rcv_nxt
    BY <2>3, <1>18, <1>24
  <2> QED BY <2>6, <2>7, <2>8 DEF DataInv, First
<1>29. \A q \in FromServer' : q \in FromServer \/ ServerPacket(q)'
  <2>1. FromServer' \subseteq FromServer \cup pkts
    BY <1>17, <1>18, <1>20 DEF FromServer, s
  <2>2. ASSUME NEW q \in pkts PROVE ServerPacket(q)'
    <3>1. q.flags = "ACK" /\ q.ack = First + p.len /\ q.len = 0 BY <1>12, <1>19
    <3> QED BY <3>1, <1>2, <1>5, <1>17, <1>18 DEF ServerPacket
  <2> QED BY <2>1, <2>2
<1>30. sock[Server].rcv_nxt <= sock'[Server].rcv_nxt BY <1>8, <1>17, <1>18, <1>25 DEF s
<1>31. last => ClosedByClient BY <1>8
<1> QED BY <1>4, <1>16, <1>18, <1>20, <1>23, <1>26, <1>27, <1>28, <1>29, <1>30, <1>31, ServerStep


-----------------------------------------------------------------------------
(***************************************************************************)
(* The theorems.                                                             *)
(***************************************************************************)

LEMMA StepKeeps ==
  ASSUME TInv, [Next]_vars
  PROVE  TInv'
<1>1. CASE ClientProgram
  <2>1. ASSUME NEW c \in {"connect", "send"}, sleep_on(c) \/ return_sleep(c) PROVE TInv'
    BY <2>1, SleepKeeps DEF Calls
  <2> QED BY <1>1, <2>1, ConnectKeeps, WriteKeeps, AdvanceKeeps, StoreKeeps, WrittenKeeps,
             CloseClientKeeps, SetClosingClientKeeps DEF ClientProgram
<1>2. CASE ServerProgram
  <2>1. ASSUME NEW c \in {"accept", "recv"}, sleep_on(c) \/ return_sleep(c) PROVE TInv'
    BY <2>1, SleepKeeps DEF Calls
  <2> QED BY <1>2, <2>1, AcceptKeeps, ReadsKeep, CloseServerKeeps, SetClosingServerKeeps
      DEF ServerProgram
<1>3. ASSUME NEW e \in End, Timer(e) PROVE TInv'
  BY <1>3, RetransmitKeeps, TimewaitKeeps DEF Timer
<1>4. ASSUME NEW e \in End, Receiver(e) PROVE TInv'
  <2>1. PICK p \in net[e] : Receive(e, p) \/ tcp_state_listen(p) BY <1>4 DEF Receiver
  <2>2. e = Client \/ e = Server BY Ends
  <2>3. CASE receive_fin(e, p) BY <2>2, <2>3, FinClientKeeps, FinServerKeeps
  <2>4. CASE receive_ack(e, p) BY <2>2, <2>4, AckClientKeeps, AckServerKeeps
  <2>5. CASE tcp_recv_data(e, p) BY <2>2, <2>5, DataClientKeeps, DataServerKeeps
  <2> QED BY <2>1, <2>3, <2>4, <2>5, NullKeeps, ClosedKeeps, SynSentKeeps, ResetKeeps,
             SynRecvKeeps, ListenKeeps DEF Receive
<1>5. CASE UNCHANGED vars
  <2>1. /\ sock' = sock /\ net' = net /\ pc' = pc /\ wait' = wait /\ halt' = halt
        /\ UNCHANGED appVars /\ UNCHANGED inVars
    BY <1>5 DEF vars
  <2>2. halt' \in [End -> Halts] /\ wait' \in [Calls -> SynchWaits]
    BY <2>1 DEF TInv, TcpTypeOK
  <2> QED BY <2>1, <2>2, StopKeeps
<1> QED BY <1>1, <1>2, <1>3, <1>4, <1>5 DEF Next

(***************************************************************************)
(* Every reachable state has the invariant.                                  *)
(***************************************************************************)
THEOREM TcpInvariant ==
  Spec => []TInv
<1>1. Init => TInv BY InitInvariant
<1>2. TInv /\ [Next]_vars => TInv' BY StepKeeps
<1> QED BY <1>1, <1>2, PTL DEF Spec

(***************************************************************************)
(* Type correctness: in particular the send window stays a number of 16 bits *)
(* although two threads change it without a lock (tcp_out.c, tcp_in.c), and    *)
(* the lists of the sockets hold segments that fit.                          *)
(***************************************************************************)
THEOREM TcpTyped ==
  Spec => []TcpTypeOK
<1>1. TInv => TcpTypeOK BY DEF TInv
<1> QED BY <1>1, TcpInvariant, PTL

(***************************************************************************)
(* What the server has taken is a prefix of what tcp_sock_write has queued,   *)
(* without a gap and without repetition (tcp_recv_data, read_ring_buffer),     *)
(* unless the child was established by a data segment that was not the next   *)
(* one.  What is queued is the data and, when snd_wnd grew between two looks   *)
(* of the writer (tcp_sock.c:409-410), units from behind it.                  *)
(***************************************************************************)
THEOREM DataInOrder ==
  Spec => []StreamIntact
<1>1. TInv => StreamIntact BY DEF TInv, DataInv, StreamIntact
<1> QED BY <1>1, TcpInvariant, PTL

(***************************************************************************)
(* A unit the client has sent and holds no longer has been taken by the      *)
(* server (remove_from_send_list, recv_data).                                *)
(***************************************************************************)
THEOREM AcknowledgedArrived ==
  Spec => []AckedIsReceived
<1>1. TInv => AckedIsReceived
  <2> SUFFICES ASSUME TInv, skipped = {},
                      NEW n \in (ISS[Client] + 1 .. sock[Client].snd_nxt - 1)
                                  \ Covered(InSendList(sock[Client])),
                      ~(n > ISS[Client] + Units - todo)
               PROVE  n - ISS[Client] <= Len(Received)
    BY DEF AckedIsReceived
  <2>1. /\ TcpTypeOK /\ ISS[Client] \in Nat /\ Units \in Nat /\ First = ISS[Client] + 1
        /\ Written \in Nat /\ Written = First + Units - todo /\ todo \in Int
        /\ sock[Client].snd_nxt \in Nat /\ sock[Server].rcv_nxt \in Nat
        /\ delivered \in Seq(Nat) /\ sock[Server].rcv_buf \in Seq(Nat)
    BY Numbers, Bounds, SocksOf, SockFields DEF TInv, First, Written, TcpTypeOK
  <2>2. n \in Nat /\ First <= n /\ n < sock[Client].snd_nxt /\ n < Written BY <2>1
  <2>3. n < Written
    <3>1. CASE ClosedByClient
      <4>1. todo <= 0 BY <3>1 DEF TInv, ClientInv
      <4> QED BY <4>1, <2>1, <2>2, Bounds
    <3>2. CASE pc[Client] = "connect"
      <4>1. sock[Client].snd_nxt = 0 BY <3>2 DEF TInv, ClientInv
      <4> QED BY <4>1, <2>2
    <3>3. CASE pc[Client] = "advance"
      <4>1. sock[Client].snd_nxt + pend.pkt.len = Written BY <3>3 DEF TInv, ClientInv
      <4>2. pend.pkt.len \in Nat
        <5>1. pend.pkt \in Packets BY <2>1 DEF TcpTypeOK
        <5> QED BY <5>1, PacketFields
      <4> QED BY <4>1, <4>2, <2>1, <2>2
    <3>4. CASE pc[Client] \notin {"connect", "advance"} /\ ~ClosedByClient
      <4>1. sock[Client].snd_nxt = Written BY <3>4 DEF TInv, ClientInv
      <4> QED BY <4>1, <2>2
    <3> QED BY <3>1, <3>2, <3>3, <3>4
  <2>4. n < sock[Server].rcv_nxt
    <3>1. n \in First .. Written - 1 BY <2>1, <2>2, <2>3
    <3> QED BY <3>1 DEF TInv, DataInv
  <2>5. sock[Server].hashed
    <3>1. ~sock[Server].hashed => sock[Server] = alloc_tcp_sock BY DEF TInv, ServerInv
    <3>2. ~sock[Server].hashed => sock[Server].rcv_nxt = 0 BY <3>1 DEF alloc_tcp_sock
    <3> QED BY <3>2, <2>2, <2>4
  <2>6. last => Len(Received) = Units - todo BY DEF TInv, DataInv
  <2>7. ~last => Len(Received) = sock[Server].rcv_nxt - First BY <2>5 DEF TInv, DataInv
  <2>8. CASE last BY <2>1, <2>2, <2>6, <2>8
  <2>9. CASE ~last
    <3>1. ASSUME NEW i \in Nat, NEW r \in Nat, NEW k \in Nat, k < r
          PROVE  k - i <= r - (i + 1)
      BY <3>1
    <3>2. n - ISS[Client] <= sock[Server].rcv_nxt - (ISS[Client] + 1)
      BY <3>1, <2>1, <2>2, <2>4
    <3>3. Len(Received) = sock[Server].rcv_nxt - (ISS[Client] + 1) BY <2>7, <2>9, <2>1
    <3> QED BY <3>2, <3>3
  <2> QED BY <2>8, <2>9
<1> QED BY <1>1, TcpInvariant, PTL

(***************************************************************************)
(* When the server stops reading it has all that was queued, and that is all  *)
(* the data at least, unless some of it, or the FIN, was taken ahead of its    *)
(* turn (tcp_sock_read, receive of a FIN).                                    *)
(***************************************************************************)
THEOREM NothingMissingAtEnd ==
  Spec => []EndIsComplete
<1>1. TInv => EndIsComplete
  <2> SUFFICES ASSUME TInv, skipped = {},
                      pc[Server] \in {"close", "done"} \cup {Closing[s] : s \in {"FIN_WAIT_1", "LAST_ACK"}}
               PROVE  delivered = Whole(Units - todo) /\ todo <= 0
    BY DEF EndIsComplete
  <2>1. pc[Server] \in {"close", "to_last_ack", "done"}
    <3>1. Closing["LAST_ACK"] = "to_last_ack" /\ Closing["FIN_WAIT_1"] = "to_fin_wait_1"
      BY DEF Closing
    <3>2. pc[Server] # "to_fin_wait_1" BY DEF TInv, ServerInv, ServerLocations
    <3> QED BY <3>1, <3>2
  <2>2. last /\ sock[Server].rcv_buf = <<>>
    BY <2>1 DEF TInv, ServerInv, ClosedByServer
  <2>3. Received = Whole(Len(Received)) /\ Len(Received) = Units - todo
    BY <2>2 DEF TInv, DataInv
  <2>4. delivered \in Seq(Nat) BY DEF TInv, TcpTypeOK
  <2>6. todo <= 0 BY <2>2 DEF TInv, ClientInv
  <2>5. Received = delivered
    <3>1. delivered \o <<>> = delivered BY <2>4, ConcatEmptySeq
    <3> QED BY <3>1, <2>2 DEF Received
  <2> HIDE DEF Received
  <2> QED BY <2>3, <2>5, <2>6
<1> QED BY <1>1, TcpInvariant, PTL

(***************************************************************************)
(* The server accepts no connection that the client has not established      *)
(* (tcp_state_syn_recv).                                                     *)
(***************************************************************************)
THEOREM NoHalfOpenAccept ==
  Spec => []AcceptedIsEstablished
<1>1. TInv => AcceptedIsEstablished BY DEF TInv, AcceptInv, AcceptedIsEstablished
<1> QED BY <1>1, TcpInvariant, PTL

(***************************************************************************)
(* An end that believes its FIN acknowledged is right (tcp_in.c, the          *)
(* FIN_WAIT_1 and LAST_ACK of tcp_process).                                  *)
(***************************************************************************)
THEOREM TeardownAgreed ==
  Spec => []TeardownAgrees
<1>1. TInv => TeardownAgrees
  <2> SUFFICES ASSUME TInv PROVE TeardownAgrees
    OBVIOUS
  <2>1. sock[Client].state \in {"FIN_WAIT_2", "TIME_WAIT"} => last BY DEF TInv, ClientInv
  <2>2. ASSUME sock[Server].hashed, sock[Server].state = "CLOSED"
        PROVE  sock[Client].rcv_nxt = sock[Server].snd_nxt
    <3>1. pc[Server] = "done" /\ sock[Client].rcv_nxt = ISS[Server] + 2
      BY <2>2 DEF TInv, ServerInv
    <3>2. sock[Server].snd_nxt = ISS[Server] + 2
      BY <2>2, <3>1 DEF TInv, ServerInv, ClosedByServer
    <3> QED BY <3>1, <3>2
  <2> QED BY <2>1, <2>2 DEF TeardownAgrees
<1> QED BY <1>1, TcpInvariant, PTL
=============================================================================

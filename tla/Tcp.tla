-------------------------------- MODULE Tcp --------------------------------
(***************************************************************************)
(* One connection of the TCP stack of pr11: the programs of tcp_apps.c over  *)
(* the socket calls, the packet handlers of the receiving threads, and the   *)
(* timer threads.  The client connects, writes its data and closes; the      *)
(* server, which listens from the start, accepts, reads until the end and     *)
(* closes.                                                                   *)
(*                                                                         *)
(* A handler is one step.  A socket call is split where another thread can    *)
(* make a difference: before it sleeps and after, between the three looks of  *)
(* a write at snd_wnd, the queueing of a segment, the advance of snd_nxt and  *)
(* the update of snd_wnd, which take no lock, and between the FIN and the      *)
(* change of state.                                                         *)
(*                                                                         *)
(* A handler takes its locks at once.  The timer takes timer_lock and then    *)
(* send_lock, the queueing and the removal of segments send_lock and then     *)
(* timer_lock: the deadlock of the two, after which an end does no more, is   *)
(* left out.                                                                 *)
(*                                                                         *)
(* The network may lose, repeat and reorder: what was sent to an end stays    *)
(* in net, and an end may receive it at any time, or never.                   *)
(***************************************************************************)
EXTENDS TcpSock, SynchWait

VARIABLES
  sock,       \* the socket of each end; the server's is the child of its listener
  net,        \* the packets sent to each end
  pc,         \* where the program of each end is
  wait,       \* wait_connect, wait_accept, wait_recv, wait_send
  halt,       \* whether the stack of an end runs, or how it ended
  todo,       \* len_to_go: what the client has to write, or how far it wrote too much
  pend,       \* the write in progress: its segment, and snd_wnd as computed
  queue,      \* the queue of the listener that holds the child
  last,       \* the end of the data has come, tcp_in.c
  held,       \* a read has returned with the lock of rcv_buf; the receiver, which
              \* stores nothing after the FIN, does not ask for it any more
  delivered,  \* history: the units handed to the server
  skipped     \* history: what was taken although earlier data was missing

netVars == <<sock, net>>
appVars == <<todo, pend, held, delivered>>
inVars == <<queue, last, skipped>>
vars == <<sock, net, pc, wait, halt, appVars, inVars>>

Calls == {"connect", "accept", "recv", "send"}
Sleeping == [connect |-> "to_sleep_connect", accept |-> "to_sleep_accept",
             recv |-> "to_sleep_recv", send |-> "to_sleep_send"]
Asleep == [connect |-> "asleep_connect", accept |-> "asleep_accept",
           recv |-> "asleep_recv", send |-> "asleep_send"]
Closing == [FIN_WAIT_1 |-> "to_fin_wait_1", LAST_ACK |-> "to_last_ack"]
Caller == [c \in Calls |-> IF c \in {"connect", "send"} THEN Client ELSE Server]

Locations ==
  {"connect", "write", "compare", "fetch", "advance", "store", "accept", "dequeue", "read", "take", "close", "done"}
  \cup {Sleeping[c] : c \in Calls} \cup {Asleep[c] : c \in Calls}
  \cup {Closing["FIN_WAIT_1"], Closing["LAST_ACK"]}

\* The ways a stack ends: exit(1) in the timer, a failed assertion, a fault.
Halts == {"running", "exit", "assert", "fault"}

TcpTypeOK ==
  /\ sock \in [End -> Socks]
  /\ net \in [End -> SUBSET Packets]
  /\ pc \in [End -> Locations]
  /\ wait \in [Calls -> SynchWaits]
  /\ halt \in [End -> Halts]
  /\ todo \in 1 - MSS .. Units
  /\ pend \in [pkt : Packets, wnd : 0 .. Window]
  /\ queue \in {"none", "listen", "accept", "taken"}
  /\ last \in BOOLEAN /\ held \in BOOLEAN
  /\ delivered \in Seq(Nat)
  /\ skipped \subseteq {"data", "fin"}

NoWrite == [pkt |-> [flags |-> "ACK", seq |-> 0, ack |-> 0, len |-> 0], wnd |-> 0]

Init ==
  /\ sock = [e \in End |-> alloc_tcp_sock]
  /\ net = [e \in End |-> {}]
  /\ pc = [e \in End |-> IF e = Client THEN "connect" ELSE "accept"]
  /\ wait = [c \in Calls |-> wait_init]
  /\ halt = [e \in End |-> "running"]
  /\ todo = Units
  /\ pend = NoWrite
  /\ queue = "none"
  /\ last = FALSE /\ held = FALSE
  /\ delivered = <<>>
  /\ skipped = {}

At(e, l) == pc[e] = l /\ halt[e] = "running"
Goto(e, l) == pc' = [pc EXCEPT ![e] = l]
Send(e, pkts) == net' = [net EXCEPT ![Peer(e)] = @ \cup pkts]
Becomes(e, s) == sock' = [sock EXCEPT ![e] = s]
Halt(e, how) == halt' = [halt EXCEPT ![e] = how]

-----------------------------------------------------------------------------
(* Sleeping and waking *)

\* Where a call goes on when sleep_on returns.
After == [connect |-> "write", accept |-> "dequeue", recv |-> "take", send |-> "write"]

sleep_on(c) ==
  /\ At(Caller[c], Sleeping[c])
  /\ wait' = [wait EXCEPT ![c] = SleepOn(@)]
  /\ Goto(Caller[c], Asleep[c])
  /\ UNCHANGED <<netVars, halt, appVars, inVars>>

return_sleep(c) ==
  /\ At(Caller[c], Asleep[c])
  /\ MayReturn(wait[c])
  /\ wait' = [wait EXCEPT ![c] = Returned(@)]
  /\ Goto(Caller[c], After[c])
  /\ UNCHANGED <<netVars, halt, appVars, inVars>>

Wake(cs) == wait' = [c \in Calls |-> IF c \in cs THEN WakeUp(wait[c]) ELSE wait[c]]

-----------------------------------------------------------------------------
(* The client *)

tcp_sock_connect ==
  /\ At(Client, "connect")
  /\ LET s == [sock[Client] EXCEPT !.snd_nxt = ISS[Client], !.state = "SYN_SENT", !.hashed = TRUE]
     IN  /\ Becomes(Client, SendFlag(s, "SYN"))
         /\ Send(Client, {Segment(s, "SYN", 0)})
  /\ Goto(Client, Sleeping["connect"])
  /\ UNCHANGED <<wait, halt, appVars, inVars>>

Smallest(S) == CHOOSE n \in S : \A m \in S : n <= m

\* tcp_sock_write looks at snd_wnd three times: whether the window is closed,
tcp_sock_write ==
  /\ At(Client, "write")
  /\ todo > 0
  /\ Goto(Client, IF sock[Client].snd_wnd > 0 THEN "compare" ELSE Sleeping["send"])
  /\ UNCHANGED <<netVars, wait, halt, appVars, inVars>>

\* (the segment is cut to what fits and queued)
queue_segment(length) ==
  LET len == Smallest({length, MSS})
      pkt == Segment(sock[Client], "PSH", len)
  IN  /\ Becomes(Client, insert_send(sock[Client], pkt))
      /\ pend' = [pend EXCEPT !.pkt = pkt]
      /\ todo' = todo - len
      /\ Goto(Client, "advance")
      /\ UNCHANGED <<net, wait, halt, held, delivered, inVars>>

\* whether it is the smaller of the two,
compare ==
  /\ At(Client, "compare")
  /\ \/ /\ sock[Client].snd_wnd <= todo
        /\ Goto(Client, "fetch")
        /\ UNCHANGED <<netVars, wait, halt, appVars, inVars>>
     \/ /\ sock[Client].snd_wnd > todo
        /\ queue_segment(todo)

\* and how long the segment is then: more than what is left to write, when an
\* acknowledgement came in between, or 0, when snd_wnd went over its 16 bits.
fetch ==
  /\ At(Client, "fetch")
  /\ queue_segment(sock[Client].snd_wnd)

\* tcp_send_packet: snd_nxt, and the first half of "snd_wnd -= len".
advance ==
  /\ At(Client, "advance")
  /\ sock' = [sock EXCEPT ![Client].snd_nxt = @ + pend.pkt.len]
  /\ pend' = [pend EXCEPT !.wnd = Wrapped(sock[Client].snd_wnd + (Window + 1) - pend.pkt.len)]
  /\ Goto(Client, "store")
  /\ UNCHANGED <<net, wait, halt, todo, held, delivered, inVars>>

\* The second half, and the packet leaves.
store ==
  /\ At(Client, "store")
  /\ sock' = [sock EXCEPT ![Client].snd_wnd = pend.wnd]
  /\ Send(Client, {pend.pkt})
  /\ pend' = NoWrite
  /\ Goto(Client, "write")
  /\ UNCHANGED <<wait, halt, todo, held, delivered, inVars>>

written ==
  /\ At(Client, "write")
  /\ todo <= 0
  /\ Goto(Client, "close")
  /\ UNCHANGED <<netVars, wait, halt, appVars, inVars>>

-----------------------------------------------------------------------------
(* The server *)

tcp_sock_accept ==
  /\ At(Server, "accept")
  /\ Goto(Server, IF queue = "accept" THEN "dequeue" ELSE Sleeping["accept"])
  /\ UNCHANGED <<netVars, wait, halt, appVars, inVars>>

tcp_sock_accept_dequeue ==
  /\ At(Server, "dequeue")
  /\ queue' = "taken"
  /\ Goto(Server, "read")
  /\ UNCHANGED <<netVars, wait, halt, appVars, last, skipped>>

\* read_ring_buffer asks for more than the buffer holds, or leaves the rest
\* for the next call: some of it, all that one call may get.
read_ring_buffer ==
  LET buf == sock[Server].rcv_buf
  IN  IF buf = <<>> THEN UNCHANGED <<sock, delivered>>
      ELSE \E n \in {1, Len(buf)} :
             /\ delivered' = delivered \o SubSeq(buf, 1, n)
             /\ sock' = [sock EXCEPT ![Server].rcv_buf = SubSeq(@, n + 1, Len(@))]

\* Mutant of Reads: it stops at the end of the data, whatever is in the buffer.
ReadsNoMore == "close"

\* The program reads again, or stops at a negative size.
Reads == IF sock[Server].rcv_buf = <<>> THEN "close" ELSE "read"

tcp_sock_read ==
  /\ At(Server, "read")
  /\ ~held
  /\ \/ /\ last
        /\ read_ring_buffer
        /\ Goto(Server, Reads)
     \/ /\ ~last
        /\ Goto(Server, IF sock[Server].rcv_buf = <<>> THEN Sleeping["recv"] ELSE "take")
        /\ UNCHANGED <<sock, delivered>>
  /\ UNCHANGED <<net, wait, halt, todo, pend, held, inVars>>

\* The second half: if the end of the data has come since, it returns with the lock.
take ==
  /\ At(Server, "take")
  /\ read_ring_buffer
  /\ held' = last
  /\ Goto(Server, IF last THEN Reads ELSE "read")
  /\ UNCHANGED <<net, wait, halt, todo, pend, inVars>>

-----------------------------------------------------------------------------
(* Both *)

CloseTarget(state) == IF state = "ESTABLISHED" THEN "FIN_WAIT_1" ELSE "LAST_ACK"

\* In any other state it does nothing, but the programs never close in one.
tcp_sock_close(e) ==
  /\ At(e, "close")
  /\ sock[e].state \in {"ESTABLISHED", "CLOSE_WAIT"}
  /\ Becomes(e, SendFlag(sock[e], "FIN"))
  /\ Send(e, {Segment(sock[e], "FIN", 0)})
  /\ Goto(e, Closing[CloseTarget(sock[e].state)])
  /\ UNCHANGED <<wait, halt, appVars, inVars>>

set_closing(e) ==
  /\ \E s \in {"FIN_WAIT_1", "LAST_ACK"} :
        /\ At(e, Closing[s])
        /\ sock' = [sock EXCEPT ![e].state = s]
  /\ Goto(e, "done")
  /\ UNCHANGED <<net, wait, halt, appVars, inVars>>

\* tcp_scan_timer_list, a retransmission timer that has run out.
retransmit(e) ==
  /\ halt[e] = "running"
  /\ sock[e].send_list # {}
  /\ LET b == Oldest(sock[e].send_list)
     IN  \/ /\ b.num < MaxTries
            /\ Send(e, {b.pkt})
            /\ sock' = [sock EXCEPT ![e].send_list = (@ \ {b}) \cup {[b EXCEPT !.num = @ + 1]}]
            /\ UNCHANGED halt
         \/ /\ b.num >= MaxTries
            /\ Halt(e, "exit")
            /\ UNCHANGED netVars
  /\ UNCHANGED <<pc, wait, appVars, inVars>>

\* ... and the timer of 2 MSL.  After a reset the socket has lost its other
\* references: it is freed while the retransmission timer in it is scanned.
timewait_over(e) ==
  /\ halt[e] = "running"
  /\ sock[e].timewait
  /\ sock' = [sock EXCEPT ![e].timewait = FALSE, ![e].state = "CLOSED"]
  /\ \/ UNCHANGED halt
     \/ ~sock[e].hashed /\ Halt(e, "fault")
  /\ UNCHANGED <<net, pc, wait, appVars, inVars>>

-----------------------------------------------------------------------------
(* The receiving thread: tcp_process, by the state of the socket *)

Arrives(e, p) == halt[e] = "running" /\ p \in net[e]
Synchronised(e) == sock[e].hashed /\ sock[e].state \notin {"CLOSED", "SYN_SENT"}

\* tcp_sock_lookup finds nothing, and tcp_process reads the state of a null pointer.
tcp_process_null(e, p) ==
  /\ Arrives(e, p)
  /\ e = Client /\ ~sock[e].hashed
  /\ Halt(e, "fault")
  /\ UNCHANGED <<netVars, pc, wait, appVars, inVars>>

\* The listener makes a child; the tables find the child from then on.
tcp_state_listen(p) ==
  /\ Arrives(Server, p)
  /\ ~sock[Server].hashed
  /\ p.flags \in {"SYN", "SYN_ACK"}
  /\ LET s == [alloc_tcp_sock EXCEPT !.state = "SYN_RECV", !.snd_nxt = ISS[Server],
                 !.rcv_nxt = p.seq + 1, !.snd_wnd = Window, !.hashed = TRUE]
     IN  /\ Becomes(Server, SendFlag(s, "SYN_ACK"))
         /\ Send(Server, {Segment(s, "SYN_ACK", 0)})
  /\ queue' = "listen"
  /\ UNCHANGED <<pc, wait, halt, appVars, last, skipped>>

tcp_state_closed(e, p) ==
  /\ Arrives(e, p)
  /\ sock[e].hashed /\ sock[e].state = "CLOSED"
  /\ Send(e, {tcp_send_reset})
  /\ UNCHANGED <<sock, pc, wait, halt, appVars, inVars>>

tcp_state_syn_sent(e, p) ==
  /\ Arrives(e, p)
  /\ sock[e].hashed /\ sock[e].state = "SYN_SENT"
  /\ p.flags = "SYN_ACK" /\ p.ack = sock[e].snd_nxt
  /\ LET s == [sock[e] EXCEPT !.state = "ESTABLISHED", !.rcv_nxt = p.seq + 1, !.snd_wnd = Window]
     IN  /\ Becomes(e, s)
         /\ Send(e, {Ack(s)})
  /\ Wake({"connect"})
  /\ UNCHANGED <<pc, halt, appVars, inVars>>

\* The child's bind_hash_list was never initialised: unhashing it faults.
reset(e, p) ==
  /\ Arrives(e, p)
  /\ Synchronised(e)
  /\ p.flags = "RST"
  /\ \/ /\ e = Server
        /\ Halt(e, "fault")
        /\ UNCHANGED sock
     \/ /\ e = Client
        /\ sock' = [sock EXCEPT ![e].state = "CLOSED", ![e].hashed = FALSE]
        /\ UNCHANGED halt
  /\ UNCHANGED <<net, pc, wait, appVars, inVars>>

\* remove_from_send_list in a handler.  "snd_wnd += wlen" takes no lock: when a
\* write is between its load and its store, either of the two may be lost.
Acknowledged(e, s, ack) ==
  LET t == remove_from_send_list(s, ack)
  IN  /\ Becomes(e, t)
      /\ \/ UNCHANGED pend
         \/ /\ At(e, "store")
            /\ pend' = [pend EXCEPT !.wnd = t.snd_wnd]

\* Mutant of AcksAll: any packet that acknowledges nothing new will do.
AcksSome(s, p) == p.ack <= s.snd_nxt

\* "ack == snd_nxt", as tcp_state_syn_recv asks for.
AcksAll(s, p) == p.ack = s.snd_nxt

\* tcp_state_syn_recv takes the payload of whatever segment comes first; the
\* ring buffer is empty and has room for it.
tcp_state_syn_recv(e, p) ==
  /\ Arrives(e, p)
  /\ Synchronised(e) /\ sock[e].state = "SYN_RECV"
  /\ p.flags # "RST" /\ AcksAll(sock[e], p)
  /\ LET s == [sock[e] EXCEPT !.state = "ESTABLISHED", !.rcv_nxt = @ + p.len,
                 !.rcv_buf = @ \o Payload(p)]
     IN  /\ Acknowledged(e, s, p.ack)
         /\ Send(e, IF p.len = 0 THEN {} ELSE {Ack(s)})
  /\ skipped' = skipped \cup (IF p.len > 0 /\ ~InTurn(sock[e], p) THEN {"data"} ELSE {})
  /\ queue' = "accept"
  /\ Wake({"accept"})
  /\ UNCHANGED <<pc, halt, todo, held, delivered, last>>

\* Mutant of Passed: any acknowledgement ends FIN_WAIT_1.
PassedAny(s, p) ==
  IF s.state = "FIN_WAIT_1" THEN "FIN_WAIT_2"
  ELSE IF s.state = "LAST_ACK" /\ p.ack = s.snd_nxt THEN "CLOSED"
  ELSE s.state

Passed(s, p) ==
  IF s.state = "FIN_WAIT_1" /\ p.ack = s.snd_nxt THEN "FIN_WAIT_2"
  ELSE IF s.state = "LAST_ACK" /\ p.ack = s.snd_nxt THEN "CLOSED"
  ELSE s.state

\* The states that answer a FIN, and what they become; any other drops it.
OnFin == [ESTABLISHED |-> "CLOSE_WAIT", FIN_WAIT_2 |-> "TIME_WAIT"]

\* The socket at line 316 of tcp_in.c: in a later state than SYN_RECV, its FIN seen.
InProgress(e, p) ==
  Synchronised(e) /\ sock[e].state # "SYN_RECV" /\ p.flags # "RST" /\ Arrives(e, p)

receive_fin(e, p) ==
  LET now == Passed(sock[e], p)
      s == [sock[e] EXCEPT !.state = OnFin[now], !.rcv_nxt = p.seq + 1,
              !.timewait = @ \/ now = "FIN_WAIT_2"]
  IN  /\ InProgress(e, p)
      /\ p.flags = "FIN"
      /\ \/ /\ now \in DOMAIN OnFin
            /\ Becomes(e, s)
            /\ Send(e, {Ack(s)})
            /\ last' = (last \/ (e = Server /\ now = "ESTABLISHED"))
            /\ skipped' = skipped \cup (IF e = Server /\ p.seq # sock[e].rcv_nxt THEN {"fin"} ELSE {})
         \/ /\ now \notin DOMAIN OnFin
            /\ sock' = [sock EXCEPT ![e].state = now]
            /\ UNCHANGED <<net, last, skipped>>
      /\ UNCHANGED <<pc, wait, halt, appVars, queue>>

receive_ack(e, p) ==
  /\ InProgress(e, p)
  /\ p.flags = "ACK"
  /\ Acknowledged(e, [sock[e] EXCEPT !.state = Passed(sock[e], p)], p.ack)
  /\ Wake(IF e = Client THEN {"send"} ELSE {})
  /\ UNCHANGED <<net, pc, halt, todo, held, delivered, inVars>>

\* tcp_recv_data: in its turn, too early or too late.
tcp_recv_data(e, p) ==
  LET s == [sock[e] EXCEPT !.state = Passed(sock[e], p)]
      taken == TakeInOrder(s, p)
  IN  /\ InProgress(e, p)
      /\ p.flags \in {"PSH", "SYN", "SYN_ACK"}
      /\ \/ /\ InTurn(s, p)
            /\ \/ /\ HasRoom(<<>>, Len(taken.rcv_buf))
                  /\ Acknowledged(e, taken, p.ack)
                  /\ Send(e, {Ack(taken)})
                  /\ UNCHANGED halt
               \/ /\ ~HasRoom(<<>>, Len(taken.rcv_buf))
                  /\ Halt(e, "assert")
                  /\ UNCHANGED <<netVars, pend>>
            /\ Wake(IF e = Server THEN {"recv"} ELSE {"send"})
         \/ /\ p.seq > s.rcv_nxt
            /\ Acknowledged(e, Store(s, p), p.ack)
            /\ Wake(IF e = Client THEN {"send"} ELSE {})
            /\ UNCHANGED <<net, halt>>
         \/ /\ p.seq < s.rcv_nxt
            /\ Acknowledged(e, s, p.ack)
            /\ Send(e, {Ack(s)})
            /\ Wake(IF e = Client THEN {"send"} ELSE {})
            /\ UNCHANGED halt
      /\ UNCHANGED <<pc, todo, held, delivered, inVars>>

-----------------------------------------------------------------------------
ClientProgram ==
  \/ tcp_sock_connect \/ tcp_sock_write \/ compare \/ fetch \/ advance \/ store \/ written
  \/ \E c \in {"connect", "send"} : sleep_on(c) \/ return_sleep(c)
  \/ tcp_sock_close(Client) \/ set_closing(Client)

ServerProgram ==
  \/ tcp_sock_accept \/ tcp_sock_accept_dequeue \/ tcp_sock_read \/ take
  \/ \E c \in {"accept", "recv"} : sleep_on(c) \/ return_sleep(c)
  \/ tcp_sock_close(Server) \/ set_closing(Server)

Timer(e) == retransmit(e) \/ timewait_over(e)

Receive(e, p) ==
  \/ tcp_process_null(e, p) \/ tcp_state_closed(e, p) \/ tcp_state_syn_sent(e, p)
  \/ reset(e, p) \/ tcp_state_syn_recv(e, p)
  \/ receive_fin(e, p) \/ receive_ack(e, p) \/ tcp_recv_data(e, p)

Receiver(e) ==
  \E p \in net[e] : Receive(e, p) \/ (e = Server /\ tcp_state_listen(p))

Next ==
  \/ ClientProgram \/ ServerProgram
  \/ \E e \in End : Timer(e) \/ Receiver(e)

Spec == Init /\ [][Next]_vars

\* The threads are scheduled by the host: one that can go on does.
FairSpec ==
  /\ Spec
  /\ WF_vars(ClientProgram) /\ WF_vars(ServerProgram)
  /\ \A e \in End : WF_vars(Timer(e)) /\ WF_vars(Receiver(e))

-----------------------------------------------------------------------------
(* Properties *)

Received == delivered \o sock[Server].rcv_buf
Whole(n) == [i \in 1 .. n |-> i]

\* What the server has taken is a prefix of what tcp_sock_write has queued, without
\* a gap and without repetition (tcp_recv_data, TakeInOrder), unless the child was
\* established by a data segment that was not the next one (tcp_in.c:155-162).
\* What was queued is the first Units - todo units: some of the data or, when a
\* segment was longer than what was left to write (tcp_sock.c:409-410), all of it
\* and then the -todo units behind the buffer.
StreamIntact ==
  "data" \notin skipped => Received = Whole(Len(Received)) /\ Len(Received) <= Units - todo

\* The same without the exception.
StreamAlwaysIntact == Received = Whole(Len(Received))

\* A unit the client has sent and no longer holds for another try has been
\* taken by the server: an acknowledgement never loses data
\* (remove_from_send_list, tcp_recv_data), if none was skipped.
AckedIsReceived ==
  skipped = {} =>
    \A n \in (ISS[Client] + 1 .. sock[Client].snd_nxt - 1) \ Covered(InSendList(sock[Client])) :
      n - ISS[Client] <= Len(Received) \/ n > ISS[Client] + Units - todo

\* When the server stops reading it has all that was queued, which is the data
\* unless the client wrote too much (set_last, tcp_sock_read, tcp_sock_write), and
\* unless the FIN came before the rest and was taken all the same.
EndIsComplete ==
  /\ pc[Server] \in {"close", "done"} \cup {Closing[s] : s \in {"FIN_WAIT_1", "LAST_ACK"}}
  /\ skipped = {}
  => delivered = Whole(Units - todo) /\ todo <= 0

\* The server accepts no connection the client has not established: its child
\* leaves SYN_RECV only on an acknowledgement of its own SYN (tcp_in.c:142).
AcceptedIsEstablished ==
  queue \in {"accept", "taken"} => sock[Client].rcv_nxt > ISS[Server]

\* An end that believes its FIN acknowledged is right: the other has taken it
\* (tcp_in.c:308-314).
TeardownAgrees ==
  /\ sock[Client].state \in {"FIN_WAIT_2", "TIME_WAIT"} => last
  /\ sock[Server].hashed /\ sock[Server].state = "CLOSED"
     => sock[Client].rcv_nxt = sock[Server].snd_nxt

\* What each call sleeps for.
Ready(c) ==
  CASE c = "connect" -> sock[Client].state = "ESTABLISHED"
    [] c = "accept"  -> queue = "accept"
    [] c = "recv"    -> sock[Server].rcv_buf # <<>> \/ last
    [] c = "send"    -> sock[Client].snd_wnd > 0

\* A call that sleeps for something that has happened returns (tcp_sock.c:270-271).
CallsReturn ==
  \A c \in Calls :
    (pc[Caller[c]] = Asleep[c] /\ Ready(c)) ~> (pc[Caller[c]] # Asleep[c] \/ halt[Caller[c]] # "running")
=============================================================================

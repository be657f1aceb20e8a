-------------------------- MODULE ReliableSession --------------------------
(***************************************************************************)
(* The end-to-end reliable sessions behind SOCK_STREAM sockets             *)
(* (daemon/reliable_session.c, with Session_Close, Session_Write and the   *)
(* dispatch of daemon/session.c): a client of one daemon connects to a     *)
(* listening client of another one, the two sessions exchange numbered     *)
(* messages with acks, nacks, retransmission and flow control, and either  *)
(* client closes.  The sessions run over UDP_LINKS, so packets between the *)
(* daemons are lost, duplicated and reordered.                             *)
(*                                                                         *)
(* A handler is one step: it computes the new Session record, in whose     *)
(* field "out" it leaves the packets it sends.  A message is identified by *)
(* its sequence number, the hello that the client receives by Hello.       *)
(* Times are abstract: a queued event may run at any later moment.         *)
(***************************************************************************)
EXTENDS Integers, Sequences, FiniteSets

CONSTANTS MAX_WINDOW,      \* slots of window[] and recv_window[]
          MAX_CG_WINDOW,   \* twice the largest congestion window
          MAX_BUFF_SESS,   \* messages the receiver is willing to buffer
          MAX_BUFF_LINK,   \* backlog beyond which the client is not read
          Hello_Limit,     \* hellos sent without an answer
          Nack_Gap,        \* later messages that make a hole worth a nack
          TCP_Fairness,    \* congestion control is on
          Stale,           \* Stale[s]: what the Reliable_Data of s may hold from earlier
                           \* use, last_seq_sent of a disconnected peer or NotStale
          MaxMsgs,         \* bound: MaxMsgs[s] messages are sent by the client at s
          Closers,         \* the sides whose client may close without a fault
          MaxFaults,       \* bound: times a client's socket does not take data, a
                           \* daemon finds no route, or a client not in Closers closes
          MaxNet           \* bound: packets between the daemons

Side == {"connector", "acceptor"}

ASSUME SizeAssumption == /\ MAX_WINDOW \in Nat \ {0, 1} /\ MAX_CG_WINDOW \in Nat \ {0, 1}
                         /\ MAX_CG_WINDOW \div 2 <= MAX_WINDOW
                         /\ MAX_BUFF_SESS \in Nat \ {0} /\ MAX_BUFF_LINK \in Nat
                         /\ Hello_Limit \in Nat /\ Nack_Gap \in Nat
ASSUME BoundAssumption == MaxMsgs \in [Side -> Nat] /\ MaxFaults \in Nat /\ MaxNet \in Nat
ASSUME OptionAssumption == TCP_Fairness \in BOOLEAN /\ Stale \in [Side -> (SUBSET Int) \ {{}}]

VARIABLES ses,       \* ses[s]: the Session and Reliable_Data of side s
          requests,  \* connect requests the listening client has not accepted
          net,       \* packets between the daemons
          faults     \* how often a client did not read or a route was missing

vars == <<ses, requests, net, faults>>

Peer(s) == CHOOSE t \in Side : t # s

Index  == 0 .. MAX_WINDOW - 1
Slot(i) == i % MAX_WINDOW
NoBuff == -1
EMPTY_CELL == -1
NACK_CELL == -2
Hello  == -3
NotStale == -1
Lesser(a, b) == IF a < b THEN a ELSE b
Larger(a, b) == IF a > b THEN a ELSE b

(* Init_Reliable_Session.  connect_state and last_seq_sent are not among the *)
(* fields it sets: they keep what the last owner of the Reliable_Data left.  *)
Fresh(flags, stale) ==
  [state |-> "open", flags |-> flags, client |-> "ON", sock |-> "open",
   disconnecting |-> stale # NotStale, last_seq_sent |-> Larger(stale, 0), hello_cnt |-> 0,
   seq_no |-> 0, head |-> 0, tail |-> 0, window |-> [i \in Index |-> NoBuff],
   window_size |-> IF TCP_Fairness THEN Lesser(10, MAX_CG_WINDOW \div 2) ELSE MAX_CG_WINDOW \div 2,
   ssthresh |-> MAX_CG_WINDOW \div 2, msg_buff |-> << >>, rel_blocked |-> FALSE,
   recv_head |-> 0, recv_tail |-> 0, recv_window |-> [i \in Index |-> EMPTY_CELL],
   adv_win |-> MAX_BUFF_SESS, nack_buff |-> {}, scheduled_ack |-> FALSE,
   scheduled_timeout |-> FALSE, events |-> {}, rel_deliver_buff |-> << >>,
   writing |-> FALSE, out |-> {}, got |-> << >>, ended |-> FALSE,
   exited |-> FALSE, reused |-> stale # NotStale]

NoSession == [Fresh("UNAVAILABLE", NotStale) EXCEPT !.state = "none"]

Init ==
  /\ ses = [s \in Side |-> NoSession]
  /\ requests = 0
  /\ net = {}
  /\ faults = 0

-----------------------------------------------------------------------------
(* Packets.  A hello carries a sequence number, a data or ack packet the     *)
(* reliable_ses_tail; "to" is the port it is addressed to.                   *)
HelloPacket(to, type, seq) ==
  [to |-> to, type |-> type, seq_no |-> seq, ack |-> 0, adv_win |-> 0, nacks |-> {}]

Adv_Win(r) == r.recv_head + MAX_BUFF_SESS - Len(r.rel_deliver_buff)

DataPacket(s, r, seq, nacks) ==
  [to |-> Peer(s), type |-> "DATA", seq_no |-> seq, ack |-> r.recv_tail,
   adv_win |-> Adv_Win(r), nacks |-> nacks]

AckPacket(s, r, nacks) == [DataPacket(s, r, r.seq_no, nacks) EXCEPT !.type = "ACK"]

(* The holes that the first packet built now must nack, and those it may     *)
(* nack again if two round trips have passed since it last did.              *)
NewNacks(r) == {i \in r.recv_tail .. r.recv_head - 1 :
                  r.recv_window[Slot(i)] = EMPTY_CELL /\ r.recv_head - i > Nack_Gap}
OldNacks(r) == {i \in r.recv_tail .. r.recv_head - 1 : r.recv_window[Slot(i)] = NACK_CELL}
NackSets(r) == {NewNacks(r) \cup again : again \in SUBSET OldNacks(r)}
MarkNacked(r, nacks) ==
  [r EXCEPT !.recv_window = [i \in Index |-> IF \E n \in nacks : Slot(n) = i
                                             THEN NACK_CELL ELSE @[i]]]

-----------------------------------------------------------------------------
(* Closing. *)

(* Close_Reliable_Session: windows, backlog and nacks are freed and the      *)
(* events dequeued.  One that it leaves in the queue (Ses_Send_One, an ack   *)
(* queued by Session_Write) finds no session of its id and returns, so it is *)
(* not kept here.                                                            *)
Close_Reliable_Session(r) ==
  [NoSession EXCEPT !.seq_no = r.seq_no, !.recv_tail = r.recv_tail, !.recv_head = r.recv_tail,
                    !.head = r.seq_no, !.tail = r.seq_no,
                    !.got = r.got, !.ended = r.ended, !.reused = r.reused, !.exited = r.exited,
                    !.out = r.out]

(* Session_Close: the client's descriptors are closed unless that has        *)
(* happened, and the session leaves Sessions_ID and Sessions_Port.           *)
Session_Close(r) ==
  [Close_Reliable_Session(r) EXCEPT
     !.state = "closed", !.sock = "closed",
     !.client = IF r.client = "ON" THEN "OFF" ELSE r.client]

(* Ses_Send_Rel_Hello: the hello that the state of the session calls for. *)
HelloOf(s, r) ==
  CASE r.flags = "CONNECT_WAIT" -> HelloPacket("listener", "HELLO", 0)
    [] r.flags = "ACCEPT_WAIT"  -> HelloPacket(Peer(s), "HELLO", 1)
    [] r.flags = "CONNECTED" /\ r.client = "ON" -> HelloPacket(Peer(s), "HELLO", 2)
    [] r.flags = "CONNECTED" /\ r.client # "ON" -> HelloPacket(Peer(s), "DISCNCT", r.seq_no)
    [] r.flags = "DISCONNECT"   -> HelloPacket(Peer(s), "CLOSE", 0)

(* Ses_Send_Rel_Hello.  It gives up after Hello_Limit hellos; without a      *)
(* route it tries again a second later.                                      *)
Ses_Send_Rel_Hello(s, r, route) ==
  IF r.state # "open" THEN r
  ELSE IF r.hello_cnt > Hello_Limit
  THEN IF r.flags # "CONNECTED" THEN Session_Close(r) ELSE r
  ELSE IF ~route THEN [r EXCEPT !.events = @ \cup {"hello"}]
  ELSE [r EXCEPT !.out = @ \cup {HelloOf(s, r)},
                 !.last_seq_sent = IF r.flags = "CONNECTED" /\ r.client # "ON"
                                   THEN r.seq_no ELSE @,
                 !.hello_cnt = @ + 1,
                 !.events = @ \cup {"hello"}]

(* Disconnect_Reliable_Session: the client's sockets are closed, what waits  *)
(* for them is dropped and the other side is told.                           *)
Disconnect_Reliable_Session(s, r, route) ==
  LET orphan == [r EXCEPT !.rel_deliver_buff = << >>, !.writing = FALSE,
                          !.client = "ORPHAN", !.sock = "closed"]
      told == Ses_Send_Rel_Hello(s, orphan, route)
  IN  IF told.state = "closed" THEN told ELSE [told EXCEPT !.events = @ \cup {"close"}]

-----------------------------------------------------------------------------
(* Writing to the client.  Its socket takes the first k of the messages and  *)
(* then either would block or fails.                                         *)

(* Mutant: what the socket does not take is dropped. *)
Net_Rel_Sess_SendLossy(s, r, ms, k, failure, route) ==
  IF r.client = "OFF" THEN r
  ELSE IF r.sock = "closed"
  THEN Disconnect_Reliable_Session(s, r, route)
  ELSE LET sent == [r EXCEPT !.got = @ \o SubSeq(ms, 1, k)]
       IN  IF k < Len(ms) /\ failure THEN Disconnect_Reliable_Session(s, sent, route) ELSE sent

(* Net_Rel_Sess_Send, for the messages ms one after the other (k = Len(ms):  *)
(* all go through).  A message that would block waits in rel_deliver_buff    *)
(* for Session_Write, and the following ones behind it.  Only SES_CLIENT_OFF *)
(* keeps it from writing: an orphan's descriptor is closed already.          *)
Net_Rel_Sess_Send(s, r, ms, k, failure, route) ==
  IF r.client = "OFF" THEN r
  ELSE IF r.sock = "closed"
  THEN Disconnect_Reliable_Session(s, r, route)
  ELSE LET sent == [r EXCEPT !.got = @ \o SubSeq(ms, 1, k)]
       IN  IF k = Len(ms) THEN sent
           ELSE IF failure THEN Disconnect_Reliable_Session(s, sent, route)
           ELSE [sent EXCEPT !.rel_deliver_buff = @ \o SubSeq(ms, k + 1, Len(ms)),
                             !.writing = TRUE]

(* The last message of a disconnected peer has been written to the client. *)
PeerIsDone(r) == r.disconnecting /\ r.recv_tail = r.last_seq_sent /\ r.rel_deliver_buff = << >>

EndIfPeerIsDone(s, r, route) ==
  IF PeerIsDone(r) THEN Disconnect_Reliable_Session(s, [r EXCEPT !.ended = TRUE], route) ELSE r

(* Session_Write: the client's socket takes data again.                      *)
Session_Write(s, r, k, failure, route) ==
  LET n == Len(r.rel_deliver_buff)
      sent == [r EXCEPT !.got = @ \o SubSeq(r.rel_deliver_buff, 1, k),
                        !.rel_deliver_buff = SubSeq(@, k + 1, n), !.writing = FALSE]
  IN  IF k < n
      THEN IF failure THEN Disconnect_Reliable_Session(s, sent, route)
           ELSE [sent EXCEPT !.writing = TRUE]
      ELSE LET acked == IF 0 < MAX_BUFF_SESS \div 2
                        THEN [sent EXCEPT !.events = @ \cup {"ack"}] ELSE sent
           IN  EndIfPeerIsDone(s, acked, route)

-----------------------------------------------------------------------------
(* Sending. *)

(* The data packets of seqs go out, the first one with the nacks.  They      *)
(* carry the ack, so a scheduled one is cancelled.                           *)
Transmit(s, r, seqs, nacks) ==
  LET carrier == CHOOSE q \in seqs : \A p \in seqs : q <= p
      free == IF r.scheduled_ack
              THEN [r EXCEPT !.scheduled_ack = FALSE, !.events = @ \ {"ack"}] ELSE r
  IN  [MarkNacked(free, nacks) EXCEPT
         !.out = @ \cup {DataPacket(s, r, q, IF q = carrier THEN nacks ELSE {}) : q \in seqs}]

(* The window slots and head after sending seqs, which are head .. of the    *)
(* session; window[seq % MAX_WINDOW] is overwritten.                         *)
IntoWindow(r, seqs) ==
  [r EXCEPT !.window = [i \in Index |-> IF \E q \in seqs : Slot(q) = i
                                        THEN CHOOSE q \in seqs : Slot(q) = i ELSE @[i]],
            !.head = CHOOSE h \in {q + 1 : q \in seqs} : \A q \in seqs : q < h,
            !.exited = @ \/ \E q \in seqs : q < r.head]

ScheduleTimeout(r) ==
  [r EXCEPT !.events = @ \cup {"timeout"}, !.scheduled_timeout = TRUE]

(* Mutant: a message also overtakes the backlog. *)
MustWaitOvertaking(r, route) ==
  \/ ~route
  \/ r.head - r.tail >= r.window_size
  \/ r.head >= r.adv_win
  \/ r.flags # "CONNECTED"

(* Reliable_Ses_Send after Process_Reliable_Session_Packet has numbered the  *)
(* message: without a route, room in both windows and an empty backlog the   *)
(* message waits in msg_buff, and nothing is scheduled for it.               *)
MustWait(r, route) ==
  \/ ~route
  \/ r.head - r.tail >= r.window_size
  \/ r.msg_buff # << >>
  \/ r.head >= r.adv_win
  \/ r.flags # "CONNECTED"

Reliable_Ses_Send(s, r, seq, nacks, route) ==
  IF MustWait(r, route)
  THEN LET longer == Append(r.msg_buff, seq)
       IN  [r EXCEPT !.msg_buff = longer,
                     !.rel_blocked = @ \/ Len(longer) > MAX_BUFF_LINK]
  ELSE ScheduleTimeout(Transmit(s, IntoWindow(r, {seq}), {seq}, nacks))

Process_Reliable_Session_Packet(s, r, nacks, route) ==
  Reliable_Ses_Send(s, [r EXCEPT !.seq_no = @ + 1], r.seq_no, nacks, route)

(* Ses_Send_Much: as many messages of the backlog as both windows allow. *)
Sendable(r) ==
  Lesser(Len(r.msg_buff), Lesser(r.window_size - (r.head - r.tail), r.adv_win - r.head))

Ses_Send_Much(s, r, nacks, route) ==
  IF ~route \/ r.flags # "CONNECTED" \/ Sendable(r) <= 0 THEN r
  ELSE LET n == Sendable(r)
           seqs == {r.msg_buff[j] : j \in 1 .. n}
           rest == SubSeq(r.msg_buff, n + 1, Len(r.msg_buff))
           sent == Transmit(s, IntoWindow([r EXCEPT !.msg_buff = rest], seqs), seqs, nacks)
       IN  ScheduleTimeout([sent EXCEPT !.rel_blocked = @ /\ ~ Len(rest) < MAX_BUFF_LINK \div 4])

-----------------------------------------------------------------------------
(* Acknowledgements. *)

(* The congestion window after an ack for k messages with ECN information c  *)
(* (1: a buffer overflowed, 2: half full, 3: some packets wait): slow start, *)
(* then less than one per message, which is left open.                       *)
Windows(r, k, c) ==
  LET w == r.window_size
      ss == r.ssthresh
      halved == Larger(2, ss \div 2)
      slow == Lesser(k, Larger(0, ss - w))
  IN  IF ~TCP_Fairness \/ k = 0 \/ c = 3 THEN {<<w, ss>>}
      ELSE CASE c = 1 -> {<<2, halved>>}
             [] c = 2 -> {<<Larger(2, (w + 1) \div 2), halved>>}
             [] c = 0 -> IF r.msg_buff = << >> THEN {<<w, ss>>}
                         ELSE {<<Lesser(w + j, Larger(w, MAX_CG_WINDOW \div 2)), ss>> : j \in slow .. k}

(* Process_Sess_Ack, the nacks: they are kept for Ses_Send_Nack_Retransm,    *)
(* with one number too many, read behind the end of the packet, because the  *)
(* length of a reliable_tail is subtracted and not of a reliable_ses_tail.   *)
KeepNacks(r, p, junk) ==
  IF p.nacks = {} THEN r
  ELSE [r EXCEPT !.nack_buff = @ \cup p.nacks \cup junk, !.events = @ \cup {"nack"}]

(* Process_Sess_Ack, the advertised window. *)
Advertised(r, p) ==
  IF p.ack < r.tail THEN r
  ELSE [r EXCEPT !.adv_win = p.adv_win,
                 !.events = @ \cup {"try"} \cup (IF r.head >= p.adv_win THEN {"one"} ELSE {})]

(* Process_Sess_Ack, the cumulative ack: the slots are freed and the timeout *)
(* starts again if something is still not acknowledged.                      *)
Acknowledged(r, p, w) ==
  LET acked == r.tail .. p.ack - 1
      freed == [r EXCEPT !.window = [i \in Index |-> IF \E q \in acked : Slot(q) = i
                                                     THEN NoBuff ELSE @[i]],
                         !.exited = @ \/ \E q \in acked : r.window[Slot(q)] = NoBuff,
                         !.tail = Larger(@, p.ack),
                         !.window_size = w[1], !.ssthresh = w[2]]
      calm == IF r.scheduled_timeout
              THEN [freed EXCEPT !.events = @ \ {"timeout"}, !.scheduled_timeout = FALSE]
              ELSE freed
  IN  IF calm.head > calm.tail THEN ScheduleTimeout(calm) ELSE calm

(* An ack for a packet never sent is "from another movie". *)
Foreign(r, p) == p.ack > r.head

Process_Sess_Ack(r, p, junk, w) ==
  LET kept == KeepNacks(r, p, junk)
  IN  IF Foreign(r, p) THEN kept ELSE Acknowledged(Advertised(kept, p), p, w)

(* Process_Sess_Ack, the return value: a message that is new and fits into   *)
(* the receive window.                                                       *)
IsNew(r, p) ==
  /\ ~Foreign(r, p)
  /\ p.seq_no - r.recv_tail < MAX_WINDOW
  /\ p.seq_no >= r.recv_tail
  /\ r.recv_window[Slot(p.seq_no)] < 0

-----------------------------------------------------------------------------
(* Receiving. *)

(* Process_Sess_Ack, its last lines: the slot is marked, recv_head moves. *)
Arrived(r, p) ==
  IF p.type = "ACK" \/ ~IsNew(r, p) THEN r
  ELSE [r EXCEPT !.recv_head = Larger(@, p.seq_no + 1),
                 !.recv_window[Slot(p.seq_no)] = p.seq_no]

(* The messages that are in order from recv_tail on. *)
Ready(r) ==
  {q \in r.recv_tail .. r.recv_head - 1 :
     \A j \in r.recv_tail .. q : r.recv_window[Slot(j)] >= 0}
InOrder(r) == [j \in 1 .. Cardinality(Ready(r)) |-> r.recv_window[Slot(r.recv_tail + j - 1)]]

Released(r, n) ==
  [r EXCEPT !.recv_window = [i \in Index |-> IF \E j \in 0 .. n - 1 : Slot(r.recv_tail + j) = i
                                             THEN EMPTY_CELL ELSE @[i]],
            !.recv_tail = @ + n]

(* Deliver_Rel_UDP_Data, the messages in order: behind rel_deliver_buff if   *)
(* something waits there, otherwise to the client's socket.                  *)
DeliverInOrder(s, r, k, failure, route) ==
  LET ms == InOrder(r)
      n == Len(ms)
  IN  IF r.rel_deliver_buff # << >>
      THEN EndIfPeerIsDone(s, [Released(r, n) EXCEPT !.rel_deliver_buff = @ \o ms], route)
      ELSE IF k < n /\ failure
      THEN Net_Rel_Sess_Send(s, Released(r, k), ms, k, failure, route)
      ELSE EndIfPeerIsDone(s, Net_Rel_Sess_Send(s, Released(r, n), ms, k, failure, route), route)

(* Deliver_Rel_UDP_Data for a data or ack packet: no more hellos are needed, *)
(* an orphan drops the message, a client that does not read is disconnected, *)
(* and every data packet schedules an ack.                                   *)
NoMoreHellos(r) ==
  IF r.client = "ON" /\ r.hello_cnt >= 0
  THEN [r EXCEPT !.hello_cnt = -1, !.events = @ \ {"hello"}] ELSE r

Deliver_Rel_UDP_Data(s, r, p, junk, w, k, failure, route) ==
  LET acked == NoMoreHellos(Arrived(Process_Sess_Ack(r, p, junk, w), p))
      scheduled == [acked EXCEPT !.scheduled_ack = TRUE, !.events = @ \cup {"ack"}]
      isNew == p.type = "DATA" /\ IsNew(r, p)
  IN  IF r.client # "ON" \/ (p.type = "ACK" /\ ~Foreign(r, p)) THEN acked
      ELSE IF Len(r.rel_deliver_buff) >= 3 * MAX_BUFF_SESS
      THEN Disconnect_Reliable_Session(s, acked, route)
      ELSE IF ~isNew \/ p.seq_no # r.recv_tail THEN scheduled
      ELSE DeliverInOrder(s, scheduled, k, failure, route)

(* Process_Rel_Ses_Hello. *)
Process_Hello(s, r, k, failure, route) ==
  LET up == [r EXCEPT !.hello_cnt = 0, !.flags = "CONNECTED"]
      answered == IF r.flags = "CONNECT_WAIT" THEN Ses_Send_Rel_Hello(s, up, route) ELSE up
  IN  Net_Rel_Sess_Send(s, answered, <<Hello>>, k, failure, route)

(* Mutant: a disconnect ends the session although messages are missing. *)
Process_DiscnctAtOnce(s, r, p, route) ==
  IF r.client = "ON"
  THEN IF r.disconnecting THEN r
       ELSE Disconnect_Reliable_Session(s, [r EXCEPT !.disconnecting = TRUE, !.ended = TRUE], route)
  ELSE IF r.disconnecting THEN r
  ELSE Session_Close(Ses_Send_Rel_Hello(s, [r EXCEPT !.flags = "DISCONNECT"], route))

Process_Discnct(s, r, p, route) ==
  IF r.client = "ON"
  THEN IF r.disconnecting THEN r
       ELSE IF p.seq_no = r.recv_tail
       THEN Disconnect_Reliable_Session(s, [r EXCEPT !.disconnecting = TRUE, !.ended = TRUE], route)
       ELSE [r EXCEPT !.disconnecting = TRUE, !.last_seq_sent = p.seq_no]
  ELSE IF r.disconnecting THEN r
  ELSE Session_Close(Ses_Send_Rel_Hello(s, [r EXCEPT !.flags = "DISCONNECT"], route))

Process_Close(r) == IF r.disconnecting THEN Session_Close(r) ELSE r

(* Deliver_UDP_Data finds a reliable session at the port and hands the packet *)
(* to it, according to its type and the state of the session.                *)
Accepts(r, p) ==
  /\ r.state = "open"
  /\ IF p.type = "HELLO" THEN r.flags \in {"CONNECT_WAIT", "ACCEPT_WAIT"} ELSE r.flags = "CONNECTED"

Process(s, r, p, junk, w, k, failure, route) ==
  CASE p.type = "HELLO"   -> Process_Hello(s, r, k, failure, route)
    [] p.type = "DISCNCT" -> Process_Discnct(s, r, p, route)
    [] p.type = "CLOSE"   -> Process_Close(r)
    [] OTHER -> Deliver_Rel_UDP_Data(s, r, p, junk, w, k, failure, route)

-----------------------------------------------------------------------------
(* Steps.  A step at s replaces its Session and puts what it sent on the     *)
(* network, where any of it may be lost.                                     *)

Step(s, r, through) ==
  /\ ses' = [ses EXCEPT ![s] = [r EXCEPT !.out = {}]]
  /\ through \subseteq r.out
  /\ net' = net \cup through
  /\ Cardinality(net') <= MaxNet

(* Get_Route finds the next hop, or does not for a while. *)
Routed(route) ==
  /\ route \/ faults < MaxFaults
  /\ faults' = IF route THEN faults ELSE faults + 1

(* What the client's socket does with n messages. *)
Takes(n, k, failure) ==
  /\ k \in 0 .. n
  /\ k = n => ~failure
  /\ k < n => faults < MaxFaults
  /\ faults' = IF k < n THEN faults + 1 ELSE faults

Sends(s, r) == \E through \in SUBSET r.out : Step(s, r, through)

(* Init_Reliable_Connect, for CONNECT_TYPE_MSG of the client. *)
Connect(s) ==
  /\ s = "connector" /\ ses[s].state = "none"
  /\ \E stale \in Stale[s] : Sends(s, Ses_Send_Rel_Hello(s, Fresh("CONNECT_WAIT", stale), TRUE))
  /\ UNCHANGED <<requests, faults>>

(* A connect request reaches the listening session.  Check_Double_Connect    *)
(* drops it if it belongs to a session that has been accepted already.       *)
Listen(p) ==
  /\ p.to = "listener"
  /\ net' = net \ {p}
  /\ requests' = IF ses["acceptor"].state = "open" THEN requests ELSE 1
  /\ UNCHANGED <<ses, faults>>

(* Accept_Rel_Session, for ACCEPT_TYPE_MSG of a client in spines_accept. *)
Accept(s) ==
  /\ s = "acceptor" /\ ses[s].state = "none" /\ requests > 0
  /\ requests' = requests - 1
  /\ \E stale \in Stale[s] : Sends(s, Ses_Send_Rel_Hello(s, Fresh("ACCEPT_WAIT", stale), TRUE))
  /\ UNCHANGED faults

(* The client sends a message: its spines_connect or spines_accept has       *)
(* returned and the daemon reads its socket.                                 *)
HasClient(s) == ses[s].state = "open" /\ ses[s].client = "ON" /\ ~ses[s].rel_blocked
ClientSend(s) ==
  /\ HasClient(s) /\ ses[s].got # << >> /\ ses[s].seq_no < MaxMsgs[s]
  /\ \E nacks \in NackSets(ses[s]), route \in BOOLEAN :
       /\ Routed(route)
       /\ Sends(s, Process_Reliable_Session_Packet(s, ses[s], nacks, route))
  /\ UNCHANGED requests

(* Session_Read finds that the client is gone. *)
ClientClose(s) ==
  /\ HasClient(s)
  /\ s \in Closers \/ faults < MaxFaults
  /\ faults' = IF s \in Closers THEN faults ELSE faults + 1
  /\ Sends(s, Disconnect_Reliable_Session(s, ses[s], TRUE))
  /\ UNCHANGED requests

ClientReads(s) ==
  /\ ses[s].writing
  /\ \E k \in 0 .. Len(ses[s].rel_deliver_buff), failure \in BOOLEAN :
       /\ Takes(Len(ses[s].rel_deliver_buff), k, failure)
       /\ Sends(s, Session_Write(s, ses[s], k, failure, TRUE))
  /\ UNCHANGED requests

(* A packet arrives; it may arrive again. *)
Wanted(s, p) ==
  IF p.type = "HELLO" THEN 1
  ELSE IF p.type = "DATA" /\ IsNew(ses[s], p) /\ p.seq_no = ses[s].recv_tail
          /\ ses[s].client = "ON" /\ ses[s].rel_deliver_buff = << >>
  THEN Len(InOrder(Arrived(ses[s], p))) ELSE 0

Receive(s, p, kept) ==
  /\ p.to = s /\ Accepts(ses[s], p)
  /\ \E k \in 0 .. Wanted(s, p), failure \in BOOLEAN,
        junk \in (IF p.nacks = {} THEN {{}} ELSE {{}} \cup {{i} : i \in Index}),
        c \in (IF TCP_Fairness /\ p.ack > ses[s].tail THEN 0 .. 3 ELSE {0}) :
       /\ Takes(Wanted(s, p), k, failure)
       /\ \E w \in Windows(ses[s], Larger(0, p.ack - ses[s].tail), c) :
            LET r == Process(s, ses[s], p, junk, w, k, failure, TRUE) IN
            \E through \in SUBSET r.out :
              /\ ses' = [ses EXCEPT ![s] = [r EXCEPT !.out = {}]]
              /\ net' = ((net \ {p}) \cup kept) \cup through
              /\ Cardinality(net') <= MaxNet
  /\ UNCHANGED requests

(* No session, or one in another state: the packet is dropped. *)
Drop(s, p) ==
  /\ p.to = s /\ ~Accepts(ses[s], p)
  /\ net' = net \ {p}
  /\ UNCHANGED <<ses, requests, faults>>

-----------------------------------------------------------------------------
(* Events of the queue. *)

Runs(s, e) == e \in ses[s].events
Past(s, e) == [ses[s] EXCEPT !.events = @ \ {e}]

Hello_Event(s) ==
  /\ Runs(s, "hello")
  /\ \E route \in BOOLEAN : Routed(route) /\ Sends(s, Ses_Send_Rel_Hello(s, Past(s, "hello"), route))
  /\ UNCHANGED requests

Ses_Delay_Close(s) ==
  /\ Runs(s, "close")
  /\ Sends(s, Session_Close(ses[s]))
  /\ UNCHANGED <<requests, faults>>

Ses_Try_to_Send(s) ==
  /\ Runs(s, "try")
  /\ \E nacks \in NackSets(ses[s]), route \in BOOLEAN :
       /\ Routed(route)
       /\ Sends(s, Ses_Send_Much(s, Past(s, "try"), nacks, route))
  /\ UNCHANGED requests

(* Ses_Send_One: a closed window is opened by one message every second. *)
Ses_Send_One(s) ==
  /\ Runs(s, "one")
  /\ LET r == Past(s, "one") IN
     Sends(s, IF r.head < r.adv_win THEN r
              ELSE [r EXCEPT !.adv_win = @ + 1, !.events = @ \cup {"try", "one"}])
  /\ UNCHANGED <<requests, faults>>

Ses_Send_Ack(s) ==
  /\ Runs(s, "ack")
  /\ \E nacks \in NackSets(ses[s]), route \in BOOLEAN :
       LET r == Past(s, "ack") IN
       /\ Routed(route)
       /\ Sends(s, IF ~route THEN r
                   ELSE IF r.flags # "CONNECTED" THEN [r EXCEPT !.exited = TRUE]
                   ELSE [MarkNacked(r, nacks) EXCEPT !.scheduled_ack = FALSE,
                                                     !.out = {AckPacket(s, r, nacks)}])
  /\ UNCHANGED requests

(* Ses_Reliable_Timeout: everything in the window is sent again; with        *)
(* congestion control the window closes to two messages.                     *)
Shrunk(r, w) ==
  IF TCP_Fairness THEN [r EXCEPT !.ssthresh = Larger(2, r.window_size \div 2), !.window_size = w] ELSE r

Ses_Reliable_Timeout(s) ==
  /\ Runs(s, "timeout")
  /\ \E nacks \in NackSets(ses[s]), route \in BOOLEAN :
       LET r == Past(s, "timeout")
           seqs == {r.window[Slot(q)] : q \in r.tail .. r.head - 1}
           again == [Transmit(s, Shrunk(r, 2), seqs, nacks) EXCEPT !.events = @ \cup {"timeout"}]
       IN  /\ Routed(route)
           /\ Sends(s, IF ~route THEN [r EXCEPT !.events = @ \cup {"timeout"}]
                       ELSE IF r.flags # "CONNECTED" THEN r
                       ELSE IF r.head = r.tail THEN [r EXCEPT !.scheduled_timeout = FALSE]
                       ELSE IF NoBuff \in seqs THEN [r EXCEPT !.exited = TRUE]
                       ELSE again)
  /\ UNCHANGED requests

(* Ses_Send_Nack_Retransm: what the slots of the nacked numbers hold. *)
Ses_Send_Nack_Retransm(s) ==
  /\ Runs(s, "nack")
  /\ \E nacks \in NackSets(ses[s]), route \in BOOLEAN :
       LET r == Past(s, "nack")
           seqs == {r.window[Slot(n)] : n \in r.nack_buff} \ {NoBuff}
           half == Shrunk(r, Larger(2, (r.window_size + 1) \div 2))
           free == [half EXCEPT !.scheduled_ack = FALSE,
                                !.events = IF r.scheduled_ack THEN @ \ {"ack"} ELSE @]
           sent == IF seqs = {} THEN free ELSE Transmit(s, half, seqs, nacks)
       IN  /\ Routed(route)
           /\ Sends(s, IF ~route \/ r.nack_buff = {} THEN r
                       ELSE IF r.flags # "CONNECTED" THEN [r EXCEPT !.exited = TRUE]
                       ELSE IF r.head = r.tail THEN [r EXCEPT !.scheduled_timeout = FALSE]
                       ELSE [sent EXCEPT !.nack_buff = {}])
  /\ UNCHANGED requests

Next ==
  \/ \E s \in Side :
       \/ Connect(s) \/ Accept(s) \/ ClientSend(s) \/ ClientClose(s) \/ ClientReads(s)
       \/ Hello_Event(s) \/ Ses_Delay_Close(s) \/ Ses_Try_to_Send(s) \/ Ses_Send_One(s)
       \/ Ses_Send_Ack(s) \/ Ses_Reliable_Timeout(s) \/ Ses_Send_Nack_Retransm(s)
  \/ \E p \in net : \/ Listen(p)
                    \/ \E s \in Side : Drop(s, p) \/ Receive(s, p, {}) \/ Receive(s, p, {p})

Spec == Init /\ [][Next]_vars

-----------------------------------------------------------------------------
(* The windows and their ends, the timers and the network. *)
TypeOK ==
  /\ \A s \in Side :
       /\ ses[s].state \in {"none", "open", "closed"}
       /\ ses[s].window \in [Index -> Int]
       /\ ses[s].recv_window \in [Index -> Int]
       /\ ses[s].tail <= ses[s].head /\ ses[s].head <= ses[s].seq_no
       /\ ses[s].recv_tail <= ses[s].recv_head
       /\ ses[s].events \subseteq {"hello", "close", "try", "one", "ack", "timeout", "nack"}
       /\ ses[s].out = {}
  /\ Cardinality(net) <= MaxNet

(* What a client reads is its hello and then the messages of the other       *)
(* client in the order they were sent, none missing and none twice, although *)
(* some wait in rel_deliver_buff and packets are lost, resent and reordered. *)
Sequenced ==
  \A s \in Side : \A j \in 1 .. Len(ses[s].got) :
    ses[s].got[j] = IF j = 1 THEN Hello ELSE j - 2

(* None of the Alarm(EXIT) calls of reliable_session.c is reached: no        *)
(* "Reliability failure", no smaller seq_no, no ack on a session that is not *)
(* connected; windows, counters and timers keep their ranges.                *)
NoAlarmExit == TypeOK /\ \A s \in Side : ~ses[s].exited

(* A session that ends because the other client closed has received all that *)
(* the other client sent, unless its Reliable_Data still had the             *)
(* connect_state of an earlier session whose peer disconnected.              *)
EndsComplete ==
  \A s \in Side : ses[s].ended /\ ~ses[s].reused => ses[s].recv_tail = ses[Peer(s)].seq_no

=============================================================================

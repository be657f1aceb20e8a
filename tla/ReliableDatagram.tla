-------------------------- MODULE ReliableDatagram --------------------------
(***************************************************************************)
(* The hop-by-hop reliable protocol of a link (daemon/reliable_datagram.c  *)
(* with the receive handler of daemon/reliable_udp.c and the parts of      *)
(* daemon/link.c that create and destroy a link's Reliable_Data), between  *)
(* the two ends of one incarnation of a link.  Both ends run the same code *)
(* and may send.  A daemon is single-threaded: a handler is one step, and  *)
(* what interleaves is the handlers of the two ends, the timers and the    *)
(* packets.                                                                *)
(*                                                                         *)
(* A message is identified by the sequence number the sender gives it.     *)
(* Packets of other incarnations of the link are filtered by control link  *)
(* id before they reach this code; module HelloLeg is about that.          *)
(***************************************************************************)
EXTENDS Integers, Sequences, FiniteSets

CONSTANTS MAX_WINDOW,        \* slots of window[] and recv_window[]
          Minimum_Window,    \* smallest congestion window
          MAX_BUFF_LINK,     \* backlog beyond which sessions are blocked
          TCP_Fairness,      \* congestion control is on
          Fast_Retransmit,   \* a hole is NACKed after one later packet
          MaxMsgs,           \* bound: messages one end sends
          Given,             \* bound: Given[p] messages are given to end p
          MaxNet             \* bound: packets in the network

ASSUME WindowAssumption == MAX_WINDOW \in Nat \ {0}
ASSUME MinimumWindowAssumption == Minimum_Window \in 1 .. MAX_WINDOW
ASSUME BuffAssumption == MAX_BUFF_LINK \in Nat /\ MAX_BUFF_LINK >= 4
ASSUME OptionAssumption == TCP_Fairness \in BOOLEAN /\ Fast_Retransmit \in BOOLEAN
ASSUME BoundAssumption == /\ MaxMsgs \in Nat /\ MaxNet \in Nat
                          /\ Given \in [{"A", "B"} -> 0 .. MaxMsgs]

VARIABLES
  flags,             \* flags[p]: state of the link at end p
  seq_no,            \* next sequence number to assign
  head,              \* window[] holds messages tail .. head-1
  tail,
  window,            \* window[p][i]: message in slot i, or NoBuff
  window_size,       \* congestion window (ceiling of the code's float)
  msg_buff,          \* backlog: messages waiting for room in the window
  recv_head,         \* one past the highest message received
  recv_tail,         \* first message not yet received
  recv_window,       \* recv_window[p][i]: flag of slot i
  nack_buff,         \* messages the peer asked for, {} when NULL
  scheduled_ack,
  scheduled_timeout,
  events,            \* events[p]: functions in the event queue for this link
  blocked,           \* the daemon's sessions are blocked on this link
  exited,            \* the daemon stopped in Alarm(EXIT) or on a null buffer
  net,               \* packets in the network
  delivered          \* delivered[p][k]: times message k went up at p

sendVars  == <<seq_no, head, tail, window, window_size, msg_buff, blocked>>
recvVars  == <<recv_head, recv_tail, delivered>>
timerVars == <<scheduled_ack, scheduled_timeout, events>>
vars == <<flags, sendVars, recvVars, recv_window, nack_buff, timerVars, exited, net>>

Endpoint == {"A", "B"}
Peer(p) == IF p = "A" THEN "B" ELSE "A"

Msg    == 0 .. MaxMsgs - 1
Index  == 0 .. MAX_WINDOW - 1
NoBuff == -1
Event  == {"Send_Ack", "Reliable_timeout", "Send_Nack_Retransm", "Try_to_Send"}

(* packet_header and reliable_tail; an ack packet carries no message. *)
Packet == [to : Endpoint, type : {"DATA", "ACK"}, seq_no : Msg \cup {NoBuff},
           cummulative_ack : 0 .. MaxMsgs, nacks : SUBSET Msg]

Slot(i) == i % MAX_WINDOW

Lesser(a, b) == IF a < b THEN a ELSE b
Larger(a, b) == IF a > b THEN a ELSE b

-----------------------------------------------------------------------------
(* Create_Link: the Reliable_Data of a new link. *)

Init ==
  /\ flags = [p \in Endpoint |-> "UNAVAILABLE"]
  /\ seq_no = [p \in Endpoint |-> 0]
  /\ head = [p \in Endpoint |-> 0]
  /\ tail = [p \in Endpoint |-> 0]
  /\ window = [p \in Endpoint |-> [i \in Index |-> NoBuff]]
  /\ window_size = [p \in Endpoint |-> IF TCP_Fairness THEN Minimum_Window ELSE MAX_WINDOW]
  /\ msg_buff = [p \in Endpoint |-> << >>]
  /\ recv_head = [p \in Endpoint |-> 0]
  /\ recv_tail = [p \in Endpoint |-> 0]
  /\ recv_window = [p \in Endpoint |-> [i \in Index |-> "EMPTY_CELL"]]
  /\ nack_buff = [p \in Endpoint |-> {}]
  /\ scheduled_ack = [p \in Endpoint |-> FALSE]
  /\ scheduled_timeout = [p \in Endpoint |-> FALSE]
  /\ events = [p \in Endpoint |-> {}]
  /\ blocked = [p \in Endpoint |-> FALSE]
  /\ exited = [p \in Endpoint |-> FALSE]
  /\ net = {}
  /\ delivered = [p \in Endpoint |-> [k \in Msg |-> 0]]

-----------------------------------------------------------------------------
(* Building and sending packets. *)

(* The holes that a packet built now may NACK: one not yet NACKed must be    *)
(* old enough, one already NACKed must have waited for two round trips,      *)
(* which is left open here, as is how many NACKs fit into the packet.        *)
NackCandidates(p) ==
  {i \in recv_tail[p] .. recv_head[p] - 1 :
     \/ /\ recv_window[p][Slot(i)] = "EMPTY_CELL"
        /\ \/ recv_head[p] - i > 3
           \/ recv_head[p] - i > 1 /\ Fast_Retransmit
     \/ recv_window[p][Slot(i)] = "NACK_CELL"}

DataPacket(p, k, nacks) ==
  [to |-> Peer(p), type |-> "DATA", seq_no |-> k,
   cummulative_ack |-> recv_tail[p], nacks |-> nacks]

(* Mutant: the ack covers everything up to the highest message received. *)
AckPacketOfHead(p, nacks) ==
  [to |-> Peer(p), type |-> "ACK", seq_no |-> NoBuff,
   cummulative_ack |-> recv_head[p], nacks |-> nacks]

AckPacket(p, nacks) ==
  [to |-> Peer(p), type |-> "ACK", seq_no |-> NoBuff,
   cummulative_ack |-> recv_tail[p], nacks |-> nacks]

MarkNacked(p, nacks) ==
  recv_window' = [recv_window EXCEPT ![p] =
                    [i \in Index |-> IF \E k \in nacks : Slot(k) = i
                                     THEN "NACK_CELL" ELSE @[i]]]

(* Link_Send over UDP: any of the packets may be lost. *)
Link_Send(packets) ==
  /\ \E through \in SUBSET packets : net' = net \cup through
  /\ Cardinality(net') <= MaxNet

(* Send the messages in ks, with whatever NACKs are due, over the packets. *)
SendData(p, ks) ==
  \E nacks \in SUBSET NackCandidates(p) :
    \E carrier \in [nacks -> ks] :
      /\ MarkNacked(p, nacks)
      /\ Link_Send({DataPacket(p, k, {n \in nacks : carrier[n] = k}) : k \in ks})

-----------------------------------------------------------------------------
(* Sending: Reliable_Send_Msg, Send_Much and the handlers of the timers.   *)
(* Event-queue effects are stated on ev, the queue without the event that  *)
(* is being handled, if any.                                               *)

(* Mutant: Send_Much fills the window with one message too many. *)
MovableOneMore(p) ==
  IF flags[p] = "CONNECTED" /\ head[p] - tail[p] <= window_size[p]
  THEN Lesser(Len(msg_buff[p]), window_size[p] - (head[p] - tail[p]) + 1)
  ELSE 0

(* How many backlogged messages Send_Much moves into the window. *)
Movable(p) ==
  IF flags[p] = "CONNECTED" /\ head[p] - tail[p] < window_size[p]
  THEN Lesser(Len(msg_buff[p]), window_size[p] - (head[p] - tail[p]))
  ELSE 0

(* Put the messages of cells, in this order, into the window, send them,    *)
(* cancel a scheduled ack, which rides on them, and restart the timer.      *)
(* The sequence numbers must be increasing and none below head.             *)
SendCells(p, cells, ev) ==
  /\ window' = [window EXCEPT ![p] =
                  [i \in Index |->
                     IF \E j \in DOMAIN cells : Slot(cells[j]) = i
                     THEN cells[CHOOSE j \in DOMAIN cells : Slot(cells[j]) = i]
                     ELSE @[i]]]
  /\ head' = [head EXCEPT ![p] = cells[Len(cells)] + 1]
  /\ exited' = [exited EXCEPT ![p] =
                  \/ cells[1] < head[p]
                  \/ \E j \in 1 .. Len(cells) - 1 : cells[j + 1] <= cells[j]]
  /\ SendData(p, {cells[j] : j \in DOMAIN cells})
  /\ scheduled_ack' = [scheduled_ack EXCEPT ![p] = FALSE]
  /\ scheduled_timeout' = [scheduled_timeout EXCEPT ![p] = TRUE]
  /\ events' = [events EXCEPT ![p] =
                  (ev \ (IF scheduled_ack[p] THEN {"Send_Ack"} ELSE {}))
                    \cup {"Reliable_timeout"}]

SendNothing(p, ev) ==
  /\ events' = [events EXCEPT ![p] = ev]
  /\ UNCHANGED <<window, head, exited, recv_window, net, scheduled_ack, scheduled_timeout>>

(* Mutant: the comparison with a quarter of MAX_BUFF_LINK is off by one. *)
ResumeTooLate(p, n, left) == n > 0 /\ left < MAX_BUFF_LINK \div 4 - 1

(* Sessions are resumed when Send_Much leaves a short backlog. *)
Resume(p, n, left) == n > 0 /\ left < MAX_BUFF_LINK \div 4

LinkExists(p) == flags[p] \in {"UNAVAILABLE", "CONNECTED"}

Reliable_Send_Msg(p) ==
  LET k     == seq_no[p]
      n     == Movable(p)
      left  == Len(msg_buff[p]) - n
      moved == SubSeq(msg_buff[p], 1, n)
      rest  == SubSeq(msg_buff[p], n + 1, Len(msg_buff[p]))
      fits  == /\ flags[p] = "CONNECTED"
               /\ left = 0
               /\ head[p] + n - tail[p] < window_size[p]
      cells == IF fits THEN Append(moved, k) ELSE moved
      still == blocked[p] /\ ~Resume(p, n, left)
  IN
  /\ ~exited[p]
  /\ k < Given[p]
  /\ LinkExists(p)
  /\ k < MaxMsgs
  /\ seq_no' = [seq_no EXCEPT ![p] = k + 1]
  /\ msg_buff' = [msg_buff EXCEPT ![p] = IF fits THEN rest ELSE Append(rest, k)]
  /\ blocked' = [blocked EXCEPT ![p] = still \/ (~fits /\ left + 1 > MAX_BUFF_LINK)]
  /\ IF cells = << >> THEN SendNothing(p, events[p]) ELSE SendCells(p, cells, events[p])
  /\ UNCHANGED <<flags, tail, window_size, recvVars, nack_buff>>

(* Alarm(EXIT): the daemon stops. *)
Alarm_EXIT(p) ==
  /\ exited' = [exited EXCEPT ![p] = TRUE]
  /\ UNCHANGED <<flags, sendVars, recvVars, recv_window, nack_buff, timerVars, net>>

(* The event queue runs the function f queued for the link of p. *)
Fires(p, f) == ~exited[p] /\ f \in events[p]

Send_Much(p, ev) ==
  LET n == Movable(p)
      cells == SubSeq(msg_buff[p], 1, n)
  IN
  /\ msg_buff' = [msg_buff EXCEPT ![p] = SubSeq(@, n + 1, Len(@))]
  /\ blocked' = [blocked EXCEPT ![p] = @ /\ ~Resume(p, n, Len(msg_buff[p]) - n)]
  /\ IF n = 0 THEN SendNothing(p, ev) ELSE SendCells(p, cells, ev)
  /\ UNCHANGED <<flags, seq_no, tail, window_size, recvVars, nack_buff>>

Try_to_Send(p) ==
  /\ Fires(p, "Try_to_Send")
  /\ IF LinkExists(p)
     THEN Send_Much(p, events[p] \ {"Try_to_Send"})
     ELSE Alarm_EXIT(p)

Send_Ack(p) ==
  /\ Fires(p, "Send_Ack")
  /\ IF flags[p] = "CONNECTED"
     THEN /\ \E nacks \in SUBSET NackCandidates(p) :
               /\ MarkNacked(p, nacks)
               /\ Link_Send({AckPacket(p, nacks)})
          /\ scheduled_ack' = [scheduled_ack EXCEPT ![p] = FALSE]
          /\ events' = [events EXCEPT ![p] = @ \ {"Send_Ack"}]
          /\ UNCHANGED <<flags, sendVars, recvVars, nack_buff, scheduled_timeout, exited>>
     ELSE Alarm_EXIT(p)

(* Congestion control after a loss: by how much depends on the streams that *)
(* share the window.                                                        *)
ShrinkWindow(p) ==
  \E w \in IF TCP_Fairness THEN Minimum_Window .. window_size[p] ELSE {window_size[p]} :
    window_size' = [window_size EXCEPT ![p] = w]

(* Mutants: the ack is cancelled in the queue and not in the bookkeeping,    *)
(* and the other way round.                                                  *)
CancelQueuedAckOnly(p, ev) ==
  /\ UNCHANGED scheduled_ack
  /\ events' = [events EXCEPT ![p] = ev \ (IF scheduled_ack[p] THEN {"Send_Ack"} ELSE {})]

ForgetAck(p, ev) ==
  /\ scheduled_ack' = [scheduled_ack EXCEPT ![p] = FALSE]
  /\ events' = [events EXCEPT ![p] = ev]

(* The ack scheduled at p is cancelled because the handler sends packets. *)
CancelAck(p, ev) ==
  /\ scheduled_ack' = [scheduled_ack EXCEPT ![p] = FALSE]
  /\ events' = [events EXCEPT ![p] = ev \ (IF scheduled_ack[p] THEN {"Send_Ack"} ELSE {})]

InWindow(p) == {window[p][Slot(k)] : k \in tail[p] .. head[p] - 1}

Reliable_timeout(p) ==
  /\ Fires(p, "Reliable_timeout")
  /\ IF flags[p] # "CONNECTED" \/ NoBuff \in InWindow(p)
     THEN Alarm_EXIT(p)
     ELSE /\ IF head[p] = tail[p]
             THEN /\ scheduled_timeout' = [scheduled_timeout EXCEPT ![p] = FALSE]
                  /\ events' = [events EXCEPT ![p] = @ \ {"Reliable_timeout"}]
                  /\ UNCHANGED <<window_size, scheduled_ack, recv_window, net>>
             ELSE /\ ShrinkWindow(p)
                  /\ CancelAck(p, events[p])
                  /\ SendData(p, InWindow(p))
                  /\ UNCHANGED scheduled_timeout
          /\ UNCHANGED <<flags, seq_no, head, tail, window, msg_buff, blocked,
                         recvVars, nack_buff, exited>>

(* The messages found in the slots of the NACKed sequence numbers. *)
NackedInWindow(p) == {window[p][Slot(k)] : k \in nack_buff[p]} \ {NoBuff}

Send_Nack_Retransm(p) ==
  LET ev == events[p] \ {"Send_Nack_Retransm"} IN
  /\ Fires(p, "Send_Nack_Retransm")
  /\ IF flags[p] # "CONNECTED"
     THEN Alarm_EXIT(p)
     ELSE /\ IF nack_buff[p] = {} \/ head[p] = tail[p]
             THEN /\ scheduled_timeout' = [scheduled_timeout EXCEPT ![p] = @ /\ nack_buff[p] = {}]
                  /\ events' = [events EXCEPT ![p] = ev]
                  /\ UNCHANGED <<window_size, nack_buff, scheduled_ack, recv_window, net>>
             ELSE /\ ShrinkWindow(p)
                  /\ CancelAck(p, ev)
                  /\ SendData(p, NackedInWindow(p))
                  /\ nack_buff' = [nack_buff EXCEPT ![p] = {}]
                  /\ UNCHANGED scheduled_timeout
          /\ UNCHANGED <<flags, seq_no, head, tail, window, msg_buff, blocked,
                         recvVars, exited>>

-----------------------------------------------------------------------------
(* Receiving: Process_Ack and the two handlers that call it. *)

(* An ack for messages not sent yet makes Process_Ack return at once. *)
FromAnotherMovie(p, m) == m.cummulative_ack > head[p]

NewTail(p, m) ==
  IF FromAnotherMovie(p, m) THEN tail[p] ELSE Larger(tail[p], m.cummulative_ack)

(* NACKs are kept for Send_Nack_Retransm, as far as nack_buff has room. *)
KeepNacks(p, m) ==
  \E kept \in IF nack_buff[p] = {} THEN {m.nacks} ELSE SUBSET m.nacks :
    nack_buff' = [nack_buff EXCEPT ![p] = @ \cup kept]

(* The slots of the messages acknowledged for the first time are freed. *)
FreeAcked(p, m) ==
  LET acked == tail[p] .. NewTail(p, m) - 1 IN
  /\ tail' = [tail EXCEPT ![p] = NewTail(p, m)]
  /\ window' = [window EXCEPT ![p] =
                  [i \in Index |-> IF \E k \in acked : Slot(k) = i THEN NoBuff ELSE @[i]]]
  /\ exited' = [exited EXCEPT ![p] = \E k \in acked : window[p][Slot(k)] = NoBuff]

(* Mutant: the growth is not capped at max_window. *)
GrowWindowUncapped(p, m) ==
  \E g \in IF TCP_Fairness /\ msg_buff[p] # << >> THEN 0 .. NewTail(p, m) - tail[p] ELSE {0} :
    window_size' = [window_size EXCEPT ![p] = @ + g]

(* Each message acknowledged opens the congestion window, by less than one   *)
(* in congestion avoidance, when messages are waiting for it.                *)
GrowWindow(p, m) ==
  \E g \in IF TCP_Fairness /\ msg_buff[p] # << >> THEN 0 .. NewTail(p, m) - tail[p] ELSE {0} :
    window_size' = [window_size EXCEPT ![p] = Lesser(@ + g, MAX_WINDOW)]

(* Mutants: a fresh ack does not queue Try_to_Send; the timer is cancelled   *)
(* and not started again.                                                    *)
AckEventsNoTry(p, m) ==
  LET nack == IF m.nacks # {} THEN {"Send_Nack_Retransm"} ELSE {}
      old  == IF scheduled_timeout[p] THEN {"Reliable_timeout"} ELSE {}
      new  == IF head[p] > NewTail(p, m) THEN {"Reliable_timeout"} ELSE {}
  IN IF FromAnotherMovie(p, m)
     THEN events[p] \cup nack
     ELSE ((events[p] \cup nack) \ old) \cup new

AckEventsNoTimer(p, m) ==
  LET nack  == IF m.nacks # {} THEN {"Send_Nack_Retransm"} ELSE {}
      fresh == IF NewTail(p, m) > tail[p] /\ msg_buff[p] # << >> THEN {"Try_to_Send"} ELSE {}
  IN (events[p] \cup nack \cup fresh) \ {"Reliable_timeout"}

(* Timers and events that Process_Ack leaves queued. *)
AckEvents(p, m) ==
  LET nack  == IF m.nacks # {} THEN {"Send_Nack_Retransm"} ELSE {}
      fresh == IF NewTail(p, m) > tail[p] /\ msg_buff[p] # << >> THEN {"Try_to_Send"} ELSE {}
      old   == IF scheduled_timeout[p] THEN {"Reliable_timeout"} ELSE {}
      new   == IF head[p] > NewTail(p, m) THEN {"Reliable_timeout"} ELSE {}
  IN IF FromAnotherMovie(p, m)
     THEN events[p] \cup nack
     ELSE ((events[p] \cup nack \cup fresh) \ old) \cup new

Process_Ack(p, m) ==
  /\ KeepNacks(p, m)
  /\ FreeAcked(p, m)
  /\ GrowWindow(p, m)
  /\ scheduled_timeout' = [scheduled_timeout EXCEPT ![p] =
                             IF FromAnotherMovie(p, m) THEN @ ELSE head[p] > NewTail(p, m)]
  /\ UNCHANGED <<flags, seq_no, head, msg_buff, blocked>>

(* Mutants: only the cell is looked at, or only recv_tail. *)
FreshByCell(p, m) ==
  ~FromAnotherMovie(p, m) /\ recv_window[p][Slot(m.seq_no)] # "RECVD_CELL"

FreshByTail(p, m) ==
  ~FromAnotherMovie(p, m) /\ m.seq_no >= recv_tail[p]

(* The message in m has not been received yet. *)
Fresh(p, m) ==
  /\ ~FromAnotherMovie(p, m)
  /\ recv_window[p][Slot(m.seq_no)] # "RECVD_CELL"
  /\ m.seq_no >= recv_tail[p]

(* recv_tail moves over the received messages; it stops after a full turn of *)
(* the window, whose cells it has emptied.                                   *)
NewRecvTail(p, rw, rh) ==
  CHOOSE t \in recv_tail[p] .. rh :
    /\ \A k \in recv_tail[p] .. t - 1 : rw[Slot(k)] = "RECVD_CELL"
    /\ \/ t = rh
       \/ t = recv_tail[p] + MAX_WINDOW
       \/ rw[Slot(t)] # "RECVD_CELL"

ReceiveMsg(p, k) ==
  LET rh == Larger(recv_head[p], k + 1)
      rw == [recv_window[p] EXCEPT ![Slot(k)] = "RECVD_CELL"]
      rt == NewRecvTail(p, rw, rh)
  IN
  /\ recv_head' = [recv_head EXCEPT ![p] = rh]
  /\ recv_tail' = [recv_tail EXCEPT ![p] = rt]
  /\ recv_window' = [recv_window EXCEPT ![p] =
                       [i \in Index |-> IF \E j \in recv_tail[p] .. rt - 1 : Slot(j) = i
                                        THEN "EMPTY_CELL" ELSE rw[i]]]
  /\ delivered' = [delivered EXCEPT ![p][k] = @ + 1]

(* UDP hands a packet up, and may hand it up again later. *)
Arrives(p, m) ==
  /\ ~exited[p]
  /\ m.to = p
  /\ net' \in {net, net \ {m}}

(* Deliver_and_Forward_Data is the delivery of the message.  The ack timer  *)
(* is (re)started for every data packet, old ones included.                 *)
Process_rel_udp_data_packet(p, m) ==
  /\ m.type = "DATA"
  /\ Arrives(p, m)
  /\ IF flags[p] = "CONNECTED"
     THEN /\ Process_Ack(p, m)
          /\ IF Fresh(p, m)
             THEN ReceiveMsg(p, m.seq_no)
             ELSE UNCHANGED <<recvVars, recv_window>>
          /\ scheduled_ack' = [scheduled_ack EXCEPT ![p] = TRUE]
          /\ events' = [events EXCEPT ![p] = AckEvents(p, m) \cup {"Send_Ack"}]
     ELSE UNCHANGED <<flags, sendVars, recvVars, recv_window, nack_buff, timerVars, exited>>

Process_ack_packet(p, m) ==
  /\ m.type = "ACK"
  /\ Arrives(p, m)
  /\ IF flags[p] = "CONNECTED"
     THEN /\ Process_Ack(p, m)
          /\ events' = [events EXCEPT ![p] = AckEvents(p, m)]
          /\ UNCHANGED <<recvVars, recv_window, scheduled_ack>>
     ELSE UNCHANGED <<flags, sendVars, recvVars, recv_window, nack_buff, timerVars, exited>>

-----------------------------------------------------------------------------
(* The life of the link: the hello protocol connects and disconnects it. *)

(* Process_hello_packet: the leg is CONNECTED_LEG from now on. *)
Connect(p) ==
  /\ ~exited[p]
  /\ flags[p] = "UNAVAILABLE"
  /\ flags' = [flags EXCEPT ![p] = "CONNECTED"]
  /\ events' = [events EXCEPT ![p] = @ \cup {"Try_to_Send"}]
  /\ UNCHANGED <<sendVars, recvVars, recv_window, nack_buff, scheduled_ack,
                 scheduled_timeout, exited, net>>

(* Destroy_Link takes an event out of the queue if its own bookkeeping says *)
(* that the event is there.                                                 *)
Destroy_Link(p) ==
  /\ ~exited[p]
  /\ LinkExists(p)
  /\ flags' = [flags EXCEPT ![p] = "DESTROYED"]
  /\ window' = [window EXCEPT ![p] = [i \in Index |-> NoBuff]]
  /\ msg_buff' = [msg_buff EXCEPT ![p] = << >>]
  /\ nack_buff' = [nack_buff EXCEPT ![p] = {}]
  /\ events' = [events EXCEPT ![p] =
                  @ \ (  (IF nack_buff[p] # {} THEN {"Send_Nack_Retransm"} ELSE {})
                     \cup (IF scheduled_timeout[p] THEN {"Reliable_timeout"} ELSE {})
                     \cup (IF scheduled_ack[p] THEN {"Send_Ack"} ELSE {})
                     \cup {"Try_to_Send"})]
  /\ scheduled_timeout' = [scheduled_timeout EXCEPT ![p] = FALSE]
  /\ scheduled_ack' = [scheduled_ack EXCEPT ![p] = FALSE]
  /\ blocked' = [blocked EXCEPT ![p] = FALSE]
  /\ UNCHANGED <<seq_no, head, tail, window_size, recvVars, recv_window, exited, net>>

-----------------------------------------------------------------------------
Timer(p) == Send_Ack(p) \/ Reliable_timeout(p) \/ Send_Nack_Retransm(p) \/ Try_to_Send(p)

Next ==
  \E p \in Endpoint :
    \/ Reliable_Send_Msg(p)
    \/ Timer(p)
    \/ \E m \in net : Process_rel_udp_data_packet(p, m) \/ Process_ack_packet(p, m)
    \/ Connect(p)
    \/ Destroy_Link(p)

Spec == Init /\ [][Next]_vars

(* Fairness.  The event loop runs every queued function, the hello protocol *)
(* connects both ends, and the network is lossy but fair: of the copies of  *)
(* a packet sent again and again, one gets through and arrives.             *)
Through(p, type, k) ==
  \E m \in net' : /\ m.to = Peer(p) /\ m.type = type /\ m.seq_no = k
                  /\ m.cummulative_ack = recv_tail[p]

Consume(p, m) == net' = net \ {m}

Fairness ==
  /\ \A p \in Endpoint :
       /\ WF_vars(Connect(p))
       /\ WF_vars(Try_to_Send(p))
       /\ WF_vars(Send_Ack(p))
       /\ WF_vars(Reliable_timeout(p))
       /\ WF_vars(Send_Nack_Retransm(p))
       /\ SF_vars(Send_Ack(p) /\ Through(p, "ACK", NoBuff))
       /\ SF_vars(\E m \in net : Consume(p, m) /\ Process_ack_packet(p, m))
  /\ \A p \in Endpoint : \A k \in 0 .. Given[p] - 1 :
       /\ SF_vars(Reliable_timeout(p) /\ Through(p, "DATA", k))
       /\ SF_vars(\E m \in net : /\ m.seq_no = k
                                 /\ Consume(Peer(p), m)
                                 /\ Process_rel_udp_data_packet(Peer(p), m))

FairSpec == Spec /\ Fairness

-----------------------------------------------------------------------------
(* Properties. *)

(* Every variable of the two Reliable_Data stays in its range. *)
TypeOK ==
  /\ flags \in [Endpoint -> {"UNAVAILABLE", "CONNECTED", "DESTROYED"}]
  /\ seq_no \in [Endpoint -> 0 .. MaxMsgs]
  /\ head \in [Endpoint -> 0 .. MaxMsgs]
  /\ tail \in [Endpoint -> 0 .. MaxMsgs]
  /\ window \in [Endpoint -> [Index -> Msg \cup {NoBuff}]]
  /\ window_size \in [Endpoint -> 1 .. MAX_WINDOW]
  /\ msg_buff \in [Endpoint -> Seq(Msg)]
  /\ recv_head \in [Endpoint -> 0 .. MaxMsgs]
  /\ recv_tail \in [Endpoint -> 0 .. MaxMsgs]
  /\ recv_window \in [Endpoint -> [Index -> {"EMPTY_CELL", "NACK_CELL", "RECVD_CELL"}]]
  /\ nack_buff \in [Endpoint -> SUBSET Msg]
  /\ scheduled_ack \in [Endpoint -> BOOLEAN]
  /\ scheduled_timeout \in [Endpoint -> BOOLEAN]
  /\ events \in [Endpoint -> SUBSET Event]
  /\ blocked \in [Endpoint -> BOOLEAN]
  /\ exited \in [Endpoint -> BOOLEAN]
  /\ net \subseteq Packet
  /\ delivered \in [Endpoint -> [Msg -> Nat]]

(* None of the Alarm(EXIT) calls of reliable_datagram.c is ever reached: no  *)
(* "Reliability failure" (an acknowledged slot is empty), no "smaller        *)
(* seq_no", no timer running on a link that is gone or not connected.        *)
NoAlarmExit == \A p \in Endpoint : ~exited[p]

(* Deliver_and_Forward_Data sees each message of the peer at most once, even *)
(* though slots are reused modulo MAX_WINDOW and packets are resent,         *)
(* duplicated and reordered.                                                 *)
AtMostOnce == \A p \in Endpoint, k \in Msg : delivered[p][k] <= 1

(* The sender drops a message from its window only when the receiver has     *)
(* delivered it: no message is lost while the link exists.                   *)
NoLoss ==
  \A p \in Endpoint : \A k \in 0 .. tail[p] - 1 : delivered[Peer(p)][k] = 1

(* While the link is connected, unacknowledged messages always have a        *)
(* retransmission timer, and a backlog is either behind a full window or     *)
(* about to be looked at by Try_to_Send: nothing waits for good.             *)
NothingStuck ==
  \A p \in Endpoint : flags[p] = "CONNECTED" /\ ~exited[p] =>
    /\ head[p] > tail[p] => "Reliable_timeout" \in events[p]
    /\ msg_buff[p] # << >> =>
         \/ "Try_to_Send" \in events[p]
         \/ head[p] - tail[p] >= window_size[p]

(* Once Destroy_Link has run, no function is left in the event queue for a   *)
(* link id that may be given to another link.                                *)
NoOrphanEvents == \A p \in Endpoint : flags[p] = "DESTROYED" => events[p] = {}

(* Sessions are blocked on a link only while its backlog is long, so that a  *)
(* later Send_Much, or Destroy_Link, will resume them.                       *)
BlockedOnlyBehindBacklog ==
  \A p \in Endpoint : blocked[p] =>
    /\ LinkExists(p)
    /\ Len(msg_buff[p]) >= MAX_BUFF_LINK \div 4

(* Every message given to the link reaches the peer, or an end of the link   *)
(* is destroyed: retransmission never gives up before the hello protocol     *)
(* does.                                                                     *)
Broken == \E p \in Endpoint : flags[p] = "DESTROYED"
EventuallyDelivered ==
  \A p \in Endpoint, k \in Msg :
    seq_no[p] > k ~> (delivered[Peer(p)][k] = 1 \/ Broken)

(* The reliable link implements the abstract one: what the upper layers see  *)
(* of tail, seq_no and the deliveries is what ReliableLink allows.           *)
Link == INSTANCE ReliableLink WITH
          open <- [p \in Endpoint |-> flags[p] # "DESTROYED"],
          sent <- seq_no, released <- tail

Refinement == Link!LSpec

-----------------------------------------------------------------------------
(* The inductive invariant behind the properties above. *)

(* The window of p covers what the peer still misses, and no more than the   *)
(* slots can tell apart: in particular a message in flight that is not below *)
(* recv_tail of the peer is less than MAX_WINDOW above it.                   *)
WindowsAligned ==
  \A p \in Endpoint :
    /\ tail[p] <= recv_tail[Peer(p)]
    /\ recv_tail[Peer(p)] <= recv_head[Peer(p)]
    /\ recv_head[Peer(p)] <= head[p]
    /\ head[p] <= tail[p] + MAX_WINDOW
    /\ head[p] <= seq_no[p]

(* The slots of tail .. head-1 hold these messages, the others are empty. *)
SlotsFilled ==
  \A p \in Endpoint : LinkExists(p) =>
    /\ \A k \in tail[p] .. head[p] - 1 : window[p][Slot(k)] = k
    /\ \A i \in Index : window[p][i] # NoBuff =>
         window[p][i] \in tail[p] .. head[p] - 1 /\ Slot(window[p][i]) = i

(* The backlog is head .. seq_no-1, in order. *)
BacklogContiguous ==
  \A p \in Endpoint : LinkExists(p) =>
    /\ Len(msg_buff[p]) = seq_no[p] - head[p]
    /\ \A j \in 1 .. Len(msg_buff[p]) : msg_buff[p][j] = head[p] + j - 1

(* A packet carries a message the sender has had in its window, and          *)
(* acknowledges only what the sender of the packet has received.             *)
PacketsGenuine ==
  \A m \in net :
    /\ m.cummulative_ack <= recv_tail[Peer(m.to)]
    /\ m.type = "DATA" => m.seq_no \in 0 .. head[Peer(m.to)] - 1

(* recv_tail, recv_head and the cells between them record the deliveries. *)
CellsRecordDeliveries ==
  \A p \in Endpoint : \A k \in Msg :
    /\ k < recv_tail[p] => delivered[p][k] = 1
    /\ k >= recv_head[p] => delivered[p][k] = 0
    /\ k \in recv_tail[p] .. recv_tail[p] + MAX_WINDOW - 1 =>
         delivered[p][k] = IF recv_window[p][Slot(k)] = "RECVD_CELL" THEN 1 ELSE 0

(* The bookkeeping of the link agrees with the event queue. *)
TimersTracked ==
  \A p \in Endpoint :
    /\ flags[p] = "CONNECTED" =>
         /\ "Reliable_timeout" \in events[p] <=> head[p] > tail[p]
         /\ scheduled_timeout[p] <=> head[p] > tail[p]
         /\ "Send_Ack" \in events[p] <=> scheduled_ack[p]
         /\ "Send_Nack_Retransm" \in events[p] => nack_buff[p] # {}
    /\ flags[p] # "CONNECTED" => /\ events[p] = {}
                                 /\ ~scheduled_ack[p]
                                 /\ ~scheduled_timeout[p]
    /\ flags[p] = "UNAVAILABLE" => head[p] = 0

IInv ==
  /\ TypeOK
  /\ NoAlarmExit
  /\ WindowsAligned
  /\ SlotsFilled
  /\ BacklogContiguous
  /\ PacketsGenuine
  /\ CellsRecordDeliveries
  /\ TimersTracked
  /\ NothingStuck
  /\ BlockedOnlyBehindBacklog
=============================================================================

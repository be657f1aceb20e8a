-------------------------- MODULE IntrusionTolLink -------------------------
(***************************************************************************)
(* The intrusion-tolerant link between two daemons                         *)
(* (daemon/intrusion_tol_udp.c): a window of packets with nonces, the      *)
(* acknowledgement of everything up to a packet together with the digest   *)
(* of the nonces so far, requests for missing packets, timers, incarnations*)
(* that reset both windows when a daemon restarted, and the token bucket   *)
(* from which the disseminations are served.                               *)
(*                                                                         *)
(* The state of an end is one record and the functions of the code are     *)
(* operators from such a record to the next one; "sent" collects what a    *)
(* step gives to the network.  A random 64-bit nonce is the triple of the  *)
(* incarnations and the number of its packet, an XOR of nonces their       *)
(* symmetric difference.  Time is abstracted: a queued timer may fire, and *)
(* a time stamp may have expired ("expired", "due"), at any moment; so may *)
(* the send of a data packet fail ("fail").                                *)
(*                                                                         *)
(* With Crypto nothing but Diffie-Hellman packets is sent before there is  *)
(* a common key.  IntrusionTolKeys shows that the key of two ends stands   *)
(* for their two incarnations; here a packet opens if it names these.      *)
(***************************************************************************)
EXTENDS Integers, Sequences, FiniteSets, FiniteSetsExt

CONSTANTS End,                  \* the two ends of the link
          Window,               \* MAX_SEND_ON_LINK
          Frags,                \* Frags[m]: packets of the m-th message of a dissemination
          Minimum_Window,       \* cwnd after a reset
          Msg_Per_SAA,          \* messages received before an ack is sent at once
          BUCKET_CAP,           \* messages that a full bucket pays for
          Given,                \* Given[n]: bound, messages end n is given
          Configurations,       \* [ordered, reintroduce, crypto]: Ordered_Delivery, Reintroduce_Messages, Crypto
          Failures,             \* sets of packets whose Link_Send may fail in one step
          MaxRestarts,          \* bound: restarts of the two daemons
          MaxNet                \* bound: packets in the network, what exceeds it is lost

ASSUME EndAssumption == \E a, b \in End : a # b /\ End = {a, b}
ASSUME SizeAssumption ==
  /\ {Window, Msg_Per_SAA, BUCKET_CAP} \subseteq Nat \ {0}
  /\ {Minimum_Window, MaxRestarts, MaxNet} \subseteq Nat
ASSUME MessageAssumption ==          \* MAX_PKTS_PER_MESSAGE is less than MAX_SEND_ON_LINK
  Frags \in Seq(1 .. Window) /\ Given \in [End -> 0 .. Len(Frags)]
ASSUME ConfAssumption ==
  Configurations \subseteq [ordered : BOOLEAN, reintroduce : BOOLEAN, crypto : BOOLEAN]
ASSUME FailAssumption == Failures \subseteq SUBSET Nat

VARIABLES end,                  \* end[n]: Int_Tol_Data of end n
          net,                  \* packets in flight
          conf                  \* Ordered_Delivery, Reintroduce_Messages and Crypto of Conf_IT_Link

vars == <<end, net, conf>>

Other(n) == CHOOSE m \in End : m # n
Lesser(x, y) == IF x < y THEN x ELSE y
Slots == 0 .. Window - 1

Empty == [flags |-> "EMPTY"]
Nack  == [flags |-> "NACK"]
None  == [msg |-> 0, left |-> 0]

(* Create_Link: what a daemon starts a link with.  "given" counts the        *)
(* messages of the dissemination in this incarnation, "wants" those that it  *)
(* has not yet handed to the link; "unsent" the packets of the window that   *)
(* never left, since every send of them failed.  With Crypto the pings begin *)
(* with the common key, and Key_Exchange_IT has built the packet for it;     *)
(* "established" is dh_established, which counts for nothing without Crypto. *)
Fresh(inc) ==
  [my_inc |-> inc, ngbr_inc |-> 0,
   out_tail |-> 1, tcp_head |-> 1, out_head |-> 1,
   outgoing |-> [s \in Slots |-> [msg |-> 0, idx |-> 0, nacked |-> FALSE]],
   out_digest |-> [s \in Slots |-> {}], out_message |-> None,
   in_tail |-> 1, in_head |-> 1, incoming |-> [s \in Slots |-> Empty], aru_digest |-> {},
   in_frag_idx |-> 1, delivered |-> << >>, bad |-> FALSE,
   count |-> Msg_Per_SAA - 1, cwnd |-> Minimum_Window, ssthresh |-> Window,
   loss |-> 0, loss_aru |-> 0,
   bucket |-> 0, needed |-> FALSE, queued |-> FALSE, wants |-> 0, given |-> 0,
   established |-> ~conf.crypto, dh_aru |-> 0, unsent |-> {},
   timers |-> IF conf.crypto THEN {"Fill"} ELSE {"Ping", "Fill"},
   expired |-> FALSE, fail |-> {}, sent |-> {}]

Init ==
  /\ conf \in Configurations
  /\ end = [n \in End |-> Fresh(1)]
  /\ net = {}

Nonce(d, q) == <<d.my_inc, d.ngbr_inc, q>>
Full_Link_IT(d) == d.out_head - d.out_tail >= Window

-----------------------------------------------------------------------------
(* Sending. *)

(* Add_IT_Nacks: the missing packets whose request has expired. *)
Add_IT_Nacks(d) ==
  {q \in d.in_tail .. d.in_head - 1 : d.expired /\ d.incoming[q % Window].flags = "NACK"}

Ack(d, nacks) ==
  [type |-> "ACK", seq |-> 0, aru |-> d.in_tail - 1, aru_nonce |-> d.aru_digest,
   inc |-> d.my_inc, aru_inc |-> d.ngbr_inc, nacks |-> nacks]

Data(d, q, nacks) ==
  [type |-> "DATA", seq |-> q, nonce |-> Nonce(d, q),
   msg |-> d.outgoing[q % Window].msg, idx |-> d.outgoing[q % Window].idx,
   aru |-> d.in_tail - 1, aru_nonce |-> d.aru_digest,
   inc |-> d.my_inc, aru_inc |-> d.ngbr_inc, nacks |-> nacks]

(* IT_Link_Send: with Crypto it fails until there is a common key, which is  *)
(* when a Diffie-Hellman packet told the neighbor's incarnation.  It also    *)
(* fails with Link_Send.                                                     *)
HasKey(d) == conf.crypto => d.ngbr_inc > 0
IT_Link_Send(d, p) == IF HasKey(d) THEN [d EXCEPT !.sent = @ \cup {p}] ELSE d
Leaving(d, S) == IF HasKey(d) THEN S \ d.fail ELSE {}

(* Send_IT_Data_Msg for each number of S, in order.  The first packet takes  *)
(* the expired requests along, which then stand for an ack if it leaves.     *)
(* Only a packet that leaves has the reliable timer queued for it.           *)
Send_IT_Data_Msg(d, S) ==
  LET nacks == Add_IT_Nacks(d)
      first == CHOOSE q \in S : \A r \in S : q <= r
      out   == Leaving(d, S)
      asks  == nacks # {} /\ first \in out
  IN  IF S = {} THEN d
      ELSE [d EXCEPT !.sent = @ \cup {Data(d, q, IF q = first THEN nacks ELSE {}) : q \in out},
                     !.expired = FALSE, !.unsent = @ \ out,
                     !.count = IF asks THEN 0 ELSE @,
                     !.timers = @ \cup (IF out # {} THEN {"Reliable"} ELSE {})
                                  \cup (IF asks THEN {"Ack"} ELSE {})]

Send_IT_Ack(d) == [IT_Link_Send(d, Ack(d, Add_IT_Nacks(d))) EXCEPT !.expired = FALSE]

(* tcp_head_seq goes up to "to", and the packets that it passes are sent. *)
AdvanceTo(d, to) ==
  LET S == d.tcp_head .. to - 1
  IN  Send_IT_Data_Msg([d EXCEPT !.tcp_head = IF S = {} THEN @ ELSE to,
                                 !.unsent = @ \cup (S \ Leaving(d, S))], S)

(* What the congestion window lets out. *)
Top(d) == Lesser(d.out_head, d.out_tail + d.cwnd)

(* In Process_IT_Ack the loop takes all of it; in Forward_Intru_Tol_Data it  *)
(* stops behind the first packet whose send fails.                           *)
FillWindow(d) == AdvanceTo(d, Top(d))
FillUntilDrop(d) ==
  LET S     == d.tcp_head .. Top(d) - 1
      stays == S \ Leaving(d, S)
  IN  AdvanceTo(d, IF stays = {} THEN Top(d) ELSE (CHOOSE q \in stays : \A r \in stays : q <= r) + 1)

(* Pack_Fragments_Into_Packets_IT: packets of out_message, each with a nonce *)
(* and the digest of all nonces up to it, while the window has slots.        *)
Pack_Fragments_Into_Packets_IT(d) ==
  LET n   == Lesser(Window - (d.out_head - d.out_tail), d.out_message.left)
      new == d.out_head .. d.out_head + n - 1
      At(s) == CHOOSE q \in new : q % Window = s
      Used  == {q % Window : q \in new}
      idx(q) == Frags[d.out_message.msg] - d.out_message.left + 1 + (q - d.out_head)
  IN  [d EXCEPT
        !.outgoing = [s \in Slots |-> IF s \in Used
                        THEN [msg |-> d.out_message.msg, idx |-> idx(At(s)), nacked |-> FALSE]
                        ELSE @[s]],
        !.out_digest = [s \in Slots |-> IF s \in Used
                          THEN SymDiff(@[(d.out_head - 1) % Window],
                                       {Nonce(d, q) : q \in d.out_head .. At(s)})
                          ELSE @[s]],
        !.out_head = @ + n,
        !.out_message = IF @.left = n THEN None ELSE [msg |-> @.msg, left |-> @.left - n]]

(* Forward_Intru_Tol_Data: a message of the dissemination enters the link. *)
Forward_Intru_Tol_Data(d) ==
  FillUntilDrop(Pack_Fragments_Into_Packets_IT(
    LET m == d.given - d.wants + 1
    IN  [d EXCEPT !.out_message = [msg |-> m, left |-> Frags[m]]]))

(* Assign_Resources_IT: the waiting dissemination is called back until it    *)
(* has nothing left, the window is full or the bucket is empty.              *)
AssignOne(d) ==
  IF Full_Link_IT(d) \/ ~d.queued \/ d.bucket = 0 THEN d
  ELSE IF d.wants = 0 THEN [d EXCEPT !.queued = FALSE]
  ELSE [Forward_Intru_Tol_Data(d) EXCEPT !.wants = @ - 1, !.bucket = @ - 1]

Assign_Resources_IT(d) ==
  LET loop[i \in 0 .. BUCKET_CAP + 1] ==
        IF i = 0 THEN [d EXCEPT !.needed = FALSE] ELSE AssignOne(loop[i - 1])
      served == loop[BUCKET_CAP + 1]
      asks   == [served EXCEPT !.needed = ~Full_Link_IT(served) /\ served.queued]
  IN  IF d.needed /\ d.bucket = 0 THEN d
      ELSE [asks EXCEPT !.timers = IF asks.bucket < BUCKET_CAP THEN @ \cup {"Fill"} ELSE @]

-----------------------------------------------------------------------------
(* Receiving. *)

(* cwnd grows by one for an acked packet in slow start, by 1/cwnd after it,  *)
(* which is one or nothing; a loss that is over halves it first.             *)
Congestion(d, aru, grows) ==
  LET over == d.loss = 1 /\ aru > d.loss_aru
      half == d.cwnd \div 2
      low  == [d EXCEPT !.loss = 0, !.ssthresh = IF half < 2 THEN 2 ELSE half,
                        !.cwnd = (IF half < 2 THEN 2 ELSE half) + 3]
      c    == IF over THEN low ELSE d
      more == IF c.cwnd <= c.ssthresh THEN aru - d.out_tail + 1 ELSE grows
  IN  [c EXCEPT !.cwnd = Lesser(Window, @ + more)]

(* The first part of Process_IT_Ack: packets up to aru leave the window, and *)
(* others take their places.                                                 *)
AckedUpTo(d, p, grows) ==
  Assign_Resources_IT(Pack_Fragments_Into_Packets_IT(FillWindow(
    [Congestion(d, p.aru, grows) EXCEPT !.out_tail = p.aru + 1])))

AcksNews(d, p) == d.out_tail <= p.aru /\ p.aru < d.tcp_head
GoodNonce(d, p) == p.aru_nonce = d.out_digest[p.aru % Window]

(* Handle_IT_Retransm: of the requested packets that are due, the first      *)
(* "room" ones; it is queued again unless it got through the window.         *)
Handle_IT_Retransm(d, room, due) ==
  LET asked == {q \in d.out_tail .. d.tcp_head - 1 : due /\ d.outgoing[q % Window].nacked}
      S     == {q \in asked : Cardinality({r \in asked : r <= q}) <= room}
      stop  == IF Cardinality(S) < room THEN d.tcp_head
               ELSE IF S = {} THEN d.out_tail
               ELSE (CHOOSE q \in S : \A r \in S : q >= r) + 1
      resent == Send_IT_Data_Msg(d, S)
  IN  [resent EXCEPT
        !.outgoing = [s \in Slots |-> IF s \in {q % Window : q \in S}
                                      THEN [@[s] EXCEPT !.nacked = FALSE] ELSE @[s]],
        !.timers = IF room = 0 \/ stop < d.tcp_head THEN @ \cup {"Retransm"} ELSE @]

(* The second part of Process_IT_Ack: requests for packets. *)
Nacked(d, p, room, due) ==
  LET inside == {q \in p.nacks : d.out_tail <= q /\ q < d.tcp_head}
      marked == [d EXCEPT !.outgoing = [s \in Slots |-> IF s \in {q % Window : q \in inside}
                                          THEN [@[s] EXCEPT !.nacked = TRUE] ELSE @[s]],
                          !.loss = 1, !.loss_aru = IF d.loss = 0 THEN p.aru ELSE @]
  IN  IF p.nacks = {} THEN d
      ELSE IF "Retransm" \in d.timers THEN marked ELSE Handle_IT_Retransm(marked, room, due)

(* Build_Message_From_Fragments_IT and the delivery of a whole message; a    *)
(* fragment out of place is what Blacklist_Neighbor_IT is called for.        *)
Build_Message_From_Fragments_IT(d, c) ==
  IF c.idx # d.in_frag_idx THEN [d EXCEPT !.bad = TRUE]
  ELSE IF c.idx = Frags[c.msg] THEN [d EXCEPT !.delivered = Append(@, c.msg), !.in_frag_idx = 1]
  ELSE [d EXCEPT !.in_frag_idx = @ + 1]

(* Without Ordered_Delivery a message of one packet does not wait for others. *)
AtOnce(m) == ~conf.ordered /\ Frags[m] = 1

(* One round of the loop over the cells from in_tail_seq on. *)
TakeCell(d) ==
  LET s == d.in_tail % Window
      c == d.incoming[s]
      t == [d EXCEPT !.aru_digest = SymDiff(@, {c.nonce}), !.in_tail = @ + 1,
                     !.incoming[s] = Empty]
  IN  IF c.flags # "RECVD" THEN d
      ELSE IF AtOnce(c.msg) THEN t ELSE Build_Message_From_Fragments_IT(t, c)

(* The third part of Process_IT_Ack: a new packet takes its cell, cells      *)
(* skipped by it become missing ones, and what is complete is delivered.     *)
(* incoming_msg_count is only compared with Msg_Per_SAA, and capped there.   *)
Received(d, p) ==
  LET cell  == [flags |-> "RECVD", nonce |-> p.nonce, msg |-> p.msg, idx |-> p.idx]
      holes == {q % Window : q \in d.in_head .. p.seq - 1}
      count == [d EXCEPT !.count = Lesser(@ + 1, Msg_Per_SAA),
                         !.timers = IF d.count + 1 >= Msg_Per_SAA THEN @ \cup {"Ack"} ELSE @]
      put   == [count EXCEPT !.incoming = [s \in Slots |-> IF s = p.seq % Window THEN cell
                                             ELSE IF s \in holes THEN Nack ELSE @[s]],
                             !.in_head = IF p.seq >= @ THEN p.seq + 1 ELSE @,
                             !.delivered = IF AtOnce(p.msg) THEN Append(@, p.msg) ELSE @]
      loop[i \in 0 .. Window] == IF i = 0 THEN put ELSE TakeCell(loop[i - 1])
  IN  IF p.seq = 0 THEN d
      ELSE IF \/ p.seq < d.in_tail \/ p.seq >= d.in_tail + Window
              \/ d.incoming[p.seq % Window].flags = "RECVD" THEN count
      ELSE loop[Window]

Process_IT_Ack(d, p, grows, room, due) ==
  LET acked == IF AcksNews(d, p) THEN AckedUpTo(d, p, grows) ELSE d
  IN  IF AcksNews(d, p) /\ ~GoodNonce(d, p) THEN d
      ELSE Received(Nacked(acked, p, room, due), p)

-----------------------------------------------------------------------------
(* Incarnations. *)

(* The packets that survive a change with Reintroduce_Messages: those from   *)
(* the first packet of a message on, as numbers of the old window.           *)
Reintroduced(d) ==
  {q \in d.out_tail .. d.out_head - 1 :
     \E r \in d.out_tail .. q : d.outgoing[r % Window].idx = 1}

ResetWindows(d, inc) ==
  [d EXCEPT !.ngbr_inc = inc,
            !.in_tail = 1, !.in_head = 1, !.incoming = [s \in Slots |-> Empty],
            !.delivered = << >>, !.out_digest = [s \in Slots |-> IF s = 0 THEN {} ELSE @[s]],
            !.cwnd = Minimum_Window, !.ssthresh = Window, !.unsent = {}]

(* Mutant: the digest of the nonces seen survives the reset. *)
ResetKeepingDigest(d, inc)  == [ResetWindows(d, inc) EXCEPT !.in_frag_idx = 1]

(* Mutant: a message taken in half survives the reset. *)
ResetKeepingMessage(d, inc) == [ResetWindows(d, inc) EXCEPT !.aru_digest = {}]

(* Both windows start again; so do the digest of nonces and the message that *)
(* was being put together.                                                   *)
Reset(d, inc) == [ResetWindows(d, inc) EXCEPT !.aru_digest = {}, !.in_frag_idx = 1]

DropOutgoing(d) ==
  [d EXCEPT !.out_tail = 1, !.tcp_head = 1, !.out_head = 1, !.out_message = None]

(* The surviving packets are numbered from 1 with new nonces, and only the   *)
(* first of them counts as sent.                                             *)
KeepOutgoing(d, old) ==
  LET S    == Reintroduced(old)
      n    == Cardinality(S)
      skip == old.out_head - n - 1
      from(i) == [old.outgoing[(i + skip) % Window] EXCEPT !.nacked = FALSE]
      At(s) == CHOOSE i \in 1 .. n : i % Window = s
      Used  == {i % Window : i \in 1 .. n}
  IN  Pack_Fragments_Into_Packets_IT(
       [d EXCEPT !.outgoing = [s \in Slots |-> IF s \in Used THEN from(At(s)) ELSE @[s]],
                 !.out_digest = [s \in Slots |-> IF s \in Used
                                   THEN {Nonce(d, i) : i \in 1 .. At(s)} ELSE @[s]],
                 !.tcp_head = Lesser(2, n + 1), !.out_head = n + 1, !.out_tail = 1])

Incarnation_Change(d, inc) ==
  LET r == Reset(d, inc)
  IN  Assign_Resources_IT(IF conf.reintroduce THEN KeepOutgoing(r, d) ELSE DropOutgoing(r))

ReliableNow(d) == [d EXCEPT !.timers = @ \cup {"Reliable"}]

(* Process_DH_IT, with the Key_Exchange_IT of an end that had a key: it      *)
(* builds its packet before it takes over the incarnation.  The handshake    *)
(* goes on, and no reliable timer is queued before it is over.               *)
TakeDH(d, p) ==
  IF p.inc <= d.ngbr_inc \/ p.aru_inc > d.my_inc THEN d
  ELSE Incarnation_Change([d EXCEPT !.established = FALSE,
                                    !.dh_aru = IF d.ngbr_inc > 0 THEN d.ngbr_inc ELSE @,
                                    !.timers = @ \cup {"Ping"}], p.inc)

(* DH_established, at the first packet that opens. *)
Establish(d) ==
  IF ~d.established THEN ReliableNow([d EXCEPT !.established = TRUE]) ELSE d

(* Preprocess_intru_tol_packet: with Crypto, a packet has to open. *)
Unlocks(d, p) == conf.crypto => d.ngbr_inc > 0 /\ p.inc = d.ngbr_inc /\ p.aru_inc = d.my_inc

Ping(d, type) == [type |-> type, inc |-> d.my_inc, aru_inc |-> d.ngbr_inc]
LinkDH(d) == [type |-> "DH", inc |-> d.my_inc, aru_inc |-> d.dh_aru]

(* Process_intru_tol_ping.  A ping or pong that comes too soon after another *)
(* one is ignored: that is a loss.                                           *)
Process_intru_tol_ping(d, p) ==
  LET c == IF p.inc > d.ngbr_inc THEN ReliableNow(Incarnation_Change(d, p.inc)) ELSE d
  IN  IF p.inc < d.ngbr_inc THEN d
      ELSE IF p.type = "PING" /\ p.aru_inc <= d.my_inc
           THEN IT_Link_Send(c, Ping(c, "PONG")) ELSE c

-----------------------------------------------------------------------------
(* Steps. *)

(* A step of end n: its new state, and what it sent is in the network as far *)
(* as that has room.                                                         *)
Step(n, d, rest) ==
  /\ end' = [end EXCEPT ![n] = [d EXCEPT !.sent = {}, !.expired = FALSE, !.fail = {}]]
  /\ LET out == {[to |-> Other(n), pkt |-> p] : p \in d.sent}
     IN  net' = IF Cardinality(rest \cup out) <= MaxNet THEN rest \cup out ELSE rest
  /\ UNCHANGED conf

(* Whether requests for missing packets have expired by now, if there are any. *)
Expired(n) ==
  {FALSE} \cup {TRUE : q \in {r \in Slots : end[n].incoming[r] = Nack}}

Now(n, expired, fail) == [end[n] EXCEPT !.expired = expired, !.fail = fail]

(* Process_intru_tol_data_packet, _ack_packet and _ping: packets of other    *)
(* incarnations than the current ones are ignored.  A packet may be          *)
(* delivered again.                                                          *)
Receive(n, m, expired, fail) ==
  LET p == m.pkt
      w == Now(n, expired, fail)
      d == Establish(w)
  IN  /\ m \in net /\ m.to = n
      /\ \E rest \in {net, net \ {m}} :
           \/ /\ p.type = "DH"
              /\ Step(n, TakeDH(w, p), rest)
           \/ /\ p.type \in {"PING", "PONG"} /\ Unlocks(w, p)
              /\ Step(n, Process_intru_tol_ping(d, p), rest)
           \/ /\ p.type \in {"ACK", "DATA"} /\ Unlocks(w, p)
              /\ p.inc = d.ngbr_inc /\ p.aru_inc = d.my_inc
              /\ \E grows \in 0 .. (IF AcksNews(d, p) THEN 1 ELSE 0),
                    room \in 0 .. (IF p.nacks = {} THEN 0 ELSE 1),
                    due \in IF p.nacks = {} THEN {FALSE} ELSE BOOLEAN :
                    Step(n, Process_IT_Ack(d, p, grows, room, due), rest)

Lose(m) == net' = net \ {m} /\ UNCHANGED <<end, conf>>

Fires(n, t) == t \in end[n].timers
Fired(n, t, expired, fail) == [Now(n, expired, fail) EXCEPT !.timers = @ \ {t}]

(* Mutant: the timer is not queued again and nothing notes it. *)
AckTimeoutStops(d) ==
  IF d.count = 0 THEN d
  ELSE [Send_IT_Ack(d) EXCEPT !.count = 0, !.timers = @ \cup {"Ack"}]

(* Ack_IT_Timeout: with nothing new to acknowledge the timer stops, and the  *)
(* next message will be acknowledged at once.                                *)
AckTimeout(d) ==
  IF d.count = 0 THEN [d EXCEPT !.count = Msg_Per_SAA - 1]
  ELSE [Send_IT_Ack(d) EXCEPT !.count = 0, !.timers = @ \cup {"Ack"}]

Ack_IT_Timeout(n, expired) ==
  Fires(n, "Ack") /\ Step(n, AckTimeout(Fired(n, "Ack", expired, {})), net)

(* Reliable_IT_Timeout sends the newest packet again while any is unacked,   *)
(* and is queued again whether or not that packet leaves.                    *)
Reliable_IT_Timeout(n, expired, fail) ==
  LET d == Fired(n, "Reliable", expired, fail)
  IN  /\ Fires(n, "Reliable")
      /\ Step(n, IF d.tcp_head > d.out_tail
                 THEN ReliableNow(Send_IT_Data_Msg(d, {d.tcp_head - 1})) ELSE d, net)

Retransm(n, expired, fail) ==
  /\ Fires(n, "Retransm")
  /\ \E room \in 0 .. 1, due \in BOOLEAN :
        Step(n, Handle_IT_Retransm(Fired(n, "Retransm", expired, fail), room, due), net)

Ping_IT_Timeout(n) ==
  /\ Fires(n, "Ping")
  /\ Step(n, IT_Link_Send(end[n], Ping(end[n], "PING")), net)

(* Send_IT_DH repeats itself until the key is established. *)
SendDH(n) ==
  /\ ~end[n].established
  /\ Step(n, [end[n] EXCEPT !.sent = {LinkDH(end[n])}], net)

(* Fill_Bucket_IT: a full bucket is not filled any more.  The tokens of an   *)
(* end that is given no messages are left out.                               *)
Fill_Bucket_IT(n, fail) ==
  LET d == Fired(n, "Fill", FALSE, fail)
      f == [d EXCEPT !.bucket = BUCKET_CAP, !.timers = @ \cup {"Fill"}]
  IN  /\ Fires(n, "Fill") /\ Given[n] > 0
      /\ Step(n, IF d.bucket = BUCKET_CAP THEN d
                 ELSE IF d.needed THEN Assign_Resources_IT(f) ELSE f, net)

(* Request_Resources_IT: the dissemination has one more message to send. *)
Request_Resources_IT(n, fail) ==
  LET d == [Now(n, FALSE, fail) EXCEPT !.wants = @ + 1, !.given = @ + 1, !.queued = TRUE]
  IN  /\ end[n].given < Given[n]
      /\ Step(n, IF Full_Link_IT(d) THEN d ELSE Assign_Resources_IT(d), net)

(* The daemon of end n restarts, in a later second than it started. *)
Restart(n) ==
  /\ end[n].my_inc + end[Other(n)].my_inc < MaxRestarts + 2
  /\ Step(n, Fresh(end[n].my_inc + 1), net)

Next ==
  \/ \E m \in net : Lose(m)
  \/ \E n \in End :
       \/ \E expired \in Expired(n), fail \in Failures :
            \/ \E m \in net : Receive(n, m, expired, fail)
            \/ Reliable_IT_Timeout(n, expired, fail)
            \/ Retransm(n, expired, fail)
       \/ \E expired \in Expired(n) : Ack_IT_Timeout(n, expired)
       \/ \E fail \in Failures : Fill_Bucket_IT(n, fail) \/ Request_Resources_IT(n, fail)
       \/ Ping_IT_Timeout(n) \/ SendDH(n) \/ Restart(n)

Spec == Init /\ [][Next]_vars

-----------------------------------------------------------------------------
(* Properties. *)

(* The link's promise within one pair of incarnations: messages arrive whole,*)
(* in the order given, none twice and none skipped, and no honest neighbor   *)
(* is found misbehaving (Blacklist_Neighbor_IT), whatever the network does   *)
(* and whenever the daemons restart and renumber their windows.  With        *)
(* unordered delivery, none twice.                                           *)
InOrderOnce ==
  \A n \in End :
     LET s == end[n].delivered
     IN  /\ ~end[n].bad
         /\ \A i, j \in 1 .. Len(s) : i < j => IF conf.ordered THEN s[j] = s[i] + j - i ELSE s[i] # s[j]

(* Process_IT_Ack takes a wrong digest of nonces for a neighbor that lies:   *)
(* every packet of an honest neighbor that passes the test of incarnations   *)
(* carries the digest that the sender of the acked packets computed, through *)
(* all renumberings of windows.                                              *)
HonestAcksPass ==
  \A m \in net :
     LET d == end[m.to]
     IN  m.pkt.type \in {"ACK", "DATA"} /\ m.pkt.inc = d.ngbr_inc /\ m.pkt.aru_inc = d.my_inc
         /\ AcksNews(d, m.pkt) => GoodNonce(d, m.pkt)

(* Nothing waits for an event that was not queued.  Unacked packets have the *)
(* reliable timer, or the end is in a handshake that queues it, or not one   *)
(* of them ever left: Send_IT_Data_Msg queues no timer for a packet whose    *)
(* send fails, and then the next message that is sent has to do it.  A       *)
(* receiver without the ack timer answers the next message at once; a        *)
(* dissemination that waits, waits for the window or for tokens that are     *)
(* being filled in.                                                          *)
NothingForgotten ==
  \A n \in End :
     LET d == end[n]
     IN  /\ \/ "Reliable" \in d.timers
            \/ ~d.established
            \/ d.out_tail .. d.tcp_head - 1 \subseteq d.unsent
         /\ "Ack" \in d.timers \/ d.count = Msg_Per_SAA - 1
         /\ d.queued => Full_Link_IT(d) \/ (d.needed /\ "Fill" \in d.timers)
=============================================================================

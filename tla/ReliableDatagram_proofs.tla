----------------------- MODULE ReliableDatagram_proofs -----------------------
(***************************************************************************)
(* Proofs of the safety properties of ReliableDatagram, for every window   *)
(* size, option and number of messages.                                    *)
(***************************************************************************)
EXTENDS ReliableDatagram, WellFoundedInduction, TLAPS

-----------------------------------------------------------------------------
(* Arithmetic of the slots. *)

(* The slot of a sequence number is an index of window[] and recv_window[]. *)
LEMMA SlotInIndex ==
  ASSUME NEW k \in Nat PROVE Slot(k) \in Index
  BY WindowAssumption DEF Slot, Index

LEMMA MultipleAtLeast ==
  ASSUME NEW w \in Nat \ {0}, NEW k \in Int, k >= 1 PROVE w * k >= w
  OBVIOUS

LEMMA ModInjective ==
  ASSUME NEW w \in Nat \ {0}, NEW a \in Nat, NEW b \in Nat,
         a <= b, b < a + w, a % w = b % w
  PROVE  a = b
<1> DEFINE x == a \div w
           y == b \div w
<1>1. a = w * x + (a % w) /\ b = w * y + (b % w) /\ x \in Nat /\ y \in Nat
  OBVIOUS
<1>2. b - a = w * (y - x)
  BY <1>1
<1>3. CASE y - x >= 1
  BY <1>1, <1>2, <1>3, MultipleAtLeast
<1>4. CASE y - x <= -1
  <2>1. w * (x - y) >= w
    BY <1>1, <1>4, MultipleAtLeast
  <2>2. w * (y - x) = -(w * (x - y))
    BY <1>1
  <2> QED
    BY <1>1, <1>2, <2>1, <2>2
<1>5. CASE y = x
  BY <1>1, <1>5
<1> QED
  BY <1>1, <1>3, <1>4, <1>5

(* Two sequence numbers less than MAX_WINDOW apart never share a slot. *)
LEMMA SlotInjective ==
  ASSUME NEW a \in Nat, NEW b \in Nat, Slot(a) = Slot(b),
         a < b + MAX_WINDOW, b < a + MAX_WINDOW
  PROVE  a = b
<1>1. CASE a <= b
  BY <1>1, ModInjective, WindowAssumption DEF Slot
<1>2. CASE b <= a
  BY <1>2, ModInjective, WindowAssumption DEF Slot
<1> QED
  BY <1>1, <1>2

LEMMA SlotInjectiveFrom ==
  ASSUME NEW t \in Nat, NEW a \in t .. t + MAX_WINDOW - 1,
         NEW b \in t .. t + MAX_WINDOW - 1, Slot(a) = Slot(b)
  PROVE  a = b
  BY SlotInjective, WindowAssumption

(* MAX_WINDOW further is the same slot. *)
LEMMA SlotPeriodic ==
  ASSUME NEW a \in Nat PROVE Slot(a + MAX_WINDOW) = Slot(a)
<1> DEFINE w == MAX_WINDOW
           b == a + w
           x == a \div w
           y == b \div w
<1>1. /\ w \in Nat \ {0}
      /\ a = w * x + (a % w) /\ b = w * y + (b % w)
      /\ x \in Int /\ y \in Int
      /\ a % w \in 0 .. w - 1 /\ b % w \in 0 .. w - 1
  BY WindowAssumption
<1>2. (b % w) - (a % w) = w * (x + 1 - y)
  BY <1>1
<1>3. CASE x + 1 - y >= 1
  <2>1. w * (x + 1 - y) >= w
    BY <1>1, <1>3, MultipleAtLeast
  <2> QED
    BY <1>1, <1>2, <2>1
<1>4. CASE x + 1 - y <= -1
  <2>1. w * (y - x - 1) >= w
    BY <1>1, <1>4, MultipleAtLeast
  <2>2. w * (x + 1 - y) = -(w * (y - x - 1))
    BY <1>1
  <2> QED
    BY <1>1, <1>2, <2>1, <2>2
<1>5. CASE x + 1 - y = 0
  <2>1. w * (x + 1 - y) = 0
    BY <1>1, <1>5
  <2> QED
    BY <1>1, <1>2, <2>1 DEF Slot
<1> QED
  BY <1>1, <1>3, <1>4, <1>5

(* A nonempty set of naturals has a smallest element. *)
LEMMA SmallestExists ==
  ASSUME NEW T, T \subseteq Nat, T # {}
  PROVE  \E x \in T : \A y \in T : x <= y
<1> DEFINE R == {ss \in Nat \X Nat : ss[1] < ss[2]}
<1>1. IsWellFoundedOn(R, Nat)
  BY NatLessThanWellFounded, Zenon DEF OpToRel
<1> HIDE DEF R
<1>2. PICK x \in T : \A y \in T : ~ (<<y, x>> \in R)
  BY <1>1, WFMin
<1>3. ASSUME NEW y \in T PROVE x <= y
  <2>1. y < x => <<y, x>> \in R
    BY DEF R
  <2> QED
    BY <1>2, <2>1
<1> QED
  BY <1>3

-----------------------------------------------------------------------------
(* The two ends. *)

LEMMA Peers ==
  ASSUME NEW p \in Endpoint
  PROVE  /\ Peer(p) \in Endpoint
         /\ Peer(p) # p
         /\ Peer(Peer(p)) = p
         /\ \A q \in Endpoint : q = p \/ q = Peer(p)
  BY DEF Endpoint, Peer

-----------------------------------------------------------------------------
(* What building and sending packets does. *)

(* NACKing never touches a received cell. *)
LEMMA MarkNackedOK ==
  ASSUME TypeOK, NEW p \in Endpoint, NEW nacks \in SUBSET NackCandidates(p),
         MarkNacked(p, nacks)
  PROVE  /\ recv_window' \in [Endpoint -> [Index -> {"EMPTY_CELL", "NACK_CELL", "RECVD_CELL"}]]
         /\ \A q \in Endpoint : \A i \in Index :
              recv_window'[q][i] = "RECVD_CELL" <=> recv_window[q][i] = "RECVD_CELL"
<1>1. \A k \in nacks : recv_window[p][Slot(k)] # "RECVD_CELL"
  BY DEF NackCandidates
<1> QED
  BY <1>1 DEF MarkNacked, TypeOK

LEMMA SendDataOK ==
  ASSUME TypeOK, NEW p \in Endpoint, NEW ks \in SUBSET Msg, SendData(p, ks)
  PROVE  /\ recv_window' \in [Endpoint -> [Index -> {"EMPTY_CELL", "NACK_CELL", "RECVD_CELL"}]]
         /\ \A q \in Endpoint : \A i \in Index :
              recv_window'[q][i] = "RECVD_CELL" <=> recv_window[q][i] = "RECVD_CELL"
         /\ net' \subseteq Packet
         /\ \A m \in net' : \/ m \in net
                            \/ /\ m.to = Peer(p)
                               /\ m.type = "DATA"
                               /\ m.seq_no \in ks
                               /\ m.cummulative_ack = recv_tail[p]
<1>1. PICK nacks \in SUBSET NackCandidates(p) :
        \E carrier \in [nacks -> ks] :
          /\ MarkNacked(p, nacks)
          /\ Link_Send({DataPacket(p, k, {n \in nacks : carrier[n] = k}) : k \in ks})
  BY DEF SendData
<1>2. PICK carrier \in [nacks -> ks] :
          /\ MarkNacked(p, nacks)
          /\ Link_Send({DataPacket(p, k, {n \in nacks : carrier[n] = k}) : k \in ks})
  BY <1>1
<1> DEFINE D(k) == DataPacket(p, k, {n \in nacks : carrier[n] = k})
<1>3. \A m \in net' : m \in net \/ \E k \in ks : m = D(k)
  BY <1>2 DEF Link_Send
<1>4. nacks \subseteq Msg
  <2>1. NackCandidates(p) \subseteq recv_tail[p] .. recv_head[p] - 1
    BY DEF NackCandidates
  <2>2. recv_tail[p] .. recv_head[p] - 1 \subseteq Msg
    BY BoundAssumption, SMTT(60) DEF TypeOK, Msg
  <2> QED
    BY <2>1, <2>2
<1>5. ASSUME NEW k \in ks
      PROVE  /\ D(k) \in Packet
             /\ D(k).to = Peer(p)
             /\ D(k).type = "DATA"
             /\ D(k).seq_no = k
             /\ D(k).cummulative_ack = recv_tail[p]
  BY <1>4, Peers DEF DataPacket, Packet, TypeOK
<1> HIDE DEF D
<1>6. net' \subseteq Packet
  BY <1>3, <1>5 DEF TypeOK
<1>7. \A m \in net' : \/ m \in net
                      \/ /\ m.to = Peer(p)
                         /\ m.type = "DATA"
                         /\ m.seq_no \in ks
                         /\ m.cummulative_ack = recv_tail[p]
  BY <1>3, <1>5
<1> QED
  BY <1>2, <1>6, <1>7, MarkNackedOK

(* An ack packet is sent like a data packet, without a message. *)
LEMMA SendAckOK ==
  ASSUME TypeOK, NEW p \in Endpoint, NEW nacks \in SUBSET NackCandidates(p),
         MarkNacked(p, nacks), Link_Send({AckPacket(p, nacks)})
  PROVE  /\ recv_window' \in [Endpoint -> [Index -> {"EMPTY_CELL", "NACK_CELL", "RECVD_CELL"}]]
         /\ \A q \in Endpoint : \A i \in Index :
              recv_window'[q][i] = "RECVD_CELL" <=> recv_window[q][i] = "RECVD_CELL"
         /\ net' \subseteq Packet
         /\ \A m \in net' : \/ m \in net
                            \/ /\ m.to = Peer(p)
                               /\ m.type = "ACK"
                               /\ m.cummulative_ack = recv_tail[p]
<1>1. \A m \in net' : m \in net \/ m = AckPacket(p, nacks)
  BY DEF Link_Send
<1>2. nacks \subseteq Msg
  <2>1. NackCandidates(p) \subseteq recv_tail[p] .. recv_head[p] - 1
    BY DEF NackCandidates
  <2>2. recv_tail[p] .. recv_head[p] - 1 \subseteq Msg
    BY BoundAssumption, SMTT(30) DEF TypeOK, Msg
  <2> QED
    BY <2>1, <2>2
<1>3. /\ AckPacket(p, nacks) \in Packet
      /\ AckPacket(p, nacks).to = Peer(p)
      /\ AckPacket(p, nacks).type = "ACK"
      /\ AckPacket(p, nacks).cummulative_ack = recv_tail[p]
  BY <1>2, Peers DEF AckPacket, Packet, TypeOK
<1>4. net' \subseteq Packet
  BY <1>1, <1>3 DEF TypeOK
<1> QED
  BY <1>1, <1>3, <1>4, MarkNackedOK

(* Putting the next n messages into the window fills exactly their slots, as *)
(* the window never holds more messages than it has slots.                   *)
LEMMA SendCellsOK ==
  ASSUME IInv, NEW p \in Endpoint, LinkExists(p),
         NEW n \in Nat \ {0}, NEW cells \in Seq(Msg), Len(cells) = n,
         \A j \in 1 .. n : cells[j] = head[p] + j - 1,
         head[p] + n <= tail[p] + MAX_WINDOW,
         NEW ev, SendCells(p, cells, ev)
  PROVE  /\ head' = [head EXCEPT ![p] = head[p] + n]
         /\ head[p] + n <= MaxMsgs
         /\ window' \in [Endpoint -> [Index -> Msg \cup {NoBuff}]]
         /\ \A q \in Endpoint : q # p => window'[q] = window[q]
         /\ \A k \in tail[p] .. head[p] + n - 1 : window'[p][Slot(k)] = k
         /\ \A i \in Index : window'[p][i] # NoBuff =>
              window'[p][i] \in tail[p] .. head[p] + n - 1 /\ Slot(window'[p][i]) = i
         /\ exited' = exited
         /\ recv_window' \in [Endpoint -> [Index -> {"EMPTY_CELL", "NACK_CELL", "RECVD_CELL"}]]
         /\ \A q \in Endpoint : \A i \in Index :
              recv_window'[q][i] = "RECVD_CELL" <=> recv_window[q][i] = "RECVD_CELL"
         /\ net' \subseteq Packet
         /\ \A m \in net' : \/ m \in net
                            \/ /\ m.to = Peer(p)
                               /\ m.type = "DATA"
                               /\ m.seq_no \in head[p] .. head[p] + n - 1
                               /\ m.cummulative_ack = recv_tail[p]
<1> DEFINE h == head[p]
           t == tail[p]
<1>a. TypeOK /\ NoAlarmExit /\ WindowsAligned /\ SlotsFilled
  BY DEF IInv
<1>b. Peer(p) \in Endpoint
  BY Peers
<1>c. t <= h
  BY <1>a, <1>b, SMTT(30) DEF TypeOK, WindowsAligned
<1>0. /\ h \in 0 .. MaxMsgs /\ t \in 0 .. MaxMsgs /\ t <= h
      /\ MaxMsgs \in Nat /\ MAX_WINDOW \in Nat \ {0}
      /\ window[p] \in [Index -> Msg \cup {NoBuff}]
      /\ DOMAIN cells = 1 .. n
      /\ DOMAIN window = Endpoint /\ DOMAIN head = Endpoint
  BY <1>a, <1>c, WindowAssumption, BoundAssumption DEF TypeOK
<1>d. /\ h \in Nat /\ t \in Nat /\ t <= h /\ h + n <= t + MAX_WINDOW
      /\ MAX_WINDOW \in Nat /\ n \in Nat
      /\ h .. h + n - 1 \subseteq t .. h + n - 1
      /\ t .. h + n - 1 \subseteq t .. t + MAX_WINDOW - 1
  BY <1>0, SMTT(30)
<1>1. cells[n] = h + n - 1 /\ cells[n] \in Msg /\ cells[1] = h
  BY <1>0
<1>2. head' = [head EXCEPT ![p] = h + n] /\ h + n <= MaxMsgs
  <2>1. cells[Len(cells)] + 1 = h + n
    BY <1>0, <1>1
  <2>2. head' = [head EXCEPT ![p] = cells[Len(cells)] + 1]
    BY DEF SendCells
  <2>3. h + n <= MaxMsgs
    BY <1>0, <1>1 DEF Msg
  <2> QED
    BY <2>1, <2>2, <2>3
<1>3. exited' = exited
  <2>1. \A j \in 1 .. n - 1 : cells[j + 1] > cells[j]
    BY <1>0, SMTT(30)
  <2>2. ~(cells[1] < h) /\ ~(\E j \in 1 .. n - 1 : cells[j + 1] <= cells[j])
    BY <1>0, <1>1, <2>1
  <2>3. exited' = [exited EXCEPT ![p] = FALSE]
    BY <2>2 DEF SendCells
  <2> QED
    BY <1>a, <2>3 DEF NoAlarmExit, TypeOK
<1> DEFINE c(i) == CHOOSE j \in DOMAIN cells : Slot(cells[j]) = i
           hit(i) == \E j \in DOMAIN cells : Slot(cells[j]) = i
<1>4. /\ window' = [window EXCEPT ![p] = [i \in Index |-> IF hit(i) THEN cells[c(i)] ELSE window[p][i]]]
  BY <1>0 DEF SendCells
<1>5. \A i \in Index : hit(i) => c(i) \in 1 .. n /\ Slot(cells[c(i)]) = i
  BY <1>0
<1> HIDE DEF c
<1>6. /\ window' \in [Endpoint -> [Index -> Msg \cup {NoBuff}]]
      /\ \A q \in Endpoint : q # p => window'[q] = window[q]
      /\ \A i \in Index : window'[p][i] = IF hit(i) THEN cells[c(i)] ELSE window[p][i]
  <2>1. \A i \in Index : hit(i) => cells[c(i)] \in Msg
    BY <1>5
  <2> QED
    BY <1>0, <1>4, <1>a, <2>1 DEF TypeOK
<1>7. ASSUME NEW k \in t .. h + n - 1 PROVE window'[p][Slot(k)] = k
  <2>0. k \in Nat /\ Slot(k) \in Index
    BY <1>0, SlotInIndex
  <2>1. CASE k >= h
    <3>1. k - h + 1 \in 1 .. n /\ cells[k - h + 1] = k
      BY <1>0, <2>0, <2>1
    <3>2. hit(Slot(k))
      BY <1>0, <3>1
    <3>3. c(Slot(k)) \in 1 .. n /\ Slot(cells[c(Slot(k))]) = Slot(k)
      BY <1>5, <2>0, <3>2
    <3>4. cells[c(Slot(k))] \in h .. h + n - 1
      BY <1>0, <3>3
    <3>5. cells[c(Slot(k))] = k
      <4>1. k \in t .. t + MAX_WINDOW - 1
        BY <1>d
      <4>2. cells[c(Slot(k))] \in t .. t + MAX_WINDOW - 1
        BY <1>d, <3>4
      <4> QED
        BY <1>d, <3>3, <4>1, <4>2, SlotInjectiveFrom
    <3> QED
      BY <1>6, <2>0, <3>2, <3>5
  <2>2. CASE k < h
    <3>1. ~hit(Slot(k))
      <4> SUFFICES ASSUME NEW j \in 1 .. n, Slot(cells[j]) = Slot(k) PROVE FALSE
        BY <1>0
      <4>1. cells[j] = h + j - 1
        BY <1>0
      <4>2. h + j - 1 \in Nat /\ h + j - 1 < k + MAX_WINDOW /\ k < h + j - 1 + MAX_WINDOW
        BY <1>0, <2>0, <2>2, SMTT(30)
      <4> QED
        BY <2>0, <2>2, <4>1, <4>2, <1>0, SlotInjective
    <3>2. window[p][Slot(k)] = k
      BY <1>0, <1>a, <2>0, <2>2 DEF SlotsFilled
    <3> QED
      BY <1>6, <2>0, <3>1, <3>2
  <2> QED
    BY <1>0, <2>0, <2>1, <2>2
<1>8. ASSUME NEW i \in Index, window'[p][i] # NoBuff
      PROVE  window'[p][i] \in t .. h + n - 1 /\ Slot(window'[p][i]) = i
  <2>1. CASE hit(i)
    <3>1. cells[c(i)] \in h .. h + n - 1
      BY <1>0, <1>5, <2>1, SMTT(30)
    <3> QED
      <4>1. cells[c(i)] \in t .. h + n - 1
        BY <1>d, <3>1
      <4> QED
        BY <1>5, <1>6, <2>1, <4>1
  <2>2. CASE ~hit(i)
    <3>1. window[p][i] \in t .. h - 1 /\ Slot(window[p][i]) = i
      BY <1>6, <1>8, <1>a, <2>2 DEF SlotsFilled
    <3> QED
      BY <1>d, <1>6, <2>2, <3>1, SMTT(30)
  <2> QED
    BY <2>1, <2>2
<1> DEFINE ks == {cells[j] : j \in DOMAIN cells}
<1>9. ks \subseteq Msg /\ ks \subseteq h .. h + n - 1
  BY <1>0, SMTT(30)
<1>10. SendData(p, ks)
  BY DEF SendCells
<1> HIDE DEF ks
<1> QED
  BY <1>2, <1>3, <1>6, <1>7, <1>8, <1>9, <1>10, <1>a, SendDataOK

-----------------------------------------------------------------------------
(* The steps that move messages into the window: p assigns sequence numbers *)
(* up to sn, sends the n messages of cells and keeps rest in the backlog.   *)

LEMMA RoomInWindow ==
  ASSUME NEW h \in Nat, NEW n \in Nat, NEW t \in Nat, NEW W \in Nat, NEW w \in 1 .. W,
         h + n - t <= w
  PROVE  h + n <= t + W
  OBVIOUS

LEMMA SendStep ==
  ASSUME IInv, NEW p \in Endpoint, LinkExists(p),
         NEW sn \in 0 .. MaxMsgs, NEW n \in Nat, sn >= seq_no[p],
         NEW cells \in Seq(Msg), Len(cells) = n,
         \A j \in 1 .. n : cells[j] = head[p] + j - 1,
         NEW rest \in Seq(Msg), head[p] + n + Len(rest) = sn,
         \A j \in 1 .. Len(rest) : rest[j] = head[p] + n + j - 1,
         n > 0 => flags[p] = "CONNECTED" /\ head[p] + n - tail[p] <= window_size[p],
         NEW ev \in SUBSET Event,
         ev \subseteq events[p], events[p] \subseteq ev \cup {"Try_to_Send"},
         flags[p] = "CONNECTED" /\ Len(rest) > 0 =>
           head[p] + n - tail[p] >= window_size[p] \/ "Try_to_Send" \in ev,
         seq_no' = [seq_no EXCEPT ![p] = sn],
         msg_buff' = [msg_buff EXCEPT ![p] = rest],
         NEW b \in BOOLEAN, blocked' = [blocked EXCEPT ![p] = b],
         b => Len(rest) >= MAX_BUFF_LINK \div 4,
         IF n = 0 THEN SendNothing(p, ev) ELSE SendCells(p, cells, ev),
         UNCHANGED <<flags, tail, window_size, recvVars, nack_buff>>
  PROVE  IInv'
<1> DEFINE h == head[p]
           t == tail[p]
<1>a. /\ TypeOK /\ NoAlarmExit /\ WindowsAligned /\ SlotsFilled /\ BacklogContiguous
      /\ PacketsGenuine /\ CellsRecordDeliveries /\ TimersTracked /\ NothingStuck
      /\ BlockedOnlyBehindBacklog
  BY DEF IInv
<1>b. /\ Peer(p) \in Endpoint /\ Peer(p) # p /\ Peer(Peer(p)) = p
      /\ \A q \in Endpoint : q = p \/ q = Peer(p)
  BY Peers
<1>c. /\ h \in Nat /\ t \in Nat /\ h <= MaxMsgs /\ t <= MaxMsgs /\ MAX_WINDOW \in Nat \ {0}
      /\ window_size[p] \in 1 .. MAX_WINDOW /\ MaxMsgs \in Nat
  BY <1>a, WindowAssumption, BoundAssumption DEF TypeOK
<1>d. h <= t + MAX_WINDOW
  BY <1>a DEF WindowsAligned
<1>1. /\ head' = [head EXCEPT ![p] = h + n]
      /\ h + n <= MaxMsgs
      /\ h + n <= t + MAX_WINDOW
      /\ window' \in [Endpoint -> [Index -> Msg \cup {NoBuff}]]
      /\ \A q \in Endpoint : q # p => window'[q] = window[q]
      /\ \A k \in t .. h + n - 1 : window'[p][Slot(k)] = k
      /\ \A i \in Index : window'[p][i] # NoBuff =>
           window'[p][i] \in t .. h + n - 1 /\ Slot(window'[p][i]) = i
      /\ exited' = exited
      /\ recv_window' \in [Endpoint -> [Index -> {"EMPTY_CELL", "NACK_CELL", "RECVD_CELL"}]]
      /\ \A q \in Endpoint : \A i \in Index :
           recv_window'[q][i] = "RECVD_CELL" <=> recv_window[q][i] = "RECVD_CELL"
      /\ net' \subseteq Packet
      /\ \A m \in net' : \/ m \in net
                         \/ /\ m.to = Peer(p)
                            /\ m.type = "DATA"
                            /\ m.seq_no \in h .. h + n - 1
                            /\ m.cummulative_ack = recv_tail[p]
  <2>1. CASE n = 0
    <3>1. UNCHANGED <<window, head, exited, recv_window, net>>
      BY <2>1 DEF SendNothing
    <3>2. head = [head EXCEPT ![p] = h + n]
      BY <1>a, <1>c, <2>1 DEF TypeOK
    <3>3. /\ \A k \in t .. h - 1 : window[p][Slot(k)] = k
          /\ \A i \in Index : window[p][i] # NoBuff =>
               window[p][i] \in t .. h - 1 /\ Slot(window[p][i]) = i
      BY <1>a DEF SlotsFilled
    <3> QED
      BY <1>a, <1>c, <1>d, <2>1, <3>1, <3>2, <3>3, SMTT(30) DEF TypeOK
  <2>2. CASE n # 0
    <3>1. SendCells(p, cells, ev) /\ n \in Nat \ {0}
      BY <2>2
    <3>2. h + n <= t + MAX_WINDOW
      <4>1. h + n - t <= window_size[p]
        BY <3>1
      <4>2. h \in Nat /\ t \in Nat /\ MAX_WINDOW \in Nat /\ window_size[p] \in 1 .. MAX_WINDOW
        BY <1>c
      <4> QED
        BY <4>1, <4>2, RoomInWindow
    <3> QED
      BY <3>1, <3>2, SendCellsOK
  <2> QED
    BY <2>1, <2>2
<1>2. /\ events' \in [Endpoint -> SUBSET Event]
      /\ scheduled_ack' \in [Endpoint -> BOOLEAN]
      /\ scheduled_timeout' \in [Endpoint -> BOOLEAN]
      /\ \A q \in Endpoint : q # p => /\ events'[q] = events[q]
                                     /\ scheduled_ack'[q] = scheduled_ack[q]
                                     /\ scheduled_timeout'[q] = scheduled_timeout[q]
      /\ n = 0 => /\ events'[p] = ev
                  /\ scheduled_ack'[p] = scheduled_ack[p]
                  /\ scheduled_timeout'[p] = scheduled_timeout[p]
      /\ n # 0 => /\ events'[p] = (ev \ (IF scheduled_ack[p] THEN {"Send_Ack"} ELSE {}))
                                    \cup {"Reliable_timeout"}
                  /\ ~scheduled_ack'[p]
                  /\ scheduled_timeout'[p]
  <2>1. CASE n = 0
    BY <1>a, <2>1 DEF SendNothing, TypeOK
  <2>2. CASE n # 0
    <3>1. /\ scheduled_ack' = [scheduled_ack EXCEPT ![p] = FALSE]
          /\ scheduled_timeout' = [scheduled_timeout EXCEPT ![p] = TRUE]
          /\ events' = [events EXCEPT ![p] =
                          (ev \ (IF scheduled_ack[p] THEN {"Send_Ack"} ELSE {}))
                            \cup {"Reliable_timeout"}]
      BY <2>2 DEF SendCells
    <3>2. (ev \ (IF scheduled_ack[p] THEN {"Send_Ack"} ELSE {}))
            \cup {"Reliable_timeout"} \in SUBSET Event
      BY DEF Event
    <3> QED
      BY <1>a, <2>2, <3>1, <3>2 DEF TypeOK
  <2> QED
    BY <2>1, <2>2
<1>3. TypeOK'
  <2>1. /\ seq_no' \in [Endpoint -> 0 .. MaxMsgs]
        /\ head' \in [Endpoint -> 0 .. MaxMsgs]
        /\ msg_buff' \in [Endpoint -> Seq(Msg)]
        /\ blocked' \in [Endpoint -> BOOLEAN]
    <3>1. h + n \in 0 .. MaxMsgs
      BY <1>c, <1>1, SMTT(30)
    <3> QED
      BY <1>a, <1>1, <3>1 DEF TypeOK
  <2> QED
    BY <1>a, <1>1, <1>2, <2>1 DEF TypeOK, recvVars
<1>4. NoAlarmExit'
  BY <1>a, <1>1 DEF NoAlarmExit
<1>5. WindowsAligned'
  <2>1. \A q \in Endpoint : head'[q] >= head[q] /\ head'[q] <= tail[q] + MAX_WINDOW
                             /\ head'[q] <= seq_no'[q]
    <3>1. head'[p] = h + n /\ seq_no'[p] = sn
      BY <1>a, <1>1 DEF TypeOK
    <3>2. \A q \in Endpoint : q # p => head'[q] = head[q] /\ seq_no'[q] = seq_no[q]
      BY <1>a, <1>1 DEF TypeOK
    <3>3. Len(rest) \in Nat /\ sn \in Nat
      BY <1>c
    <3>4. \A q \in Endpoint : /\ head[q] \in Nat /\ head[q] <= tail[q] + MAX_WINDOW
                              /\ head[q] <= seq_no[q]
      BY <1>a DEF TypeOK, WindowsAligned
    <3> QED
      BY <1>c, <1>1, <3>1, <3>2, <3>3, <3>4, SMTT(30)
  <2>2. \A q \in Endpoint : /\ head[q] \in Nat /\ recv_head[q] \in Nat /\ head'[q] \in Nat
                            /\ tail'[q] = tail[q] /\ recv_tail'[q] = recv_tail[q]
                            /\ recv_head'[q] = recv_head[q] /\ Peer(q) \in Endpoint
    BY <1>a, <1>3, Peers DEF TypeOK, recvVars
  <2> SUFFICES ASSUME NEW q \in Endpoint
               PROVE  /\ tail'[q] <= recv_tail'[Peer(q)]
                      /\ recv_tail'[Peer(q)] <= recv_head'[Peer(q)]
                      /\ recv_head'[Peer(q)] <= head'[q]
                      /\ head'[q] <= tail'[q] + MAX_WINDOW
                      /\ head'[q] <= seq_no'[q]
    BY DEF WindowsAligned
  <2>3. /\ tail[q] <= recv_tail[Peer(q)]
        /\ recv_tail[Peer(q)] <= recv_head[Peer(q)]
        /\ recv_head[Peer(q)] <= head[q]
    BY <1>a DEF WindowsAligned
  <2> QED
    BY <2>1, <2>2, <2>3
<1>6. SlotsFilled'
  <2>1. head'[p] = h + n /\ \A q \in Endpoint : q # p => head'[q] = head[q]
    BY <1>a, <1>1 DEF TypeOK
  <2> QED
    <3> SUFFICES ASSUME NEW q \in Endpoint, LinkExists(q)'
                 PROVE  /\ \A k \in tail'[q] .. head'[q] - 1 : window'[q][Slot(k)] = k
                        /\ \A i \in Index : window'[q][i] # NoBuff =>
                             window'[q][i] \in tail'[q] .. head'[q] - 1 /\ Slot(window'[q][i]) = i
      BY DEF SlotsFilled
    <3>1. CASE q = p
      <4>1. tail'[p] = t /\ head'[p] = h + n
        BY <2>1
      <4>2. /\ \A k \in t .. h + n - 1 : window'[p][Slot(k)] = k
            /\ \A i \in Index : window'[p][i] # NoBuff =>
                 window'[p][i] \in t .. h + n - 1 /\ Slot(window'[p][i]) = i
        BY <1>1
      <4> QED
        BY <1>c, <3>1, <4>1, <4>2, SMTT(30)
    <3>2. CASE q # p
      BY <1>a, <1>1, <2>1, <3>2 DEF SlotsFilled, LinkExists
    <3> QED
      BY <3>1, <3>2
<1>7. BacklogContiguous'
  <2>1. /\ head'[p] = h + n /\ seq_no'[p] = sn /\ msg_buff'[p] = rest
        /\ \A q \in Endpoint : q # p => /\ head'[q] = head[q] /\ seq_no'[q] = seq_no[q]
                                       /\ msg_buff'[q] = msg_buff[q]
    BY <1>a, <1>1 DEF TypeOK
  <2>2. Len(rest) \in Nat /\ Len(rest) = sn - (h + n)
    <3>1. Len(rest) \in Nat /\ sn \in Int
      OBVIOUS
    <3> QED
      BY <1>c, <3>1, SMTT(30)
  <2> QED
    BY <1>a, <2>1, <2>2 DEF BacklogContiguous, LinkExists
<1>8. PacketsGenuine'
  <2> SUFFICES ASSUME NEW m \in net'
               PROVE  /\ m.cummulative_ack <= recv_tail'[Peer(m.to)]
                      /\ m.type = "DATA" => m.seq_no \in 0 .. head'[Peer(m.to)] - 1
    BY DEF PacketsGenuine
  <2>0. /\ recv_tail' = recv_tail /\ m.to \in Endpoint /\ Peer(m.to) \in Endpoint
        /\ \A q \in Endpoint : head[q] \in Nat /\ head'[q] \in Nat /\ head'[q] >= head[q]
                              /\ recv_tail[q] \in Nat
        /\ head'[p] = h + n
    <3>1. recv_tail' = recv_tail /\ m \in Packet
      BY <1>1 DEF recvVars
    <3>2. m.to \in Endpoint /\ Peer(m.to) \in Endpoint
      BY <3>1, Peers DEF Packet
    <3>3. head'[p] = h + n /\ \A q \in Endpoint : q # p => head'[q] = head[q]
      BY <1>a, <1>1 DEF TypeOK
    <3>4. \A q \in Endpoint : head[q] \in Nat /\ recv_tail[q] \in Nat
      BY <1>a DEF TypeOK
    <3> QED
      BY <3>1, <3>2, <3>3, <3>4
  <2>1. CASE m \in net
    BY <1>a, <2>0, <2>1 DEF PacketsGenuine
  <2>2. CASE m \notin net
    <3>1. /\ m.to = Peer(p) /\ m.seq_no \in h .. h + n - 1
          /\ m.cummulative_ack = recv_tail[p]
      BY <1>1, <2>2
    <3>2. Peer(m.to) = p
      BY <1>b, <3>1
    <3>3. m.cummulative_ack <= recv_tail'[Peer(m.to)]
      BY <2>0, <3>1, <3>2
    <3>4. h .. h + n - 1 \subseteq 0 .. h + n - 1
      BY <1>c
    <3> QED
      BY <2>0, <3>1, <3>2, <3>3, <3>4, SMTT(30)
  <2> QED
    BY <2>1, <2>2
<1>9. CellsRecordDeliveries'
  <2>1. \A q \in Endpoint : \A k \in Msg :
          recv_window'[q][Slot(k)] = "RECVD_CELL" <=> recv_window[q][Slot(k)] = "RECVD_CELL"
    BY <1>1, SlotInIndex DEF Msg
  <2> QED
    BY <1>a, <2>1 DEF CellsRecordDeliveries, recvVars
<1>10. TimersTracked'
  <2>1. /\ head'[p] = h + n /\ \A q \in Endpoint : q # p => head'[q] = head[q]
        /\ t <= h
    BY <1>a, <1>b, <1>1, SMTT(30) DEF TypeOK, WindowsAligned
  <2>2. n # 0 => flags[p] = "CONNECTED" /\ h + n > t
    BY <1>c, <2>1
  <2>3. \A x \in {"Reliable_timeout", "Send_Ack", "Send_Nack_Retransm"} : x \in ev <=> x \in events[p]
    OBVIOUS
  <2>4. "Reliable_timeout" \in events'[p] <=> (n # 0 \/ "Reliable_timeout" \in events[p])
    BY <1>2, <2>3
  <2>5. "Send_Ack" \in events'[p] <=> ("Send_Ack" \in events[p] /\ (n = 0 \/ ~scheduled_ack[p]))
    BY <1>2, <2>3
  <2>6. "Send_Nack_Retransm" \in events'[p] => "Send_Nack_Retransm" \in events[p]
    BY <1>2, <2>3
  <2>7. flags[p] # "CONNECTED" => n = 0 /\ events'[p] = {}
    BY <1>a, <1>2, <2>2 DEF TimersTracked
  <2> QED
    <3> SUFFICES ASSUME NEW q \in Endpoint
                 PROVE  /\ flags'[q] = "CONNECTED" =>
                             /\ "Reliable_timeout" \in events'[q] <=> head'[q] > tail'[q]
                             /\ scheduled_timeout'[q] <=> head'[q] > tail'[q]
                             /\ "Send_Ack" \in events'[q] <=> scheduled_ack'[q]
                             /\ "Send_Nack_Retransm" \in events'[q] => nack_buff'[q] # {}
                        /\ flags'[q] # "CONNECTED" => /\ events'[q] = {}
                                                      /\ ~scheduled_ack'[q]
                                                      /\ ~scheduled_timeout'[q]
                        /\ flags'[q] = "UNAVAILABLE" => head'[q] = 0
      BY DEF TimersTracked
    <3>1. CASE q # p
      BY <1>a, <1>2, <2>1, <3>1 DEF TimersTracked
    <3>2. CASE q = p /\ n = 0
      <4>1. h + n = h
        BY <1>c, <3>2
      <4> QED
        BY <1>a, <1>2, <2>1, <2>4, <2>5, <2>6, <2>7, <3>2, <4>1 DEF TimersTracked
    <3>3. CASE q = p /\ n # 0
      BY <1>a, <1>2, <2>1, <2>2, <2>4, <2>5, <2>6, <3>3 DEF TimersTracked
    <3> QED
      BY <3>1, <3>2, <3>3
<1>11. NothingStuck'
  <2>1. /\ head'[p] = h + n /\ msg_buff'[p] = rest
        /\ \A q \in Endpoint : q # p => head'[q] = head[q] /\ msg_buff'[q] = msg_buff[q]
    BY <1>a, <1>1 DEF TypeOK
  <2>2. "Try_to_Send" \in ev => "Try_to_Send" \in events'[p]
    BY <1>2
  <2>3. rest # << >> => Len(rest) > 0
    OBVIOUS
  <2>4. \A q \in Endpoint : q # p => events'[q] = events[q] /\ exited'[q] = exited[q]
    BY <1>1, <1>2
  <2>5. flags[p] = "CONNECTED" => (h + n > t => "Reliable_timeout" \in events'[p])
    BY <1>10, <2>1 DEF TimersTracked
  <2> QED
    <3> SUFFICES ASSUME NEW q \in Endpoint, flags'[q] = "CONNECTED", ~exited'[q]
                 PROVE  /\ head'[q] > tail'[q] => "Reliable_timeout" \in events'[q]
                        /\ msg_buff'[q] # << >> =>
                             \/ "Try_to_Send" \in events'[q]
                             \/ head'[q] - tail'[q] >= window_size'[q]
      BY DEF NothingStuck
    <3>1. CASE q # p
      BY <1>a, <2>1, <2>4, <3>1 DEF NothingStuck
    <3>2. CASE q = p
      <4>1. /\ flags[p] = "CONNECTED" /\ tail'[p] = t /\ window_size'[p] = window_size[p]
            /\ head'[p] = h + n /\ msg_buff'[p] = rest
        BY <2>1, <3>2
      <4>2. h + n > t => "Reliable_timeout" \in events'[p]
        BY <2>5, <4>1
      <4>3. rest # << >> => "Try_to_Send" \in events'[p] \/ h + n - t >= window_size[p]
        BY <2>2, <2>3, <4>1
      <4> QED
        BY <1>c, <3>2, <4>1, <4>2, <4>3
    <3> QED
      BY <3>1, <3>2
<1>12. BlockedOnlyBehindBacklog'
  BY <1>a DEF BlockedOnlyBehindBacklog, TypeOK, LinkExists
<1> QED
  BY <1>3, <1>4, <1>5, <1>6, <1>7, <1>8, <1>9, <1>10, <1>11, <1>12 DEF IInv

(* Send_Much stops at the end of the backlog or of the congestion window. *)
LEMMA MovableOK ==
  ASSUME IInv, NEW p \in Endpoint, LinkExists(p)
  PROVE  /\ Movable(p) \in 0 .. Len(msg_buff[p])
         /\ Movable(p) > 0 => /\ flags[p] = "CONNECTED"
                              /\ head[p] + Movable(p) - tail[p] <= window_size[p]
         /\ flags[p] = "CONNECTED" /\ Movable(p) < Len(msg_buff[p]) =>
              head[p] + Movable(p) - tail[p] >= window_size[p]
<1>1. /\ Len(msg_buff[p]) \in Nat /\ head[p] \in Nat /\ tail[p] \in Nat
      /\ window_size[p] \in Nat
  BY DEF IInv, TypeOK
<1> DEFINE l == Len(msg_buff[p])
           room == window_size[p] - (head[p] - tail[p])
<1>2. CASE flags[p] = "CONNECTED" /\ head[p] - tail[p] < window_size[p] /\ l < room
  <2>1. Movable(p) = l
    BY <1>2 DEF Movable, Lesser
  <2> QED
    BY <1>1, <1>2, <2>1
<1>3. CASE flags[p] = "CONNECTED" /\ head[p] - tail[p] < window_size[p] /\ ~(l < room)
  <2>1. Movable(p) = room
    BY <1>3 DEF Movable, Lesser
  <2> QED
    BY <1>1, <1>3, <2>1
<1>4. CASE ~(flags[p] = "CONNECTED" /\ head[p] - tail[p] < window_size[p])
  <2>1. Movable(p) = 0
    BY <1>4 DEF Movable
  <2> QED
    BY <1>1, <1>4, <2>1
<1> QED
  BY <1>2, <1>3, <1>4

(* The two parts into which n cuts the backlog. *)
LEMMA BacklogCut ==
  ASSUME IInv, NEW p \in Endpoint, LinkExists(p), NEW n \in 0 .. Len(msg_buff[p])
  PROVE  /\ SubSeq(msg_buff[p], 1, n) \in Seq(Msg)
         /\ Len(SubSeq(msg_buff[p], 1, n)) = n
         /\ \A j \in 1 .. n : SubSeq(msg_buff[p], 1, n)[j] = head[p] + j - 1
         /\ SubSeq(msg_buff[p], n + 1, Len(msg_buff[p])) \in Seq(Msg)
         /\ Len(SubSeq(msg_buff[p], n + 1, Len(msg_buff[p]))) = Len(msg_buff[p]) - n
         /\ \A j \in 1 .. Len(msg_buff[p]) - n :
              SubSeq(msg_buff[p], n + 1, Len(msg_buff[p]))[j] = head[p] + n + j - 1
         /\ head[p] + Len(msg_buff[p]) = seq_no[p]
<1>1. /\ msg_buff[p] \in Seq(Msg) /\ head[p] \in Nat /\ seq_no[p] \in Nat
      /\ Len(msg_buff[p]) \in Nat
      /\ Len(msg_buff[p]) = seq_no[p] - head[p]
      /\ \A j \in 1 .. Len(msg_buff[p]) : msg_buff[p][j] = head[p] + j - 1
  BY DEF IInv, TypeOK, BacklogContiguous
<1> DEFINE s == msg_buff[p]
           l == Len(s)
<1>2. /\ SubSeq(s, 1, n) \in Seq(Msg) /\ Len(SubSeq(s, 1, n)) = n
      /\ \A j \in 1 .. n : SubSeq(s, 1, n)[j] = s[j]
  BY <1>1
<1>3. /\ SubSeq(s, n + 1, l) \in Seq(Msg) /\ Len(SubSeq(s, n + 1, l)) = l - n
      /\ \A j \in 1 .. l - n : SubSeq(s, n + 1, l)[j] = s[n + j]
  BY <1>1
<1>4. ASSUME NEW j \in 1 .. l - n PROVE s[n + j] = head[p] + n + j - 1
  <2>1. n + j \in 1 .. l /\ n \in Nat /\ j \in Nat
    BY <1>1
  <2>2. s[n + j] = head[p] + (n + j) - 1
    BY <1>1, <2>1
  <2> QED
    BY <1>1, <2>1, <2>2
<1>5. \A j \in 1 .. n : s[j] = head[p] + j - 1
  BY <1>1
<1>6. head[p] + l = seq_no[p]
  BY <1>1
<1> QED
  BY <1>2, <1>3, <1>4, <1>5, <1>6

LEMMA TrySendPreserves ==
  ASSUME IInv, NEW p \in Endpoint, Try_to_Send(p)
  PROVE  IInv'
<1> DEFINE n == Movable(p)
           cells == SubSeq(msg_buff[p], 1, n)
           rest == SubSeq(msg_buff[p], n + 1, Len(msg_buff[p]))
           ev == events[p] \ {"Try_to_Send"}
           bl == blocked[p] /\ ~Resume(p, n, Len(msg_buff[p]) - n)
<1>1. LinkExists(p)
  BY DEF Try_to_Send, Fires, IInv, TimersTracked, LinkExists
<1>2. Send_Much(p, ev)
  BY <1>1 DEF Try_to_Send
<1>3. /\ n \in 0 .. Len(msg_buff[p])
      /\ n > 0 => flags[p] = "CONNECTED" /\ head[p] + n - tail[p] <= window_size[p]
      /\ flags[p] = "CONNECTED" /\ n < Len(msg_buff[p]) =>
           head[p] + n - tail[p] >= window_size[p]
  BY <1>1, MovableOK
<1>4. /\ cells \in Seq(Msg) /\ Len(cells) = n
      /\ \A j \in 1 .. n : cells[j] = head[p] + j - 1
      /\ rest \in Seq(Msg) /\ Len(rest) = Len(msg_buff[p]) - n
      /\ \A j \in 1 .. Len(msg_buff[p]) - n : rest[j] = head[p] + n + j - 1
      /\ head[p] + Len(msg_buff[p]) = seq_no[p]
  BY <1>1, <1>3, BacklogCut
<1>5. /\ seq_no' = [seq_no EXCEPT ![p] = seq_no[p]]
      /\ seq_no[p] \in 0 .. MaxMsgs /\ Len(msg_buff[p]) \in Nat /\ head[p] \in Nat
      /\ ev \in SUBSET Event
      /\ blocked' = [blocked EXCEPT ![p] = bl]
      /\ msg_buff' = [msg_buff EXCEPT ![p] = rest]
      /\ UNCHANGED <<flags, tail, window_size, recvVars, nack_buff>>
      /\ IF n = 0 THEN SendNothing(p, ev) ELSE SendCells(p, cells, ev)
  BY <1>2 DEF Send_Much, IInv, TypeOK
<1>6. bl \in BOOLEAN /\ (bl => Len(rest) >= MAX_BUFF_LINK \div 4)
  <2>1. CASE n = 0
    BY <1>4, <1>5, <2>1 DEF IInv, BlockedOnlyBehindBacklog
  <2>2. CASE n # 0
    BY <1>3, <1>4, <1>5, <2>2, BuffAssumption DEF Resume
  <2> QED
    BY <2>1, <2>2
<1> HIDE DEF n, cells, rest, ev, bl
<1>7. /\ n \in Nat
      /\ head[p] + n + Len(rest) = seq_no[p]
      /\ flags[p] = "CONNECTED" /\ Len(rest) > 0 => head[p] + n - tail[p] >= window_size[p]
      /\ \A j \in 1 .. Len(rest) : rest[j] = head[p] + n + j - 1
      /\ seq_no[p] >= seq_no[p]
  BY <1>3, <1>4, <1>5
<1>8. ev \subseteq events[p] /\ events[p] \subseteq ev \cup {"Try_to_Send"}
  BY DEF ev
<1> QED
  BY <1>1, <1>3, <1>4, <1>5, <1>6, <1>7, <1>8, SendStep

(* Appending one more message. *)
LEMMA AppendOK ==
  ASSUME NEW S, NEW s \in Seq(S), NEW x \in S
  PROVE  /\ Append(s, x) \in Seq(S)
         /\ Len(Append(s, x)) = Len(s) + 1
         /\ Append(s, x)[Len(s) + 1] = x
         /\ \A j \in 1 .. Len(s) : Append(s, x)[j] = s[j]
  OBVIOUS

LEMMA SendMsgPreserves ==
  ASSUME IInv, NEW p \in Endpoint, Reliable_Send_Msg(p)
  PROVE  IInv'
<1> DEFINE k == seq_no[p]
           h == head[p]
           n == Movable(p)
           len == Len(msg_buff[p])
           left == len - n
           moved == SubSeq(msg_buff[p], 1, n)
           kept == SubSeq(msg_buff[p], n + 1, len)
           fits == /\ flags[p] = "CONNECTED"
                   /\ left = 0
                   /\ h + n - tail[p] < window_size[p]
           still == blocked[p] /\ ~Resume(p, n, left)
           cells == IF fits THEN Append(moved, k) ELSE moved
           rest == IF fits THEN kept ELSE Append(kept, k)
           bl == still \/ (~fits /\ left + 1 > MAX_BUFF_LINK)
           num == IF fits THEN n + 1 ELSE n
<1>1. /\ LinkExists(p) /\ k < MaxMsgs
      /\ seq_no' = [seq_no EXCEPT ![p] = k + 1]
      /\ msg_buff' = [msg_buff EXCEPT ![p] = rest]
      /\ blocked' = [blocked EXCEPT ![p] = bl]
      /\ IF cells = << >> THEN SendNothing(p, events[p]) ELSE SendCells(p, cells, events[p])
      /\ UNCHANGED <<flags, tail, window_size, recvVars, nack_buff>>
  BY DEF Reliable_Send_Msg
<1>2. /\ n \in 0 .. len
      /\ n > 0 => flags[p] = "CONNECTED" /\ h + n - tail[p] <= window_size[p]
      /\ flags[p] = "CONNECTED" /\ n < len => h + n - tail[p] >= window_size[p]
  BY <1>1, MovableOK
<1>3. /\ moved \in Seq(Msg) /\ Len(moved) = n
      /\ \A j \in 1 .. n : moved[j] = h + j - 1
      /\ kept \in Seq(Msg) /\ Len(kept) = left
      /\ \A j \in 1 .. left : kept[j] = h + n + j - 1
      /\ h + len = k
  BY <1>1, <1>2, BacklogCut
<1>4. /\ k \in Nat /\ len \in Nat /\ h \in Nat /\ tail[p] \in Nat /\ window_size[p] \in Nat
      /\ MaxMsgs \in Nat /\ blocked[p] \in BOOLEAN /\ events[p] \in SUBSET Event
  BY BoundAssumption DEF IInv, TypeOK
<1>5. blocked[p] => len >= MAX_BUFF_LINK \div 4
  BY DEF IInv, BlockedOnlyBehindBacklog
<1>6. left = len - n /\ (still => blocked[p] /\ ~Resume(p, n, left)) /\ still \in BOOLEAN
  BY <1>4
<1> HIDE DEF k, h, len, n, left, moved, kept, still
<1>7. n \in Nat /\ left \in Nat /\ n + left = len /\ k = h + n + left
  <2>1. n \in 0 .. len
    BY <1>2
  <2>2. left = len - n
    BY <1>6
  <2>3. h + len = k
    BY <1>3
  <2> QED
    BY <1>4, <2>1, <2>2, <2>3
<1>8. k \in Msg /\ k + 1 \in 0 .. MaxMsgs
  BY <1>1, <1>4 DEF Msg
<1>9. still => left >= MAX_BUFF_LINK \div 4
  <2>1. CASE n = 0
    BY <1>4, <1>5, <1>6, <1>7, <2>1
  <2>2. CASE n # 0
    <3>1. MAX_BUFF_LINK \div 4 \in Nat
      BY BuffAssumption
    <3> QED
      BY <1>6, <1>7, <2>2, <3>1 DEF Resume
  <2> QED
    BY <2>1, <2>2
<1>10. /\ Append(moved, k) \in Seq(Msg) /\ Len(Append(moved, k)) = n + 1
       /\ \A j \in 1 .. n + 1 : Append(moved, k)[j] = IF j = n + 1 THEN k ELSE moved[j]
       /\ Append(kept, k) \in Seq(Msg) /\ Len(Append(kept, k)) = left + 1
       /\ \A j \in 1 .. left + 1 : Append(kept, k)[j] = IF j = left + 1 THEN k ELSE kept[j]
  BY <1>3, <1>7, <1>8, AppendOK
<1>11. /\ cells \in Seq(Msg) /\ Len(cells) = num /\ num \in Nat
       /\ \A j \in 1 .. num : cells[j] = h + j - 1
       /\ rest \in Seq(Msg) /\ h + num + Len(rest) = k + 1
       /\ \A j \in 1 .. Len(rest) : rest[j] = h + num + j - 1
       /\ bl \in BOOLEAN /\ (bl => Len(rest) >= MAX_BUFF_LINK \div 4)
       /\ num > 0 => flags[p] = "CONNECTED" /\ h + num - tail[p] <= window_size[p]
       /\ flags[p] = "CONNECTED" /\ Len(rest) > 0 => h + num - tail[p] >= window_size[p]
  <2>1. CASE fits
    <3>1. /\ cells = Append(moved, k) /\ num = n + 1 /\ rest = kept /\ bl = still
          /\ flags[p] = "CONNECTED" /\ left = 0 /\ h + n - tail[p] < window_size[p]
      BY <2>1, <1>6
    <3> HIDE DEF cells, num, rest, bl, fits
    <3>2. ASSUME NEW j \in 1 .. n + 1 PROVE cells[j] = h + j - 1
      <4>1. cells[j] = IF j = n + 1 THEN k ELSE moved[j]
        BY <1>10, <3>1
      <4>2. CASE j = n + 1
        <5>1. k = h + n
          BY <1>4, <1>7, <3>1
        <5> QED
          BY <1>4, <1>7, <4>1, <4>2, <5>1
      <4>3. CASE j # n + 1
        <5>1. j \in 1 .. n
          BY <1>7, <4>3
        <5> QED
          BY <1>3, <4>1, <4>3, <5>1
      <4> QED
        BY <4>2, <4>3
    <3>3. Len(rest) = 0 /\ Len(cells) = n + 1
      BY <1>3, <1>10, <3>1
    <3>4. h + num + Len(rest) = k + 1
      BY <1>4, <1>7, <3>1, <3>3
    <3>5. bl => Len(rest) >= MAX_BUFF_LINK \div 4
      BY <1>9, <3>1, <3>3
    <3>6. h + num - tail[p] <= window_size[p]
      BY <1>4, <1>7, <3>1
    <3>7. rest \in Seq(Msg) /\ cells \in Seq(Msg) /\ bl \in BOOLEAN /\ num \in Nat
      BY <1>3, <1>6, <1>7, <1>10, <3>1
    <3> QED
      BY <3>1, <3>2, <3>3, <3>4, <3>5, <3>6, <3>7
  <2>2. CASE ~fits
    <3>1. /\ cells = moved /\ num = n /\ rest = Append(kept, k)
          /\ bl = (still \/ left + 1 > MAX_BUFF_LINK)
          /\ flags[p] = "CONNECTED" => left # 0 \/ ~(h + n - tail[p] < window_size[p])
      BY <2>2
    <3> HIDE DEF cells, num, rest, bl, fits
    <3>2. ASSUME NEW j \in 1 .. left + 1 PROVE rest[j] = h + n + j - 1
      <4>1. rest[j] = IF j = left + 1 THEN k ELSE kept[j]
        BY <1>10, <3>1
      <4>2. CASE j = left + 1
        BY <1>4, <1>7, <4>1, <4>2
      <4>3. CASE j # left + 1
        <5>1. j \in 1 .. left
          BY <1>7, <4>3
        <5> QED
          BY <1>3, <4>1, <4>3, <5>1
      <4> QED
        BY <4>2, <4>3
    <3>3. bl => left + 1 >= MAX_BUFF_LINK \div 4
      <4>1. /\ MAX_BUFF_LINK \in Nat /\ MAX_BUFF_LINK \div 4 \in Nat
            /\ MAX_BUFF_LINK \div 4 <= MAX_BUFF_LINK
        BY BuffAssumption
      <4>2. bl => still \/ left + 1 > MAX_BUFF_LINK
        BY <3>1, Zenon
      <4>3. left + 1 > MAX_BUFF_LINK => left + 1 >= MAX_BUFF_LINK \div 4
        BY <1>7, <4>1
      <4>4. still => left + 1 >= MAX_BUFF_LINK \div 4
        BY <1>7, <1>9, <4>1
      <4> QED
        BY <4>2, <4>3, <4>4
    <3>4. flags[p] = "CONNECTED" => h + n - tail[p] >= window_size[p]
      <4>1. CASE left # 0
        <5>1. n < len
          BY <1>7, <4>1
        <5> QED
          BY <1>2, <5>1
      <4>2. CASE left = 0
        <5>1. h + n - tail[p] \in Int /\ window_size[p] \in Int
          BY <1>4, <1>7
        <5> QED
          BY <3>1, <4>2, <5>1
      <4> QED
        BY <4>1, <4>2
    <3>5. Len(rest) = left + 1 /\ Len(cells) = n
      BY <1>3, <1>10, <3>1
    <3>6. h + num + Len(rest) = k + 1
      BY <1>4, <1>7, <3>1, <3>5
    <3>7. rest \in Seq(Msg) /\ cells \in Seq(Msg) /\ bl \in BOOLEAN
      BY <1>3, <1>6, <1>10, <3>1
    <3> QED
      BY <1>2, <1>3, <1>7, <3>1, <3>2, <3>3, <3>4, <3>5, <3>6, <3>7
  <2> QED
    BY <2>1, <2>2
<1> HIDE DEF cells, rest, bl, num, fits
<1>12. cells = << >> <=> num = 0
  BY <1>11
<1>13. IF num = 0 THEN SendNothing(p, events[p]) ELSE SendCells(p, cells, events[p])
  BY <1>1, <1>12
<1>14. k = seq_no[p] /\ h = head[p] /\ k + 1 >= k
  BY <1>4 DEF k, h
<1> QED
  BY <1>1, <1>4, <1>8, <1>11, <1>13, <1>14, SendStep, ZenonT(60)

-----------------------------------------------------------------------------
(* The steps that send packets without moving a window: the acks and the    *)
(* retransmissions.  New packets satisfy FromEnd(p, m).                       *)

FromEnd(p, m) ==
  /\ m.to = Peer(p)
  /\ m.type = "DATA" => m.seq_no \in 0 .. head[p] - 1
  /\ m.cummulative_ack = recv_tail[p]

LEMMA ResendStep ==
  ASSUME IInv, NEW p \in Endpoint, flags[p] = "CONNECTED",
         recv_window' \in [Endpoint -> [Index -> {"EMPTY_CELL", "NACK_CELL", "RECVD_CELL"}]],
         \A q \in Endpoint : \A i \in Index :
           recv_window'[q][i] = "RECVD_CELL" <=> recv_window[q][i] = "RECVD_CELL",
         net' \subseteq Packet,
         \A m \in net' : m \in net \/ FromEnd(p, m),
         NEW ev \in SUBSET Event, events' = [events EXCEPT ![p] = ev],
         "Try_to_Send" \in events[p] => "Try_to_Send" \in ev,
         "Reliable_timeout" \in ev <=> "Reliable_timeout" \in events[p],
         NEW sa \in BOOLEAN, scheduled_ack' = [scheduled_ack EXCEPT ![p] = sa],
         "Send_Ack" \in ev <=> sa,
         NEW nb \in SUBSET Msg, nack_buff' = [nack_buff EXCEPT ![p] = nb],
         "Send_Nack_Retransm" \in ev => nb # {},
         NEW w \in 1 .. MAX_WINDOW, w <= window_size[p],
         window_size' = [window_size EXCEPT ![p] = w],
         UNCHANGED <<flags, seq_no, head, tail, window, msg_buff, blocked, recvVars,
                     scheduled_timeout, exited>>
  PROVE  IInv'
<1>a. /\ TypeOK /\ NoAlarmExit /\ WindowsAligned /\ SlotsFilled /\ BacklogContiguous
      /\ PacketsGenuine /\ CellsRecordDeliveries /\ TimersTracked /\ NothingStuck
      /\ BlockedOnlyBehindBacklog
  BY DEF IInv
<1>b. Peer(Peer(p)) = p
  BY Peers
<1>c. /\ UNCHANGED <<recv_head, recv_tail, delivered>>
      /\ UNCHANGED <<flags, seq_no, head, tail, window, msg_buff, blocked,
                     scheduled_timeout, exited>>
  BY DEF recvVars
<1>d. /\ window_size'[p] = w /\ events'[p] = ev /\ scheduled_ack'[p] = sa /\ nack_buff'[p] = nb
      /\ \A q \in Endpoint : q # p => /\ window_size'[q] = window_size[q]
                                     /\ events'[q] = events[q]
                                     /\ scheduled_ack'[q] = scheduled_ack[q]
                                     /\ nack_buff'[q] = nack_buff[q]
  BY <1>a DEF TypeOK
<1>1. TypeOK'
  BY <1>a, <1>c DEF TypeOK
<1>2. NoAlarmExit' /\ BlockedOnlyBehindBacklog' /\ BacklogContiguous' /\ SlotsFilled'
  BY <1>a, <1>c DEF NoAlarmExit, BlockedOnlyBehindBacklog, BacklogContiguous, SlotsFilled, LinkExists
<1>3. WindowsAligned'
  BY <1>a, <1>c DEF WindowsAligned
<1>4. PacketsGenuine'
  <2> SUFFICES ASSUME NEW m \in net'
               PROVE  /\ m.cummulative_ack <= recv_tail[Peer(m.to)]
                      /\ m.type = "DATA" => m.seq_no \in 0 .. head[Peer(m.to)] - 1
    BY <1>c DEF PacketsGenuine
  <2>1. CASE m \in net
    BY <1>a, <2>1 DEF PacketsGenuine
  <2>2. CASE FromEnd(p, m)
    <3>1. recv_tail[p] \in Nat
      BY <1>a DEF TypeOK
    <3> QED
      BY <1>b, <2>2, <3>1 DEF FromEnd
  <2> QED
    BY <2>1, <2>2
<1>5. CellsRecordDeliveries'
  <2>1. \A q \in Endpoint : \A k \in Msg :
          recv_window'[q][Slot(k)] = "RECVD_CELL" <=> recv_window[q][Slot(k)] = "RECVD_CELL"
    BY SlotInIndex DEF Msg
  <2> QED
    BY <1>a, <1>c, <2>1 DEF CellsRecordDeliveries
<1>6. TimersTracked'
  <2> SUFFICES ASSUME NEW q \in Endpoint
               PROVE  /\ flags'[q] = "CONNECTED" =>
                           /\ "Reliable_timeout" \in events'[q] <=> head'[q] > tail'[q]
                           /\ scheduled_timeout'[q] <=> head'[q] > tail'[q]
                           /\ "Send_Ack" \in events'[q] <=> scheduled_ack'[q]
                           /\ "Send_Nack_Retransm" \in events'[q] => nack_buff'[q] # {}
                      /\ flags'[q] # "CONNECTED" => /\ events'[q] = {}
                                                    /\ ~scheduled_ack'[q]
                                                    /\ ~scheduled_timeout'[q]
                      /\ flags'[q] = "UNAVAILABLE" => head'[q] = 0
    BY DEF TimersTracked
  <2>1. CASE q = p
    BY <1>a, <1>c, <1>d, <2>1 DEF TimersTracked
  <2>2. CASE q # p
    BY <1>a, <1>c, <1>d, <2>2 DEF TimersTracked
  <2> QED
    BY <2>1, <2>2
<1>7. NothingStuck'
  <2> SUFFICES ASSUME NEW q \in Endpoint, flags'[q] = "CONNECTED", ~exited'[q]
               PROVE  /\ head'[q] > tail'[q] => "Reliable_timeout" \in events'[q]
                      /\ msg_buff'[q] # << >> =>
                           \/ "Try_to_Send" \in events'[q]
                           \/ head'[q] - tail'[q] >= window_size'[q]
    BY DEF NothingStuck
  <2>1. CASE q = p
    <3>1. head[p] \in Nat /\ tail[p] \in Nat /\ window_size[p] \in Nat /\ w \in Nat
      BY <1>a, WindowAssumption, SMTT(30) DEF TypeOK
    <3>2. /\ head[p] > tail[p] => "Reliable_timeout" \in events[p]
          /\ msg_buff[p] # << >> => \/ "Try_to_Send" \in events[p]
                                    \/ head[p] - tail[p] >= window_size[p]
      BY <1>a, <1>c, <2>1 DEF NothingStuck
    <3> QED
      BY <1>c, <1>d, <2>1, <3>1, <3>2
  <2>2. CASE q # p
    BY <1>a, <1>c, <1>d, <2>2 DEF NothingStuck
  <2> QED
    BY <2>1, <2>2
<1> QED
  BY <1>1, <1>2, <1>3, <1>4, <1>5, <1>6, <1>7 DEF IInv

LEMMA SendAckPreserves ==
  ASSUME IInv, NEW p \in Endpoint, Send_Ack(p)
  PROVE  IInv'
<1>1. TypeOK /\ "Send_Ack" \in events[p] /\ flags[p] = "CONNECTED"
  BY DEF Send_Ack, Fires, IInv, TimersTracked
<1>2. /\ \E nacks \in SUBSET NackCandidates(p) :
           MarkNacked(p, nacks) /\ Link_Send({AckPacket(p, nacks)})
      /\ scheduled_ack' = [scheduled_ack EXCEPT ![p] = FALSE]
      /\ events' = [events EXCEPT ![p] = events[p] \ {"Send_Ack"}]
      /\ UNCHANGED <<flags, sendVars, recvVars, nack_buff, scheduled_timeout, exited>>
  BY <1>1 DEF Send_Ack
<1>3. PICK nacks \in SUBSET NackCandidates(p) :
        MarkNacked(p, nacks) /\ Link_Send({AckPacket(p, nacks)})
  BY <1>2
<1>4. /\ recv_window' \in [Endpoint -> [Index -> {"EMPTY_CELL", "NACK_CELL", "RECVD_CELL"}]]
      /\ \A q \in Endpoint : \A i \in Index :
           recv_window'[q][i] = "RECVD_CELL" <=> recv_window[q][i] = "RECVD_CELL"
      /\ net' \subseteq Packet
      /\ \A m \in net' : m \in net \/ FromEnd(p, m)
  BY <1>1, <1>3, SendAckOK DEF FromEnd
<1> DEFINE ev == events[p] \ {"Send_Ack"}
<1>5. /\ ev \in SUBSET Event
      /\ "Try_to_Send" \in events[p] => "Try_to_Send" \in ev
      /\ "Reliable_timeout" \in ev <=> "Reliable_timeout" \in events[p]
      /\ "Send_Ack" \in ev <=> FALSE
      /\ "Send_Nack_Retransm" \in ev => nack_buff[p] # {}
  BY <1>1 DEF TypeOK, IInv, TimersTracked
<1>6. /\ nack_buff[p] \in SUBSET Msg /\ nack_buff' = [nack_buff EXCEPT ![p] = nack_buff[p]]
      /\ window_size[p] \in 1 .. MAX_WINDOW
      /\ window_size' = [window_size EXCEPT ![p] = window_size[p]]
      /\ window_size[p] <= window_size[p]
      /\ UNCHANGED <<flags, seq_no, head, tail, window, msg_buff, blocked, recvVars,
                     scheduled_timeout, exited>>
  BY <1>1, <1>2, WindowAssumption DEF TypeOK, sendVars
<1> HIDE DEF ev
<1>7. events' = [events EXCEPT ![p] = ev]
  BY <1>2 DEF ev
<1> QED
  BY <1>1, <1>2, <1>4, <1>5, <1>6, <1>7, ResendStep

(* What a retransmission of messages of the window puts on the network. *)
LEMMA ResendOK ==
  ASSUME IInv, NEW p \in Endpoint, NEW ks, ks \subseteq tail[p] .. head[p] - 1,
         SendData(p, ks)
  PROVE  /\ recv_window' \in [Endpoint -> [Index -> {"EMPTY_CELL", "NACK_CELL", "RECVD_CELL"}]]
         /\ \A q \in Endpoint : \A i \in Index :
              recv_window'[q][i] = "RECVD_CELL" <=> recv_window[q][i] = "RECVD_CELL"
         /\ net' \subseteq Packet
         /\ \A m \in net' : m \in net \/ FromEnd(p, m)
<1>1. TypeOK /\ MaxMsgs \in Nat /\ tail[p] \in 0 .. MaxMsgs /\ head[p] \in 0 .. MaxMsgs
  BY BoundAssumption DEF IInv, TypeOK
<1>2. /\ tail[p] .. head[p] - 1 \subseteq Msg
      /\ tail[p] .. head[p] - 1 \subseteq 0 .. head[p] - 1
  BY <1>1 DEF Msg
<1>3. ks \in SUBSET Msg /\ ks \subseteq 0 .. head[p] - 1
  BY <1>2
<1> QED
  BY <1>1, <1>3, SendDataOK DEF FromEnd

(* The shrunk congestion window, and a cancelled ack. *)
LEMMA LossReactionOK ==
  ASSUME IInv, NEW p \in Endpoint, NEW ev \in SUBSET Event, ShrinkWindow(p), CancelAck(p, ev)
  PROVE  /\ \E w \in 1 .. MAX_WINDOW : /\ w <= window_size[p]
                                       /\ window_size' = [window_size EXCEPT ![p] = w]
         /\ scheduled_ack' = [scheduled_ack EXCEPT ![p] = FALSE]
         /\ \E e \in SUBSET Event :
              /\ events' = [events EXCEPT ![p] = e]
              /\ \A f \in Event \ {"Send_Ack"} : f \in e <=> f \in ev
              /\ "Send_Ack" \in e <=> "Send_Ack" \in ev /\ ~scheduled_ack[p]
<1>1. window_size[p] \in 1 .. MAX_WINDOW
  BY DEF IInv, TypeOK
<1>2. PICK w \in (IF TCP_Fairness THEN Minimum_Window .. window_size[p] ELSE {window_size[p]}) :
        window_size' = [window_size EXCEPT ![p] = w]
  BY DEF ShrinkWindow
<1>3. w \in 1 .. MAX_WINDOW /\ w <= window_size[p]
  BY <1>1, <1>2, WindowAssumption, MinimumWindowAssumption
<1> DEFINE e == ev \ (IF scheduled_ack[p] THEN {"Send_Ack"} ELSE {})
<1>4. /\ e \in SUBSET Event
      /\ \A f \in Event \ {"Send_Ack"} : f \in e <=> f \in ev
      /\ "Send_Ack" \in e <=> "Send_Ack" \in ev /\ ~scheduled_ack[p]
  OBVIOUS
<1>5. /\ scheduled_ack' = [scheduled_ack EXCEPT ![p] = FALSE]
      /\ events' = [events EXCEPT ![p] = e]
  BY DEF CancelAck
<1> HIDE DEF e
<1> QED
  BY <1>2, <1>3, <1>4, <1>5

LEMMA TimeoutPreserves ==
  ASSUME IInv, NEW p \in Endpoint, Reliable_timeout(p)
  PROVE  IInv'
<1>a. TypeOK /\ SlotsFilled /\ TimersTracked
  BY DEF IInv
<1>1. /\ "Reliable_timeout" \in events[p] /\ flags[p] = "CONNECTED"
      /\ head[p] > tail[p] /\ head[p] # tail[p] /\ LinkExists(p)
  <2>1. "Reliable_timeout" \in events[p]
    BY DEF Reliable_timeout, Fires
  <2>2. flags[p] = "CONNECTED" /\ head[p] > tail[p]
    BY <1>a, <2>1 DEF TimersTracked
  <2>3. head[p] \in Nat /\ tail[p] \in Nat
    BY <1>a DEF TypeOK
  <2> QED
    BY <2>1, <2>2, <2>3 DEF LinkExists
<1>2. InWindow(p) \subseteq tail[p] .. head[p] - 1 /\ NoBuff \notin InWindow(p)
  <2>1. \A k \in tail[p] .. head[p] - 1 : window[p][Slot(k)] = k
    BY <1>a, <1>1 DEF SlotsFilled
  <2>2. InWindow(p) \subseteq tail[p] .. head[p] - 1
    BY <2>1 DEF InWindow
  <2>3. NoBuff \notin tail[p] .. head[p] - 1
    BY <1>a DEF NoBuff, TypeOK
  <2> QED
    BY <2>2, <2>3
<1>3. /\ ShrinkWindow(p)
      /\ CancelAck(p, events[p])
      /\ SendData(p, InWindow(p))
      /\ UNCHANGED scheduled_timeout
      /\ UNCHANGED <<flags, seq_no, head, tail, window, msg_buff, blocked,
                     recvVars, nack_buff, exited>>
  BY <1>1, <1>2 DEF Reliable_timeout
<1>4. events[p] \in SUBSET Event /\ nack_buff[p] \in SUBSET Msg
  BY <1>a DEF TypeOK
<1>5. PICK w \in 1 .. MAX_WINDOW : /\ w <= window_size[p]
                                   /\ window_size' = [window_size EXCEPT ![p] = w]
  BY <1>3, <1>4, LossReactionOK
<1>6. PICK e \in SUBSET Event :
        /\ events' = [events EXCEPT ![p] = e]
        /\ \A f \in Event \ {"Send_Ack"} : f \in e <=> f \in events[p]
        /\ "Send_Ack" \in e <=> "Send_Ack" \in events[p] /\ ~scheduled_ack[p]
  BY <1>3, <1>4, LossReactionOK
<1>7. /\ scheduled_ack' = [scheduled_ack EXCEPT ![p] = FALSE]
      /\ nack_buff' = [nack_buff EXCEPT ![p] = nack_buff[p]]
  BY <1>a, <1>3, <1>4, LossReactionOK DEF TypeOK
<1>8. /\ "Try_to_Send" \in events[p] => "Try_to_Send" \in e
      /\ "Reliable_timeout" \in e <=> "Reliable_timeout" \in events[p]
      /\ "Send_Ack" \in e <=> FALSE
      /\ "Send_Nack_Retransm" \in e => nack_buff[p] # {}
  BY <1>a, <1>1, <1>6 DEF TimersTracked, Event
<1>9. /\ recv_window' \in [Endpoint -> [Index -> {"EMPTY_CELL", "NACK_CELL", "RECVD_CELL"}]]
      /\ \A q \in Endpoint : \A i \in Index :
           recv_window'[q][i] = "RECVD_CELL" <=> recv_window[q][i] = "RECVD_CELL"
      /\ net' \subseteq Packet
      /\ \A m \in net' : m \in net \/ FromEnd(p, m)
  BY <1>2, <1>3, ResendOK
<1> QED
  BY <1>1, <1>3, <1>4, <1>5, <1>6, <1>7, <1>8, <1>9, ResendStep

LEMMA NackRetransmPreserves ==
  ASSUME IInv, NEW p \in Endpoint, Send_Nack_Retransm(p)
  PROVE  IInv'
<1> DEFINE ev == events[p] \ {"Send_Nack_Retransm"}
<1>a. TypeOK /\ SlotsFilled /\ TimersTracked
  BY DEF IInv
<1>1. /\ "Send_Nack_Retransm" \in events[p] /\ flags[p] = "CONNECTED"
      /\ nack_buff[p] # {} /\ LinkExists(p)
  BY <1>a DEF Send_Nack_Retransm, Fires, TimersTracked, LinkExists
<1>2. NackedInWindow(p) \subseteq tail[p] .. head[p] - 1
  <2>1. \A k \in nack_buff[p] : Slot(k) \in Index
    BY <1>a, SlotInIndex DEF TypeOK, Msg
  <2> QED
    BY <1>a, <1>1, <2>1 DEF SlotsFilled, NackedInWindow
<1>3. /\ UNCHANGED <<flags, seq_no, head, tail, window, msg_buff, blocked, recvVars, exited>>
      /\ nack_buff[p] \in SUBSET Msg /\ {} \in SUBSET Msg /\ ev \in SUBSET Event
      /\ "Send_Nack_Retransm" \notin ev
      /\ scheduled_ack[p] \in BOOLEAN
      /\ window_size[p] \in 1 .. MAX_WINDOW
  BY <1>a, <1>1 DEF Send_Nack_Retransm, TypeOK
<1>4. CASE head[p] = tail[p]
  <2>1. /\ scheduled_timeout' = [scheduled_timeout EXCEPT ![p] = scheduled_timeout[p] /\ nack_buff[p] = {}]
        /\ events' = [events EXCEPT ![p] = ev]
        /\ UNCHANGED <<window_size, nack_buff, scheduled_ack, recv_window, net>>
    BY <1>1, <1>4 DEF Send_Nack_Retransm
  <2>2. ~scheduled_timeout[p]
    <3>1. head[p] \in Nat /\ tail[p] \in Nat
      BY <1>a DEF TypeOK
    <3>2. scheduled_timeout[p] => head[p] > tail[p]
      BY <1>a, <1>1 DEF TimersTracked
    <3> QED
      BY <1>4, <3>1, <3>2
  <2>3. UNCHANGED scheduled_timeout
    BY <1>a, <2>1, <2>2 DEF TypeOK
  <2>4. /\ nack_buff' = [nack_buff EXCEPT ![p] = nack_buff[p]]
        /\ scheduled_ack' = [scheduled_ack EXCEPT ![p] = scheduled_ack[p]]
        /\ window_size' = [window_size EXCEPT ![p] = window_size[p]]
        /\ window_size[p] <= window_size[p]
        /\ recv_window' \in [Endpoint -> [Index -> {"EMPTY_CELL", "NACK_CELL", "RECVD_CELL"}]]
        /\ \A q \in Endpoint : \A i \in Index :
             recv_window'[q][i] = "RECVD_CELL" <=> recv_window[q][i] = "RECVD_CELL"
        /\ net' \subseteq Packet
        /\ \A m \in net' : m \in net \/ FromEnd(p, m)
    BY <1>a, <2>1, WindowAssumption DEF TypeOK
  <2>5. /\ "Try_to_Send" \in events[p] => "Try_to_Send" \in ev
        /\ "Reliable_timeout" \in ev <=> "Reliable_timeout" \in events[p]
        /\ "Send_Ack" \in ev <=> scheduled_ack[p]
        /\ "Send_Nack_Retransm" \in ev => nack_buff[p] # {}
    BY <1>a, <1>1 DEF TimersTracked
  <2> HIDE DEF ev
  <2> QED
    BY <1>1, <1>3, <2>1, <2>3, <2>4, <2>5, ResendStep
<1>5. CASE head[p] # tail[p]
  <2>1. /\ ShrinkWindow(p)
        /\ CancelAck(p, ev)
        /\ SendData(p, NackedInWindow(p))
        /\ nack_buff' = [nack_buff EXCEPT ![p] = {}]
        /\ UNCHANGED scheduled_timeout
    BY <1>1, <1>5 DEF Send_Nack_Retransm
  <2>2. \A f \in Event \ {"Send_Nack_Retransm"} : f \in ev <=> f \in events[p]
    OBVIOUS
  <2> HIDE DEF ev
  <2>3. PICK w \in 1 .. MAX_WINDOW : /\ w <= window_size[p]
                                     /\ window_size' = [window_size EXCEPT ![p] = w]
    BY <1>3, <2>1, LossReactionOK
  <2>4. PICK e \in SUBSET Event :
          /\ events' = [events EXCEPT ![p] = e]
          /\ \A f \in Event \ {"Send_Ack"} : f \in e <=> f \in ev
          /\ "Send_Ack" \in e <=> "Send_Ack" \in ev /\ ~scheduled_ack[p]
    BY <1>3, <2>1, LossReactionOK
  <2>5. scheduled_ack' = [scheduled_ack EXCEPT ![p] = FALSE]
    BY <1>3, <2>1, LossReactionOK
  <2>6. /\ "Try_to_Send" \in events[p] => "Try_to_Send" \in e
        /\ "Reliable_timeout" \in e <=> "Reliable_timeout" \in events[p]
        /\ "Send_Ack" \in e <=> FALSE
        /\ "Send_Nack_Retransm" \notin e
    BY <1>a, <1>1, <1>3, <2>2, <2>4 DEF TimersTracked, Event
  <2>7. /\ recv_window' \in [Endpoint -> [Index -> {"EMPTY_CELL", "NACK_CELL", "RECVD_CELL"}]]
        /\ \A q \in Endpoint : \A i \in Index :
             recv_window'[q][i] = "RECVD_CELL" <=> recv_window[q][i] = "RECVD_CELL"
        /\ net' \subseteq Packet
        /\ \A m \in net' : m \in net \/ FromEnd(p, m)
    BY <1>2, <2>1, ResendOK
  <2> QED
    BY <1>1, <1>3, <2>1, <2>3, <2>4, <2>5, <2>6, <2>7, ResendStep
<1> QED
  BY <1>4, <1>5

-----------------------------------------------------------------------------
(* Receiving a message: no two sequence numbers that can arrive share a     *)
(* cell, so a cell tells which messages have been delivered.                *)

(* recv_tail stops at the first cell that is not received, or at rh. *)
LEMMA NewRecvTailOK ==
  ASSUME NEW p \in Endpoint, recv_tail[p] \in Nat, NEW rh \in Nat, recv_tail[p] <= rh,
         rh <= recv_tail[p] + MAX_WINDOW, NEW rw
  PROVE  LET rt == NewRecvTail(p, rw, rh) IN
         /\ rt \in recv_tail[p] .. rh
         /\ \A k \in recv_tail[p] .. rt - 1 : rw[Slot(k)] = "RECVD_CELL"
<1> DEFINE b == recv_tail[p]
           T == {t \in b .. rh : t = rh \/ rw[Slot(t)] # "RECVD_CELL"}
           S(t) == /\ \A k \in b .. t - 1 : rw[Slot(k)] = "RECVD_CELL"
                   /\ \/ t = rh
                      \/ t = b + MAX_WINDOW
                      \/ rw[Slot(t)] # "RECVD_CELL"
<1>1. T \subseteq Nat /\ rh \in T
  OBVIOUS
<1>2. PICK t \in T : \A y \in T : t <= y
  BY <1>1, SmallestExists
<1>3. t \in b .. rh /\ (t = rh \/ rw[Slot(t)] # "RECVD_CELL")
  BY <1>2
<1>4. ASSUME NEW k \in b .. t - 1 PROVE rw[Slot(k)] = "RECVD_CELL"
  <2>1. k \in b .. rh /\ k < t /\ k \in Nat /\ t \in Nat
    BY <1>3
  <2>2. k \notin T
    <3>1. k \in T => t <= k
      BY <1>2
    <3> HIDE DEF T
    <3> QED
      BY <2>1, <3>1
  <2> QED
    BY <2>1, <2>2
<1>5. S(t)
  BY <1>3, <1>4
<1> HIDE DEF S, T
<1>6. \E u \in b .. rh : S(u)
  BY <1>3, <1>5
<1> DEFINE c == CHOOSE u \in b .. rh : S(u)
<1>7. c \in b .. rh /\ S(c)
  BY <1>6
<1>8. NewRecvTail(p, rw, rh) = c
  BY DEF NewRecvTail, S
<1> QED
  BY <1>7, <1>8 DEF S

LEMMA ReceiveOK ==
  ASSUME IInv, NEW p \in Endpoint, NEW k \in 0 .. head[Peer(p)] - 1,
         k >= recv_tail[p], recv_window[p][Slot(k)] # "RECVD_CELL",
         ReceiveMsg(p, k)
  PROVE  /\ recv_head' \in [Endpoint -> 0 .. MaxMsgs]
         /\ recv_tail' \in [Endpoint -> 0 .. MaxMsgs]
         /\ recv_window' \in [Endpoint -> [Index -> {"EMPTY_CELL", "NACK_CELL", "RECVD_CELL"}]]
         /\ delivered' \in [Endpoint -> [Msg -> Nat]]
         /\ \A q \in Endpoint : /\ recv_tail[q] <= recv_tail'[q]
                                /\ recv_tail'[q] <= recv_head'[q]
                                /\ recv_head'[q] <= head[Peer(q)]
         /\ CellsRecordDeliveries'
<1> DEFINE b == recv_tail[p]
           H == head[Peer(p)]
           rh == Larger(recv_head[p], k + 1)
           rw == [recv_window[p] EXCEPT ![Slot(k)] = "RECVD_CELL"]
           rt == NewRecvTail(p, rw, rh)
           W == MAX_WINDOW
<1>a. TypeOK /\ WindowsAligned /\ CellsRecordDeliveries
  BY DEF IInv
<1>b. Peer(p) \in Endpoint /\ Peer(Peer(p)) = p
  BY Peers
<1>c. /\ b \in Nat /\ H \in 0 .. MaxMsgs /\ recv_head[p] \in 0 .. MaxMsgs /\ MaxMsgs \in Nat
      /\ W \in Nat \ {0} /\ tail[Peer(p)] \in Nat
  BY <1>a, <1>b, BoundAssumption, WindowAssumption DEF TypeOK
<1>d. b <= recv_head[p] /\ recv_head[p] <= H /\ H <= tail[Peer(p)] + W /\ tail[Peer(p)] <= b
  BY <1>a, <1>b DEF WindowsAligned
<1>e. H <= b + W
  BY <1>c, <1>d
<1>f. k \in Nat /\ k \in Msg /\ k < H /\ k \in b .. b + W - 1 /\ Slot(k) \in Index
  BY <1>c, <1>e, SlotInIndex DEF Msg
<1>1. /\ rh \in Nat /\ rh >= recv_head[p] /\ rh >= k + 1 /\ rh <= H /\ rh <= MaxMsgs
      /\ b <= rh /\ rh <= b + W
  BY <1>c, <1>d, <1>e, <1>f DEF Larger
<1>2. /\ rw \in [Index -> {"EMPTY_CELL", "NACK_CELL", "RECVD_CELL"}]
      /\ rw[Slot(k)] = "RECVD_CELL"
      /\ \A i \in Index : i # Slot(k) => rw[i] = recv_window[p][i]
  BY <1>a, <1>f DEF TypeOK
<1>3. /\ recv_head' = [recv_head EXCEPT ![p] = rh]
      /\ recv_tail' = [recv_tail EXCEPT ![p] = rt]
      /\ recv_window' = [recv_window EXCEPT ![p] =
                           [i \in Index |-> IF \E j \in b .. rt - 1 : Slot(j) = i
                                            THEN "EMPTY_CELL" ELSE rw[i]]]
      /\ delivered' = [delivered EXCEPT ![p] = [delivered[p] EXCEPT ![k] = delivered[p][k] + 1]]
  BY DEF ReceiveMsg
<1> HIDE DEF rh, rw
<1>4. rt \in b .. rh /\ \A j \in b .. rt - 1 : rw[Slot(j)] = "RECVD_CELL"
  BY <1>c, <1>1, NewRecvTailOK
<1> HIDE DEF rt
<1>5. rt \in Nat /\ b <= rt /\ rt <= rh /\ rt <= b + W /\ rt <= MaxMsgs
  BY <1>c, <1>1, <1>4
<1>6. /\ recv_head' \in [Endpoint -> 0 .. MaxMsgs] /\ recv_tail' \in [Endpoint -> 0 .. MaxMsgs]
      /\ recv_head'[p] = rh /\ recv_tail'[p] = rt
      /\ \A q \in Endpoint : q # p => recv_head'[q] = recv_head[q] /\ recv_tail'[q] = recv_tail[q]
  <2>1. rh \in 0 .. MaxMsgs /\ rt \in 0 .. MaxMsgs
    BY <1>c, <1>1, <1>5
  <2> QED
    BY <1>a, <1>3, <2>1 DEF TypeOK
<1>7. /\ recv_window' \in [Endpoint -> [Index -> {"EMPTY_CELL", "NACK_CELL", "RECVD_CELL"}]]
      /\ \A q \in Endpoint : q # p => recv_window'[q] = recv_window[q]
      /\ \A i \in Index : recv_window'[p][i] = IF \E j \in b .. rt - 1 : Slot(j) = i
                                                THEN "EMPTY_CELL" ELSE rw[i]
  BY <1>a, <1>2, <1>3 DEF TypeOK
<1>8. /\ delivered' \in [Endpoint -> [Msg -> Nat]]
      /\ \A q \in Endpoint : q # p => delivered'[q] = delivered[q]
      /\ delivered'[p][k] = delivered[p][k] + 1
      /\ \A j \in Msg : j # k => delivered'[p][j] = delivered[p][j]
  <2>1. delivered[p] \in [Msg -> Nat] /\ delivered[p][k] + 1 \in Nat
    BY <1>a, <1>f, SMTT(30) DEF TypeOK
  <2>2. [delivered[p] EXCEPT ![k] = delivered[p][k] + 1] \in [Msg -> Nat]
    BY <2>1
  <2> QED
    BY <1>a, <1>3, <1>f, <2>1, <2>2 DEF TypeOK
<1>9. \A q \in Endpoint : /\ recv_tail[q] <= recv_tail'[q]
                          /\ recv_tail'[q] <= recv_head'[q]
                          /\ recv_head'[q] <= head[Peer(q)]
  <2> SUFFICES ASSUME NEW q \in Endpoint
               PROVE  /\ recv_tail[q] <= recv_tail'[q]
                      /\ recv_tail'[q] <= recv_head'[q]
                      /\ recv_head'[q] <= head[Peer(q)]
    OBVIOUS
  <2>1. CASE q = p
    BY <1>1, <1>5, <1>6, <2>1
  <2>2. CASE q # p
    <3>1. Peer(q) \in Endpoint /\ Peer(Peer(q)) = q
      BY Peers
    <3>2. recv_tail[q] <= recv_head[q] /\ recv_head[q] <= head[Peer(q)] /\ recv_tail[q] \in Nat
      BY <1>a, <3>1 DEF WindowsAligned, TypeOK
    <3> QED
      BY <1>6, <2>2, <3>2
  <2> QED
    BY <2>1, <2>2
<1>10. delivered[p][k] = 0
  BY <1>a, <1>f DEF CellsRecordDeliveries
<1>11. ASSUME NEW j \in Msg
       PROVE  /\ j < rt => delivered'[p][j] = 1
              /\ j >= rh => delivered'[p][j] = 0
              /\ j \in rt .. rt + W - 1 =>
                   delivered'[p][j] = IF recv_window'[p][Slot(j)] = "RECVD_CELL" THEN 1 ELSE 0
  <2>0. /\ j \in Nat /\ Slot(j) \in Index
        /\ j < b => delivered[p][j] = 1
        /\ j >= recv_head[p] => delivered[p][j] = 0
        /\ j \in b .. b + W - 1 =>
             delivered[p][j] = IF recv_window[p][Slot(j)] = "RECVD_CELL" THEN 1 ELSE 0
    BY <1>a, SlotInIndex DEF CellsRecordDeliveries, Msg
  <2>1. delivered'[p][j] = IF j = k THEN 1 ELSE delivered[p][j]
    BY <1>8, <1>10
  <2>2. ASSUME j \in b .. b + W - 1, j # k PROVE rw[Slot(j)] = recv_window[p][Slot(j)]
    <3>1. Slot(j) # Slot(k)
      BY <1>c, <1>f, <2>2, SlotInjectiveFrom
    <3> QED
      BY <1>2, <2>0, <3>1
  <2>3. ASSUME j < rt PROVE delivered'[p][j] = 1
    <3>1. CASE j < b
      BY <1>f, <1>c, <2>0, <2>1, <3>1
    <3>2. CASE j >= b
      <4>1. j \in b .. rt - 1 /\ j \in b .. b + W - 1
        BY <1>c, <1>5, <2>0, <2>3, <3>2
      <4>2. rw[Slot(j)] = "RECVD_CELL"
        BY <1>4, <4>1
      <4> QED
        BY <2>0, <2>1, <2>2, <4>1, <4>2
    <3> QED
      BY <1>c, <2>0, <3>1, <3>2
  <2>4. ASSUME j >= rh PROVE delivered'[p][j] = 0
    <3>1. j >= recv_head[p] /\ j # k
      BY <1>c, <1>f, <1>1, <2>0, <2>4
    <3> QED
      BY <2>0, <2>1, <3>1
  <2>5. ASSUME j \in rt .. rt + W - 1
        PROVE  delivered'[p][j] = IF recv_window'[p][Slot(j)] = "RECVD_CELL" THEN 1 ELSE 0
    <3>1. CASE j < b + W
      <4>1. j \in b .. b + W - 1
        BY <1>c, <1>5, <2>0, <2>5, <3>1
      <4>2. ~ \E i \in b .. rt - 1 : Slot(i) = Slot(j)
        <5> SUFFICES ASSUME NEW i \in b .. rt - 1, Slot(i) = Slot(j) PROVE FALSE
          OBVIOUS
        <5>1. i \in b .. b + W - 1 /\ i < j
          BY <1>c, <1>5, <2>0, <2>5
        <5>2. i = j
          BY <1>c, <4>1, <5>1, SlotInjectiveFrom
        <5> QED
          BY <2>0, <5>1, <5>2
      <4>3. recv_window'[p][Slot(j)] = rw[Slot(j)]
        BY <1>7, <2>0, <4>2
      <4>4. CASE j = k
        BY <1>2, <2>1, <4>3, <4>4
      <4>5. CASE j # k
        BY <2>0, <2>1, <2>2, <4>1, <4>3, <4>5
      <4> QED
        BY <4>4, <4>5
    <3>2. CASE j >= b + W
      <4>1. j - W \in b .. rt - 1 /\ j - W \in Nat
        BY <1>c, <1>5, <2>0, <2>5, <3>2
      <4>2. Slot(j - W) = Slot(j)
        <5>1. Slot((j - W) + MAX_WINDOW) = Slot(j - W)
          BY <4>1, SlotPeriodic
        <5>2. (j - W) + MAX_WINDOW = j
          BY <1>c, <2>0
        <5> QED
          BY <5>1, <5>2
      <4>3. recv_window'[p][Slot(j)] = "EMPTY_CELL"
        BY <1>7, <2>0, <4>1, <4>2
      <4>4. j >= rh
        BY <1>c, <1>1, <2>0, <3>2
      <4> QED
        BY <2>4, <4>3, <4>4
    <3> QED
      BY <1>c, <2>0, <3>1, <3>2
  <2> QED
    BY <2>3, <2>4, <2>5
<1>12. CellsRecordDeliveries'
  <2> SUFFICES ASSUME NEW q \in Endpoint, NEW j \in Msg
               PROVE  /\ j < recv_tail'[q] => delivered'[q][j] = 1
                      /\ j >= recv_head'[q] => delivered'[q][j] = 0
                      /\ j \in recv_tail'[q] .. recv_tail'[q] + MAX_WINDOW - 1 =>
                           delivered'[q][j] = IF recv_window'[q][Slot(j)] = "RECVD_CELL" THEN 1 ELSE 0
    BY DEF CellsRecordDeliveries
  <2>1. CASE q = p
    BY <1>6, <1>11, <2>1
  <2>2. CASE q # p
    <3>1. /\ recv_tail'[q] = recv_tail[q] /\ recv_head'[q] = recv_head[q]
          /\ delivered'[q] = delivered[q] /\ recv_window'[q] = recv_window[q]
      BY <1>6, <1>7, <1>8, <2>2
    <3>2. /\ j < recv_tail[q] => delivered[q][j] = 1
          /\ j >= recv_head[q] => delivered[q][j] = 0
          /\ j \in recv_tail[q] .. recv_tail[q] + MAX_WINDOW - 1 =>
               delivered[q][j] = IF recv_window[q][Slot(j)] = "RECVD_CELL" THEN 1 ELSE 0
      BY <1>a DEF CellsRecordDeliveries
    <3> QED
      BY <3>1, <3>2
  <2> QED
    BY <2>1, <2>2
<1> QED
  BY <1>6, <1>7, <1>8, <1>9, <1>12

-----------------------------------------------------------------------------
(* Process_Ack: a packet acknowledges nothing that its sender has not       *)
(* received, so it never frees a slot too early and never an empty one.     *)

LEMMA NewTailOK ==
  ASSUME IInv, NEW p \in Endpoint, NEW m \in net, m.to = p
  PROVE  /\ ~FromAnotherMovie(p, m)
         /\ NewTail(p, m) \in Nat
         /\ tail[p] <= NewTail(p, m)
         /\ NewTail(p, m) <= recv_tail[Peer(p)]
         /\ NewTail(p, m) <= head[p]
         /\ m.nacks \in SUBSET Msg
<1>1. TypeOK /\ WindowsAligned /\ PacketsGenuine /\ Peer(p) \in Endpoint
  BY Peers DEF IInv
<1>2. /\ m.cummulative_ack \in Nat /\ tail[p] \in Nat /\ head[p] \in Nat
      /\ recv_tail[Peer(p)] \in Nat /\ recv_head[Peer(p)] \in Nat
      /\ m.nacks \in SUBSET Msg
  <2>1. m \in Packet /\ MaxMsgs \in Nat
    BY <1>1, BoundAssumption DEF TypeOK
  <2>2. m.cummulative_ack \in Nat /\ m.nacks \in SUBSET Msg
    BY <2>1 DEF Packet
  <2>3. /\ tail[p] \in Nat /\ head[p] \in Nat
        /\ recv_tail[Peer(p)] \in Nat /\ recv_head[Peer(p)] \in Nat
    BY <1>1 DEF TypeOK
  <2> QED
    BY <2>2, <2>3
<1>3. /\ m.cummulative_ack <= recv_tail[Peer(p)]
      /\ tail[p] <= recv_tail[Peer(p)] /\ recv_tail[Peer(p)] <= recv_head[Peer(p)]
      /\ recv_head[Peer(p)] <= head[p]
  BY <1>1 DEF PacketsGenuine, WindowsAligned
<1>4. ~FromAnotherMovie(p, m)
  BY <1>2, <1>3 DEF FromAnotherMovie
<1>5. NewTail(p, m) = Larger(tail[p], m.cummulative_ack)
  BY <1>4 DEF NewTail
<1> QED
  BY <1>2, <1>3, <1>4, <1>5 DEF Larger

LEMMA FreeAckedOK ==
  ASSUME IInv, NEW p \in Endpoint, LinkExists(p), NEW m \in net, m.to = p, FreeAcked(p, m)
  PROVE  /\ tail' = [tail EXCEPT ![p] = NewTail(p, m)]
         /\ exited' = exited
         /\ window' \in [Endpoint -> [Index -> Msg \cup {NoBuff}]]
         /\ \A q \in Endpoint : q # p => window'[q] = window[q]
         /\ \A k \in NewTail(p, m) .. head[p] - 1 : window'[p][Slot(k)] = k
         /\ \A i \in Index : window'[p][i] # NoBuff =>
              window'[p][i] \in NewTail(p, m) .. head[p] - 1 /\ Slot(window'[p][i]) = i
<1> DEFINE t == tail[p]
           u == NewTail(p, m)
           h == head[p]
           acked == t .. u - 1
<1>a. TypeOK /\ NoAlarmExit /\ WindowsAligned /\ SlotsFilled
  BY DEF IInv
<1>b. /\ t \in Nat /\ u \in Nat /\ h \in Nat /\ t <= u /\ u <= h /\ MAX_WINDOW \in Nat
  BY <1>a, NewTailOK, WindowAssumption DEF TypeOK
<1>c. h <= t + MAX_WINDOW
  BY <1>a DEF WindowsAligned
<1>d. /\ \A k \in t .. h - 1 : window[p][Slot(k)] = k
      /\ \A i \in Index : window[p][i] # NoBuff =>
           window[p][i] \in t .. h - 1 /\ Slot(window[p][i]) = i
  BY <1>a DEF SlotsFilled
<1>1. /\ tail' = [tail EXCEPT ![p] = u]
      /\ window' = [window EXCEPT ![p] =
                      [i \in Index |-> IF \E k \in acked : Slot(k) = i THEN NoBuff ELSE window[p][i]]]
      /\ exited' = [exited EXCEPT ![p] = \E k \in acked : window[p][Slot(k)] = NoBuff]
  BY DEF FreeAcked
<1> HIDE DEF u
<1>2. exited' = exited
  <2>1. ~ \E k \in acked : window[p][Slot(k)] = NoBuff
    BY <1>b, <1>d DEF NoBuff
  <2> QED
    BY <1>a, <1>1, <2>1 DEF NoAlarmExit, TypeOK
<1>3. /\ window' \in [Endpoint -> [Index -> Msg \cup {NoBuff}]]
      /\ \A q \in Endpoint : q # p => window'[q] = window[q]
      /\ \A i \in Index : window'[p][i] = IF \E k \in acked : Slot(k) = i
                                           THEN NoBuff ELSE window[p][i]
  BY <1>a, <1>1 DEF TypeOK
<1>4. ASSUME NEW k \in u .. h - 1 PROVE window'[p][Slot(k)] = k
  <2>1. k \in t .. t + MAX_WINDOW - 1 /\ k \in t .. h - 1 /\ k \in Nat
    BY <1>b, <1>c
  <2>2. ~ \E j \in acked : Slot(j) = Slot(k)
    <3> SUFFICES ASSUME NEW j \in acked, Slot(j) = Slot(k) PROVE FALSE
      OBVIOUS
    <3>1. j \in t .. t + MAX_WINDOW - 1 /\ j < k
      BY <1>b, <1>c, <2>1
    <3>2. j = k
      BY <1>b, <2>1, <3>1, SlotInjectiveFrom
    <3> QED
      BY <2>1, <3>1, <3>2
  <2> QED
    BY <1>3, <1>d, <2>1, <2>2, SlotInIndex
<1>5. ASSUME NEW i \in Index, window'[p][i] # NoBuff
      PROVE  window'[p][i] \in u .. h - 1 /\ Slot(window'[p][i]) = i
  <2>1. ~(\E j \in acked : Slot(j) = i) /\ window'[p][i] = window[p][i]
    BY <1>3, <1>5
  <2>2. window[p][i] \in t .. h - 1 /\ Slot(window[p][i]) = i
    BY <1>5, <1>d, <2>1
  <2>3. window[p][i] \notin acked
    BY <2>1, <2>2
  <2> QED
    BY <1>b, <2>1, <2>2, <2>3
<1> QED
  BY <1>1, <1>2, <1>3, <1>4, <1>5 DEF u

(* The congestion window grows only with acks, which also queue Try_to_Send. *)
LEMMA GrowWindowOK ==
  ASSUME IInv, NEW p \in Endpoint, NEW m \in net, m.to = p, GrowWindow(p, m)
  PROVE  \E w \in 1 .. MAX_WINDOW :
           /\ window_size' = [window_size EXCEPT ![p] = w]
           /\ NewTail(p, m) = tail[p] => w = window_size[p]
<1>1. /\ NewTail(p, m) \in Nat /\ tail[p] <= NewTail(p, m)
      /\ tail[p] \in Nat /\ window_size[p] \in 1 .. MAX_WINDOW /\ MAX_WINDOW \in Nat
  BY NewTailOK, WindowAssumption, SMTT(30) DEF IInv, TypeOK
<1>2. PICK g \in (IF TCP_Fairness /\ msg_buff[p] # << >>
                  THEN 0 .. NewTail(p, m) - tail[p] ELSE {0}) :
        window_size' = [window_size EXCEPT ![p] = Lesser(window_size[p] + g, MAX_WINDOW)]
  BY DEF GrowWindow
<1>3. g \in 0 .. NewTail(p, m) - tail[p]
  BY <1>1, <1>2
<1>4. /\ Lesser(window_size[p] + g, MAX_WINDOW) \in 1 .. MAX_WINDOW
      /\ NewTail(p, m) = tail[p] => Lesser(window_size[p] + g, MAX_WINDOW) = window_size[p]
  BY <1>1, <1>3 DEF Lesser
<1> QED
  BY <1>2, <1>4

(* NACKs are never forgotten while Send_Nack_Retransm is queued. *)
LEMMA KeepNacksOK ==
  ASSUME IInv, NEW p \in Endpoint, NEW m \in net, m.to = p, KeepNacks(p, m)
  PROVE  \E nb \in SUBSET Msg :
           /\ nack_buff' = [nack_buff EXCEPT ![p] = nb]
           /\ nb = {} => nack_buff[p] = {} /\ m.nacks = {}
<1>1. m.nacks \in SUBSET Msg /\ nack_buff[p] \in SUBSET Msg
  BY NewTailOK DEF IInv, TypeOK
<1>2. PICK kept \in (IF nack_buff[p] = {} THEN {m.nacks} ELSE SUBSET m.nacks) :
        nack_buff' = [nack_buff EXCEPT ![p] = nack_buff[p] \cup kept]
  BY DEF KeepNacks
<1>3. kept \subseteq m.nacks /\ (nack_buff[p] = {} => kept = m.nacks)
  BY <1>2
<1>4. /\ nack_buff[p] \cup kept \in SUBSET Msg
      /\ nack_buff[p] \cup kept = {} => nack_buff[p] = {} /\ m.nacks = {}
  BY <1>1, <1>3
<1> QED
  BY <1>2, <1>4

(* The event queue after Process_Ack. *)
LEMMA AckEventsOK ==
  ASSUME IInv, NEW p \in Endpoint, flags[p] = "CONNECTED", NEW m \in net, m.to = p
  PROVE  /\ AckEvents(p, m) \in SUBSET Event
         /\ "Reliable_timeout" \in AckEvents(p, m) <=> head[p] > NewTail(p, m)
         /\ "Send_Ack" \in AckEvents(p, m) <=> "Send_Ack" \in events[p]
         /\ "Send_Nack_Retransm" \in AckEvents(p, m) =>
              "Send_Nack_Retransm" \in events[p] \/ m.nacks # {}
         /\ "Try_to_Send" \in events[p] => "Try_to_Send" \in AckEvents(p, m)
         /\ NewTail(p, m) > tail[p] /\ msg_buff[p] # << >> =>
              "Try_to_Send" \in AckEvents(p, m)
<1> DEFINE nack  == IF m.nacks # {} THEN {"Send_Nack_Retransm"} ELSE {}
           fresh == IF NewTail(p, m) > tail[p] /\ msg_buff[p] # << >> THEN {"Try_to_Send"} ELSE {}
           old   == IF scheduled_timeout[p] THEN {"Reliable_timeout"} ELSE {}
           new   == IF head[p] > NewTail(p, m) THEN {"Reliable_timeout"} ELSE {}
<1>1. AckEvents(p, m) = ((events[p] \cup nack \cup fresh) \ old) \cup new
  BY NewTailOK DEF AckEvents
<1>2. /\ events[p] \in SUBSET Event
      /\ "Reliable_timeout" \in events[p] <=> scheduled_timeout[p]
  BY DEF IInv, TypeOK, TimersTracked
<1> QED
  BY <1>1, <1>2 DEF Event

LEMMA StrictlyMore ==
  ASSUME NEW a \in Nat, NEW b \in Nat, a <= b, a # b PROVE b > a
  OBVIOUS

(* A packet is processed: Process_Ack, then what its message, if any, does  *)
(* to the receive window.                                                   *)
LEMMA PacketStep ==
  ASSUME IInv, NEW p \in Endpoint, flags[p] = "CONNECTED", NEW m \in net, m.to = p,
         Process_Ack(p, m), net' \subseteq net,
         recv_head' \in [Endpoint -> 0 .. MaxMsgs],
         recv_tail' \in [Endpoint -> 0 .. MaxMsgs],
         recv_window' \in [Endpoint -> [Index -> {"EMPTY_CELL", "NACK_CELL", "RECVD_CELL"}]],
         delivered' \in [Endpoint -> [Msg -> Nat]],
         \A q \in Endpoint : /\ recv_tail[q] <= recv_tail'[q]
                             /\ recv_tail'[q] <= recv_head'[q]
                             /\ recv_head'[q] <= head[Peer(q)],
         CellsRecordDeliveries',
         NEW sa \in BOOLEAN, scheduled_ack' = [scheduled_ack EXCEPT ![p] = sa],
         NEW ev \in SUBSET Event, events' = [events EXCEPT ![p] = ev],
         \A f \in Event \ {"Send_Ack"} : f \in ev <=> f \in AckEvents(p, m),
         "Send_Ack" \in ev <=> sa
  PROVE  IInv'
<1> DEFINE u == NewTail(p, m)
<1>a. /\ TypeOK /\ NoAlarmExit /\ WindowsAligned /\ SlotsFilled /\ BacklogContiguous
      /\ PacketsGenuine /\ TimersTracked /\ NothingStuck /\ BlockedOnlyBehindBacklog
  BY DEF IInv
<1>b. /\ Peer(p) \in Endpoint /\ Peer(p) # p /\ Peer(Peer(p)) = p
  BY Peers
<1>c. /\ ~FromAnotherMovie(p, m) /\ u \in Nat /\ tail[p] <= u
      /\ u <= recv_tail[Peer(p)] /\ u <= head[p] /\ LinkExists(p)
  BY NewTailOK DEF LinkExists
<1>d. /\ KeepNacks(p, m) /\ FreeAcked(p, m) /\ GrowWindow(p, m)
      /\ scheduled_timeout' = [scheduled_timeout EXCEPT ![p] = head[p] > u]
      /\ UNCHANGED <<flags, seq_no, head, msg_buff, blocked>>
  BY <1>c DEF Process_Ack
<1>1. /\ tail' = [tail EXCEPT ![p] = u]
      /\ exited' = exited
      /\ window' \in [Endpoint -> [Index -> Msg \cup {NoBuff}]]
      /\ \A q \in Endpoint : q # p => window'[q] = window[q]
      /\ \A k \in u .. head[p] - 1 : window'[p][Slot(k)] = k
      /\ \A i \in Index : window'[p][i] # NoBuff =>
           window'[p][i] \in u .. head[p] - 1 /\ Slot(window'[p][i]) = i
  BY <1>c, <1>d, FreeAckedOK
<1>2. PICK w \in 1 .. MAX_WINDOW :
        /\ window_size' = [window_size EXCEPT ![p] = w]
        /\ u = tail[p] => w = window_size[p]
  <2>1. \E w \in 1 .. MAX_WINDOW : /\ window_size' = [window_size EXCEPT ![p] = w]
                                   /\ NewTail(p, m) = tail[p] => w = window_size[p]
    BY <1>d, GrowWindowOK
  <2> QED
    BY <2>1, Zenon
<1>3. PICK nb \in SUBSET Msg :
        /\ nack_buff' = [nack_buff EXCEPT ![p] = nb]
        /\ nack_buff[p] # {} \/ m.nacks # {} => nb # {}
  <2>1. KeepNacks(p, m)
    BY <1>d
  <2>2. \E nb \in SUBSET Msg : /\ nack_buff' = [nack_buff EXCEPT ![p] = nb]
                               /\ nb = {} => nack_buff[p] = {} /\ m.nacks = {}
    BY <2>1, KeepNacksOK, Zenon
  <2> QED
    BY <2>2, Zenon
<1>4. /\ "Reliable_timeout" \in ev <=> head[p] > u
      /\ "Send_Nack_Retransm" \in ev => nb # {}
      /\ "Try_to_Send" \in events[p] => "Try_to_Send" \in ev
      /\ u > tail[p] /\ msg_buff[p] # << >> => "Try_to_Send" \in ev
  <2>1. "Send_Nack_Retransm" \in events[p] => nack_buff[p] # {}
    BY <1>a DEF TimersTracked
  <2> QED
    BY <1>3, <2>1, AckEventsOK DEF Event
<1> HIDE DEF u
<1>5. /\ tail'[p] = u /\ window_size'[p] = w /\ nack_buff'[p] = nb /\ events'[p] = ev
      /\ scheduled_ack'[p] = sa /\ scheduled_timeout'[p] = (head[p] > u)
      /\ \A q \in Endpoint : q # p => /\ tail'[q] = tail[q] /\ window_size'[q] = window_size[q]
                                     /\ nack_buff'[q] = nack_buff[q] /\ events'[q] = events[q]
                                     /\ scheduled_ack'[q] = scheduled_ack[q]
                                     /\ scheduled_timeout'[q] = scheduled_timeout[q]
  BY <1>a, <1>d, <1>1, <1>2, <1>3 DEF TypeOK
<1>6. TypeOK'
  <2>1. /\ tail' \in [Endpoint -> 0 .. MaxMsgs] /\ net' \subseteq Packet
        /\ window_size' \in [Endpoint -> 1 .. MAX_WINDOW]
        /\ nack_buff' \in [Endpoint -> SUBSET Msg]
        /\ events' \in [Endpoint -> SUBSET Event]
    <3>1. u \in 0 .. MaxMsgs
      <4>1. head[p] \in Nat /\ head[p] <= MaxMsgs /\ MaxMsgs \in Nat
        BY <1>a, BoundAssumption DEF TypeOK
      <4> QED
        BY <1>c, <4>1
    <3> QED
      BY <1>a, <1>1, <1>2, <1>3, <3>1 DEF TypeOK
  <2>2. /\ scheduled_ack' \in [Endpoint -> BOOLEAN] /\ scheduled_timeout' \in [Endpoint -> BOOLEAN]
    BY <1>a, <1>d DEF TypeOK
  <2> QED
    BY <1>a, <1>d, <1>1, <2>1, <2>2 DEF TypeOK
<1>7. NoAlarmExit'
  BY <1>a, <1>1 DEF NoAlarmExit
<1>8. WindowsAligned'
  <2> SUFFICES ASSUME NEW q \in Endpoint
               PROVE  /\ tail'[q] <= recv_tail'[Peer(q)]
                      /\ recv_tail'[Peer(q)] <= recv_head'[Peer(q)]
                      /\ recv_head'[Peer(q)] <= head'[q]
                      /\ head'[q] <= tail'[q] + MAX_WINDOW
                      /\ head'[q] <= seq_no'[q]
    BY DEF WindowsAligned
  <2>1. /\ Peer(q) \in Endpoint /\ Peer(Peer(q)) = q
    BY Peers
  <2>2. /\ recv_tail[Peer(q)] <= recv_tail'[Peer(q)]
        /\ recv_tail'[Peer(q)] <= recv_head'[Peer(q)]
        /\ recv_head'[Peer(q)] <= head[q]
        /\ head'[q] = head[q] /\ seq_no'[q] = seq_no[q]
    BY <1>d, <2>1
  <2>3. /\ tail[q] <= recv_tail[Peer(q)] /\ head[q] <= tail[q] + MAX_WINDOW /\ head[q] <= seq_no[q]
    BY <1>a DEF WindowsAligned
  <2>4. /\ tail[q] \in Nat /\ head[q] \in Nat /\ MAX_WINDOW \in Nat
        /\ recv_tail[Peer(q)] \in Nat /\ recv_tail'[Peer(q)] \in Nat
    BY <1>a, <1>6, <2>1, WindowAssumption DEF TypeOK
  <2>5. tail'[q] \in Nat /\ tail'[q] >= tail[q] /\ tail'[q] <= recv_tail[Peer(q)]
    <3>1. CASE q = p
      BY <1>c, <1>5, <3>1
    <3>2. CASE q # p
      BY <1>5, <2>3, <2>4, <3>2
    <3> QED
      BY <3>1, <3>2
  <2> QED
    BY <2>2, <2>3, <2>4, <2>5
<1>9. SlotsFilled'
  <2> SUFFICES ASSUME NEW q \in Endpoint, LinkExists(q)'
               PROVE  /\ \A k \in tail'[q] .. head'[q] - 1 : window'[q][Slot(k)] = k
                      /\ \A i \in Index : window'[q][i] # NoBuff =>
                           window'[q][i] \in tail'[q] .. head'[q] - 1 /\ Slot(window'[q][i]) = i
    BY DEF SlotsFilled
  <2>1. CASE q = p
    BY <1>d, <1>1, <1>5, <2>1
  <2>2. CASE q # p
    BY <1>a, <1>d, <1>1, <1>5, <2>2, SMTT(30) DEF SlotsFilled, LinkExists
  <2> QED
    BY <2>1, <2>2
<1>10. BacklogContiguous' /\ BlockedOnlyBehindBacklog'
  BY <1>a, <1>d DEF BacklogContiguous, BlockedOnlyBehindBacklog, LinkExists
<1>11. PacketsGenuine'
  <2> SUFFICES ASSUME NEW x \in net'
               PROVE  /\ x.cummulative_ack <= recv_tail'[Peer(x.to)]
                      /\ x.type = "DATA" => x.seq_no \in 0 .. head'[Peer(x.to)] - 1
    BY DEF PacketsGenuine
  <2>1. x \in Packet /\ MaxMsgs \in Nat
    BY <1>a, BoundAssumption DEF TypeOK
  <2>2. Peer(x.to) \in Endpoint /\ x.cummulative_ack \in Nat
    BY <2>1, Peers DEF Packet
  <2>3. recv_tail[Peer(x.to)] \in Nat /\ recv_tail'[Peer(x.to)] \in Nat
    BY <1>a, <1>6, <2>2 DEF TypeOK
  <2>4. /\ x.cummulative_ack <= recv_tail[Peer(x.to)]
        /\ x.type = "DATA" => x.seq_no \in 0 .. head[Peer(x.to)] - 1
    BY <1>a DEF PacketsGenuine
  <2>5. recv_tail[Peer(x.to)] <= recv_tail'[Peer(x.to)]
    BY <2>2
  <2> QED
    BY <1>d, <2>2, <2>3, <2>4, <2>5
<1>12. TimersTracked'
  <2> SUFFICES ASSUME NEW q \in Endpoint
               PROVE  /\ flags'[q] = "CONNECTED" =>
                           /\ "Reliable_timeout" \in events'[q] <=> head'[q] > tail'[q]
                           /\ scheduled_timeout'[q] <=> head'[q] > tail'[q]
                           /\ "Send_Ack" \in events'[q] <=> scheduled_ack'[q]
                           /\ "Send_Nack_Retransm" \in events'[q] => nack_buff'[q] # {}
                      /\ flags'[q] # "CONNECTED" => /\ events'[q] = {}
                                                    /\ ~scheduled_ack'[q]
                                                    /\ ~scheduled_timeout'[q]
                      /\ flags'[q] = "UNAVAILABLE" => head'[q] = 0
    BY DEF TimersTracked
  <2>1. CASE q = p
    BY <1>d, <1>4, <1>5, <2>1
  <2>2. CASE q # p
    <3>1. /\ flags'[q] = flags[q] /\ head'[q] = head[q] /\ tail'[q] = tail[q]
          /\ nack_buff'[q] = nack_buff[q] /\ events'[q] = events[q]
          /\ scheduled_ack'[q] = scheduled_ack[q] /\ scheduled_timeout'[q] = scheduled_timeout[q]
      BY <1>d, <1>5, <2>2
    <3>2. TimersTracked
      BY <1>a
    <3> QED
      BY ONLY <3>1, <3>2, q \in Endpoint DEF TimersTracked
  <2> QED
    BY <2>1, <2>2
<1>13. NothingStuck'
  <2> SUFFICES ASSUME NEW q \in Endpoint, flags'[q] = "CONNECTED", ~exited'[q]
               PROVE  /\ head'[q] > tail'[q] => "Reliable_timeout" \in events'[q]
                      /\ msg_buff'[q] # << >> =>
                           \/ "Try_to_Send" \in events'[q]
                           \/ head'[q] - tail'[q] >= window_size'[q]
    BY DEF NothingStuck
  <2>1. CASE q = p
    <3>1. head'[p] > tail'[p] => "Reliable_timeout" \in events'[p]
      BY <1>d, <1>4, <1>5
    <3>2. msg_buff[p] # << >> => "Try_to_Send" \in events[p] \/ head[p] - tail[p] >= window_size[p]
      BY <1>a, <1>d, <1>1, <2>1 DEF NothingStuck
    <3>3. CASE u = tail[p]
      BY <1>d, <1>2, <1>4, <1>5, <2>1, <3>1, <3>2, <3>3 DEF u
    <3>4. CASE u # tail[p]
      <4>1. u > tail[p]
        <5>1. tail[p] \in Nat
          BY <1>a DEF TypeOK
        <5>2. u \in Nat /\ tail[p] <= u
          BY <1>c
        <5> QED
          BY <3>4, <5>1, <5>2, StrictlyMore
      <4> QED
        BY <1>d, <1>4, <1>5, <2>1, <3>1, <4>1
    <3> QED
      BY <3>3, <3>4
  <2>2. CASE q # p
    BY <1>a, <1>d, <1>1, <1>5, <2>2 DEF NothingStuck
  <2> QED
    BY <2>1, <2>2
<1> QED
  BY <1>6, <1>7, <1>8, <1>9, <1>10, <1>11, <1>12, <1>13 DEF IInv

(* The receive window is left alone. *)
LEMMA NoReceiveOK ==
  ASSUME IInv, UNCHANGED <<recvVars, recv_window>>
  PROVE  /\ recv_head' \in [Endpoint -> 0 .. MaxMsgs]
         /\ recv_tail' \in [Endpoint -> 0 .. MaxMsgs]
         /\ recv_window' \in [Endpoint -> [Index -> {"EMPTY_CELL", "NACK_CELL", "RECVD_CELL"}]]
         /\ delivered' \in [Endpoint -> [Msg -> Nat]]
         /\ \A q \in Endpoint : /\ recv_tail[q] <= recv_tail'[q]
                                /\ recv_tail'[q] <= recv_head'[q]
                                /\ recv_head'[q] <= head[Peer(q)]
         /\ CellsRecordDeliveries'
<1>1. TypeOK /\ WindowsAligned /\ CellsRecordDeliveries
  BY DEF IInv
<1>2. UNCHANGED <<recv_head, recv_tail, delivered, recv_window>>
  BY DEF recvVars
<1>3. \A q \in Endpoint : /\ recv_tail[q] <= recv_tail'[q]
                          /\ recv_tail'[q] <= recv_head'[q]
                          /\ recv_head'[q] <= head[Peer(q)]
  <2> SUFFICES ASSUME NEW q \in Endpoint
               PROVE  /\ recv_tail[q] <= recv_tail[q]
                      /\ recv_tail[q] <= recv_head[q]
                      /\ recv_head[q] <= head[Peer(q)]
    BY <1>2
  <2>1. Peer(q) \in Endpoint /\ Peer(Peer(q)) = q /\ recv_tail[q] \in Nat
    BY <1>1, Peers DEF TypeOK
  <2> QED
    BY <1>1, <2>1 DEF WindowsAligned
<1>4. CellsRecordDeliveries'
  BY <1>1, <1>2 DEF CellsRecordDeliveries
<1> QED
  BY <1>1, <1>2, <1>3, <1>4 DEF TypeOK

(* A packet that arrives before the link is connected, or after it is gone, *)
(* changes nothing but the network.                                         *)
LEMMA FewerPackets ==
  ASSUME IInv, net' \subseteq net,
         UNCHANGED <<flags, sendVars, recvVars, recv_window, nack_buff, timerVars, exited>>
  PROVE  IInv'
<1>a. /\ TypeOK /\ NoAlarmExit /\ WindowsAligned /\ SlotsFilled /\ BacklogContiguous
      /\ PacketsGenuine /\ CellsRecordDeliveries /\ TimersTracked /\ NothingStuck
      /\ BlockedOnlyBehindBacklog
  BY DEF IInv
<1>1. /\ UNCHANGED <<flags, seq_no, head, tail, window, window_size, msg_buff, blocked>>
      /\ UNCHANGED <<recv_head, recv_tail, delivered, recv_window, nack_buff>>
      /\ UNCHANGED <<scheduled_ack, scheduled_timeout, events, exited>>
  BY DEF sendVars, recvVars, timerVars
<1>2. TypeOK'
  BY <1>a, <1>1 DEF TypeOK
<1>3. NoAlarmExit' /\ WindowsAligned' /\ SlotsFilled' /\ BacklogContiguous'
  BY <1>a, <1>1 DEF NoAlarmExit, WindowsAligned, SlotsFilled, BacklogContiguous, LinkExists
<1>4. PacketsGenuine'
  BY <1>a, <1>1 DEF PacketsGenuine
<1>5. CellsRecordDeliveries' /\ TimersTracked' /\ NothingStuck' /\ BlockedOnlyBehindBacklog'
  BY <1>a, <1>1 DEF CellsRecordDeliveries, TimersTracked, NothingStuck,
                    BlockedOnlyBehindBacklog, LinkExists
<1> QED
  BY <1>2, <1>3, <1>4, <1>5 DEF IInv

LEMMA DataPacketPreserves ==
  ASSUME IInv, NEW p \in Endpoint, NEW m \in net, Process_rel_udp_data_packet(p, m)
  PROVE  IInv'
<1>1. m.type = "DATA" /\ m.to = p /\ net' \subseteq net
  BY DEF Process_rel_udp_data_packet, Arrives
<1>2. CASE flags[p] # "CONNECTED"
  <2>1. UNCHANGED <<flags, sendVars, recvVars, recv_window, nack_buff, timerVars, exited>>
    BY <1>2 DEF Process_rel_udp_data_packet
  <2> QED
    BY <1>1, <2>1, FewerPackets
<1>3. CASE flags[p] = "CONNECTED"
  <2> DEFINE ev == AckEvents(p, m) \cup {"Send_Ack"}
  <2>1. /\ Process_Ack(p, m)
        /\ IF Fresh(p, m)
           THEN ReceiveMsg(p, m.seq_no)
           ELSE UNCHANGED <<recvVars, recv_window>>
        /\ scheduled_ack' = [scheduled_ack EXCEPT ![p] = TRUE]
        /\ events' = [events EXCEPT ![p] = ev]
    BY <1>3 DEF Process_rel_udp_data_packet
  <2>2. /\ recv_head' \in [Endpoint -> 0 .. MaxMsgs]
        /\ recv_tail' \in [Endpoint -> 0 .. MaxMsgs]
        /\ recv_window' \in [Endpoint -> [Index -> {"EMPTY_CELL", "NACK_CELL", "RECVD_CELL"}]]
        /\ delivered' \in [Endpoint -> [Msg -> Nat]]
        /\ \A q \in Endpoint : /\ recv_tail[q] <= recv_tail'[q]
                               /\ recv_tail'[q] <= recv_head'[q]
                               /\ recv_head'[q] <= head[Peer(q)]
        /\ CellsRecordDeliveries'
    <3>1. CASE Fresh(p, m)
      <4>1. m.seq_no \in 0 .. head[Peer(p)] - 1
        BY <1>1 DEF IInv, PacketsGenuine
      <4>2. /\ m.seq_no >= recv_tail[p] /\ recv_window[p][Slot(m.seq_no)] # "RECVD_CELL"
            /\ ReceiveMsg(p, m.seq_no)
        BY <2>1, <3>1 DEF Fresh
      <4> QED
        BY <4>1, <4>2, ReceiveOK
    <3>2. CASE ~Fresh(p, m)
      BY <2>1, <3>2, NoReceiveOK
    <3> QED
      BY <3>1, <3>2
  <2>3. /\ ev \in SUBSET Event
        /\ \A f \in Event \ {"Send_Ack"} : f \in ev <=> f \in AckEvents(p, m)
        /\ "Send_Ack" \in ev <=> TRUE
    BY <1>1, <1>3, AckEventsOK DEF Event
  <2> HIDE DEF ev
  <2> QED
    BY <1>1, <1>3, <2>1, <2>2, <2>3, PacketStep
<1> QED
  BY <1>2, <1>3

LEMMA AckPacketPreserves ==
  ASSUME IInv, NEW p \in Endpoint, NEW m \in net, Process_ack_packet(p, m)
  PROVE  IInv'
<1>1. m.to = p /\ net' \subseteq net
  BY DEF Process_ack_packet, Arrives
<1>2. CASE flags[p] # "CONNECTED"
  <2>1. UNCHANGED <<flags, sendVars, recvVars, recv_window, nack_buff, timerVars, exited>>
    BY <1>2 DEF Process_ack_packet
  <2> QED
    BY <1>1, <2>1, FewerPackets
<1>3. CASE flags[p] = "CONNECTED"
  <2> DEFINE ev == AckEvents(p, m)
             sa == scheduled_ack[p]
  <2>1. /\ Process_Ack(p, m)
        /\ events' = [events EXCEPT ![p] = ev]
        /\ UNCHANGED <<recvVars, recv_window, scheduled_ack>>
    BY <1>3 DEF Process_ack_packet
  <2>2. /\ recv_head' \in [Endpoint -> 0 .. MaxMsgs]
        /\ recv_tail' \in [Endpoint -> 0 .. MaxMsgs]
        /\ recv_window' \in [Endpoint -> [Index -> {"EMPTY_CELL", "NACK_CELL", "RECVD_CELL"}]]
        /\ delivered' \in [Endpoint -> [Msg -> Nat]]
        /\ \A q \in Endpoint : /\ recv_tail[q] <= recv_tail'[q]
                               /\ recv_tail'[q] <= recv_head'[q]
                               /\ recv_head'[q] <= head[Peer(q)]
        /\ CellsRecordDeliveries'
    BY <2>1, NoReceiveOK
  <2>3. sa \in BOOLEAN /\ scheduled_ack' = [scheduled_ack EXCEPT ![p] = sa]
    BY <2>1 DEF IInv, TypeOK
  <2>4. "Send_Ack" \in events[p] <=> sa
    BY <1>3 DEF IInv, TimersTracked
  <2>5. /\ ev \in SUBSET Event
        /\ "Send_Ack" \in ev <=> sa
    BY <1>1, <1>3, <2>4, AckEventsOK
  <2>6. \A f \in Event \ {"Send_Ack"} : f \in ev <=> f \in AckEvents(p, m)
    OBVIOUS
  <2> HIDE DEF ev, sa
  <2> QED
    BY <1>1, <1>3, <2>1, <2>2, <2>3, <2>5, <2>6, PacketStep
<1> QED
  BY <1>2, <1>3

-----------------------------------------------------------------------------
(* The life of the link. *)

LEMMA ConnectPreserves ==
  ASSUME IInv, NEW p \in Endpoint, Connect(p)
  PROVE  IInv'
<1>a. /\ TypeOK /\ NoAlarmExit /\ WindowsAligned /\ SlotsFilled /\ BacklogContiguous
      /\ PacketsGenuine /\ CellsRecordDeliveries /\ TimersTracked /\ NothingStuck
      /\ BlockedOnlyBehindBacklog
  BY DEF IInv
<1>1. /\ flags[p] = "UNAVAILABLE"
      /\ flags' = [flags EXCEPT ![p] = "CONNECTED"]
      /\ events' = [events EXCEPT ![p] = events[p] \cup {"Try_to_Send"}]
  BY DEF Connect
<1>2. /\ UNCHANGED <<seq_no, head, tail, window, window_size, msg_buff, blocked>>
      /\ UNCHANGED <<recv_head, recv_tail, delivered>>
      /\ UNCHANGED <<recv_window, nack_buff, scheduled_ack, scheduled_timeout, exited, net>>
  BY DEF Connect, sendVars, recvVars
<1>3. TypeOK'
  BY <1>a, <1>1, <1>2 DEF TypeOK, Event
<1>4. NoAlarmExit' /\ WindowsAligned' /\ PacketsGenuine' /\ CellsRecordDeliveries'
  BY <1>a, <1>2 DEF NoAlarmExit, WindowsAligned, PacketsGenuine, CellsRecordDeliveries
<1>5. /\ \A q \in Endpoint : LinkExists(q)' <=> LinkExists(q)
      /\ \A q \in Endpoint : q # p => flags'[q] = flags[q] /\ events'[q] = events[q]
      /\ events'[p] = {"Try_to_Send"} /\ head[p] = 0 /\ flags'[p] = "CONNECTED"
  BY <1>a, <1>1 DEF TypeOK, LinkExists, TimersTracked
<1>6. SlotsFilled' /\ BacklogContiguous' /\ BlockedOnlyBehindBacklog'
  BY <1>a, <1>2, <1>5 DEF SlotsFilled, BacklogContiguous, BlockedOnlyBehindBacklog
<1>7. tail[p] = 0
  <2>1. Peer(p) \in Endpoint
    BY Peers
  <2> QED
    BY <1>a, <1>5, <2>1 DEF WindowsAligned, TypeOK
<1>8. ~scheduled_timeout[p] /\ ~scheduled_ack[p]
  BY <1>a, <1>1 DEF TimersTracked
<1>9. TimersTracked'
  <2> SUFFICES ASSUME NEW q \in Endpoint
               PROVE  /\ flags'[q] = "CONNECTED" =>
                           /\ "Reliable_timeout" \in events'[q] <=> head'[q] > tail'[q]
                           /\ scheduled_timeout'[q] <=> head'[q] > tail'[q]
                           /\ "Send_Ack" \in events'[q] <=> scheduled_ack'[q]
                           /\ "Send_Nack_Retransm" \in events'[q] => nack_buff'[q] # {}
                      /\ flags'[q] # "CONNECTED" => /\ events'[q] = {}
                                                    /\ ~scheduled_ack'[q]
                                                    /\ ~scheduled_timeout'[q]
                      /\ flags'[q] = "UNAVAILABLE" => head'[q] = 0
    BY DEF TimersTracked
  <2>1. CASE q = p
    BY <1>2, <1>5, <1>7, <1>8, <2>1
  <2>2. CASE q # p
    BY <1>a, <1>2, <1>5, <2>2 DEF TimersTracked
  <2> QED
    BY <2>1, <2>2
<1>10. NothingStuck'
  <2> SUFFICES ASSUME NEW q \in Endpoint, flags'[q] = "CONNECTED", ~exited'[q]
               PROVE  /\ head'[q] > tail'[q] => "Reliable_timeout" \in events'[q]
                      /\ msg_buff'[q] # << >> =>
                           \/ "Try_to_Send" \in events'[q]
                           \/ head'[q] - tail'[q] >= window_size'[q]
    BY DEF NothingStuck
  <2>1. CASE q = p
    BY <1>2, <1>5, <1>7, <2>1
  <2>2. CASE q # p
    BY <1>a, <1>2, <1>5, <2>2 DEF NothingStuck
  <2> QED
    BY <2>1, <2>2
<1> QED
  BY <1>3, <1>4, <1>6, <1>9, <1>10 DEF IInv

(* Destroy_Link finds every queued event through its own bookkeeping. *)
LEMMA DestroyPreserves ==
  ASSUME IInv, NEW p \in Endpoint, Destroy_Link(p)
  PROVE  IInv'
<1>a. /\ TypeOK /\ NoAlarmExit /\ WindowsAligned /\ SlotsFilled /\ BacklogContiguous
      /\ PacketsGenuine /\ CellsRecordDeliveries /\ TimersTracked /\ NothingStuck
      /\ BlockedOnlyBehindBacklog
  BY DEF IInv
<1> DEFINE gone == (  (IF nack_buff[p] # {} THEN {"Send_Nack_Retransm"} ELSE {})
                   \cup (IF scheduled_timeout[p] THEN {"Reliable_timeout"} ELSE {})
                   \cup (IF scheduled_ack[p] THEN {"Send_Ack"} ELSE {})
                   \cup {"Try_to_Send"})
<1>1. /\ flags' = [flags EXCEPT ![p] = "DESTROYED"]
      /\ window' = [window EXCEPT ![p] = [i \in Index |-> NoBuff]]
      /\ msg_buff' = [msg_buff EXCEPT ![p] = << >>]
      /\ nack_buff' = [nack_buff EXCEPT ![p] = {}]
      /\ events' = [events EXCEPT ![p] = events[p] \ gone]
      /\ scheduled_timeout' = [scheduled_timeout EXCEPT ![p] = FALSE]
      /\ scheduled_ack' = [scheduled_ack EXCEPT ![p] = FALSE]
      /\ blocked' = [blocked EXCEPT ![p] = FALSE]
  BY DEF Destroy_Link
<1>2. /\ UNCHANGED <<seq_no, head, tail, window_size, recv_window, exited, net>>
      /\ UNCHANGED <<recv_head, recv_tail, delivered>>
  BY DEF Destroy_Link, recvVars
<1>3. events[p] \ gone = {}
  <2>1. events[p] \subseteq Event
    BY <1>a DEF TypeOK
  <2>2. /\ "Reliable_timeout" \in events[p] => scheduled_timeout[p]
        /\ "Send_Ack" \in events[p] => scheduled_ack[p]
        /\ "Send_Nack_Retransm" \in events[p] => nack_buff[p] # {}
    BY <1>a DEF TimersTracked
  <2> QED
    BY <2>1, <2>2 DEF Event
<1> HIDE DEF gone
<1>4. TypeOK'
  <2>1. << >> \in Seq(Msg)
    OBVIOUS
  <2> QED
    BY <1>a, <1>1, <1>2, <1>3, <2>1 DEF TypeOK
<1>5. /\ flags'[p] = "DESTROYED" /\ events'[p] = {} /\ ~scheduled_timeout'[p]
      /\ ~scheduled_ack'[p] /\ ~blocked'[p]
      /\ \A q \in Endpoint : q # p => /\ flags'[q] = flags[q] /\ window'[q] = window[q]
                                     /\ msg_buff'[q] = msg_buff[q] /\ events'[q] = events[q]
                                     /\ nack_buff'[q] = nack_buff[q] /\ blocked'[q] = blocked[q]
                                     /\ scheduled_timeout'[q] = scheduled_timeout[q]
                                     /\ scheduled_ack'[q] = scheduled_ack[q]
  BY <1>a, <1>1, <1>3 DEF TypeOK
<1>6. NoAlarmExit' /\ WindowsAligned' /\ PacketsGenuine' /\ CellsRecordDeliveries'
  BY <1>a, <1>2 DEF NoAlarmExit, WindowsAligned, PacketsGenuine, CellsRecordDeliveries
<1>7. ASSUME NEW q \in Endpoint, LinkExists(q)' PROVE q # p /\ LinkExists(q)
  BY <1>5, <1>7 DEF LinkExists
<1>8. SlotsFilled'
  BY <1>a, <1>2, <1>5, <1>7 DEF SlotsFilled
<1>9. BacklogContiguous'
  BY <1>a, <1>2, <1>5, <1>7 DEF BacklogContiguous
<1>10. BlockedOnlyBehindBacklog'
  <2>1. ASSUME NEW q \in Endpoint, q # p PROVE LinkExists(q)' <=> LinkExists(q)
    BY <1>5, <2>1 DEF LinkExists
  <2> QED
    BY <1>a, <1>5, <2>1 DEF BlockedOnlyBehindBacklog
<1>11. TimersTracked'
  BY <1>a, <1>2, <1>5 DEF TimersTracked
<1>12. NothingStuck'
  BY <1>a, <1>2, <1>5 DEF NothingStuck
<1> QED
  BY <1>4, <1>6, <1>8, <1>9, <1>10, <1>11, <1>12 DEF IInv

-----------------------------------------------------------------------------
(* The inductive invariant. *)

LEMMA InitIInv ==
  ASSUME Init PROVE IInv
<1>1. TypeOK
  <2>1. << >> \in Seq(Msg)
    OBVIOUS
  <2>2. (IF TCP_Fairness THEN Minimum_Window ELSE MAX_WINDOW) \in 1 .. MAX_WINDOW
    BY WindowAssumption, MinimumWindowAssumption
  <2> QED
    BY <2>1, <2>2, BoundAssumption DEF Init, TypeOK
<1>2. NoAlarmExit /\ TimersTracked /\ NothingStuck /\ BlockedOnlyBehindBacklog /\ PacketsGenuine
  BY DEF Init, NoAlarmExit, TimersTracked, NothingStuck, BlockedOnlyBehindBacklog, PacketsGenuine
<1>3. WindowsAligned
  BY WindowAssumption, Peers DEF Init, WindowsAligned
<1>4. SlotsFilled
  BY DEF Init, SlotsFilled
<1>5. BacklogContiguous
  BY DEF Init, BacklogContiguous
<1>6. CellsRecordDeliveries
  BY SlotInIndex DEF Init, CellsRecordDeliveries, Msg
<1> QED
  BY <1>1, <1>2, <1>3, <1>4, <1>5, <1>6 DEF IInv

(* Every step of either end keeps the invariant. *)
LEMMA NextIInv ==
  ASSUME IInv, [Next]_vars PROVE IInv'
<1>1. CASE UNCHANGED vars
  <2>1. /\ UNCHANGED <<flags, sendVars, recvVars, recv_window, nack_buff, timerVars, exited>>
        /\ net' \subseteq net
    BY <1>1 DEF vars
  <2> QED
    BY <2>1, FewerPackets
<1>2. CASE Next
  <2>1. PICK p \in Endpoint :
          \/ Reliable_Send_Msg(p)
          \/ Timer(p)
          \/ \E m \in net : Process_rel_udp_data_packet(p, m) \/ Process_ack_packet(p, m)
          \/ Connect(p)
          \/ Destroy_Link(p)
    BY <1>2 DEF Next
  <2>2. CASE Reliable_Send_Msg(p)
    BY <2>2, SendMsgPreserves
  <2>3. CASE Timer(p)
    BY <2>3, SendAckPreserves, TimeoutPreserves, NackRetransmPreserves, TrySendPreserves DEF Timer
  <2>4. ASSUME NEW m \in net, Process_rel_udp_data_packet(p, m) PROVE IInv'
    BY <2>4, DataPacketPreserves
  <2>5. ASSUME NEW m \in net, Process_ack_packet(p, m) PROVE IInv'
    BY <2>5, AckPacketPreserves
  <2>6. CASE Connect(p)
    BY <2>6, ConnectPreserves
  <2>7. CASE Destroy_Link(p)
    BY <2>7, DestroyPreserves
  <2> QED
    BY <2>1, <2>2, <2>3, <2>4, <2>5, <2>6, <2>7
<1> QED
  BY <1>1, <1>2

THEOREM Invariance == Spec => []IInv
  BY InitIInv, NextIInv, PTL DEF Spec

(* Every variable of the two ends keeps its type, whatever arrives. *)
THEOREM TypeCorrect == Spec => []TypeOK
<1>1. IInv => TypeOK
  BY DEF IInv
<1> QED
  BY <1>1, Invariance, PTL

(* No Alarm(EXIT) of reliable_datagram.c is reached, for every window size   *)
(* and option: an acknowledged slot is never empty, sequence numbers never   *)
(* go down, and no timer fires on a link that is gone.                       *)
THEOREM NeverExits == Spec => []NoAlarmExit
<1>1. IInv => NoAlarmExit
  BY DEF IInv
<1> QED
  BY <1>1, Invariance, PTL

(* A message is handed to Deliver_and_Forward_Data at most once. *)
THEOREM DeliveredAtMostOnce == Spec => []AtMostOnce
<1>1. IInv => AtMostOnce
  <2> SUFFICES ASSUME IInv, NEW p \in Endpoint, NEW k \in Msg PROVE delivered[p][k] <= 1
    BY DEF AtMostOnce
  <2> DEFINE q == Peer(p)
  <2>1. TypeOK /\ WindowsAligned /\ CellsRecordDeliveries
    BY DEF IInv
  <2>2. q \in Endpoint /\ Peer(q) = p
    BY Peers
  <2>3. /\ recv_tail[p] \in Nat /\ recv_head[p] \in Nat /\ head[q] \in Nat /\ tail[q] \in Nat
        /\ MAX_WINDOW \in Nat /\ k \in Nat
    BY <2>1, <2>2, WindowAssumption DEF TypeOK, Msg
  <2>4. tail[q] <= recv_tail[p] /\ recv_head[p] <= head[q] /\ head[q] <= tail[q] + MAX_WINDOW
    BY <2>1, <2>2 DEF WindowsAligned
  <2> HIDE DEF q
  <2>5. \/ k < recv_tail[p]
        \/ k >= recv_head[p]
        \/ k \in recv_tail[p] .. recv_tail[p] + MAX_WINDOW - 1
    BY <2>3, <2>4
  <2>6. delivered[p][k] = 0 \/ delivered[p][k] = 1
    BY <2>1, <2>5 DEF CellsRecordDeliveries
  <2> QED
    BY <2>6
<1> QED
  BY <1>1, Invariance, PTL

LEMMA NoLossFollows == IInv => NoLoss
<1> SUFFICES ASSUME IInv, NEW p \in Endpoint, NEW k \in 0 .. tail[p] - 1
             PROVE  delivered[Peer(p)][k] = 1
  BY DEF NoLoss
<1>1. TypeOK /\ WindowsAligned /\ CellsRecordDeliveries /\ Peer(p) \in Endpoint
  BY Peers DEF IInv
<1>2. tail[p] \in 0 .. MaxMsgs /\ MaxMsgs \in Nat /\ recv_tail[Peer(p)] \in Nat
  BY <1>1, BoundAssumption DEF TypeOK
<1>3. tail[p] <= recv_tail[Peer(p)]
  BY <1>1 DEF WindowsAligned
<1>4. k \in Msg /\ k < recv_tail[Peer(p)]
  BY <1>2, <1>3 DEF Msg
<1> QED
  BY <1>1, <1>4 DEF CellsRecordDeliveries

(* The sender frees the slot of a message only after its delivery. *)
THEOREM NothingLost == Spec => []NoLoss
  BY NoLossFollows, Invariance, PTL

(* Unacknowledged messages have a timer and a backlog has a reason. *)
THEOREM NeverStuck == Spec => []NothingStuck
<1>1. IInv => NothingStuck
  BY DEF IInv
<1> QED
  BY <1>1, Invariance, PTL

(* Destroy_Link leaves nothing of the link in the event queue. *)
THEOREM NoOrphans == Spec => []NoOrphanEvents
<1>1. IInv => NoOrphanEvents
  BY DEF IInv, TimersTracked, NoOrphanEvents
<1> QED
  BY <1>1, Invariance, PTL

(* Sessions are blocked only behind a backlog that Send_Much will shorten. *)
THEOREM BlockedOnlyWithReason == Spec => []BlockedOnlyBehindBacklog
<1>1. IInv => BlockedOnlyBehindBacklog
  BY DEF IInv
<1> QED
  BY <1>1, Invariance, PTL

-----------------------------------------------------------------------------
(* The refinement of ReliableLink. *)

Open == [q \in Endpoint |-> flags[q] # "DESTROYED"]

LEMMA SamePeer ==
  ASSUME NEW p \in Endpoint PROVE Link!Peer(p) = Peer(p)
<1>1. \A q \in Endpoint : q # p <=> q = Peer(p)
  BY DEF Endpoint, Peer
<1>2. Peer(p) \in Endpoint
  BY Peers
<1> QED
  BY <1>1, <1>2 DEF Link!Peer

(* Steps that the upper layers do not see. *)
LEMMA UnseenStep ==
  ASSUME UNCHANGED <<seq_no, tail, delivered>>, Open' = Open
  PROVE  UNCHANGED Link!lvars
  BY DEF Link!lvars, Open

LEMMA SubmitRefines ==
  ASSUME IInv, NEW p \in Endpoint, Reliable_Send_Msg(p)
  PROVE  Link!LNext
<1>1. /\ LinkExists(p) /\ seq_no[p] < MaxMsgs
      /\ seq_no' = [seq_no EXCEPT ![p] = seq_no[p] + 1]
      /\ UNCHANGED <<flags, tail, delivered>>
  BY DEF Reliable_Send_Msg, recvVars
<1>2. Link!Submit(p)
  BY <1>1 DEF Link!Submit, LinkExists
<1> QED
  BY <1>2 DEF Link!LNext

LEMMA CloseRefines ==
  ASSUME IInv, NEW p \in Endpoint, Destroy_Link(p)
  PROVE  Link!LNext
<1>1. /\ LinkExists(p) /\ flags' = [flags EXCEPT ![p] = "DESTROYED"]
      /\ UNCHANGED <<seq_no, tail, delivered>>
  BY DEF Destroy_Link, recvVars
<1>2. /\ Open[p] /\ Open' = [Open EXCEPT ![p] = FALSE]
  BY <1>1 DEF IInv, TypeOK, LinkExists, Open
<1>3. Link!Close(p)
  BY <1>1, <1>2 DEF Link!Close, Open
<1> QED
  BY <1>3 DEF Link!LNext

(* What a packet frees has been delivered, and what it delivers is new. *)
LEMMA AckRefines ==
  ASSUME IInv, IInv', NEW p \in Endpoint, flags[p] = "CONNECTED",
         tail'[p] \in Nat, tail'[p] >= tail[p], tail' = [tail EXCEPT ![p] = tail'[p]],
         delivered'[Peer(p)] = delivered[Peer(p)], UNCHANGED <<flags, seq_no>>
  PROVE  (\E n \in 1 .. MaxMsgs : Link!Release(p, n)) \/ UNCHANGED tail
<1>0. NoLoss'
  BY NoLossFollows, PTL
<1>1. TypeOK /\ TypeOK' /\ WindowsAligned' /\ NoLoss'
  BY <1>0 DEF IInv
<1>2. /\ tail[p] \in Nat /\ tail'[p] \in 0 .. MaxMsgs /\ MaxMsgs \in Nat
      /\ Peer(p) \in Endpoint
  BY <1>1, BoundAssumption, Peers DEF TypeOK
<1>3. CASE tail'[p] = tail[p]
  BY <1>1, <1>3 DEF TypeOK
<1>4. CASE tail'[p] # tail[p]
  <2> DEFINE n == tail'[p]
  <2>1. n \in 1 .. MaxMsgs /\ tail[p] < n
    BY <1>2, <1>4
  <2>2. n <= seq_no[p]
    <3>1. /\ n <= recv_tail'[Peer(p)] /\ recv_tail'[Peer(p)] <= recv_head'[Peer(p)]
          /\ recv_head'[Peer(p)] <= head'[p] /\ head'[p] <= seq_no'[p]
      BY <1>1 DEF WindowsAligned
    <3>2. /\ recv_tail'[Peer(p)] \in Nat /\ recv_head'[Peer(p)] \in Nat
          /\ head'[p] \in Nat /\ seq_no'[p] \in Nat
      BY <1>1, <1>2 DEF TypeOK
    <3> QED
      BY <2>1, <3>1, <3>2
  <2>3. \A k \in 0 .. n - 1 : delivered[Link!Peer(p)][k] = 1
    BY <1>1, SamePeer DEF NoLoss
  <2>4. tail' = [tail EXCEPT ![p] = n]
    OBVIOUS
  <2> HIDE DEF n
  <2>5. Link!Release(p, n)
    BY <2>1, <2>2, <2>3, <2>4 DEF Link!Release
  <2> QED
    BY <2>1, <2>5
<1> QED
  BY <1>3, <1>4

LEMMA DeliverRefines ==
  ASSUME IInv, NEW p \in Endpoint, flags[p] = "CONNECTED",
         NEW k \in 0 .. head[Peer(p)] - 1,
         k >= recv_tail[p], recv_window[p][Slot(k)] # "RECVD_CELL", ReceiveMsg(p, k)
  PROVE  /\ \E j \in 0 .. MaxMsgs - 1 : Link!Deliver(p, j)
         /\ delivered'[Peer(p)] = delivered[Peer(p)]
<1>1. TypeOK /\ WindowsAligned /\ CellsRecordDeliveries
  BY DEF IInv
<1>2. Peer(p) \in Endpoint /\ Peer(Peer(p)) = p /\ Peer(p) # p
  BY Peers
<1>3. /\ head[Peer(p)] \in Nat /\ head[Peer(p)] <= MaxMsgs /\ seq_no[Peer(p)] \in Nat
      /\ recv_tail[p] \in Nat /\ tail[Peer(p)] \in Nat /\ MaxMsgs \in Nat /\ MAX_WINDOW \in Nat
  BY <1>1, <1>2, BoundAssumption, WindowAssumption DEF TypeOK
<1>4. /\ head[Peer(p)] <= seq_no[Peer(p)] /\ head[Peer(p)] <= tail[Peer(p)] + MAX_WINDOW
      /\ tail[Peer(p)] <= recv_tail[p]
  BY <1>1, <1>2 DEF WindowsAligned
<1>5. k \in Nat /\ k < seq_no[Peer(p)] /\ k \in recv_tail[p] .. recv_tail[p] + MAX_WINDOW - 1
  BY <1>3, <1>4
<1>6. k \in Msg
  BY <1>3 DEF Msg
<1>7. delivered[p][k] = 0
  BY <1>1, <1>5, <1>6 DEF CellsRecordDeliveries
<1>8. delivered' = [delivered EXCEPT ![p] = [delivered[p] EXCEPT ![k] = delivered[p][k] + 1]]
  BY DEF ReceiveMsg
<1>9. Link!Deliver(p, k)
  <2>1. delivered[p][k] + 1 = 1
    BY <1>7
  <2>2. delivered' = [delivered EXCEPT ![p][k] = 1]
    BY <1>8, <2>1
  <2> QED
    BY <1>5, <1>7, <2>2, SamePeer DEF Link!Deliver
<1> QED
  BY <1>1, <1>2, <1>6, <1>8, <1>9 DEF TypeOK, Msg

(* A packet that reaches a connected end is a Receive step. *)
LEMMA ReceiveRefines ==
  ASSUME IInv, IInv', NEW p \in Endpoint, flags[p] = "CONNECTED", NEW m \in net, m.to = p,
         Process_Ack(p, m), delivered'[Peer(p)] = delivered[Peer(p)],
         (\E j \in 0 .. MaxMsgs - 1 : Link!Deliver(p, j)) \/ UNCHANGED delivered
  PROVE  Link!LNext
<1>1. /\ tail' = [tail EXCEPT ![p] = NewTail(p, m)] /\ UNCHANGED <<flags, seq_no>>
  BY DEF Process_Ack, FreeAcked
<1>2. NewTail(p, m) \in Nat /\ tail[p] <= NewTail(p, m)
  BY NewTailOK
<1>3. tail'[p] = NewTail(p, m)
  BY <1>1 DEF IInv, TypeOK
<1>4. (\E n \in 1 .. MaxMsgs : Link!Release(p, n)) \/ UNCHANGED tail
  BY <1>1, <1>2, <1>3, AckRefines
<1>5. Link!Receive(p)
  BY <1>1, <1>4 DEF Link!Receive
<1> QED
  BY <1>5 DEF Link!LNext

LEMMA DataRefines ==
  ASSUME IInv, IInv', NEW p \in Endpoint, NEW m \in net, Process_rel_udp_data_packet(p, m)
  PROVE  Link!LNext \/ UNCHANGED Link!lvars
<1>1. m.type = "DATA" /\ m.to = p
  BY DEF Process_rel_udp_data_packet, Arrives
<1>2. CASE flags[p] # "CONNECTED"
  <2>1. UNCHANGED <<flags, seq_no, tail, delivered>>
    BY <1>2 DEF Process_rel_udp_data_packet, sendVars, recvVars
  <2> QED
    BY <2>1, UnseenStep DEF Open
<1>3. CASE flags[p] = "CONNECTED"
  <2>1. /\ Process_Ack(p, m)
        /\ IF Fresh(p, m) THEN ReceiveMsg(p, m.seq_no) ELSE UNCHANGED <<recvVars, recv_window>>
    BY <1>3 DEF Process_rel_udp_data_packet
  <2>2. CASE Fresh(p, m)
    <3>1. m.seq_no \in 0 .. head[Peer(p)] - 1
      BY <1>1 DEF IInv, PacketsGenuine
    <3>2. /\ m.seq_no >= recv_tail[p] /\ recv_window[p][Slot(m.seq_no)] # "RECVD_CELL"
          /\ ReceiveMsg(p, m.seq_no)
      BY <2>1, <2>2 DEF Fresh
    <3>3. /\ \E j \in 0 .. MaxMsgs - 1 : Link!Deliver(p, j)
          /\ delivered'[Peer(p)] = delivered[Peer(p)]
      BY <1>3, <3>1, <3>2, DeliverRefines
    <3> QED
      BY <1>1, <1>3, <2>1, <3>3, ReceiveRefines
  <2>3. CASE ~Fresh(p, m)
    <3>1. UNCHANGED delivered
      BY <2>1, <2>3 DEF recvVars
    <3> QED
      BY <1>1, <1>3, <2>1, <3>1, ReceiveRefines
  <2> QED
    BY <2>2, <2>3
<1> QED
  BY <1>2, <1>3

LEMMA AckPacketRefines ==
  ASSUME IInv, IInv', NEW p \in Endpoint, NEW m \in net, Process_ack_packet(p, m)
  PROVE  Link!LNext \/ UNCHANGED Link!lvars
<1>1. m.to = p
  BY DEF Process_ack_packet, Arrives
<1>2. CASE flags[p] # "CONNECTED"
  <2>1. UNCHANGED <<flags, seq_no, tail, delivered>>
    BY <1>2 DEF Process_ack_packet, sendVars, recvVars
  <2> QED
    BY <2>1, UnseenStep DEF Open
<1>3. CASE flags[p] = "CONNECTED"
  <2>1. Process_Ack(p, m) /\ UNCHANGED delivered
    BY <1>3 DEF Process_ack_packet, recvVars
  <2> QED
    BY <1>1, <1>3, <2>1, ReceiveRefines
<1> QED
  BY <1>2, <1>3

LEMMA TimerUnseen ==
  ASSUME NEW p \in Endpoint, Timer(p) PROVE UNCHANGED Link!lvars
<1>1. CASE Send_Ack(p)
  BY <1>1, UnseenStep DEF Send_Ack, Alarm_EXIT, sendVars, recvVars, Open
<1>2. CASE Reliable_timeout(p)
  BY <1>2, UnseenStep DEF Reliable_timeout, Alarm_EXIT, sendVars, recvVars, Open
<1>3. CASE Send_Nack_Retransm(p)
  BY <1>3, UnseenStep DEF Send_Nack_Retransm, Alarm_EXIT, sendVars, recvVars, Open
<1>4. CASE Try_to_Send(p)
  <2>1. UNCHANGED <<flags, seq_no, tail, delivered>>
    BY <1>4 DEF Try_to_Send, Send_Much, Alarm_EXIT, sendVars, recvVars
  <2> QED
    BY <2>1, UnseenStep DEF Open
<1> QED
  BY <1>1, <1>2, <1>3, <1>4 DEF Timer

LEMMA ConnectUnseen ==
  ASSUME IInv, NEW p \in Endpoint, Connect(p) PROVE UNCHANGED Link!lvars
<1>1. /\ UNCHANGED <<seq_no, tail, delivered>>
      /\ flags[p] = "UNAVAILABLE" /\ flags' = [flags EXCEPT ![p] = "CONNECTED"]
  BY DEF Connect, sendVars, recvVars
<1>2. Open' = Open
  BY <1>1 DEF IInv, TypeOK, Open
<1> QED
  BY <1>1, <1>2, UnseenStep

LEMMA InitRefines ==
  ASSUME Init PROVE Link!LInit
  BY DEF Init, Link!LInit, Msg

LEMMA StepRefines ==
  ASSUME IInv, IInv', [Next]_vars PROVE [Link!LNext]_(Link!lvars)
<1>1. CASE UNCHANGED vars
  <2>1. UNCHANGED <<flags, seq_no, tail, delivered>>
    BY <1>1 DEF vars, sendVars, recvVars
  <2> QED
    BY <2>1, UnseenStep DEF Open
<1>2. CASE Next
  <2>1. PICK p \in Endpoint :
          \/ Reliable_Send_Msg(p)
          \/ Timer(p)
          \/ \E m \in net : Process_rel_udp_data_packet(p, m) \/ Process_ack_packet(p, m)
          \/ Connect(p)
          \/ Destroy_Link(p)
    BY <1>2 DEF Next
  <2> QED
    BY <2>1, SubmitRefines, TimerUnseen, DataRefines, AckPacketRefines, ConnectUnseen, CloseRefines
<1> QED
  BY <1>1, <1>2

(* What the two ends of a link do with sequence numbers, slots, acks, NACKs  *)
(* and timers amounts, for the layers above, to the abstract reliable link.  *)
THEOREM Refines == Spec => Refinement
<1>1. Spec => []IInv
  BY Invariance
<1> QED
  BY <1>1, InitRefines, StepRefines, PTL DEF Spec, Refinement, Link!LSpec
=============================================================================

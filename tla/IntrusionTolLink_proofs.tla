----------------------- MODULE IntrusionTolLink_proofs ----------------------
(***************************************************************************)
(* Proofs about IntrusionTolLink, for any window, messages of any numbers  *)
(* of packets that fit a window, and any number of restarts and packets in *)
(* flight.                                                                 *)
(*                                                                         *)
(* The handlers take the record of an end to the next one, so most of the  *)
(* argument is about records.  All packets of the dissemination have a     *)
(* place in one stream: packet i of message m is at Before[m - 1] + i.     *)
(* Within one pair of incarnations the numbers of packets differ from      *)
(* their places by a constant k, the packets of all messages before the    *)
(* first one that was sent in this pair: Sender(d, k) says so of the       *)
(* sender's window, Receiver(d, k, ordered) of what the other end has got. *)
(* A pair of incarnations is entered with empty windows at the one end and *)
(* nothing of it in the network, which is what makes k the same for both.  *)
(*                                                                         *)
(* A send may fail at any packet, and with Crypto nothing is sent before   *)
(* the handshake: the number is given all the same, so windows and k do    *)
(* not depend on it.  What does is the reliable timer: Alarmed.            *)
(***************************************************************************)
EXTENDS IntrusionTolLink, FiniteSetTheorems, WellFoundedInduction, TLAPS

-----------------------------------------------------------------------------
(* The inductive invariant. *)

Fields ==
  {"my_inc", "ngbr_inc", "out_tail", "tcp_head", "out_head", "outgoing", "out_digest",
   "out_message", "in_tail", "in_head", "incoming", "aru_digest", "in_frag_idx", "delivered",
   "bad", "count", "cwnd", "ssthresh", "loss", "loss_aru", "bucket", "needed", "queued",
   "wants", "given", "established", "dh_aru", "unsent", "timers", "expired", "fail", "sent"}

(* The packets of the first m messages. *)
Before[m \in 0 .. Len(Frags)] == IF m = 0 THEN 0 ELSE Before[m - 1] + Frags[m]

(* A packet of a message, with number q when numbers and places differ by k. *)
IsPart(m, i) == m \in 1 .. Len(Frags) /\ i \in 1 .. Frags[m]
Placed(c, q, k) == IsPart(c.msg, c.idx) /\ Before[c.msg - 1] + c.idx = q + k

(* The nonces of the first q packets from an end in incarnation i to one in j. *)
Digest(i, j, q) == {<<i, j, x>> : x \in 1 .. q}

(* A packet from an end in incarnation i that takes the other one to be in j. *)
PacketOK(p, i, j, k) ==
  /\ p.type \in {"ACK", "DATA", "PING", "PONG", "DH"} /\ p.inc = i
  /\ IF p.type = "DH" THEN p.aru_inc \in Nat /\ p.aru_inc <= j ELSE p.aru_inc = j
  /\ p.type \in {"ACK", "DATA"} =>
       /\ p.seq \in Nat /\ p.aru \in Nat /\ p.nacks \subseteq Nat
       /\ p.aru_nonce = Digest(j, i, p.aru)
  /\ p.type = "ACK" => p.seq = 0
  /\ p.type = "DATA" => p.seq > 0 /\ p.nonce = <<i, j, p.seq>> /\ Placed(p, p.seq, k)

(* The fields of a record and their types, as far as they matter.            *)
OutCell == [msg : Nat, idx : Nat, nacked : BOOLEAN]
IsEnd(d) == d = [f \in Fields |-> d[f]]
Typed(d) ==
  /\ IsEnd(d)
  /\ d.my_inc \in Nat /\ d.ngbr_inc \in Nat /\ d.cwnd \in Nat
  /\ d.dh_aru \in Nat /\ d.dh_aru <= d.ngbr_inc /\ d.established \in BOOLEAN
  /\ d.given \in 0 .. Len(Frags) /\ d.wants \in 0 .. d.given
  /\ d.out_tail \in Nat /\ d.tcp_head \in Nat /\ d.out_head \in Nat
  /\ d.outgoing \in [Slots -> OutCell] /\ d.out_message \in [msg : Nat, left : Nat]
  /\ d.bucket \in 0 .. BUCKET_CAP /\ d.count \in Nat
  /\ d.queued \in BOOLEAN /\ d.needed \in BOOLEAN

(* The sender's window: the order of its bounds, the places of its packets   *)
(* and the digests of the nonces up to them.                                 *)
OutWindow(d, k) ==
  /\ 1 <= d.out_tail /\ d.out_tail <= d.tcp_head /\ d.tcp_head <= d.out_head
  /\ d.out_head <= d.out_tail + Window
  /\ \A q \in d.out_tail .. d.out_head - 1 : Placed(d.outgoing[q % Window], q, k)
  /\ d.out_digest = [s \in Slots |-> d.out_digest[s]]
  /\ \A q \in d.out_tail - 1 .. d.out_head - 1 :
        q = d.out_head - 1 \/ q >= d.out_tail =>
          d.out_digest[q % Window] = Digest(d.my_inc, d.ngbr_inc, q)

(* h messages were handed to the link; the last of them may still be waiting *)
(* for slots with its last packets.                                          *)
Handed(d, k, h) ==
  /\ h \in 0 .. Len(Frags)
  /\ Before[h] + 1 - d.out_message.left = d.out_head + k
  /\ d.out_message.left > 0 => d.out_message.msg = h /\ h > 0 /\ d.out_message.left <= Frags[h]

Waiting(d) ==
  d.out_message.left > 0 => Full_Link_IT(d) /\ d.out_message.left < Frags[d.out_message.msg]

Sent(d, k) == \A p \in d.sent : PacketOK(p, d.my_inc, d.ngbr_inc, k)

Sender(d, k) == OutWindow(d, k) /\ Handed(d, k, d.given - d.wants) /\ Waiting(d)

(* The receiver's window. *)
Cell(d, s, k) ==
  d.incoming[s].flags = "RECVD" =>
    \E q \in d.in_tail .. d.in_head - 1 :
       /\ q % Window = s
       /\ d.incoming[s].nonce = <<d.ngbr_inc, d.my_inc, q>>
       /\ Placed(d.incoming[s], q, k)

InWindow(d, k) ==
  /\ d.in_tail \in Nat /\ d.in_head \in Nat /\ 1 <= d.in_tail /\ d.in_tail <= d.in_head
  /\ d.in_head <= d.in_tail + Window
  /\ d.incoming = [s \in Slots |-> d.incoming[s]]
  /\ d.aru_digest = Digest(d.ngbr_inc, d.my_inc, d.in_tail - 1)
  /\ \A s \in Slots : Cell(d, s, k)

(* m messages are complete up to in_tail, and what was delivered is these    *)
(* or, without ordered delivery, messages of one packet further on.          *)
Built(d, m, k) ==
  /\ d.in_frag_idx \in Nat \ {0} /\ Before[m] + d.in_frag_idx = d.in_tail + k
  /\ IF m = Len(Frags) THEN d.in_frag_idx = 1 ELSE d.in_frag_idx <= Frags[m + 1]
  /\ d.bad = FALSE /\ d.delivered \in Seq(Nat)

Early(d, x) ==
  Frags[x] = 1 /\ \E s \in Slots : d.incoming[s].flags = "RECVD" /\ d.incoming[s].msg = x

Delivered(d, m, ordered) ==
  LET s == d.delivered
  IN  IF ordered THEN \A j \in 1 .. Len(s) : s[j] = m - Len(s) + j
      ELSE /\ \A i, j \in 1 .. Len(s) : s[i] = s[j] => i = j
           /\ \A j \in 1 .. Len(s) : s[j] <= m \/ Early(d, s[j])

Receiver(d, k, ordered) ==
  /\ InWindow(d, k)
  /\ \E m \in 0 .. Len(Frags) : Built(d, m, k) /\ Delivered(d, m, ordered)

NothingIn(d) ==
  /\ d.in_tail = 1 /\ d.in_head = 1 /\ d.incoming = [s \in Slots |-> Empty]
  /\ d.aru_digest = {} /\ d.in_frag_idx = 1 /\ d.delivered = << >> /\ d.bad = FALSE

(* What NothingForgotten rests on. *)
Alarmed(d) ==
  \/ "Reliable" \in d.timers
  \/ ~d.established
  \/ d.out_tail .. d.tcp_head - 1 \subseteq d.unsent
Answers(d) == "Ack" \in d.timers \/ d.count = Msg_Per_SAA - 1
Filled(d)  == d.bucket < BUCKET_CAP => "Fill" \in d.timers
Served(d)  == d.queued => Full_Link_IT(d) \/ (d.needed /\ d.bucket < BUCKET_CAP)
Timers(d)  == Alarmed(d) /\ Answers(d) /\ Filled(d) /\ Served(d)

(* End n sends to end o: packets of earlier incarnations only get older.     *)
Older(n, p) ==
  /\ p.inc \in Nat /\ p.inc <= end[n].my_inc
  /\ p.inc = end[n].my_inc => p.aru_inc <= end[n].ngbr_inc

Heard(n, o) ==
  /\ end[o].ngbr_inc <= end[n].my_inc
  /\ end[o].ngbr_inc = end[n].my_inc /\ end[o].my_inc > end[n].ngbr_inc => NothingIn(end[o])

(* Everything of the pair of incarnations i of n and j of o agrees on k. *)
Agree(n, o, i, j, k) ==
  /\ \A m \in net : m.to = o /\ m.pkt.inc = i /\ m.pkt.aru_inc = j => PacketOK(m.pkt, i, j, k)
  /\ end[n].my_inc = i /\ end[n].ngbr_inc = j => Sender(end[n], k)
  /\ end[o].my_inc = j /\ end[o].ngbr_inc = i => Receiver(end[o], k, conf.ordered)

IsStart(k) == \E m \in 0 .. Len(Frags) : k = Before[m]

EndInv ==
  /\ conf \in Configurations
  /\ end = [n \in End |-> end[n]]
  /\ \A n \in End : Typed(end[n]) /\ Timers(end[n]) /\ end[n].sent = {}

NetInv == \A m \in net : m.to \in End /\ m.pkt.inc \in Nat /\ m.pkt.aru_inc \in Nat

PairInv(n, o) ==
  /\ \A m \in net : m.to = o => Older(n, m.pkt)
  /\ Heard(n, o)
  /\ \A i, j \in Nat : \E k \in Nat : IsStart(k) /\ Agree(n, o, i, j, k)

LinkInv ==
  /\ EndInv
  /\ NetInv
  /\ \A n, o \in End : n # o => PairInv(n, o)

-----------------------------------------------------------------------------
(* Numbers and iteration. *)

LEMMA LeastExists ==
  ASSUME NEW T, T \subseteq Nat, T # {}
  PROVE  \E x \in T : \A y \in T : x <= y
<1> DEFINE R == {ss \in Nat \X Nat : ss[1] < ss[2]}
<1>1. IsWellFoundedOn(R, Nat)
  BY NatLessThanWellFounded, Zenon DEF OpToRel
<1> HIDE DEF R
<1>2. PICK x \in T : \A y \in T : ~ (<<y, x>> \in R)
  BY <1>1, WFMin
<1>3. ASSUME NEW y \in T PROVE x <= y
  <2>1. y < x => <<y, x>> \in R
    BY DEF R
  <2> QED
    BY <1>2, <2>1
<1> QED
  BY <1>3

LEMMA WindowIs == Window \in Nat \ {0} /\ Window \in Nat /\ Window > 0
  BY SizeAssumption

LEMMA MultipleAtLeast ==
  ASSUME NEW w \in Nat \ {0}, NEW k \in Int, k >= 1 PROVE w * k >= w
  OBVIOUS

LEMMA ModInjective ==
  ASSUME NEW w \in Nat \ {0}, NEW a \in Nat, NEW b \in Nat,
         a <= b, b < a + w, a % w = b % w
  PROVE  a = b
<1> DEFINE x == a \div w
           y == b \div w
<1>1. a = w * x + (a % w) /\ b = w * y + (b % w) /\ x \in Nat /\ y \in Nat
  OBVIOUS
<1>2. b - a = w * (y - x)
  BY <1>1
<1>3. CASE y - x >= 1
  BY <1>1, <1>2, <1>3, MultipleAtLeast
<1>4. CASE y - x <= -1
  <2>1. w * (x - y) >= w
    BY <1>1, <1>4, MultipleAtLeast
  <2>2. w * (y - x) = -(w * (x - y))
    BY <1>1
  <2> QED
    BY <1>1, <1>2, <2>1, <2>2
<1>5. CASE y = x
  BY <1>1, <1>5
<1> QED
  BY <1>1, <1>3, <1>4, <1>5

(* Numbers less than a window apart have slots of their own. *)
LEMMA SlotInjective ==
  ASSUME NEW a \in Nat, NEW b \in Nat, a % Window = b % Window,
         a < b + Window, b < a + Window
  PROVE  a = b
<1>1. CASE a <= b
  BY <1>1, ModInjective, WindowIs
<1>2. CASE b <= a
  BY <1>2, ModInjective, WindowIs
<1> QED
  BY <1>1, <1>2

LEMMA SlotIs ==
  ASSUME NEW a \in Nat PROVE a % Window \in Slots
  BY WindowIs DEF Slots

(* A property of the first element that every step keeps holds of all. *)
LEMMA AllReached ==
  ASSUME NEW N \in Nat, NEW R, NEW f, f[0] \in R,
         \A i \in 1 .. N : f[i - 1] \in R => f[i] \in R
  PROVE  \A i \in 0 .. N : f[i] \in R
<1> DEFINE T == {i \in 0 .. N : f[i] \notin R}
<1> SUFFICES ASSUME T # {} PROVE FALSE
  OBVIOUS
<1>1. T \subseteq Nat
  OBVIOUS
<1>2. PICK x \in T : \A y \in T : x <= y
  BY <1>1, LeastExists
<1>3. x \in 1 .. N /\ x - 1 \in 0 .. N /\ x - 1 \notin T
  BY <1>2
<1> QED
  BY <1>2, <1>3

(* The values of a loop exist. *)
Loop(n, R, x0, G, f) ==
  f \in [0 .. n -> R] /\ f[0] = x0 /\ \A i \in 1 .. n : f[i] = G[i][f[i - 1]]

LEMMA Iterates ==
  ASSUME NEW N, N \in Nat, NEW R, NEW x0, x0 \in R, NEW G, G \in [1 .. N -> [R -> R]]
  PROVE  \E f : Loop(N, R, x0, G, f)
<1> DEFINE T == {n \in 0 .. N : ~ \E f : Loop(n, R, x0, G, f)}
<1> SUFFICES ASSUME T # {} PROVE FALSE
  <2>1. N \in 0 .. N
    OBVIOUS
  <2> QED
    BY <2>1
<1>1. T \subseteq Nat
  OBVIOUS
<1>2. PICK b \in T : \A y \in T : b <= y
  BY <1>1, LeastExists
<1>3. b \in 0 .. N /\ ~ \E f : Loop(b, R, x0, G, f)
  BY <1>2
<1>4. b # 0
  <2> DEFINE f == [i \in 0 .. 0 |-> x0]
  <2>1. Loop(0, R, x0, G, f)
    BY DEF Loop
  <2> QED
    BY <1>3, <2>1
<1>5. b - 1 \in 0 .. N /\ b - 1 \notin T
  BY <1>2, <1>3, <1>4
<1>6. PICK g : Loop(b - 1, R, x0, G, g)
  BY <1>5
<1> DEFINE f == [i \in 0 .. b |-> IF i = b THEN G[b][g[b - 1]] ELSE g[i]]
<1>7. b \in 1 .. N /\ g[b - 1] \in R /\ G[b] \in [R -> R] /\ G[b][g[b - 1]] \in R
  BY <1>3, <1>4, <1>6 DEF Loop
<1>8. \A i \in 0 .. b : f[i] \in R
  BY <1>3, <1>6, <1>7 DEF Loop
<1>9. f[0] = x0
  BY <1>3, <1>4, <1>6 DEF Loop
<1>10. ASSUME NEW i \in 1 .. b PROVE f[i] = G[i][f[i - 1]]
  <2>1. i - 1 \in 0 .. b /\ i - 1 # b /\ f[i - 1] = g[i - 1]
    BY <1>3
  <2>2. CASE i = b
    BY <2>1, <2>2
  <2>3. CASE i # b
    <3>1. i \in 1 .. b - 1 /\ f[i] = g[i]
      BY <1>3, <2>3
    <3> QED
      BY <1>6, <2>1, <3>1 DEF Loop
  <2> QED
    BY <2>2, <2>3
<1>11. Loop(b, R, x0, G, f)
  BY <1>8, <1>9, <1>10 DEF Loop
<1> QED
  BY <1>3, <1>11

-----------------------------------------------------------------------------
(* Places in the stream of packets. *)

LEMMA FragsAre ==
  /\ Len(Frags) \in Nat
  /\ \A m \in 1 .. Len(Frags) : Frags[m] \in Nat /\ Frags[m] >= 1 /\ Frags[m] <= Window
  BY MessageAssumption, WindowIs

LEMMA BeforeIs ==
  /\ Before \in [0 .. Len(Frags) -> Nat]
  /\ Before[0] = 0
  /\ \A m \in 1 .. Len(Frags) : Before[m] = Before[m - 1] + Frags[m]
<1> DEFINE N == Len(Frags)
           G == [i \in 1 .. N |-> [x \in Nat |-> x + Frags[i]]]
           F(f) == [m \in 0 .. Len(Frags) |-> IF m = 0 THEN 0 ELSE f[m - 1] + Frags[m]]
<1>1. N \in Nat /\ \A i \in 1 .. N : Frags[i] \in Nat
  BY FragsAre
<1>2. G \in [1 .. N -> [Nat -> Nat]]
  BY <1>1
<1>3. PICK f \in [0 .. N -> Nat] : f[0] = 0 /\ \A i \in 1 .. N : f[i] = G[i][f[i - 1]]
  <2> DEFINE R == Nat
             z == 0
  <2>1. z \in R /\ G \in [1 .. N -> [R -> R]]
    BY <1>2
  <2>2. N \in Nat
    BY <1>1
  <2> HIDE DEF G, N, R, z
  <2>3. \E f : Loop(N, R, z, G, f)
    BY <2>1, <2>2, Iterates
  <2> QED
    BY <2>3 DEF R, z, Loop
<1>4. ASSUME NEW i \in 1 .. N PROVE f[i] = f[i - 1] + Frags[i]
  <2>1. i - 1 \in 0 .. N
    BY <1>1
  <2>2. f[i - 1] \in Nat
    BY <2>1
  <2>3. G[i][f[i - 1]] = f[i - 1] + Frags[i]
    BY <2>2
  <2> QED
    BY <1>3, <2>3
<1>5. f = F(f)
  BY <1>1, <1>3, <1>4
<1>6. Before = CHOOSE g : g = F(g)
  BY Zenon DEF Before
<1>7. Before = F(Before)
  <2> HIDE DEF F
  <2> QED
    BY <1>5, <1>6
<1>8. Before[0] = 0 /\ \A m \in 1 .. N : Before[m] = Before[m - 1] + Frags[m]
  BY <1>1, <1>7
<1>9. \A i \in 1 .. N : Before[i - 1] \in Nat => Before[i] \in Nat
  BY <1>1, <1>8
<1>10. \A i \in 0 .. N : Before[i] \in Nat
  <2> DEFINE R == Nat
  <2>1. Before[0] \in R /\ \A i \in 1 .. N : Before[i - 1] \in R => Before[i] \in R
    BY <1>8, <1>9
  <2> HIDE DEF N, R
  <2>2. \A i \in 0 .. N : Before[i] \in R
    BY <1>1, <2>1, AllReached
  <2> QED
    BY <2>2 DEF R
<1>11. Before \in [0 .. Len(Frags) -> Nat]
  BY <1>7, <1>10
<1> QED
  BY <1>8, <1>11

(* What comes before grows from message to message. *)
LEMMA BeforeGrows ==
  ASSUME NEW a \in 0 .. Len(Frags), NEW b \in 0 .. Len(Frags), a <= b
  PROVE  Before[a] <= Before[b]
<1> DEFINE f == [i \in 0 .. Len(Frags) - a |-> a + i]
           R == {x \in a .. Len(Frags) : Before[a] <= Before[x]}
           N == Len(Frags) - a
<1>1. N \in Nat /\ a \in Nat /\ Len(Frags) \in Nat
  BY FragsAre
<1>2. f[0] \in R
  BY <1>1, BeforeIs
<1>3. ASSUME NEW i \in 1 .. N, f[i - 1] \in R PROVE f[i] \in R
  <2>1. i - 1 \in 0 .. N /\ i \in 0 .. N /\ f[i - 1] = a + i - 1 /\ f[i] = a + i
    BY <1>1
  <2>2. a + i \in 1 .. Len(Frags) /\ a + i - 1 \in 0 .. Len(Frags)
    BY <1>1
  <2> DEFINE j == a + i
  <2>3. j \in 1 .. Len(Frags) /\ j - 1 \in 0 .. Len(Frags) /\ f[i - 1] = j - 1 /\ f[i] = j /\ j \in a .. Len(Frags)
    BY <1>1, <2>1, <2>2
  <2> HIDE DEF j, f
  <2>4. Before[j] = Before[j - 1] + Frags[j] /\ Before[j - 1] \in Nat /\ Before[a] \in Nat /\ Frags[j] \in Nat
    BY <2>3, BeforeIs, FragsAre
  <2>5. Before[a] <= Before[j - 1]
    BY <1>3, <2>3
  <2>6. Before[a] <= Before[j]
    BY <2>4, <2>5
  <2> QED
    BY <2>3, <2>6
<1>4. \A i \in 0 .. N : f[i] \in R
  <2> HIDE DEF f, R, N
  <2> QED
    BY <1>1, <1>2, <1>3, AllReached
<1>5. b - a \in 0 .. N /\ f[b - a] = b
  BY <1>1
<1> QED
  BY <1>4, <1>5

(* A place belongs to one packet: m messages and i packets of the next.      *)
LEMMA PlaceIsUnique ==
  ASSUME NEW m, NEW i, IsPart(m, i), NEW a \in 0 .. Len(Frags), NEW x \in Nat, x >= 1,
         a < Len(Frags) => x <= Frags[a + 1],
         Before[m - 1] + i = Before[a] + x
  PROVE  m = a + 1 /\ i = x
<1>1. /\ m \in 1 .. Len(Frags) /\ i \in 1 .. Frags[m] /\ Frags[m] \in Nat /\ Len(Frags) \in Nat
      /\ m - 1 \in 0 .. Len(Frags) /\ m \in 0 .. Len(Frags)
  BY FragsAre DEF IsPart
<1>2. Before[m] = Before[m - 1] + Frags[m] /\ Before[m - 1] \in Nat /\ Before[m] \in Nat /\ Before[a] \in Nat
  BY <1>1, BeforeIs
<1>3. CASE m <= a
  <2>1. Before[m] <= Before[a]
    BY <1>1, <1>3, BeforeGrows
  <2> QED
    BY <1>1, <1>2, <2>1, SMTT(60)
<1>4. CASE m > a + 1
  <2>1. a + 1 \in 1 .. Len(Frags) /\ a + 1 \in 0 .. Len(Frags) /\ a + 1 <= m - 1
    BY <1>1, <1>4
  <2>2. Before[a + 1] <= Before[m - 1]
    BY <1>1, <2>1, BeforeGrows
  <2>3. a < Len(Frags)
    BY <1>1, <2>1
  <2>4. Before[a + 1] = Before[a] + Frags[a + 1] /\ Frags[a + 1] \in Nat /\ x <= Frags[a + 1]
    <3>1. a + 1 - 1 = a
      OBVIOUS
    <3> QED
      BY <2>1, <2>3, <3>1, BeforeIs, FragsAre
  <2>5. Before[a + 1] \in Nat
    BY <2>1, BeforeIs
  <2>6. Before[a] + x <= Before[m - 1]
    BY <1>2, <2>2, <2>4, <2>5, SMTT(60)
  <2>7. i \in Nat /\ i >= 1
    BY <1>1
  <2> QED
    BY <1>2, <2>6, <2>7
<1> QED
  BY <1>1, <1>2, <1>3, <1>4, SMTT(60)

(* Two cells with the same number hold the same packet. *)
LEMMA SamePlace ==
  ASSUME NEW c, NEW e, NEW p, NEW q, NEW k, Placed(c, p, k), Placed(e, q, k),
         p \in Nat, q \in Nat, k \in Nat, c.msg = e.msg, c.idx = e.idx
  PROVE  p = q
<1>1. /\ Before[c.msg - 1] + c.idx = p + k /\ Before[c.msg - 1] + c.idx = q + k
  BY DEF Placed
<1> QED
  BY <1>1

-----------------------------------------------------------------------------
(* Records: what an operation leaves alone. *)

Keeps(d, e) ==
  /\ e.my_inc = d.my_inc /\ e.ngbr_inc = d.ngbr_inc /\ e.given = d.given
  /\ e.in_tail = d.in_tail /\ e.in_head = d.in_head /\ e.incoming = d.incoming
  /\ e.aru_digest = d.aru_digest /\ e.in_frag_idx = d.in_frag_idx
  /\ e.delivered = d.delivered /\ e.bad = d.bad
  /\ e.established = d.established /\ e.dh_aru = d.dh_aru
  /\ d.timers \subseteq e.timers
  /\ "Reliable" \in e.timers \/ d.unsent \subseteq e.unsent
  /\ Answers(d) => Answers(e)

SameJob(d, e) ==
  /\ e.wants = d.wants /\ e.bucket = d.bucket /\ e.queued = d.queued /\ e.needed = d.needed

SameOut(d, e) ==
  /\ e.out_tail = d.out_tail /\ e.tcp_head = d.tcp_head /\ e.out_head = d.out_head
  /\ e.outgoing = d.outgoing /\ e.out_digest = d.out_digest /\ e.out_message = d.out_message

(* The digest that an end acknowledges with. *)
Mail(d) ==
  /\ d.in_tail \in Nat /\ d.in_tail >= 1 /\ d.in_head \in Nat
  /\ d.aru_digest = Digest(d.ngbr_inc, d.my_inc, d.in_tail - 1)

SendOK(d, k, h) == Typed(d) /\ Mail(d) /\ OutWindow(d, k) /\ Handed(d, k, h) /\ Sent(d, k)

LEMMA KeepsTransitive ==
  ASSUME NEW d, NEW e, NEW f, Keeps(d, e), Keeps(e, f)
  PROVE  Keeps(d, f)
<1>1. d.timers \subseteq f.timers
  BY DEF Keeps
<1>2. Answers(d) => Answers(f)
  BY DEF Keeps
<1> QED
  BY <1>1, <1>2 DEF Keeps

LEMMA KeepsAlarmed ==
  ASSUME NEW d, NEW e, Keeps(d, e), Alarmed(d),
         e.out_tail .. e.tcp_head - 1 \subseteq d.out_tail .. d.tcp_head - 1
  PROVE  Alarmed(e)
<1>1. d.timers \subseteq e.timers /\ ("Reliable" \in e.timers \/ d.unsent \subseteq e.unsent)
      /\ e.established = d.established
  BY DEF Keeps
<1> QED
  BY <1>1 DEF Alarmed

LEMMA KeepsReflexive ==
  ASSUME NEW d PROVE Keeps(d, d)
  BY DEF Keeps

LEMMA SameOutWindow ==
  ASSUME NEW d, NEW e, NEW k, OutWindow(d, k), SameOut(d, e),
         e.my_inc = d.my_inc, e.ngbr_inc = d.ngbr_inc
  PROVE  OutWindow(e, k)
  BY DEF OutWindow, SameOut

LEMMA KeepsMail ==
  ASSUME NEW d, NEW e, Mail(d), Keeps(d, e) PROVE Mail(e)
  BY DEF Mail, Keeps

-----------------------------------------------------------------------------
(* Packets. *)

LEMMA DataOK ==
  ASSUME NEW d, NEW k \in Nat, NEW q \in Nat, NEW N, N \subseteq Nat,
         Typed(d), Mail(d), q > 0, Placed(d.outgoing[q % Window], q, k)
  PROVE  PacketOK(Data(d, q, N), d.my_inc, d.ngbr_inc, k)
<1> DEFINE p == Data(d, q, N)
<1>1. /\ p.type = "DATA" /\ p.seq = q /\ p.nonce = Nonce(d, q) /\ p.aru = d.in_tail - 1
      /\ p.msg = d.outgoing[q % Window].msg /\ p.idx = d.outgoing[q % Window].idx
      /\ p.aru_nonce = d.aru_digest /\ p.inc = d.my_inc /\ p.aru_inc = d.ngbr_inc /\ p.nacks = N
  BY DEF Data
<1> HIDE DEF p
<1>2. p.aru \in Nat /\ p.aru_nonce = Digest(d.ngbr_inc, d.my_inc, p.aru)
  BY <1>1 DEF Mail
<1>3. Placed(p, q, k)
  BY <1>1 DEF Placed
<1>4. p.nonce = <<d.my_inc, d.ngbr_inc, q>>
  BY <1>1 DEF Nonce
<1>5. PacketOK(p, d.my_inc, d.ngbr_inc, k)
  BY <1>1, <1>2, <1>3, <1>4 DEF PacketOK
<1> QED
  BY <1>5 DEF p

LEMMA AckOK ==
  ASSUME NEW d, NEW k, NEW N, N \subseteq Nat, Mail(d)
  PROVE  PacketOK(Ack(d, N), d.my_inc, d.ngbr_inc, k)
<1> DEFINE p == Ack(d, N)
<1>1. /\ p.type = "ACK" /\ p.seq = 0 /\ p.aru = d.in_tail - 1
      /\ p.aru_nonce = d.aru_digest /\ p.inc = d.my_inc /\ p.aru_inc = d.ngbr_inc /\ p.nacks = N
  BY DEF Ack
<1> HIDE DEF p
<1>2. p.aru \in Nat /\ p.aru_nonce = Digest(d.ngbr_inc, d.my_inc, p.aru)
  BY <1>1 DEF Mail
<1>3. PacketOK(p, d.my_inc, d.ngbr_inc, k)
  BY <1>1, <1>2 DEF PacketOK
<1> QED
  BY <1>3 DEF p

LEMMA PingOK ==
  ASSUME NEW d, NEW k, NEW t \in {"PING", "PONG"}
  PROVE  PacketOK(Ping(d, t), d.my_inc, d.ngbr_inc, k)
<1> DEFINE p == Ping(d, t)
<1>1. p.type = t /\ p.inc = d.my_inc /\ p.aru_inc = d.ngbr_inc
  BY DEF Ping
<1> HIDE DEF p
<1>2. PacketOK(p, d.my_inc, d.ngbr_inc, k)
  BY <1>1 DEF PacketOK
<1> QED
  BY <1>2 DEF p

LEMMA NacksAre ==
  ASSUME NEW d, Mail(d) PROVE Add_IT_Nacks(d) \subseteq Nat
  BY DEF Add_IT_Nacks, Mail

(* What the packets that leave, or do not, mean for the reliable timer. *)
Queues(d, S, e) ==
  /\ Leaving(d, S) # {} => "Reliable" \in e.timers
  /\ Leaving(d, S) = {} => e.unsent = d.unsent

(* A set of packets of the window is sent, and some of them leave. *)
LEMMA SendData ==
  ASSUME NEW d, NEW k, k \in Nat, NEW h, SendOK(d, k, h),
         NEW S, S \subseteq d.out_tail .. d.out_head - 1,
         NEW e, e = Send_IT_Data_Msg(d, S)
  PROVE  /\ SendOK(e, k, h) /\ Keeps(d, e) /\ SameOut(d, e) /\ SameJob(d, e) /\ e.cwnd = d.cwnd
         /\ Queues(d, S, e)
<1> DEFINE nacks == Add_IT_Nacks(d)
           first == CHOOSE q \in S : \A r \in S : q <= r
           out == Leaving(d, S)
           asks == nacks # {} /\ first \in out
           N(q) == IF q = first THEN nacks ELSE {}
           sent == d.sent \cup {Data(d, q, N(q)) : q \in out}
           unsent == d.unsent \ out
           count == IF asks THEN 0 ELSE d.count
           timers == d.timers \cup (IF out # {} THEN {"Reliable"} ELSE {})
                              \cup (IF asks THEN {"Ack"} ELSE {})
<1>1. Typed(d) /\ Mail(d) /\ OutWindow(d, k) /\ Handed(d, k, h) /\ Sent(d, k)
  BY DEF SendOK
<1>2. CASE S = {}
  <2>1. e = d /\ Leaving(d, S) = {}
    BY <1>2 DEF Send_IT_Data_Msg, Leaving
  <2> QED
    BY <1>2, <2>1, KeepsReflexive DEF SameOut, SameJob, Queues
<1>3. CASE S # {}
  <2>1. e = [d EXCEPT !.sent = sent, !.expired = FALSE, !.unsent = unsent,
                      !.count = count, !.timers = timers]
    BY <1>3 DEF Send_IT_Data_Msg
  <2>2. nacks \subseteq Nat /\ out \subseteq S
    BY <1>1, NacksAre DEF Leaving
  <2>3. ASSUME NEW q \in S PROVE PacketOK(Data(d, q, N(q)), d.my_inc, d.ngbr_inc, k)
    <3>1. d.out_tail \in Nat /\ d.out_head \in Nat /\ 1 <= d.out_tail
      BY <1>1 DEF Typed, OutWindow
    <3>2. q \in d.out_tail .. d.out_head - 1 /\ q \in Nat /\ q > 0
      BY <3>1
    <3>3. Placed(d.outgoing[q % Window], q, k)
      BY <1>1, <3>2 DEF OutWindow
    <3>4. N(q) \subseteq Nat
      BY <2>2
    <3> HIDE DEF N
    <3> QED
      BY <1>1, <3>2, <3>3, <3>4, DataOK
  <2>4. \A p \in sent : PacketOK(p, d.my_inc, d.ngbr_inc, k)
    BY <1>1, <2>2, <2>3 DEF Sent
  <2>5. /\ count \in Nat /\ (Answers(d) => "Ack" \in timers \/ count = Msg_Per_SAA - 1)
        /\ d.timers \subseteq timers /\ (out # {} => "Reliable" \in timers)
        /\ (out = {} => unsent = d.unsent)
    BY <1>1 DEF Typed, Answers
  <2> HIDE DEF sent, count, timers, nacks, N, first, out, unsent, asks
  <2>6. IsEnd(d)
    BY <1>1 DEF Typed
  <2> DEFINE At(f) == IF f = "sent" THEN sent ELSE IF f = "count" THEN count
                      ELSE IF f = "timers" THEN timers ELSE IF f = "unsent" THEN unsent
                      ELSE IF f = "expired" THEN FALSE ELSE d[f]
  <2>7. IsEnd(e)
    BY <2>1, <2>6 DEF IsEnd
  <2>8. \A f \in Fields : e[f] = At(f)
    BY <2>1, <2>6 DEF IsEnd
  <2>9. /\ IsEnd(e) /\ e.sent = sent /\ e.count = count /\ e.timers = timers
        /\ e.my_inc = d.my_inc /\ e.ngbr_inc = d.ngbr_inc /\ e.given = d.given
        /\ e.in_tail = d.in_tail /\ e.in_head = d.in_head /\ e.incoming = d.incoming
        /\ e.aru_digest = d.aru_digest /\ e.in_frag_idx = d.in_frag_idx
        /\ e.delivered = d.delivered /\ e.bad = d.bad /\ e.unsent = unsent
        /\ e.established = d.established /\ e.dh_aru = d.dh_aru
        /\ SameJob(d, e) /\ SameOut(d, e) /\ e.cwnd = d.cwnd
    BY <2>7, <2>8 DEF Fields, SameJob, SameOut
  <2>10. Keeps(d, e)
    BY <2>5, <2>9 DEF Keeps, Answers
  <2>11. Typed(e)
    BY <1>1, <2>5, <2>9 DEF Typed, SameJob, SameOut
  <2>12. OutWindow(e, k)
    BY <1>1, <2>9, SameOutWindow
  <2>13. Handed(e, k, h)
    BY <1>1, <2>9 DEF Handed, SameOut
  <2>14. Sent(e, k)
    BY <2>4, <2>9 DEF Sent
  <2>15. Mail(e)
    BY <1>1, <2>10, KeepsMail
  <2> QED
    BY <2>5, <2>9, <2>10, <2>11, <2>12, <2>13, <2>14, <2>15 DEF SendOK, out, Queues
<1> QED
  BY <1>2, <1>3

(* What sending packets leaves of an end. *)
Lets(d, e) ==
  /\ Keeps(d, e) /\ SameJob(d, e) /\ e.cwnd = d.cwnd
  /\ e.out_tail = d.out_tail /\ e.out_head = d.out_head
  /\ e.out_message = d.out_message /\ e.outgoing = d.outgoing
  /\ Alarmed(d) => Alarmed(e)

(* Packets are let out up to a number of the window. *)
LEMMA AdvanceOK ==
  ASSUME NEW d, NEW k, k \in Nat, NEW h, SendOK(d, k, h),
         NEW to \in Nat, to <= d.out_head, NEW e, e = AdvanceTo(d, to)
  PROVE  SendOK(e, k, h) /\ Lets(d, e)
<1> DEFINE S == d.tcp_head .. to - 1
           head == IF S = {} THEN d.tcp_head ELSE to
           unsent == d.unsent \cup (S \ Leaving(d, S))
           u == [d EXCEPT !.tcp_head = head, !.unsent = unsent]
           At(f) == IF f = "tcp_head" THEN head ELSE IF f = "unsent" THEN unsent ELSE d[f]
<1>1. Typed(d) /\ Mail(d) /\ OutWindow(d, k) /\ Handed(d, k, h) /\ Sent(d, k)
  BY DEF SendOK
<1>2. /\ IsEnd(d) /\ d.out_tail \in Nat /\ d.tcp_head \in Nat /\ d.out_head \in Nat /\ d.cwnd \in Nat
      /\ 1 <= d.out_tail /\ d.out_tail <= d.tcp_head /\ d.tcp_head <= d.out_head
  BY <1>1 DEF Typed, OutWindow
<1>3. S \subseteq d.out_tail .. d.out_head - 1
  BY <1>2
<1>4. /\ head \in Nat /\ d.tcp_head <= head /\ head <= d.out_head
      /\ d.out_tail .. head - 1 \subseteq (d.out_tail .. d.tcp_head - 1) \cup S
  BY <1>2
<1>5. e = Send_IT_Data_Msg(u, S)
  BY DEF AdvanceTo
<1>6. d.unsent \subseteq unsent /\ (Leaving(d, S) = {} => S \subseteq unsent)
  OBVIOUS
<1> HIDE DEF S, head, unsent
<1>7. IsEnd(u)
  BY <1>2 DEF IsEnd
<1>8. \A f \in Fields : u[f] = At(f)
  BY <1>2 DEF IsEnd
<1>9. /\ u.tcp_head = head /\ u.out_tail = d.out_tail /\ u.out_head = d.out_head
      /\ u.outgoing = d.outgoing /\ u.out_digest = d.out_digest /\ u.out_message = d.out_message
      /\ u.sent = d.sent /\ u.my_inc = d.my_inc /\ u.ngbr_inc = d.ngbr_inc /\ u.cwnd = d.cwnd
      /\ SameJob(d, u) /\ u.count = d.count /\ u.timers = d.timers /\ u.unsent = unsent
      /\ u.fail = d.fail
  BY <1>8 DEF Fields, SameJob
<1>10. Keeps(d, u)
  BY <1>6, <1>8 DEF Fields, Keeps, Answers
<1> HIDE DEF u
<1>11. Typed(u)
  BY <1>1, <1>4, <1>7, <1>9, <1>10 DEF Typed, SameJob, Keeps
<1>12. OutWindow(u, k)
  BY <1>1, <1>2, <1>4, <1>9 DEF OutWindow
<1>13. Handed(u, k, h) /\ Sent(u, k)
  BY <1>1, <1>9 DEF Handed, Sent
<1>14. Mail(u)
  BY <1>1, <1>10, KeepsMail
<1>15. SendOK(u, k, h)
  BY <1>11, <1>12, <1>13, <1>14 DEF SendOK
<1>16. S \subseteq u.out_tail .. u.out_head - 1
  BY <1>3, <1>9
<1>17. /\ SendOK(e, k, h) /\ Keeps(u, e) /\ SameOut(u, e) /\ SameJob(u, e) /\ e.cwnd = u.cwnd
       /\ Queues(u, S, e)
  BY <1>5, <1>15, <1>16, SendData
<1>18. Keeps(d, e)
  BY <1>10, <1>17, KeepsTransitive
<1>19. /\ SameJob(d, e) /\ e.cwnd = d.cwnd /\ e.out_tail = d.out_tail /\ e.out_head = d.out_head
       /\ e.out_message = d.out_message /\ e.outgoing = d.outgoing /\ e.tcp_head = head
  BY <1>9, <1>17 DEF SameJob, SameOut
<1>20. ASSUME Alarmed(d) PROVE Alarmed(e)
  <2>1. Leaving(u, S) = Leaving(d, S)
    BY <1>9 DEF Leaving, HasKey
  <2>2. CASE "Reliable" \in e.timers \/ ~e.established
    BY <2>2 DEF Alarmed
  <2>3. CASE "Reliable" \notin e.timers /\ e.established
    <3>1. d.out_tail .. d.tcp_head - 1 \subseteq d.unsent
      BY <1>18, <1>20, <2>3 DEF Alarmed, Keeps
    <3>2. S \subseteq unsent /\ e.unsent = unsent
      BY <1>6, <1>9, <1>17, <2>1, <2>3 DEF Queues
    <3>3. e.out_tail .. e.tcp_head - 1 \subseteq e.unsent
      BY <1>4, <1>6, <1>19, <3>1, <3>2
    <3> QED
      BY <3>3 DEF Alarmed
  <2> QED
    BY <2>2, <2>3
<1> QED
  BY <1>17, <1>18, <1>19, <1>20 DEF Lets

LEMMA TopIs ==
  ASSUME NEW d, Typed(d)
  PROVE  Top(d) \in Nat /\ Top(d) <= d.out_head
<1> DEFINE x == d.out_head
           y == d.out_tail + d.cwnd
<1>1. x \in Nat /\ y \in Nat
  BY DEF Typed
<1>2. Top(d) = IF x < y THEN x ELSE y
  BY DEF Top, Lesser
<1> HIDE DEF x, y
<1>3. Top(d) \in Nat /\ Top(d) <= x
  BY <1>1, <1>2
<1> QED
  BY <1>3 DEF x

(* The congestion window lets packets out. *)
LEMMA FillOK ==
  ASSUME NEW d, NEW k, k \in Nat, NEW h, SendOK(d, k, h), NEW e, e = FillWindow(d)
  PROVE  SendOK(e, k, h) /\ Lets(d, e)
  BY TopIs, AdvanceOK DEF FillWindow, SendOK

LEMMA FillUntilDropOK ==
  ASSUME NEW d, NEW k, k \in Nat, NEW h, SendOK(d, k, h), NEW e, e = FillUntilDrop(d)
  PROVE  SendOK(e, k, h) /\ Lets(d, e)
<1> DEFINE S == d.tcp_head .. Top(d) - 1
           stays == S \ Leaving(d, S)
           q == CHOOSE x \in stays : \A r \in stays : x <= r
           to == IF stays = {} THEN Top(d) ELSE q + 1
<1>1. e = AdvanceTo(d, to)
  BY DEF FillUntilDrop
<1>2. Typed(d) /\ d.tcp_head \in Nat /\ d.out_head \in Nat /\ Top(d) \in Nat /\ Top(d) <= d.out_head
  BY TopIs DEF SendOK, Typed
<1>3. ASSUME stays # {} PROVE q \in Nat /\ q < Top(d)
  <2>1. stays \subseteq Nat
    BY <1>2
  <2> HIDE DEF stays
  <2>2. q \in stays
    BY <1>3, <2>1, LeastExists
  <2> QED
    BY <1>2, <2>2 DEF stays
<1> HIDE DEF stays, q
<1>4. to \in Nat /\ to <= d.out_head
  BY <1>2, <1>3
<1> QED
  BY <1>1, <1>4, AdvanceOK

-----------------------------------------------------------------------------
(* Digests of nonces. *)

(* The digest so far and the nonces that follow make the next digest. *)
LEMMA DigestGrows ==
  ASSUME NEW i, NEW j, NEW a, a \in Nat, NEW b, b \in Nat, a <= b + 1, a >= 1,
         NEW T, T = {<<i, j, x>> : x \in a .. b}
  PROVE  SymDiff(Digest(i, j, a - 1), T) = Digest(i, j, b)
<1> DEFINE A == Digest(i, j, a - 1)
           B == Digest(i, j, b)
<1>1. ASSUME NEW x \in T PROVE x \notin A /\ x \in B
  <2>1. PICK y \in a .. b : x = <<i, j, y>>
    OBVIOUS
  <2>2. y \in 1 .. b /\ y \notin 1 .. a - 1
    OBVIOUS
  <2>3. \A z \in 1 .. a - 1 : <<i, j, z>> # <<i, j, y>>
    BY <2>2
  <2> QED
    BY <2>1, <2>2, <2>3 DEF Digest
<1>2. ASSUME NEW x \in A PROVE x \in B /\ x \notin T
  <2>1. PICK y \in 1 .. a - 1 : x = <<i, j, y>>
    BY DEF Digest
  <2>2. y \in 1 .. b /\ y \notin a .. b
    OBVIOUS
  <2>3. \A z \in a .. b : <<i, j, z>> # <<i, j, y>>
    BY <2>2
  <2> QED
    BY <2>1, <2>2, <2>3 DEF Digest
<1>3. ASSUME NEW x \in B PROVE x \in A \/ x \in T
  <2>1. PICK y \in 1 .. b : x = <<i, j, y>>
    BY DEF Digest
  <2>2. y \in 1 .. a - 1 \/ y \in a .. b
    OBVIOUS
  <2> QED
    BY <2>1, <2>2 DEF Digest
<1>4. SymDiff(A, T) = {x \in A \cup T : x \notin A \/ x \notin T}
  BY Zenon DEF SymDiff
<1> HIDE DEF A, B
<1>5. SymDiff(A, T) = B
  BY <1>1, <1>2, <1>3, <1>4
<1> QED
  BY <1>5 DEF A, B

-----------------------------------------------------------------------------
(* Packing. *)

LEMMA PackOK ==
  ASSUME NEW d, NEW k, k \in Nat, NEW h, SendOK(d, k, h),
         d.out_message.left > 0 => ~Full_Link_IT(d) \/ d.out_message.left < Frags[h],
         NEW e, e = Pack_Fragments_Into_Packets_IT(d)
  PROVE  /\ SendOK(e, k, h) /\ Keeps(d, e) /\ SameJob(d, e) /\ e.cwnd = d.cwnd /\ Waiting(e)
         /\ e.out_tail = d.out_tail /\ e.tcp_head = d.tcp_head /\ e.timers = d.timers
<1> DEFINE t == d.out_tail
           H == d.out_head
           left == d.out_message.left
           msg == d.out_message.msg
           n == Lesser(Window - (H - t), left)
           new == H .. H + n - 1
           At(s) == CHOOSE q \in new : q % Window = s
           Used == {q % Window : q \in new}
           idx(q) == Frags[msg] - left + 1 + (q - H)
           outgoing == [s \in Slots |-> IF s \in Used THEN [msg |-> msg, idx |-> idx(At(s)), nacked |-> FALSE]
                                        ELSE d.outgoing[s]]
           digest == [s \in Slots |-> IF s \in Used
                          THEN SymDiff(d.out_digest[(H - 1) % Window], {Nonce(d, q) : q \in H .. At(s)})
                          ELSE d.out_digest[s]]
           message == IF left = n THEN None ELSE [msg |-> msg, left |-> left - n]
           top == H + n
<1>1. Typed(d) /\ Mail(d) /\ OutWindow(d, k) /\ Handed(d, k, h) /\ Sent(d, k)
  BY DEF SendOK
<1>2. e = [d EXCEPT !.outgoing = outgoing, !.out_digest = digest, !.out_head = top,
                    !.out_message = message]
  BY DEF Pack_Fragments_Into_Packets_IT
<1>3. /\ IsEnd(d) /\ t \in Nat /\ d.tcp_head \in Nat /\ H \in Nat /\ left \in Nat /\ msg \in Nat
      /\ 1 <= t /\ t <= d.tcp_head /\ d.tcp_head <= H /\ H <= t + Window
      /\ d.out_message = [msg |-> msg, left |-> left]
      /\ d.outgoing \in [Slots -> OutCell]
  BY <1>1 DEF Typed, OutWindow
<1>4. /\ h \in 0 .. Len(Frags) /\ Before[h] + 1 - left = H + k
      /\ left > 0 => msg = h /\ h > 0 /\ left <= Frags[h]
  BY <1>1 DEF Handed
<1>5. /\ n \in Nat /\ n <= left /\ H + n <= t + Window
      /\ n < left => H + n = t + Window
      /\ left > 0 /\ ~Full_Link_IT(d) => n > 0
  BY <1>3, WindowIs DEF Lesser, Full_Link_IT
<1>6. Len(Frags) \in Nat /\ \A m \in 1 .. Len(Frags) : Frags[m] \in Nat /\ Frags[m] >= 1
  BY FragsAre
<1> DEFINE left2 == message.left
           msg2 == message.msg
<1>7. /\ message \in [msg : Nat, left : Nat] /\ left2 = left - n
      /\ left2 > 0 => msg2 = msg
  BY <1>3, <1>5 DEF None
<1> HIDE DEF n, message
<1>8. top \in Nat /\ H <= top /\ top <= t + Window /\ \A q \in new : q \in Nat /\ q >= H /\ q < top
  BY <1>3, <1>5
<1>9. ASSUME NEW q \in new PROVE At(q % Window) = q /\ q % Window \in Used /\ q % Window \in Slots
  <2>1. At(q % Window) \in new /\ At(q % Window) % Window = q % Window
    BY Zenon
  <2> DEFINE r == At(q % Window)
  <2> HIDE DEF At
  <2>2. r \in Nat /\ q \in Nat /\ r < q + Window /\ q < r + Window
    BY <1>3, <1>8, <2>1, WindowIs
  <2>3. r = q
    BY <2>1, <2>2, SlotInjective
  <2> QED
    BY <2>2, <2>3, SlotIs
<1>10. ASSUME NEW q \in t .. H - 1 PROVE q % Window \notin Used /\ q % Window \in Slots /\ q \in Nat
  <2>1. q \in Nat
    BY <1>3
  <2>2. ASSUME NEW r \in new, r % Window = q % Window PROVE FALSE
    <3>1. r \in Nat /\ r < q + Window /\ q < r + Window /\ r # q
      BY <1>3, <1>8, WindowIs
    <3> QED
      BY <2>1, <2>2, <3>1, SlotInjective
  <2> QED
    BY <2>1, <2>2, SlotIs
<1>11. ASSUME NEW q \in new
       PROVE  LET c == [msg |-> msg, idx |-> idx(q), nacked |-> FALSE] IN Placed(c, q, k) /\ c \in OutCell
  <2>1. left > 0 /\ q - H \in Nat /\ q - H < n
    BY <1>3, <1>5, <1>8
  <2>2. msg = h /\ h \in 1 .. Len(Frags) /\ left <= Frags[h] /\ Frags[h] \in Nat
    BY <1>4, <1>6, <2>1
  <2> DEFINE x == idx(q)
             F == Frags[h]
             y == q - H
  <2>8. x = F - left + 1 + y /\ left \in Nat /\ F \in Nat /\ y \in Nat /\ y < n /\ n \in Nat
        /\ n <= left /\ left <= F /\ H \in Nat /\ q = H + y
    BY <1>3, <1>5, <1>8, <2>1, <2>2
  <2>3. x \in 1 .. F /\ x \in Nat
    <3> HIDE DEF x, left, F, y, H
    <3> QED
      BY <2>8
  <2>4. Before[h] = Before[h - 1] + Frags[h] /\ Before[h - 1] \in Nat /\ Before[h] \in Nat
    BY <2>2, BeforeIs, SMTT(60)
  <2>5. Before[h - 1] + x = q + k
    <3>1. Before[h] + 1 - left = H + k /\ Before[h] = Before[h - 1] + F
      BY <1>4, <2>4
    <3> HIDE DEF x, left, F, y, H
    <3> QED
      BY <2>4, <2>8, <3>1
  <2> HIDE DEF idx, x
  <2> DEFINE c == [msg |-> msg, idx |-> x, nacked |-> FALSE]
  <2>6. c.msg = h /\ c.idx = x /\ c \in OutCell
    BY <1>3, <2>2, <2>3 DEF OutCell
  <2> HIDE DEF c
  <2>7. Placed(c, q, k)
    BY <2>2, <2>3, <2>5, <2>6 DEF Placed, IsPart
  <2> QED
    BY <2>6, <2>7 DEF c, x
<1>12. ASSUME NEW q \in new
       PROVE  SymDiff(d.out_digest[(H - 1) % Window], {Nonce(d, r) : r \in H .. q}) = Digest(d.my_inc, d.ngbr_inc, q)
  <2>1. d.out_digest[(H - 1) % Window] = Digest(d.my_inc, d.ngbr_inc, H - 1)
    <3>1. H - 1 \in t - 1 .. H - 1
      BY <1>3
    <3> QED
      BY <1>1, <3>1 DEF OutWindow
  <2> DEFINE T == {Nonce(d, r) : r \in H .. q}
  <2>2. T = {<<d.my_inc, d.ngbr_inc, r>> : r \in H .. q}
    BY DEF Nonce
  <2>3. q \in Nat /\ H <= q + 1 /\ H >= 1
    BY <1>3, <1>8
  <2> HIDE DEF T
  <2>4. SymDiff(Digest(d.my_inc, d.ngbr_inc, H - 1), T) = Digest(d.my_inc, d.ngbr_inc, q)
    BY <1>3, <2>2, <2>3, DigestGrows
  <2> QED
    BY <2>1, <2>4 DEF T
<1>13. \A q \in new : outgoing[q % Window] = [msg |-> msg, idx |-> idx(q), nacked |-> FALSE]
  <2> HIDE DEF new, At, Used, idx
  <2> QED
    BY <1>9
<1>14. \A q \in t .. H - 1 : outgoing[q % Window] = d.outgoing[q % Window]
                            /\ digest[q % Window] = d.out_digest[q % Window]
  <2> HIDE DEF new, At, Used, idx
  <2> QED
    BY <1>10
<1>15. \A q \in new : digest[q % Window] = Digest(d.my_inc, d.ngbr_inc, q)
  <2>1. \A q \in new : digest[q % Window] = SymDiff(d.out_digest[(H - 1) % Window], {Nonce(d, r) : r \in H .. q})
    <3> HIDE DEF new, At, Used, idx
    <3> QED
      BY <1>9
  <2> QED
    BY <1>12, <2>1
<1>16. outgoing \in [Slots -> OutCell]
  <2>1. ASSUME NEW s \in Slots PROVE outgoing[s] \in OutCell
    <3>1. CASE s \in Used
      <4>1. PICK q \in new : s = q % Window
        BY <3>1
      <4> QED
        BY <1>11, <1>13, <4>1
    <3>2. CASE s \notin Used
      <4> HIDE DEF Used
      <4> QED
        BY <1>3, <3>2
    <3> QED
      BY <3>1, <3>2
  <2> HIDE DEF Used, At, idx
  <2> QED
    BY <2>1
<1>17. digest = [s \in Slots |-> digest[s]]
  <2> HIDE DEF Used, At
  <2> QED
    OBVIOUS
<1>18. n = 0 => top = H /\ Used = {} /\ digest = d.out_digest
  <2>1. ASSUME n = 0 PROVE top = H /\ new = {} /\ Used = {}
    BY <1>3, <2>1
  <2>2. ASSUME n = 0 PROVE digest = d.out_digest
    <3>1. Used = {}
      BY <2>1, <2>2
    <3>2. d.out_digest = [s \in Slots |-> d.out_digest[s]]
      BY <1>1 DEF OutWindow
    <3> HIDE DEF Used, At
    <3> QED
      BY <3>1, <3>2
  <2> QED
    BY <2>1, <2>2
<1> DEFINE Val(f) == IF f = "outgoing" THEN outgoing ELSE IF f = "out_digest" THEN digest
                     ELSE IF f = "out_head" THEN top ELSE IF f = "out_message" THEN message ELSE d[f]
<1> HIDE DEF outgoing, digest, top
<1>19. IsEnd(e)
  BY <1>2, <1>3 DEF IsEnd
<1>20. \A f \in Fields : e[f] = Val(f)
  BY <1>2, <1>3 DEF IsEnd
<1>21. /\ e.outgoing = outgoing /\ e.out_digest = digest /\ e.out_head = top /\ e.out_message = message
       /\ e.out_tail = d.out_tail /\ e.tcp_head = d.tcp_head /\ e.cwnd = d.cwnd
       /\ SameJob(d, e) /\ e.sent = d.sent /\ e.count = d.count /\ e.timers = d.timers
  BY <1>20 DEF Fields, SameJob
<1>22. Keeps(d, e)
  BY <1>20 DEF Fields, Keeps, Answers
<1>23. Typed(e)
  BY <1>1, <1>3, <1>7, <1>8, <1>16, <1>19, <1>21, <1>22 DEF Typed, SameJob, Keeps
<1>24. ASSUME NEW q \in t .. top - 1 PROVE q \in t .. H - 1 \/ q \in new
  BY <1>3, <1>5, <1>8 DEF top
<1>25. OutWindow(e, k)
  <2>1. ASSUME NEW q \in t .. top - 1 PROVE Placed(outgoing[q % Window], q, k)
    <3>1. CASE q \in new
      BY <1>11, <1>13, <3>1
    <3>2. CASE q \in t .. H - 1
      BY <1>1, <1>14, <3>2 DEF OutWindow
    <3> QED
      BY <1>24, <3>1, <3>2
  <2>2. ASSUME NEW q \in t - 1 .. top - 1, q = top - 1 \/ q >= t
        PROVE  digest[q % Window] = Digest(d.my_inc, d.ngbr_inc, q)
    <3>1. CASE q \in new
      BY <1>15, <3>1
    <3>2. CASE q \in t .. H - 1
      BY <1>1, <1>3, <1>14, <3>2 DEF OutWindow
    <3>3. CASE q < t
      <4>1. q = top - 1 /\ q = t - 1 /\ n = 0 /\ q = H - 1
        BY <1>3, <1>5, <1>8, <2>2, <3>3 DEF top
      <4>2. d.out_digest[q % Window] = Digest(d.my_inc, d.ngbr_inc, q)
        BY <1>1, <1>3, <4>1 DEF OutWindow
      <4> QED
        BY <1>18, <4>1, <4>2
    <3> QED
      BY <1>3, <1>8, <1>24, <3>1, <3>2, <3>3
  <2>3. \A q \in e.out_tail .. e.out_head - 1 : Placed(e.outgoing[q % Window], q, k)
    BY <1>21, <2>1
  <2>4. \A q \in e.out_tail - 1 .. e.out_head - 1 :
           q = e.out_head - 1 \/ q >= e.out_tail => e.out_digest[q % Window] = Digest(e.my_inc, e.ngbr_inc, q)
    BY <1>21, <1>22, <2>2 DEF Keeps
  <2>5. /\ 1 <= e.out_tail /\ e.out_tail <= e.tcp_head /\ e.tcp_head <= e.out_head
        /\ e.out_head <= e.out_tail + Window
    BY <1>3, <1>8, <1>21
  <2>6. e.out_digest = [s \in Slots |-> e.out_digest[s]]
    BY <1>17, <1>21
  <2> QED
    BY <2>3, <2>4, <2>5, <2>6 DEF OutWindow
<1>26. Handed(e, k, h)
  <2>1. Before[h] + 1 - left2 = top + k
    <3>1. Before[h] \in Nat
      BY <1>4, BeforeIs
    <3>2. left2 = left - n /\ top = H + n /\ left \in Nat /\ H \in Nat /\ n \in Nat /\ Before[h] + 1 - left = H + k
      BY <1>3, <1>4, <1>5, <1>7 DEF top
    <3> HIDE DEF left, H, left2
    <3> QED
      BY <3>1, <3>2
  <2>2. left2 > 0 => msg2 = h /\ h > 0 /\ left2 <= Frags[h]
    <3> SUFFICES ASSUME left2 > 0 PROVE msg2 = h /\ h > 0 /\ left2 <= Frags[h]
      OBVIOUS
    <3>1. left > 0
      BY <1>3, <1>5, <1>7
    <3>2. h \in 1 .. Len(Frags)
      BY <1>4, <1>6, <3>1
    <3> QED
      BY <1>3, <1>4, <1>5, <1>6, <1>7, <3>1, <3>2
  <2> QED
    BY <1>4, <1>21, <2>1, <2>2 DEF Handed
<1>27. Waiting(e)
  <2> SUFFICES ASSUME left2 > 0 PROVE Full_Link_IT(e) /\ left2 < Frags[msg2]
    BY <1>21 DEF Waiting
  <2>1. left > 0 /\ n < left
    BY <1>3, <1>5, <1>7
  <2>2. h \in 1 .. Len(Frags) /\ msg2 = h /\ Frags[h] \in Nat
    BY <1>4, <1>6, <1>7, <2>1
  <2>3. Full_Link_IT(e)
    BY <1>3, <1>5, <1>21, <2>1, WindowIs DEF Full_Link_IT, top
  <2>4. left2 < Frags[h]
    BY <1>3, <1>4, <1>5, <1>7, <2>1, <2>2
  <2> QED
    BY <2>2, <2>3, <2>4
<1>28. Mail(e) /\ Sent(e, k)
  BY <1>1, <1>21, <1>22, KeepsMail DEF Sent, Keeps
<1> QED
  BY <1>21, <1>22, <1>23, <1>25, <1>26, <1>27, <1>28 DEF SendOK

-----------------------------------------------------------------------------
(* Messages of the dissemination. *)

LEMMA ForwardOK ==
  ASSUME NEW d, NEW k, k \in Nat, SendOK(d, k, d.given - d.wants), Waiting(d),
         ~Full_Link_IT(d), d.wants > 0, NEW e, e = Forward_Intru_Tol_Data(d)
  PROVE  /\ SendOK(e, k, d.given - d.wants + 1) /\ Keeps(d, e) /\ SameJob(d, e) /\ Waiting(e)
         /\ e.out_tail = d.out_tail
         /\ Alarmed(d) => Alarmed(e)
<1> DEFINE h == d.given - d.wants
           m == d.given - d.wants + 1
           message == [msg |-> m, left |-> Frags[m]]
           u == [d EXCEPT !.out_message = message]
           v == Pack_Fragments_Into_Packets_IT(u)
<1>1. Typed(d) /\ Mail(d) /\ OutWindow(d, k) /\ Handed(d, k, h) /\ Sent(d, k)
  BY DEF SendOK
<1>2. e = FillUntilDrop(v)
  BY DEF Forward_Intru_Tol_Data
<1>3. /\ IsEnd(d) /\ d.given \in 0 .. Len(Frags) /\ d.wants \in 0 .. d.given /\ Len(Frags) \in Nat
      /\ d.out_message.left \in Nat /\ d.out_head \in Nat
  BY <1>1, FragsAre DEF Typed
<1>4. d.out_message.left = 0
  BY <1>3 DEF Waiting
<1>5. m = h + 1 /\ m \in 1 .. Len(Frags) /\ m - 1 = h /\ h \in 0 .. Len(Frags) /\ m \in 0 .. Len(Frags)
  BY <1>3
<1> HIDE DEF m, h
<1>6. Frags[m] \in Nat /\ Frags[m] >= 1 /\ Before[m] = Before[h] + Frags[m] /\ Before[h] \in Nat
  BY <1>5, FragsAre, BeforeIs
<1>7. message.left = Frags[m] /\ message.msg = m /\ message \in [msg : Nat, left : Nat]
  BY <1>3, <1>5, <1>6
<1> DEFINE At(f) == IF f = "out_message" THEN message ELSE d[f]
<1> HIDE DEF message
<1>8. IsEnd(u)
  BY <1>3 DEF IsEnd
<1>9. \A f \in Fields : u[f] = At(f)
  BY <1>3 DEF IsEnd
<1>10. /\ u.out_message = message /\ u.out_tail = d.out_tail /\ u.out_head = d.out_head /\ u.tcp_head = d.tcp_head
       /\ u.outgoing = d.outgoing /\ u.out_digest = d.out_digest /\ u.sent = d.sent
       /\ SameJob(d, u) /\ u.cwnd = d.cwnd /\ u.count = d.count
  BY <1>9 DEF Fields, SameJob
<1>11. Keeps(d, u)
  BY <1>9 DEF Fields, Keeps, Answers
<1> HIDE DEF u
<1>12. Typed(u)
  BY <1>1, <1>7, <1>8, <1>10, <1>11 DEF Typed, SameJob, Keeps
<1>13. OutWindow(u, k)
  BY <1>1, <1>10, <1>11 DEF OutWindow, Keeps
<1>14. Handed(u, k, m)
  <2>1. Before[h] + 1 - 0 = d.out_head + k
    BY <1>1, <1>4 DEF Handed
  <2>2. Before[m] + 1 - Frags[m] = d.out_head + k
    BY <1>3, <1>6, <2>1
  <2>3. m > 0
    BY <1>3, <1>5
  <2> QED
    BY <1>5, <1>6, <1>7, <1>10, <2>2, <2>3 DEF Handed
<1>15. Sent(u, k) /\ Mail(u)
  BY <1>1, <1>10, <1>11, KeepsMail DEF Sent, Keeps
<1>16. SendOK(u, k, m) /\ ~Full_Link_IT(u)
  BY <1>10, <1>12, <1>13, <1>14, <1>15 DEF SendOK, Full_Link_IT
<1>17. /\ SendOK(v, k, m) /\ Keeps(u, v) /\ SameJob(u, v) /\ Waiting(v)
       /\ v.out_tail = u.out_tail /\ v.tcp_head = u.tcp_head /\ v.timers = u.timers
  BY <1>16, PackOK
<1> HIDE DEF v
<1>18. /\ SendOK(e, k, m) /\ Keeps(v, e) /\ SameJob(v, e) /\ e.out_tail = v.out_tail /\ e.out_head = v.out_head
       /\ e.out_message = v.out_message
       /\ Alarmed(v) => Alarmed(e)
  <2>1. SendOK(e, k, m) /\ Lets(v, e)
    BY <1>2, <1>17, FillUntilDropOK
  <2> QED
    BY <2>1 DEF Lets
<1>19. Keeps(d, e)
  BY <1>11, <1>17, <1>18, KeepsTransitive
<1>20. SameJob(d, e) /\ e.out_tail = d.out_tail
  BY <1>10, <1>17, <1>18 DEF SameJob
<1>21. Waiting(e)
  BY <1>17, <1>18 DEF Waiting, Full_Link_IT
<1>22. ASSUME Alarmed(d) PROVE Alarmed(v)
  <2>1. Keeps(d, v) /\ v.out_tail .. v.tcp_head - 1 = d.out_tail .. d.tcp_head - 1
    BY <1>10, <1>11, <1>17, KeepsTransitive
  <2> QED
    BY <1>22, <2>1, KeepsAlarmed
<1> QED
  BY <1>18, <1>19, <1>20, <1>21, <1>22 DEF m

(* What serving the dissemination makes of d0. *)
Serves(d0, d, k) ==
  /\ SendOK(d, k, d.given - d.wants) /\ Waiting(d) /\ Keeps(d0, d)
  /\ d.out_tail = d0.out_tail
  /\ Alarmed(d0) => Alarmed(d)

LEMMA AssignOneOK ==
  ASSUME NEW d0, NEW d, NEW k, k \in Nat, Serves(d0, d, k), NEW e, e = AssignOne(d)
  PROVE  Serves(d0, e, k) /\ (e.queued /\ ~Full_Link_IT(e) => e.bucket < BUCKET_CAP)
<1>1. /\ SendOK(d, k, d.given - d.wants) /\ Waiting(d) /\ Keeps(d0, d)
      /\ d.out_tail = d0.out_tail
      /\ Alarmed(d0) => Alarmed(d)
  BY DEF Serves
<1>2. BUCKET_CAP \in Nat /\ BUCKET_CAP > 0
  BY SizeAssumption
<1>3. /\ Typed(d) /\ IsEnd(d) /\ d.given \in Nat /\ d.wants \in 0 .. d.given /\ d.bucket \in 0 .. BUCKET_CAP
  BY <1>1, FragsAre DEF SendOK, Typed
<1>4. CASE Full_Link_IT(d) \/ ~d.queued \/ d.bucket = 0
  <2>1. e = d
    BY <1>4 DEF AssignOne
  <2> QED
    BY <1>2, <1>4, <2>1
<1>5. CASE ~(Full_Link_IT(d) \/ ~d.queued \/ d.bucket = 0) /\ d.wants = 0
  <2>1. e = [d EXCEPT !.queued = FALSE]
    BY <1>5 DEF AssignOne
  <2>2. IsEnd(e)
    BY <1>3, <2>1 DEF IsEnd
  <2>3. \A f \in Fields : e[f] = IF f = "queued" THEN FALSE ELSE d[f]
    BY <1>3, <2>1 DEF IsEnd
  <2>4. /\ e.queued = FALSE /\ SameOut(d, e) /\ e.given = d.given /\ e.wants = d.wants /\ e.needed = d.needed
        /\ e.sent = d.sent /\ e.cwnd = d.cwnd /\ e.count = d.count /\ e.bucket = d.bucket /\ e.timers = d.timers
    BY <2>3 DEF Fields, SameOut
  <2>5. Keeps(d, e)
    BY <2>3 DEF Fields, Keeps, Answers
  <2>6. Typed(e)
    BY <1>3, <2>2, <2>4, <2>5 DEF Typed, SameOut, Keeps
  <2>7. OutWindow(e, k)
    BY <1>1, <2>4, <2>5, SameOutWindow DEF SendOK, Keeps
  <2>8. Handed(e, k, e.given - e.wants) /\ Waiting(e)
    BY <1>1, <2>4 DEF SendOK, Handed, Waiting, SameOut, Full_Link_IT
  <2>9. Sent(e, k) /\ Mail(e)
    BY <1>1, <2>4, <2>5, KeepsMail DEF SendOK, Sent, Keeps
  <2>10. Alarmed(d) => Alarmed(e)
    BY <2>4, <2>5, KeepsAlarmed DEF SameOut
  <2>11. Keeps(d0, e)
    BY <1>1, <2>5, KeepsTransitive
  <2> QED
    BY <1>1, <2>4, <2>6, <2>7, <2>8, <2>9, <2>10, <2>11 DEF Serves, SendOK, SameOut
<1>6. CASE ~(Full_Link_IT(d) \/ ~d.queued \/ d.bucket = 0) /\ d.wants # 0
  <2> DEFINE u == Forward_Intru_Tol_Data(d)
  <2>1. e = [u EXCEPT !.wants = u.wants - 1, !.bucket = u.bucket - 1]
    BY <1>6 DEF AssignOne
  <2>2. d.wants > 0 /\ ~Full_Link_IT(d)
    BY <1>3, <1>6
  <2>3. /\ SendOK(u, k, d.given - d.wants + 1) /\ Keeps(d, u) /\ SameJob(d, u) /\ Waiting(u)
        /\ u.out_tail = d.out_tail
        /\ Alarmed(d) => Alarmed(u)
    BY <1>1, <2>2, ForwardOK
  <2> HIDE DEF u
  <2> DEFINE wants == u.wants - 1
             bucket == u.bucket - 1
             At(f) == IF f = "wants" THEN wants ELSE IF f = "bucket" THEN bucket ELSE u[f]
  <2>4. u.wants = d.wants /\ u.bucket = d.bucket /\ u.given = d.given /\ IsEnd(u) /\ Typed(u)
    BY <2>3 DEF SameJob, Keeps, SendOK, Typed
  <2>5. wants \in 0 .. u.given /\ bucket \in 0 .. BUCKET_CAP /\ bucket < BUCKET_CAP
        /\ u.given - wants = d.given - d.wants + 1
    BY <1>2, <1>3, <1>6, <2>2, <2>4
  <2> HIDE DEF wants, bucket
  <2>6. e = [u EXCEPT !.wants = wants, !.bucket = bucket]
    BY <2>1 DEF wants, bucket
  <2>7. IsEnd(e)
    BY <2>4, <2>6 DEF IsEnd
  <2>8. \A f \in Fields : e[f] = At(f)
    BY <2>4, <2>6 DEF IsEnd
  <2>9. /\ e.wants = wants /\ e.bucket = bucket /\ SameOut(u, e) /\ e.given = u.given /\ e.queued = u.queued
        /\ e.needed = u.needed /\ e.sent = u.sent /\ e.cwnd = u.cwnd /\ e.count = u.count /\ e.timers = u.timers
    BY <2>8 DEF Fields, SameOut
  <2>10. Keeps(u, e)
    BY <2>8 DEF Fields, Keeps, Answers
  <2>11. Typed(e)
    BY <2>4, <2>5, <2>7, <2>9, <2>10 DEF Typed, SameOut, Keeps
  <2>12. OutWindow(e, k)
    BY <2>3, <2>9, <2>10, SameOutWindow DEF SendOK, Keeps
  <2>13. Handed(e, k, e.given - e.wants) /\ Waiting(e)
    <3>1. e.given - e.wants = d.given - d.wants + 1
      BY <2>5, <2>9
    <3> QED
      BY <2>3, <2>9, <3>1 DEF SendOK, Handed, Waiting, SameOut, Full_Link_IT
  <2>14. Sent(e, k) /\ Mail(e)
    BY <2>3, <2>9, <2>10, KeepsMail DEF SendOK, Sent, Keeps
  <2>15. Alarmed(u) => Alarmed(e)
    BY <2>9, <2>10, KeepsAlarmed DEF SameOut
  <2>16. Keeps(d0, e)
    BY <1>1, <2>3, <2>10, KeepsTransitive
  <2>17. SendOK(e, k, e.given - e.wants)
    BY <2>11, <2>12, <2>13, <2>14 DEF SendOK
  <2> QED
    BY <1>1, <2>3, <2>5, <2>9, <2>17, <2>13, <2>15, <2>16 DEF Serves, SameOut
<1> QED
  BY <1>4, <1>5, <1>6

(* The loop of Assign_Resources_IT has values. *)
LEMMA AssignLoop ==
  ASSUME NEW d0, NEW N \in Nat
  PROVE  \E f : f = [i \in 0 .. N |-> IF i = 0 THEN d0 ELSE AssignOne(f[i - 1])]
<1> DEFINE F(n, f) == [i \in 0 .. n |-> IF i = 0 THEN d0 ELSE AssignOne(f[i - 1])]
           T == {n \in 0 .. N : ~ \E f : f = F(n, f)}
<1> SUFFICES ASSUME T # {} PROVE FALSE
  <2>1. N \in 0 .. N
    OBVIOUS
  <2>2. N \in T \/ \E f : f = F(N, f)
    BY <2>1
  <2> QED
    BY <2>2
<1>1. T \subseteq Nat
  OBVIOUS
<1>2. PICK b \in T : \A y \in T : b <= y
  BY <1>1, LeastExists
<1>3. b \in 0 .. N /\ ~ \E f : f = F(b, f)
  BY <1>2
<1>4. b # 0
  <2> DEFINE f == [i \in 0 .. 0 |-> d0]
  <2>1. f = F(0, f)
    OBVIOUS
  <2> QED
    BY <1>3, <2>1
<1>5. b - 1 \in 0 .. N /\ b - 1 \notin T
  BY <1>2, <1>3, <1>4
<1>6. PICK g : g = F(b - 1, g)
  BY <1>5
<1> DEFINE f == [i \in 0 .. b |-> IF i = b THEN AssignOne(g[b - 1]) ELSE g[i]]
<1>7. ASSUME NEW i \in 0 .. b PROVE f[i] = IF i = 0 THEN d0 ELSE AssignOne(f[i - 1])
  <2>1. CASE i = b
    <3>1. b - 1 \in 0 .. b /\ b - 1 # b /\ f[b - 1] = g[b - 1] /\ i # 0
      BY <1>3, <1>4, <2>1
    <3> QED
      BY <2>1, <3>1
  <2>2. CASE i # b /\ i # 0
    <3>1. i \in 0 .. b - 1 /\ i - 1 \in 0 .. b /\ i - 1 # b /\ f[i] = g[i] /\ f[i - 1] = g[i - 1]
      BY <1>3, <2>2
    <3>2. g[i] = AssignOne(g[i - 1])
      BY <1>6, <2>2, <3>1
    <3> QED
      BY <2>2, <3>1, <3>2
  <2>3. CASE i = 0
    <3>1. 0 \in 0 .. b - 1 /\ f[0] = g[0]
      BY <1>3, <1>4
    <3> QED
      BY <1>6, <2>3, <3>1
  <2> QED
    BY <2>1, <2>2, <2>3
<1>8. f = F(b, f)
  BY <1>7
<1> QED
  BY <1>3, <1>8

-----------------------------------------------------------------------------
(* Changes that leave the window as it is, up to the marks of its packets. *)

LikeOut(d, e) ==
  /\ e.out_tail = d.out_tail /\ e.tcp_head = d.tcp_head /\ e.out_head = d.out_head
  /\ e.out_digest = d.out_digest /\ e.out_message = d.out_message
  /\ e.outgoing \in [Slots -> OutCell]
  /\ \A s \in Slots : e.outgoing[s].msg = d.outgoing[s].msg /\ e.outgoing[s].idx = d.outgoing[s].idx

JobTyped(e) ==
  /\ e.cwnd \in Nat /\ e.count \in Nat /\ e.bucket \in 0 .. BUCKET_CAP
  /\ e.queued \in BOOLEAN /\ e.needed \in BOOLEAN

LEMMA SameIsLike ==
  ASSUME NEW d, NEW e, Typed(d), SameOut(d, e) PROVE LikeOut(d, e)
  BY DEF Typed, SameOut, LikeOut

LEMMA TouchOK ==
  ASSUME NEW d, NEW e, NEW k, k \in Nat, NEW h, SendOK(d, k, h), IsEnd(e), LikeOut(d, e), Keeps(d, e),
         e.wants = d.wants, e.sent = d.sent, JobTyped(e)
  PROVE  /\ SendOK(e, k, h)
         /\ Waiting(d) => Waiting(e)
         /\ Alarmed(d) => Alarmed(e)
<1>1. Typed(d) /\ Mail(d) /\ OutWindow(d, k) /\ Handed(d, k, h) /\ Sent(d, k)
  BY DEF SendOK
<1>2. Typed(e)
  BY <1>1 DEF Typed, LikeOut, Keeps, JobTyped
<1>3. OutWindow(e, k)
  <2>1. ASSUME NEW q \in e.out_tail .. e.out_head - 1 PROVE Placed(e.outgoing[q % Window], q, k)
    <3>1. q \in d.out_tail .. d.out_head - 1 /\ q \in Nat
      BY <1>1 DEF LikeOut, Typed
    <3>2. Placed(d.outgoing[q % Window], q, k) /\ q % Window \in Slots
      BY <1>1, <3>1, SlotIs DEF OutWindow
    <3> QED
      BY <3>2 DEF Placed, LikeOut
  <2> QED
    BY <1>1, <2>1 DEF OutWindow, LikeOut, Keeps
<1>4. Handed(e, k, h) /\ Sent(e, k) /\ Mail(e)
  BY <1>1, KeepsMail DEF Handed, Sent, LikeOut, Keeps
<1>5. Waiting(d) => Waiting(e)
  BY DEF Waiting, Full_Link_IT, LikeOut
<1>6. Alarmed(d) => Alarmed(e)
  BY DEF Alarmed, LikeOut, Keeps
<1> QED
  BY <1>2, <1>3, <1>4, <1>5, <1>6 DEF SendOK

LEMMA AssignOK ==
  ASSUME NEW d, NEW k, k \in Nat, SendOK(d, k, d.given - d.wants), Waiting(d), Filled(d),
         NEW e, e = Assign_Resources_IT(d)
  PROVE  Serves(d, e, k) /\ Filled(e) /\ Served(e)
<1> DEFINE x0 == [d EXCEPT !.needed = FALSE]
           F(f) == [i \in 0 .. BUCKET_CAP + 1 |-> IF i = 0 THEN x0 ELSE AssignOne(f[i - 1])]
           loop == CHOOSE f : f = F(f)
           served == loop[BUCKET_CAP + 1]
           asks == [served EXCEPT !.needed = ~Full_Link_IT(served) /\ served.queued]
           last == [asks EXCEPT !.timers = IF asks.bucket < BUCKET_CAP THEN asks.timers \cup {"Fill"}
                                           ELSE asks.timers]
<1>1. e = IF d.needed /\ d.bucket = 0 THEN d ELSE last
  BY Zenon DEF Assign_Resources_IT
<1>2. BUCKET_CAP \in Nat /\ BUCKET_CAP > 0
  BY SizeAssumption
<1>3. Typed(d) /\ IsEnd(d) /\ JobTyped(d)
  BY DEF SendOK, Typed, JobTyped
<1>4. Serves(d, d, k)
  BY KeepsReflexive DEF Serves
<1>5. CASE d.needed /\ d.bucket = 0
  BY <1>1, <1>2, <1>4, <1>5 DEF Served
<1>6. CASE ~(d.needed /\ d.bucket = 0)
  <2>1. Serves(d, x0, k)
    <3>1. IsEnd(x0)
      BY <1>3 DEF IsEnd
    <3>2. \A f \in Fields : x0[f] = IF f = "needed" THEN FALSE ELSE d[f]
      BY <1>3 DEF IsEnd
    <3>3. /\ x0.needed = FALSE /\ SameOut(d, x0) /\ x0.wants = d.wants /\ x0.given = d.given
          /\ x0.sent = d.sent /\ x0.cwnd = d.cwnd /\ x0.count = d.count /\ x0.bucket = d.bucket
          /\ x0.queued = d.queued
      BY <3>2 DEF Fields, SameOut
    <3>4. Keeps(d, x0)
      BY <3>2 DEF Fields, Keeps, Answers
    <3> HIDE DEF x0
    <3>5. JobTyped(x0) /\ LikeOut(d, x0)
      BY <1>3, <3>3, SameIsLike DEF JobTyped
    <3>6. /\ SendOK(x0, k, d.given - d.wants)
          /\ Waiting(x0)
          /\ Alarmed(d) => Alarmed(x0)
      BY <3>1, <3>3, <3>4, <3>5, TouchOK
    <3> QED
      BY <3>3, <3>4, <3>6 DEF Serves, SameOut
  <2>2. loop = F(loop)
    <3>1. BUCKET_CAP + 1 \in Nat
      BY <1>2
    <3> HIDE DEF x0
    <3>2. \E f : f = F(f)
      BY <3>1, AssignLoop, ZenonT(60)
    <3> HIDE DEF F
    <3> QED
      BY <3>2, Zenon
  <2> DEFINE N == BUCKET_CAP + 1
             B == [i \in 0 .. N |-> IF Serves(d, loop[i], k) THEN 1 ELSE 0]
             T == {1}
  <2>3. N \in Nat /\ N >= 1 /\ N \in 1 .. N /\ N \in 0 .. N /\ N - 1 \in 0 .. N
    BY <1>2
  <2>4. loop[0] = x0 /\ \A i \in 1 .. N : loop[i] = AssignOne(loop[i - 1])
    <3> HIDE DEF x0, loop
    <3> QED
      BY <2>2, <2>3
  <2> HIDE DEF loop, x0, N
  <2>5. B[0] \in T
    BY <2>1, <2>3, <2>4
  <2>6. ASSUME NEW i \in 1 .. N, B[i - 1] \in T PROVE B[i] \in T
    <3>1. i \in 0 .. N /\ i - 1 \in 0 .. N
      BY <2>3
    <3>2. Serves(d, loop[i - 1], k)
      BY <2>6, <3>1
    <3>3. Serves(d, loop[i], k)
      BY <2>4, <3>2, AssignOneOK
    <3> QED
      BY <3>1, <3>3
  <2>7. \A i \in 0 .. N : B[i] \in T
    <3> HIDE DEF B, T
    <3> QED
      BY <2>3, <2>5, <2>6, AllReached
  <2>8. Serves(d, loop[N - 1], k)
    BY <2>3, <2>7
  <2>9. served = AssignOne(loop[N - 1])
    BY <2>3, <2>4 DEF N
  <2> HIDE DEF served
  <2>10. Serves(d, served, k) /\ (served.queued /\ ~Full_Link_IT(served) => served.bucket < BUCKET_CAP)
    BY <2>8, <2>9, AssignOneOK
  <2>11. SendOK(served, k, served.given - served.wants) /\ IsEnd(served) /\ Typed(served) /\ JobTyped(served)
    BY <2>10 DEF Serves, SendOK, Typed, JobTyped
  <2> DEFINE needed == ~Full_Link_IT(served) /\ served.queued
             timers == IF served.bucket < BUCKET_CAP THEN served.timers \cup {"Fill"} ELSE served.timers
  <2>12. needed \in BOOLEAN /\ served.timers \subseteq timers
         /\ (served.bucket < BUCKET_CAP => "Fill" \in timers)
    OBVIOUS
  <2>13. asks.timers = served.timers /\ asks.bucket = served.bucket
    <3> HIDE DEF needed
    <3> QED
      BY <2>11 DEF IsEnd, Fields
  <2>14. e = [served EXCEPT !.needed = needed, !.timers = timers]
    BY <1>1, <1>6, <2>13
  <2> DEFINE At(f) == IF f = "needed" THEN needed ELSE IF f = "timers" THEN timers ELSE served[f]
  <2>15. IsEnd(e)
    <3> HIDE DEF needed, timers
    <3> QED
      BY <2>11, <2>14 DEF IsEnd
  <2>16. \A f \in Fields : e[f] = At(f)
    <3> HIDE DEF needed, timers
    <3> QED
      BY <2>11, <2>14 DEF IsEnd
  <2>17. /\ e.needed = needed /\ e.timers = timers /\ SameOut(served, e)
         /\ e.wants = served.wants /\ e.given = served.given
         /\ e.sent = served.sent /\ e.cwnd = served.cwnd /\ e.count = served.count /\ e.bucket = served.bucket
         /\ e.queued = served.queued
    <3> HIDE DEF needed, timers
    <3> QED
      BY <2>16 DEF Fields, SameOut
  <2>18. Keeps(served, e)
    <3> HIDE DEF needed, timers
    <3> QED
      BY <2>12, <2>16 DEF Fields, Keeps, Answers
  <2>19. JobTyped(e) /\ LikeOut(served, e)
    BY <2>11, <2>12, <2>17, SameIsLike DEF JobTyped
  <2>24. /\ SendOK(e, k, served.given - served.wants)
         /\ Waiting(served) => Waiting(e)
         /\ Alarmed(served) => Alarmed(e)
    <3> DEFINE h == served.given - served.wants
    <3>1. e.wants = served.wants /\ e.sent = served.sent /\ SendOK(served, k, h)
      BY <2>11, <2>17
    <3> HIDE DEF h
    <3>2. /\ SendOK(e, k, h)
          /\ Waiting(served) => Waiting(e)
          /\ Alarmed(served) => Alarmed(e)
      BY <2>15, <2>18, <2>19, <3>1, TouchOK
    <3> QED
      BY <3>2 DEF h
  <2>20. /\ SendOK(e, k, e.given - e.wants)
         /\ Waiting(served) => Waiting(e)
         /\ Alarmed(served) => Alarmed(e)
    BY <2>17, <2>24
  <2>21. Serves(d, e, k)
    <3>1. Keeps(d, e)
      BY <2>10, <2>18, KeepsTransitive DEF Serves
    <3> QED
      BY <2>10, <2>17, <2>20, <3>1 DEF Serves, SameOut
  <2>22. Filled(e)
    BY <2>12, <2>17 DEF Filled
  <2>23. Served(e)
    BY <2>10, <2>17 DEF Served, SameOut, Full_Link_IT
  <2> QED
    BY <2>21, <2>22, <2>23
<1> QED
  BY <1>5, <1>6

-----------------------------------------------------------------------------
(* The sender's half of a record, and the acks that it gets. *)

SideOK(d, k) ==
  /\ SendOK(d, k, d.given - d.wants) /\ Waiting(d) /\ Alarmed(d) /\ Filled(d) /\ Served(d)

LEMMA TouchSide ==
  ASSUME NEW d, NEW e, NEW k, k \in Nat, SideOK(d, k), IsEnd(e), LikeOut(d, e), Keeps(d, e),
         SameJob(d, e), e.sent = d.sent, e.cwnd \in Nat, e.count \in Nat
  PROVE  SideOK(e, k)
<1> DEFINE h == d.given - d.wants
<1>1. SendOK(d, k, h) /\ Waiting(d) /\ Alarmed(d) /\ Filled(d) /\ Served(d)
  BY DEF SideOK
<1>2. JobTyped(e) /\ e.wants = d.wants /\ e.given = d.given
  BY <1>1 DEF SendOK, Typed, JobTyped, SameJob, Keeps
<1> HIDE DEF h
<1>3. SendOK(e, k, h) /\ Waiting(e) /\ Alarmed(e)
  BY <1>1, <1>2, TouchOK
<1>4. Filled(e) /\ Served(e)
  BY <1>1 DEF Filled, Served, SameJob, LikeOut, Keeps, Full_Link_IT
<1> QED
  BY <1>2, <1>3, <1>4 DEF SideOK, h

LEMMA SendSide ==
  ASSUME NEW d, NEW k, k \in Nat, SideOK(d, k), NEW S, S \subseteq d.out_tail .. d.out_head - 1,
         NEW e, e = Send_IT_Data_Msg(d, S)
  PROVE  SideOK(e, k) /\ Keeps(d, e) /\ SameOut(d, e) /\ SameJob(d, e)
<1> DEFINE h == d.given - d.wants
<1>1. SendOK(d, k, h) /\ Waiting(d) /\ Alarmed(d) /\ Filled(d) /\ Served(d)
  BY DEF SideOK
<1> HIDE DEF h
<1>2. SendOK(e, k, h) /\ Keeps(d, e) /\ SameOut(d, e) /\ SameJob(d, e)
  BY <1>1, SendData
<1>3. e.given - e.wants = h
  BY <1>2 DEF h, Keeps, SameJob
<1>4. Waiting(e) /\ Alarmed(e) /\ Filled(e) /\ Served(e)
  BY <1>1, <1>2 DEF Waiting, Alarmed, Filled, Served, Full_Link_IT, SameOut, SameJob, Keeps
<1> QED
  BY <1>2, <1>3, <1>4 DEF SideOK

(* Congestion touches only the congestion window. *)
LEMMA CongestionOK ==
  ASSUME NEW d, Typed(d), NEW aru, aru \in Nat, d.out_tail <= aru, NEW grows, grows \in 0 .. 1,
         NEW e, e = Congestion(d, aru, grows)
  PROVE  /\ IsEnd(e) /\ SameOut(d, e) /\ Keeps(d, e) /\ SameJob(d, e) /\ e.sent = d.sent
         /\ e.cwnd \in Nat /\ e.count = d.count /\ e.timers = d.timers
<1> DEFINE over == d.loss = 1 /\ aru > d.loss_aru
           half == d.cwnd \div 2
           thr == IF half < 2 THEN 2 ELSE half
           low == [d EXCEPT !.loss = 0, !.ssthresh = thr, !.cwnd = thr + 3]
           c == IF over THEN low ELSE d
           more == IF c.cwnd <= c.ssthresh THEN aru - d.out_tail + 1 ELSE grows
           cwnd == Lesser(Window, c.cwnd + more)
<1>1. IsEnd(d) /\ d.cwnd \in Nat /\ d.out_tail \in Nat
  BY DEF Typed
<1>2. half \in Nat
  BY <1>1
<1> HIDE DEF half
<1>3. thr \in Nat /\ thr + 3 \in Nat
  BY <1>2
<1> HIDE DEF thr
<1> DEFINE t3 == thr + 3
<1>4. t3 \in Nat
  BY <1>3
<1> HIDE DEF t3
<1>5. low = [d EXCEPT !.loss = 0, !.ssthresh = thr, !.cwnd = t3]
  BY DEF t3
<1>6. IsEnd(low) /\ \A f \in Fields : low[f] = IF f = "loss" THEN 0 ELSE IF f = "ssthresh" THEN thr
                                             ELSE IF f = "cwnd" THEN t3 ELSE d[f]
  <2>1. IsEnd(low)
    BY <1>1, <1>5 DEF IsEnd
  <2>2. \A f \in Fields : low[f] = IF f = "loss" THEN 0 ELSE IF f = "ssthresh" THEN thr
                                  ELSE IF f = "cwnd" THEN t3 ELSE d[f]
    BY <1>1, <1>5 DEF IsEnd
  <2> QED
    BY <2>1, <2>2
<1>7. e = [c EXCEPT !.cwnd = cwnd]
  BY DEF Congestion, half, thr
<1> HIDE DEF low
<1>8. low.cwnd = t3
  BY <1>6 DEF Fields
<1>9. c.cwnd \in Nat
  BY <1>1, <1>4, <1>8
<1>10. IsEnd(c) /\ \A f \in Fields \ {"loss", "ssthresh", "cwnd"} : c[f] = d[f]
  BY <1>1, <1>6
<1> HIDE DEF c
<1>11. more \in Nat
  BY <1>1
<1> HIDE DEF more
<1>12. cwnd \in Nat
  BY <1>9, <1>11, WindowIs DEF Lesser
<1> HIDE DEF cwnd
<1>13. IsEnd(e)
  BY <1>7, <1>10 DEF IsEnd
<1>14. \A f \in Fields : e[f] = IF f = "cwnd" THEN cwnd ELSE c[f]
  BY <1>7, <1>10 DEF IsEnd
<1>15. \A f \in Fields \ {"loss", "ssthresh", "cwnd"} : e[f] = d[f]
  BY <1>10, <1>14
<1>16. e.cwnd = cwnd
  BY <1>14 DEF Fields
<1>17. SameOut(d, e) /\ SameJob(d, e) /\ e.sent = d.sent /\ e.count = d.count /\ e.timers = d.timers
  BY <1>15 DEF Fields, SameOut, SameJob
<1>18. Keeps(d, e)
  BY <1>15 DEF Fields, Keeps, Answers
<1> QED
  BY <1>12, <1>13, <1>16, <1>17, <1>18

(* The window moves up to what was acknowledged, and others take the places. *)
LEMMA AckedOK ==
  ASSUME NEW d, NEW k, k \in Nat, SideOK(d, k), NEW p, p.aru \in Nat, AcksNews(d, p),
         NEW grows, grows \in 0 .. 1, NEW e, e = AckedUpTo(d, p, grows)
  PROVE  SideOK(e, k) /\ Keeps(d, e)
<1> DEFINE h == d.given - d.wants
           c == Congestion(d, p.aru, grows)
           tail == p.aru + 1
           u == [c EXCEPT !.out_tail = tail]
           v == FillWindow(u)
           w == Pack_Fragments_Into_Packets_IT(v)
<1>1. SendOK(d, k, h) /\ Waiting(d) /\ Alarmed(d) /\ Filled(d) /\ Served(d)
  BY DEF SideOK
<1>2. Typed(d) /\ Mail(d) /\ OutWindow(d, k) /\ Handed(d, k, h) /\ Sent(d, k)
  BY <1>1 DEF SendOK
<1>3. /\ d.out_tail \in Nat /\ d.tcp_head \in Nat /\ d.out_head \in Nat /\ d.out_message.left \in Nat
      /\ d.out_tail <= p.aru /\ p.aru < d.tcp_head
      /\ d.tcp_head <= d.out_head /\ d.out_head <= d.out_tail + Window /\ 1 <= d.out_tail
  BY <1>2 DEF Typed, OutWindow, AcksNews
<1>4. e = Assign_Resources_IT(w)
  BY DEF AckedUpTo
<1> HIDE DEF h
<1>5. /\ IsEnd(c) /\ SameOut(d, c) /\ Keeps(d, c) /\ SameJob(d, c) /\ c.sent = d.sent
      /\ c.cwnd \in Nat /\ c.count = d.count /\ c.timers = d.timers
  BY <1>2, <1>3, CongestionOK
<1> HIDE DEF c
<1>6. tail \in Nat /\ d.out_tail <= tail /\ tail <= d.tcp_head /\ tail >= 1
  BY <1>3
<1> HIDE DEF tail
<1>7. IsEnd(u)
  BY <1>5 DEF IsEnd
<1>8. \A f \in Fields : u[f] = IF f = "out_tail" THEN tail ELSE c[f]
  BY <1>5 DEF IsEnd
<1>9. /\ u.out_tail = tail /\ u.tcp_head = c.tcp_head /\ u.out_head = c.out_head /\ u.outgoing = c.outgoing
      /\ u.out_digest = c.out_digest /\ u.out_message = c.out_message
      /\ SameJob(c, u) /\ u.sent = c.sent /\ u.cwnd = c.cwnd /\ u.count = c.count /\ u.timers = c.timers
  BY <1>8 DEF Fields, SameJob
<1>10. Keeps(c, u)
  BY <1>8 DEF Fields, Keeps, Answers
<1> HIDE DEF u
<1>11. /\ u.out_tail = tail /\ u.tcp_head = d.tcp_head /\ u.out_head = d.out_head /\ u.outgoing = d.outgoing
       /\ u.out_digest = d.out_digest /\ u.out_message = d.out_message
       /\ SameJob(d, u) /\ u.sent = d.sent /\ u.cwnd \in Nat /\ u.count = d.count /\ u.timers = d.timers
  BY <1>5, <1>9 DEF SameOut, SameJob
<1>12. Keeps(d, u)
  BY <1>5, <1>10, KeepsTransitive
<1>13. Typed(u)
  BY <1>2, <1>6, <1>7, <1>11, <1>12 DEF Typed, SameJob, Keeps
<1>14. OutWindow(u, k)
  <2>1. ASSUME NEW q \in tail .. d.out_head - 1 PROVE Placed(d.outgoing[q % Window], q, k)
    <3>1. q \in d.out_tail .. d.out_head - 1
      BY <1>3, <1>6
    <3> QED
      BY <1>2, <3>1 DEF OutWindow
  <2>2. ASSUME NEW q \in tail - 1 .. d.out_head - 1, q = d.out_head - 1 \/ q >= tail
        PROVE  d.out_digest[q % Window] = Digest(d.my_inc, d.ngbr_inc, q)
    <3>1. q \in d.out_tail - 1 .. d.out_head - 1 /\ (q = d.out_head - 1 \/ q >= d.out_tail)
      BY <1>3, <1>6, <2>2
    <3> QED
      BY <1>2, <3>1 DEF OutWindow
  <2>3. u.my_inc = d.my_inc /\ u.ngbr_inc = d.ngbr_inc
    BY <1>12 DEF Keeps
  <2>4. \A q \in u.out_tail .. u.out_head - 1 : Placed(u.outgoing[q % Window], q, k)
    BY <1>11, <2>1
  <2>5. \A q \in u.out_tail - 1 .. u.out_head - 1 :
           q = u.out_head - 1 \/ q >= u.out_tail => u.out_digest[q % Window] = Digest(u.my_inc, u.ngbr_inc, q)
    BY <1>11, <2>2, <2>3
  <2>6. /\ 1 <= u.out_tail /\ u.out_tail <= u.tcp_head /\ u.tcp_head <= u.out_head
        /\ u.out_head <= u.out_tail + Window
    BY <1>3, <1>6, <1>11, WindowIs
  <2>7. u.out_digest = [s \in Slots |-> u.out_digest[s]]
    BY <1>2, <1>11 DEF OutWindow
  <2> QED
    BY <2>4, <2>5, <2>6, <2>7 DEF OutWindow
<1>15. Handed(u, k, h) /\ Sent(u, k) /\ Mail(u)
  BY <1>2, <1>11, <1>12, KeepsMail DEF Handed, Sent, Keeps
<1>16. SendOK(u, k, h)
  BY <1>13, <1>14, <1>15 DEF SendOK
<1>17. Alarmed(u)
  <2>1. u.out_tail .. u.tcp_head - 1 \subseteq d.out_tail .. d.tcp_head - 1
    BY <1>3, <1>6, <1>11
  <2> QED
    BY <1>1, <1>12, <2>1, KeepsAlarmed
<1>18. /\ SendOK(v, k, h) /\ Keeps(u, v) /\ SameJob(u, v)
       /\ v.out_tail = u.out_tail /\ v.out_head = u.out_head /\ v.out_message = u.out_message
       /\ Alarmed(v)
  BY <1>16, <1>17, FillOK DEF Lets
<1> HIDE DEF v
<1>19. v.out_message.left > 0 => ~Full_Link_IT(v) \/ v.out_message.left < Frags[h]
  <2> SUFFICES ASSUME v.out_message.left > 0 PROVE v.out_message.left < Frags[h]
    OBVIOUS
  <2>1. v.out_message = d.out_message
    BY <1>11, <1>18
  <2>2. d.out_message.left < Frags[d.out_message.msg] /\ d.out_message.msg = h
    BY <1>1, <1>2, <2>1 DEF Waiting, Handed
  <2> QED
    BY <2>1, <2>2
<1>20. /\ SendOK(w, k, h) /\ Keeps(v, w) /\ SameJob(v, w) /\ Waiting(w)
       /\ w.out_tail = v.out_tail /\ w.tcp_head = v.tcp_head /\ w.timers = v.timers
  BY <1>18, <1>19, PackOK
<1> HIDE DEF w
<1>21. Keeps(d, w)
  BY <1>12, <1>18, <1>20, KeepsTransitive
<1>22. SameJob(d, w) /\ w.given - w.wants = h
  BY <1>11, <1>18, <1>20, <1>21 DEF SameJob, Keeps, h
<1>23. Alarmed(w) /\ Filled(w)
  <2>1. Alarmed(w)
    BY <1>18, <1>20, KeepsAlarmed
  <2> QED
    BY <1>1, <1>21, <1>22, <2>1 DEF Filled, SameJob, Keeps
<1>24. Serves(w, e, k) /\ Filled(e) /\ Served(e)
  BY <1>4, <1>20, <1>22, <1>23, AssignOK
<1>25. Keeps(d, e)
  BY <1>21, <1>24, KeepsTransitive DEF Serves
<1> QED
  BY <1>23, <1>24, <1>25 DEF SideOK, Serves

-----------------------------------------------------------------------------
(* Requests for packets. *)

Marks(g, U, b, o) == o = [s \in Slots |-> IF s \in U THEN [g[s] EXCEPT !.nacked = b] ELSE g[s]]

LEMMA MarkOK ==
  ASSUME NEW g, g \in [Slots -> OutCell], NEW U, NEW b, b \in BOOLEAN, NEW o, Marks(g, U, b, o)
  PROVE  /\ o \in [Slots -> OutCell]
         /\ \A s \in Slots : o[s].msg = g[s].msg /\ o[s].idx = g[s].idx
<1>1. ASSUME NEW s \in Slots PROVE o[s] \in OutCell /\ o[s].msg = g[s].msg /\ o[s].idx = g[s].idx
  <2>1. g[s] \in OutCell
    OBVIOUS
  <2> DEFINE c == [g[s] EXCEPT !.nacked = b]
  <2>2. c \in OutCell /\ c.msg = g[s].msg /\ c.idx = g[s].idx
    BY <2>1 DEF OutCell
  <2> QED
    BY <2>1, <2>2 DEF Marks
<1> QED
  BY <1>1 DEF Marks

LEMMA RetransmOK ==
  ASSUME NEW d, NEW k, k \in Nat, SideOK(d, k), NEW room, NEW due,
         NEW e, e = Handle_IT_Retransm(d, room, due)
  PROVE  SideOK(e, k) /\ Keeps(d, e)
<1> DEFINE asked == {q \in d.out_tail .. d.tcp_head - 1 : due /\ d.outgoing[q % Window].nacked}
           S == {q \in asked : Cardinality({r \in asked : r <= q}) <= room}
           stop == IF Cardinality(S) < room THEN d.tcp_head
                   ELSE IF S = {} THEN d.out_tail
                   ELSE (CHOOSE q \in S : \A r \in S : q >= r) + 1
           u == Send_IT_Data_Msg(d, S)
           U == {q % Window : q \in S}
           outgoing == [s \in Slots |-> IF s \in U THEN [u.outgoing[s] EXCEPT !.nacked = FALSE] ELSE u.outgoing[s]]
           timers == IF room = 0 \/ stop < d.tcp_head THEN u.timers \cup {"Retransm"} ELSE u.timers
<1>1. e = [u EXCEPT !.outgoing = outgoing, !.timers = timers]
  BY DEF Handle_IT_Retransm
<1>2. S \subseteq d.out_tail .. d.out_head - 1
  <2>1. S \subseteq d.out_tail .. d.tcp_head - 1
    OBVIOUS
  <2>2. d.out_tail \in Nat /\ d.tcp_head \in Nat /\ d.out_head \in Nat /\ d.tcp_head <= d.out_head
    BY DEF SideOK, SendOK, Typed, OutWindow
  <2> HIDE DEF S
  <2> QED
    BY <2>1, <2>2
<1>3. u.timers \subseteq timers
  OBVIOUS
<1> HIDE DEF S, stop, timers
<1>4. SideOK(u, k) /\ Keeps(d, u) /\ SameOut(d, u) /\ SameJob(d, u)
  BY <1>2, SendSide
<1> HIDE DEF u
<1>5. IsEnd(u) /\ Typed(u) /\ u.outgoing \in [Slots -> OutCell] /\ u.cwnd \in Nat /\ u.count \in Nat
  BY <1>4 DEF SideOK, SendOK, Typed
<1> HIDE DEF U
<1>6. /\ outgoing \in [Slots -> OutCell]
      /\ \A s \in Slots : outgoing[s].msg = u.outgoing[s].msg /\ outgoing[s].idx = u.outgoing[s].idx
  <2> DEFINE b == FALSE
             o == u.outgoing
  <2>1. Marks(o, U, b, outgoing)
    BY Zenon DEF Marks
  <2>2. b \in BOOLEAN /\ o \in [Slots -> OutCell]
    BY <1>5
  <2> HIDE DEF b, o, outgoing
  <2>3. /\ outgoing \in [Slots -> OutCell]
        /\ \A s \in Slots : outgoing[s].msg = o[s].msg /\ outgoing[s].idx = o[s].idx
    BY <2>1, <2>2, MarkOK
  <2> QED
    BY <2>3 DEF o
<1> HIDE DEF outgoing
<1>7. IsEnd(e)
  BY <1>1, <1>5 DEF IsEnd
<1>8. \A f \in Fields : e[f] = IF f = "outgoing" THEN outgoing ELSE IF f = "timers" THEN timers ELSE u[f]
  BY <1>1, <1>5 DEF IsEnd
<1>9. /\ e.outgoing = outgoing /\ e.timers = timers /\ e.out_tail = u.out_tail /\ e.tcp_head = u.tcp_head
      /\ e.out_head = u.out_head /\ e.out_digest = u.out_digest /\ e.out_message = u.out_message
      /\ SameJob(u, e) /\ e.sent = u.sent /\ e.cwnd = u.cwnd /\ e.count = u.count
  BY <1>8 DEF Fields, SameJob
<1>10. Keeps(u, e)
  BY <1>3, <1>8 DEF Fields, Keeps, Answers
<1>11. LikeOut(u, e)
  BY <1>6, <1>9 DEF LikeOut
<1>12. SideOK(e, k)
  BY <1>4, <1>5, <1>7, <1>9, <1>10, <1>11, TouchSide
<1> QED
  BY <1>4, <1>10, <1>12, KeepsTransitive

LEMMA NackedOK ==
  ASSUME NEW d, NEW k, k \in Nat, SideOK(d, k), NEW p, NEW room, NEW due,
         NEW e, e = Nacked(d, p, room, due)
  PROVE  SideOK(e, k) /\ Keeps(d, e)
<1> DEFINE inside == {q \in p.nacks : d.out_tail <= q /\ q < d.tcp_head}
           U == {q % Window : q \in inside}
           outgoing == [s \in Slots |-> IF s \in U THEN [d.outgoing[s] EXCEPT !.nacked = TRUE] ELSE d.outgoing[s]]
           aru == IF d.loss = 0 THEN p.aru ELSE d.loss_aru
           u == [d EXCEPT !.outgoing = outgoing, !.loss = 1, !.loss_aru = aru]
<1>1. e = IF p.nacks = {} THEN d
          ELSE IF "Retransm" \in d.timers THEN u ELSE Handle_IT_Retransm(u, room, due)
  BY DEF Nacked
<1>2. IsEnd(d) /\ Typed(d) /\ d.outgoing \in [Slots -> OutCell] /\ d.cwnd \in Nat /\ d.count \in Nat
  BY DEF SideOK, SendOK, Typed
<1> HIDE DEF U
<1>3. /\ outgoing \in [Slots -> OutCell]
      /\ \A s \in Slots : outgoing[s].msg = d.outgoing[s].msg /\ outgoing[s].idx = d.outgoing[s].idx
  <2> DEFINE b == TRUE
             o == d.outgoing
  <2>1. Marks(o, U, b, outgoing)
    BY Zenon DEF Marks
  <2>2. b \in BOOLEAN /\ o \in [Slots -> OutCell]
    BY <1>2
  <2> HIDE DEF b, o, outgoing
  <2>3. /\ outgoing \in [Slots -> OutCell]
        /\ \A s \in Slots : outgoing[s].msg = o[s].msg /\ outgoing[s].idx = o[s].idx
    BY <2>1, <2>2, MarkOK
  <2> QED
    BY <2>3 DEF o
<1> HIDE DEF outgoing, aru
<1>4. IsEnd(u)
  BY <1>2 DEF IsEnd
<1>5. \A f \in Fields : u[f] = IF f = "outgoing" THEN outgoing ELSE IF f = "loss" THEN 1
                              ELSE IF f = "loss_aru" THEN aru ELSE d[f]
  BY <1>2 DEF IsEnd
<1>6. /\ u.outgoing = outgoing /\ u.out_tail = d.out_tail /\ u.tcp_head = d.tcp_head
      /\ u.out_head = d.out_head /\ u.out_digest = d.out_digest /\ u.out_message = d.out_message
      /\ SameJob(d, u) /\ u.sent = d.sent /\ u.cwnd = d.cwnd /\ u.count = d.count
  BY <1>5 DEF Fields, SameJob
<1>7. Keeps(d, u)
  BY <1>5 DEF Fields, Keeps, Answers
<1> HIDE DEF u
<1>8. LikeOut(d, u)
  BY <1>3, <1>6 DEF LikeOut
<1>9. SideOK(u, k)
  BY <1>2, <1>4, <1>6, <1>7, <1>8, TouchSide
<1>10. CASE p.nacks = {}
  BY <1>1, <1>10, KeepsReflexive
<1>11. CASE p.nacks # {} /\ "Retransm" \in d.timers
  BY <1>1, <1>7, <1>9, <1>11
<1>12. CASE p.nacks # {} /\ "Retransm" \notin d.timers
  <2>1. e = Handle_IT_Retransm(u, room, due)
    BY <1>1, <1>12
  <2>2. SideOK(e, k) /\ Keeps(u, e)
    BY <1>9, <2>1, RetransmOK
  <2> QED
    BY <1>7, <2>2, KeepsTransitive
<1> QED
  BY <1>10, <1>11, <1>12

(* An ack of its own. *)
LEMMA SendAckOK ==
  ASSUME NEW d, NEW k, k \in Nat, SideOK(d, k), NEW e, e = Send_IT_Ack(d)
  PROVE  /\ SideOK(e, k) /\ Keeps(d, e) /\ SameOut(d, e) /\ SameJob(d, e) /\ e.timers = d.timers
         /\ e.count = d.count
<1> DEFINE sent == IF HasKey(d) THEN d.sent \cup {Ack(d, Add_IT_Nacks(d))} ELSE d.sent
           h == d.given - d.wants
<1>1. SendOK(d, k, h) /\ Waiting(d) /\ Alarmed(d) /\ Filled(d) /\ Served(d)
  BY DEF SideOK
<1>2. Typed(d) /\ IsEnd(d) /\ Mail(d) /\ OutWindow(d, k) /\ Handed(d, k, h) /\ Sent(d, k)
  BY <1>1 DEF SendOK, Typed
<1>3. PacketOK(Ack(d, Add_IT_Nacks(d)), d.my_inc, d.ngbr_inc, k)
  BY <1>2, NacksAre, AckOK
<1>4. \A p \in sent : PacketOK(p, d.my_inc, d.ngbr_inc, k)
  BY <1>2, <1>3 DEF Sent
<1>5. e = [d EXCEPT !.sent = sent, !.expired = FALSE]
  <2>1. IT_Link_Send(d, Ack(d, Add_IT_Nacks(d))) = [d EXCEPT !.sent = sent]
    BY <1>2 DEF IT_Link_Send, IsEnd, Fields
  <2> QED
    BY <2>1 DEF Send_IT_Ack
<1> HIDE DEF sent, h
<1>6. IsEnd(e)
  BY <1>2, <1>5 DEF IsEnd
<1>7. \A f \in Fields : e[f] = IF f = "sent" THEN sent ELSE IF f = "expired" THEN FALSE ELSE d[f]
  BY <1>2, <1>5 DEF IsEnd
<1>8. SameOut(d, e) /\ SameJob(d, e) /\ e.sent = sent /\ e.timers = d.timers /\ e.count = d.count /\ e.cwnd = d.cwnd
  BY <1>7 DEF Fields, SameOut, SameJob
<1>9. Keeps(d, e)
  BY <1>7 DEF Fields, Keeps, Answers
<1>10. Typed(e)
  BY <1>2, <1>6, <1>8, <1>9 DEF Typed, SameOut, SameJob, Keeps
<1>11. OutWindow(e, k)
  BY <1>2, <1>8, <1>9, SameOutWindow DEF Keeps
<1>12. Handed(e, k, h) /\ Sent(e, k) /\ Mail(e) /\ h = e.given - e.wants
  BY <1>2, <1>4, <1>8, <1>9, KeepsMail DEF Handed, Sent, Keeps, SameOut, SameJob, h
<1>13. Waiting(e) /\ Alarmed(e) /\ Filled(e) /\ Served(e)
  <2>1. Alarmed(e)
    BY <1>1, <1>8, <1>9, KeepsAlarmed DEF SameOut
  <2> QED
    BY <1>1, <1>8, <2>1 DEF Waiting, Filled, Served, Full_Link_IT, SameOut, SameJob
<1> QED
  BY <1>8, <1>9, <1>10, <1>11, <1>12, <1>13 DEF SideOK, SendOK

-----------------------------------------------------------------------------
(* Receiving. *)

KeepsOut(d, e) ==
  /\ IsEnd(e) /\ e.my_inc = d.my_inc /\ e.ngbr_inc = d.ngbr_inc /\ e.given = d.given
  /\ SameOut(d, e) /\ SameJob(d, e) /\ e.sent = d.sent /\ e.cwnd = d.cwnd /\ e.count \in Nat
  /\ e.established = d.established /\ e.dh_aru = d.dh_aru /\ e.unsent = d.unsent
  /\ d.timers \subseteq e.timers
  /\ Answers(d) => Answers(e)

LEMMA KeepsOutTransitive ==
  ASSUME NEW d, NEW e, NEW f, KeepsOut(d, e), KeepsOut(e, f)
  PROVE  KeepsOut(d, f)
<1>1. SameOut(d, f) /\ SameJob(d, f)
  BY DEF KeepsOut, SameOut, SameJob
<1>2. d.timers \subseteq f.timers
  BY DEF KeepsOut
<1>3. Answers(d) => Answers(f)
  BY DEF KeepsOut
<1> QED
  BY <1>1, <1>2, <1>3 DEF KeepsOut

LEMMA KeepsSide ==
  ASSUME NEW d, NEW e, NEW k, k \in Nat, SideOK(d, k), KeepsOut(d, e), Mail(e)
  PROVE  SideOK(e, k)
<1> DEFINE h == d.given - d.wants
<1>1. Typed(d) /\ OutWindow(d, k) /\ Handed(d, k, h) /\ Sent(d, k)
  BY DEF SideOK, SendOK
<1>2. Waiting(d) /\ Alarmed(d) /\ Filled(d) /\ Served(d)
  BY DEF SideOK
<1>3. Typed(e)
  BY <1>1 DEF Typed, KeepsOut, SameOut, SameJob
<1>4. OutWindow(e, k)
  BY <1>1, SameOutWindow DEF KeepsOut
<1>5. Handed(e, k, e.given - e.wants)
  BY <1>1 DEF Handed, KeepsOut, SameOut, SameJob
<1>6. Sent(e, k)
  BY <1>1 DEF Sent, KeepsOut
<1>7. Waiting(e) /\ Alarmed(e) /\ Filled(e) /\ Served(e)
  BY <1>2 DEF Waiting, Alarmed, Filled, Served, Full_Link_IT, KeepsOut, SameOut, SameJob
<1> QED
  BY <1>3, <1>4, <1>5, <1>6, <1>7 DEF SideOK, SendOK

(* The cell of the next number in order. *)
LEMMA NextCell ==
  ASSUME NEW d, NEW k, k \in Nat, InWindow(d, k), NEW s, s = d.in_tail % Window,
         d.incoming[s].flags = "RECVD"
  PROVE  /\ s \in Slots /\ d.in_tail < d.in_head
         /\ d.incoming[s].nonce = <<d.ngbr_inc, d.my_inc, d.in_tail>>
         /\ Placed(d.incoming[s], d.in_tail, k)
<1>1. /\ d.in_tail \in Nat /\ d.in_head \in Nat /\ d.in_tail <= d.in_head
      /\ d.in_head <= d.in_tail + Window
  BY DEF InWindow
<1>2. s \in Slots
  BY <1>1, SlotIs
<1>3. PICK q \in d.in_tail .. d.in_head - 1 :
        /\ q % Window = s
        /\ d.incoming[s].nonce = <<d.ngbr_inc, d.my_inc, q>>
        /\ Placed(d.incoming[s], q, k)
  BY <1>2 DEF InWindow, Cell
<1>4. q \in Nat /\ q < d.in_tail + Window /\ d.in_tail < q + Window
  BY <1>1, WindowIs
<1>5. q = d.in_tail
  BY <1>1, <1>3, <1>4, SlotInjective
<1> QED
  BY <1>1, <1>2, <1>3, <1>5

(* The cell leaves the window. *)
Leaves(d, s, t) ==
  t = [d EXCEPT !.aru_digest = SymDiff(d.aru_digest, {d.incoming[s].nonce}), !.in_tail = d.in_tail + 1,
                !.incoming = [d.incoming EXCEPT ![s] = Empty]]

CellIn(d, k, s, t) ==
  /\ IsEnd(d) /\ d.count \in Nat /\ k \in Nat /\ InWindow(d, k) /\ s = d.in_tail % Window
  /\ d.incoming[s].flags = "RECVD" /\ Leaves(d, s, t)

LEMMA CellLeaves ==
  ASSUME NEW d, NEW k, NEW s, NEW t, CellIn(d, k, s, t)
  PROVE  /\ KeepsOut(d, t) /\ InWindow(t, k) /\ t.in_tail = d.in_tail + 1
         /\ t.in_frag_idx = d.in_frag_idx /\ t.delivered = d.delivered /\ t.bad = d.bad
         /\ \A x : Early(d, x) => Early(t, x) \/ x = d.incoming[s].msg
<1> DEFINE digest == SymDiff(d.aru_digest, {d.incoming[s].nonce})
           tail == d.in_tail + 1
           incoming == [d.incoming EXCEPT ![s] = Empty]
<1>0. /\ IsEnd(d) /\ d.count \in Nat /\ k \in Nat /\ InWindow(d, k) /\ s = d.in_tail % Window
      /\ d.incoming[s].flags = "RECVD" /\ Leaves(d, s, t)
  BY DEF CellIn
<1>1. t = [d EXCEPT !.aru_digest = digest, !.in_tail = tail, !.incoming = incoming]
  BY <1>0 DEF Leaves
<1>2. /\ s \in Slots /\ d.in_tail < d.in_head
      /\ d.incoming[s].nonce = <<d.ngbr_inc, d.my_inc, d.in_tail>>
  BY <1>0, NextCell
<1>3. /\ d.in_tail \in Nat /\ d.in_head \in Nat /\ 1 <= d.in_tail
      /\ d.in_head <= d.in_tail + Window
      /\ d.incoming = [x \in Slots |-> d.incoming[x]]
      /\ d.aru_digest = Digest(d.ngbr_inc, d.my_inc, d.in_tail - 1)
  BY <1>0 DEF InWindow
<1>4. incoming = [x \in Slots |-> incoming[x]] /\ \A x \in Slots : incoming[x] = IF x = s THEN Empty ELSE d.incoming[x]
  BY <1>2, <1>3
<1>5. tail \in Nat /\ 1 <= tail /\ tail <= d.in_head /\ d.in_head <= tail + Window /\ tail - 1 = d.in_tail
  BY <1>2, <1>3, WindowIs
<1>6. digest = Digest(d.ngbr_inc, d.my_inc, d.in_tail)
  <2> DEFINE T == {d.incoming[s].nonce}
  <2>1. T = {<<d.ngbr_inc, d.my_inc, x>> : x \in d.in_tail .. d.in_tail}
    <3>1. \A x : x \in d.in_tail .. d.in_tail <=> x = d.in_tail
      BY <1>3
    <3> QED
      BY <1>2, <3>1
  <2> HIDE DEF T
  <2>2. SymDiff(Digest(d.ngbr_inc, d.my_inc, d.in_tail - 1), T) = Digest(d.ngbr_inc, d.my_inc, d.in_tail)
    BY <1>3, <2>1, DigestGrows
  <2> QED
    BY <1>3, <2>2 DEF T
<1> HIDE DEF digest, tail, incoming
<1>7. IsEnd(t)
  BY <1>0, <1>1 DEF IsEnd
<1>8. \A f \in Fields : t[f] = IF f = "aru_digest" THEN digest ELSE IF f = "in_tail" THEN tail
                              ELSE IF f = "incoming" THEN incoming ELSE d[f]
  BY <1>0, <1>1 DEF IsEnd
<1>9. /\ t.aru_digest = digest /\ t.in_tail = tail /\ t.incoming = incoming /\ t.in_head = d.in_head
      /\ t.in_frag_idx = d.in_frag_idx /\ t.delivered = d.delivered /\ t.bad = d.bad
      /\ t.my_inc = d.my_inc /\ t.ngbr_inc = d.ngbr_inc
  BY <1>8 DEF Fields
<1>10. KeepsOut(d, t)
  BY <1>0, <1>7, <1>8 DEF Fields, KeepsOut, SameOut, SameJob, Answers
<1>11. ASSUME NEW x \in Slots PROVE Cell(t, x, k)
  <2> SUFFICES ASSUME t.incoming[x].flags = "RECVD"
               PROVE  \E q \in tail .. d.in_head - 1 :
                         /\ q % Window = x
                         /\ t.incoming[x].nonce = <<d.ngbr_inc, d.my_inc, q>>
                         /\ Placed(t.incoming[x], q, k)
    BY <1>9 DEF Cell
  <2>1. x # s /\ t.incoming[x] = d.incoming[x]
    BY <1>4, <1>9 DEF Empty
  <2>2. PICK q \in d.in_tail .. d.in_head - 1 :
          /\ q % Window = x
          /\ d.incoming[x].nonce = <<d.ngbr_inc, d.my_inc, q>>
          /\ Placed(d.incoming[x], q, k)
    BY <1>0, <2>1 DEF InWindow, Cell
  <2>3. q # d.in_tail
    BY <1>0, <2>1, <2>2
  <2>4. q \in tail .. d.in_head - 1
    BY <1>3, <2>3 DEF tail
  <2> QED
    BY <2>1, <2>2, <2>4
<1>12. InWindow(t, k)
  BY <1>3, <1>4, <1>5, <1>6, <1>9, <1>11 DEF InWindow
<1>13. \A x : Early(d, x) => Early(t, x) \/ x = d.incoming[s].msg
  BY <1>4, <1>9 DEF Early
<1> QED
  BY <1>9, <1>10, <1>12, <1>13 DEF tail

SameIn(d, e) ==
  /\ e.in_tail = d.in_tail /\ e.in_head = d.in_head /\ e.incoming = d.incoming /\ e.aru_digest = d.aru_digest
  /\ e.my_inc = d.my_inc /\ e.ngbr_inc = d.ngbr_inc

LEMMA SameInWindow ==
  ASSUME NEW d, NEW e, NEW k, InWindow(d, k), SameIn(d, e)
  PROVE  InWindow(e, k) /\ \A x : Early(d, x) => Early(e, x)
<1>1. InWindow(e, k)
  BY DEF InWindow, SameIn, Cell
<1>2. \A x : Early(d, x) => Early(e, x)
  BY DEF Early, SameIn
<1> QED
  BY <1>1, <1>2

(* One message more is complete. *)
Completes(m, n, i, q, k) ==
  /\ m \in 0 .. Len(Frags) /\ n = m + 1 /\ n \in 1 .. Len(Frags) /\ i = Frags[n]
  /\ q \in Nat /\ k \in Nat /\ Before[m] + i = q + k

LEMMA OneMore ==
  ASSUME NEW m, NEW n, NEW i, NEW q, NEW k, Completes(m, n, i, q, k)
  PROVE  /\ n \in 0 .. Len(Frags) /\ Before[n] + 1 = q + 1 + k
         /\ IF n = Len(Frags) THEN TRUE ELSE 1 <= Frags[n + 1]
<1>0. /\ m \in 0 .. Len(Frags) /\ n = m + 1 /\ n \in 1 .. Len(Frags) /\ i = Frags[n]
      /\ q \in Nat /\ k \in Nat /\ Before[m] + i = q + k
  BY DEF Completes
<1>1. n - 1 = m /\ Len(Frags) \in Nat /\ n \in 0 .. Len(Frags)
  BY <1>0, FragsAre
<1>2. n # Len(Frags) => n + 1 \in 1 .. Len(Frags)
  BY <1>0, <1>1
<1>3. Before[n] = Before[m] + Frags[n] /\ Before[m] \in Nat /\ Frags[n] \in Nat
  BY <1>0, <1>1, BeforeIs, FragsAre
<1>4. Before[n] + 1 = q + 1 + k
  BY <1>0, <1>3
<1>5. n # Len(Frags) => 1 <= Frags[n + 1]
  BY <1>2, FragsAre
<1> QED
  BY <1>1, <1>4, <1>5

(* The next cell in order is the next packet of the message being built. *)
LEMMA TakeCellOK ==
  ASSUME NEW d, IsEnd(d), d.count \in Nat, NEW k, k \in Nat, Receiver(d, k, conf.ordered),
         NEW e, e = TakeCell(d)
  PROVE  KeepsOut(d, e) /\ Receiver(e, k, conf.ordered)
<1> DEFINE s == d.in_tail % Window
           c == d.incoming[s]
           t == [d EXCEPT !.aru_digest = SymDiff(@, {c.nonce}), !.in_tail = @ + 1, !.incoming[s] = Empty]
<1>1. e = IF c.flags # "RECVD" THEN d
          ELSE IF AtOnce(c.msg) THEN t ELSE Build_Message_From_Fragments_IT(t, c)
  BY DEF TakeCell
<1>2. CASE c.flags # "RECVD"
  BY <1>1, <1>2 DEF KeepsOut, SameOut, SameJob
<1>3. CASE c.flags = "RECVD"
  <2>1. InWindow(d, k)
    BY DEF Receiver
  <2>2. PICK m \in 0 .. Len(Frags) : Built(d, m, k) /\ Delivered(d, m, conf.ordered)
    BY DEF Receiver
  <2>3. Leaves(d, s, t)
    BY DEF Leaves
  <2> DEFINE msg == c.msg
             idx == c.idx
             q == d.in_tail
             D == d.delivered
  <2>4. Placed(c, q, k) /\ q \in Nat /\ s = d.in_tail % Window
    BY <1>3, <2>1, NextCell DEF InWindow
  <2>5. /\ KeepsOut(d, t) /\ InWindow(t, k) /\ t.in_tail = q + 1
        /\ t.in_frag_idx = d.in_frag_idx /\ t.delivered = D /\ t.bad = d.bad
        /\ \A x : Early(d, x) => Early(t, x) \/ x = msg
    <3> HIDE DEF t, s
    <3>1. d.incoming[s].flags = "RECVD"
      BY <1>3
    <3>2. /\ KeepsOut(d, t) /\ InWindow(t, k) /\ t.in_tail = d.in_tail + 1
          /\ t.in_frag_idx = d.in_frag_idx /\ t.delivered = d.delivered /\ t.bad = d.bad
          /\ \A x : Early(d, x) => Early(t, x) \/ x = d.incoming[s].msg
      <4>1. CellIn(d, k, s, t)
        BY <2>1, <2>3, <2>4, <3>1 DEF CellIn
      <4> QED
        BY <4>1, CellLeaves
    <3> QED
      BY <3>2
  <2>6. IsPart(msg, idx) /\ Before[msg - 1] + idx = q + k
    BY <2>4 DEF Placed
  <2>7. /\ d.in_frag_idx \in Nat /\ d.in_frag_idx >= 1 /\ Before[m] + d.in_frag_idx = q + k
        /\ m = Len(Frags) => d.in_frag_idx = 1
        /\ m # Len(Frags) => d.in_frag_idx <= Frags[m + 1]
        /\ d.bad = FALSE /\ D \in Seq(Nat)
    BY <2>2 DEF Built
  <2>8. msg = m + 1 /\ idx = d.in_frag_idx
    <3>1. m < Len(Frags) => d.in_frag_idx <= Frags[m + 1]
      BY <2>7, FragsAre
    <3>2. Before[msg - 1] + idx = Before[m] + d.in_frag_idx
      BY <2>6, <2>7
    <3> HIDE DEF msg, idx, q
    <3> QED
      BY <2>6, <2>7, <3>1, <3>2, PlaceIsUnique
  <2> HIDE DEF t, s, c
  <2>9. /\ msg \in 1 .. Len(Frags) /\ Frags[msg] \in Nat /\ idx \in 1 .. Frags[msg] /\ Len(Frags) \in Nat
        /\ m \in Nat /\ msg \in Nat /\ m + 1 \in 1 .. Len(Frags) /\ m # Len(Frags)
    BY <2>6, <2>8, FragsAre DEF IsPart
  <2>10. IsEnd(t) /\ t.count \in Nat
    BY <2>5 DEF KeepsOut
  <2>11. Len(D) \in Nat /\ \A j \in 1 .. Len(D) : D[j] \in Nat
    BY <2>7
  <2> HIDE DEF msg, idx, q, D
  <2>12. CASE AtOnce(msg)
    <3>1. e = t
      BY <1>1, <1>3, <2>12 DEF msg
    <3>2. conf.ordered = FALSE \/ ~conf.ordered
      BY <2>12 DEF AtOnce
    <3>3. Frags[msg] = 1 /\ idx = 1 /\ d.in_frag_idx = 1 /\ ~conf.ordered
      BY <2>8, <2>9, <2>12 DEF AtOnce
    <3>4. /\ msg \in 0 .. Len(Frags) /\ Before[msg] + 1 = q + 1 + k
          /\ IF msg = Len(Frags) THEN TRUE ELSE 1 <= Frags[msg + 1]
      <4>1. idx = Frags[msg] /\ Before[m] + idx = q + k
        BY <2>7, <2>8, <3>3
      <4>2. Completes(m, msg, idx, q, k)
        BY <2>4, <2>8, <2>9, <4>1 DEF Completes
      <4> QED
        BY <4>2, OneMore
    <3>5. Built(t, msg, k)
      BY <2>5, <2>7, <3>3, <3>4 DEF Built
    <3>6. Delivered(t, msg, conf.ordered)
      <4>1. ASSUME NEW j \in 1 .. Len(D) PROVE D[j] <= msg \/ Early(t, D[j])
        <5>1. D[j] <= m \/ Early(d, D[j])
          BY <2>2, <3>3 DEF Delivered, D
        <5> QED
          BY <2>5, <2>8, <2>9, <2>11, <5>1
      <4>2. \A i, j \in 1 .. Len(D) : D[i] = D[j] => i = j
        BY <2>2, <3>3 DEF Delivered, D
      <4> QED
        BY <2>5, <3>3, <4>1, <4>2 DEF Delivered
    <3> QED
      BY <2>5, <3>1, <3>4, <3>5, <3>6 DEF Receiver
  <2>13. CASE ~AtOnce(msg) /\ idx = Frags[msg]
    <3> DEFINE E == Append(D, msg)
    <3>1. e = [t EXCEPT !.delivered = E, !.in_frag_idx = 1]
      BY <1>1, <1>3, <2>5, <2>8, <2>13 DEF msg, idx, Build_Message_From_Fragments_IT
    <3>2. E \in Seq(Nat) /\ Len(E) = Len(D) + 1 /\ E[Len(D) + 1] = msg /\ \A j \in 1 .. Len(D) : E[j] = D[j]
      BY <2>7, <2>9
    <3> HIDE DEF E
    <3>3. IsEnd(e)
      BY <2>10, <3>1 DEF IsEnd
    <3>4. \A f \in Fields : e[f] = IF f = "delivered" THEN E ELSE IF f = "in_frag_idx" THEN 1 ELSE t[f]
      BY <2>10, <3>1 DEF IsEnd
    <3>5. e.delivered = E /\ e.in_frag_idx = 1 /\ e.bad = t.bad /\ SameIn(t, e)
      BY <3>4 DEF Fields, SameIn
    <3>6. KeepsOut(t, e)
      BY <2>10, <3>3, <3>4 DEF Fields, KeepsOut, SameOut, SameJob, Answers
    <3>7. InWindow(e, k) /\ \A x : Early(t, x) => Early(e, x)
      BY <2>5, <3>5, SameInWindow
    <3>8. /\ msg \in 0 .. Len(Frags) /\ Before[msg] + 1 = q + 1 + k
          /\ IF msg = Len(Frags) THEN TRUE ELSE 1 <= Frags[msg + 1]
      <4>1. idx = Frags[msg] /\ Before[m] + idx = q + k
        BY <2>7, <2>8, <2>13
      <4>2. Completes(m, msg, idx, q, k)
        BY <2>4, <2>8, <2>9, <4>1 DEF Completes
      <4> QED
        BY <4>2, OneMore
    <3>9. Built(e, msg, k)
      BY <2>5, <2>7, <3>2, <3>5, <3>8 DEF Built, SameIn
    <3>10. Delivered(e, msg, conf.ordered)
      <4>1. CASE conf.ordered
        <5>1. \A j \in 1 .. Len(D) : D[j] = m - Len(D) + j
          BY <2>2, <4>1 DEF Delivered, D
        <5>2. ASSUME NEW j \in 1 .. Len(E) PROVE E[j] = msg - Len(E) + j
          <6>1. j \in 1 .. Len(D) \/ j = Len(D) + 1
            BY <2>11, <3>2
          <6> QED
            BY <2>8, <2>9, <2>11, <3>2, <5>1, <6>1
        <5> QED
          BY <3>5, <4>1, <5>2 DEF Delivered
      <4>2. CASE ~conf.ordered
        <5>1. Frags[msg] # 1
          BY <2>13, <4>2 DEF AtOnce
        <5>2. ASSUME NEW j \in 1 .. Len(D) PROVE D[j] # msg /\ (D[j] <= msg \/ Early(e, D[j]))
          <6>1. D[j] <= m \/ Early(d, D[j])
            BY <2>2, <4>2 DEF Delivered, D
          <6>2. Early(d, D[j]) => D[j] # msg
            BY <5>1 DEF Early
          <6>3. D[j] <= m => D[j] # msg /\ D[j] <= msg
            BY <2>8, <2>9, <2>11
          <6> QED
            BY <2>5, <3>7, <6>1, <6>2, <6>3
        <5>3. \A i, j \in 1 .. Len(D) : D[i] = D[j] => i = j
          BY <2>2, <4>2 DEF Delivered, D
        <5>4. \A j \in 1 .. Len(E) : j \in 1 .. Len(D) \/ j = Len(D) + 1
          BY <2>11, <3>2
        <5>5. \A i, j \in 1 .. Len(E) : E[i] = E[j] => i = j
          BY <3>2, <5>2, <5>3, <5>4
        <5>6. \A j \in 1 .. Len(E) : E[j] <= msg \/ Early(e, E[j])
          <6>1. msg <= msg
            BY <2>9
          <6> QED
            BY <3>2, <5>2, <5>4, <6>1
        <5> QED
          BY <3>5, <4>2, <5>5, <5>6 DEF Delivered
      <4> QED
        BY <4>1, <4>2
    <3> QED
      BY <2>5, <3>6, <3>7, <3>8, <3>9, <3>10, KeepsOutTransitive DEF Receiver
  <2>14. CASE ~AtOnce(msg) /\ idx # Frags[msg]
    <3> DEFINE n == t.in_frag_idx + 1
    <3>1. e = [t EXCEPT !.in_frag_idx = n]
      BY <1>1, <1>3, <2>5, <2>8, <2>14 DEF msg, idx, Build_Message_From_Fragments_IT
    <3>2. n = d.in_frag_idx + 1 /\ n \in Nat \ {0} /\ n <= Frags[m + 1] /\ Frags[msg] # 1
      BY <2>5, <2>7, <2>8, <2>9, <2>14
    <3> HIDE DEF n
    <3>3. IsEnd(e)
      BY <2>10, <3>1 DEF IsEnd
    <3>4. \A f \in Fields : e[f] = IF f = "in_frag_idx" THEN n ELSE t[f]
      BY <2>10, <3>1 DEF IsEnd
    <3>5. e.delivered = t.delivered /\ e.in_frag_idx = n /\ e.bad = t.bad /\ SameIn(t, e)
      BY <3>4 DEF Fields, SameIn
    <3>6. KeepsOut(t, e)
      BY <2>10, <3>3, <3>4 DEF Fields, KeepsOut, SameOut, SameJob, Answers
    <3>7. InWindow(e, k) /\ \A x : Early(t, x) => Early(e, x)
      BY <2>5, <3>5, SameInWindow
    <3>8. Before[m] + n = q + 1 + k
      <4> DEFINE i == d.in_frag_idx
      <4>1. Before[m] \in Nat /\ i \in Nat /\ Before[m] + i = q + k /\ q \in Nat /\ n = i + 1
        BY <2>4, <2>7, <3>2, BeforeIs
      <4> HIDE DEF i
      <4> QED
        BY <4>1, SMTT(60)
    <3>9. Built(e, m, k)
      BY <2>5, <2>7, <2>9, <3>2, <3>5, <3>8 DEF Built, SameIn
    <3>10. Delivered(e, m, conf.ordered)
      <4>1. ASSUME NEW x PROVE Early(d, x) => Early(e, x)
        BY <2>5, <3>2, <3>7 DEF Early
      <4> QED
        BY <2>2, <2>5, <3>5, <4>1 DEF Delivered, D
    <3> QED
      BY <2>5, <3>6, <3>7, <3>9, <3>10, KeepsOutTransitive DEF Receiver
  <2> QED
    BY <2>12, <2>13, <2>14
<1> QED
  BY <1>2, <1>3

(* The loop over the cells has values. *)
LEMMA TakeLoop ==
  ASSUME NEW d0, NEW N \in Nat
  PROVE  \E f : f = [i \in 0 .. N |-> IF i = 0 THEN d0 ELSE TakeCell(f[i - 1])]
<1> DEFINE F(n, f) == [i \in 0 .. n |-> IF i = 0 THEN d0 ELSE TakeCell(f[i - 1])]
           T == {n \in 0 .. N : ~ \E f : f = F(n, f)}
<1> SUFFICES ASSUME T # {} PROVE FALSE
  <2>1. N \in 0 .. N
    OBVIOUS
  <2>2. N \in T \/ \E f : f = F(N, f)
    BY <2>1
  <2> QED
    BY <2>2
<1>1. T \subseteq Nat
  OBVIOUS
<1>2. PICK b \in T : \A y \in T : b <= y
  BY <1>1, LeastExists
<1>3. b \in 0 .. N /\ ~ \E f : f = F(b, f)
  BY <1>2
<1>4. b # 0
  <2> DEFINE f == [i \in 0 .. 0 |-> d0]
  <2>1. f = F(0, f)
    OBVIOUS
  <2> QED
    BY <1>3, <2>1
<1>5. b - 1 \in 0 .. N /\ b - 1 \notin T
  BY <1>2, <1>3, <1>4
<1>6. PICK g : g = F(b - 1, g)
  BY <1>5
<1> DEFINE f == [i \in 0 .. b |-> IF i = b THEN TakeCell(g[b - 1]) ELSE g[i]]
<1>7. ASSUME NEW i \in 0 .. b PROVE f[i] = IF i = 0 THEN d0 ELSE TakeCell(f[i - 1])
  <2>1. CASE i = b
    <3>1. b - 1 \in 0 .. b /\ b - 1 # b /\ f[b - 1] = g[b - 1] /\ i # 0
      BY <1>3, <1>4, <2>1
    <3> QED
      BY <2>1, <3>1
  <2>2. CASE i # b /\ i # 0
    <3>1. i \in 0 .. b - 1 /\ i - 1 \in 0 .. b /\ i - 1 # b /\ f[i] = g[i] /\ f[i - 1] = g[i - 1]
      BY <1>3, <2>2
    <3>2. g[i] = TakeCell(g[i - 1])
      BY <1>6, <2>2, <3>1
    <3> QED
      BY <2>2, <3>1, <3>2
  <2>3. CASE i = 0
    <3>1. 0 \in 0 .. b - 1 /\ f[0] = g[0]
      BY <1>3, <1>4
    <3> QED
      BY <1>6, <2>3, <3>1
  <2> QED
    BY <2>1, <2>2, <2>3
<1>8. f = F(b, f)
  BY <1>7
<1> QED
  BY <1>3, <1>8

(* A packet of the pair of incarnations that an end is in. *)
Comes(d, p, k) == PacketOK(p, d.ngbr_inc, d.my_inc, k) /\ p.type \in {"ACK", "DATA"} /\ p.seq # 0

LEMMA ComesIs ==
  ASSUME NEW d, NEW p, NEW k, k \in Nat, Comes(d, p, k)
  PROVE  /\ p.type = "DATA" /\ p.seq \in Nat /\ p.seq > 0 /\ p.nonce = <<d.ngbr_inc, d.my_inc, p.seq>>
         /\ Placed(p, p.seq, k)
  BY DEF Comes, PacketOK

(* The messages that are not yet complete start after the m-th. *)
LEMMA LaterMessage ==
  ASSUME NEW x, NEW i, IsPart(x, i), NEW m, m \in 0 .. Len(Frags), NEW q, q \in Nat, NEW k, k \in Nat,
         Before[x - 1] + i = q + k, Before[m] < q + k
  PROVE  x > m
<1> SUFFICES ASSUME x <= m PROVE FALSE
  BY FragsAre DEF IsPart
<1>1. /\ x \in 1 .. Len(Frags) /\ i \in 1 .. Frags[x] /\ Frags[x] \in Nat /\ x \in 0 .. Len(Frags)
      /\ x - 1 \in 0 .. Len(Frags)
  BY FragsAre DEF IsPart
<1>2. Before[x] = Before[x - 1] + Frags[x] /\ Before[x - 1] \in Nat /\ Before[x] \in Nat /\ Before[m] \in Nat
  BY <1>1, BeforeIs
<1>3. Before[x] <= Before[m]
  BY <1>1, BeforeGrows
<1>4. i \in Nat /\ i <= Frags[x]
  BY <1>1
<1> QED
  BY <1>1, <1>2, <1>3, <1>4

(* A new packet takes its cell. *)
PutCell(d, p) == [flags |-> "RECVD", nonce |-> p.nonce, msg |-> p.msg, idx |-> p.idx]
Holes(d, p) == {q % Window : q \in d.in_head .. p.seq - 1}
Puts(d, p, e) ==
  e = [d EXCEPT !.incoming = [s \in Slots |-> IF s = p.seq % Window THEN PutCell(d, p)
                                              ELSE IF s \in Holes(d, p) THEN Nack ELSE d.incoming[s]],
                !.in_head = IF p.seq >= d.in_head THEN p.seq + 1 ELSE d.in_head,
                !.delivered = IF AtOnce(p.msg) THEN Append(d.delivered, p.msg) ELSE d.delivered]

Fits(d, p) == /\ d.in_tail <= p.seq /\ p.seq < d.in_tail + Window
              /\ d.incoming[p.seq % Window].flags # "RECVD"

LEMMA PutOK ==
  ASSUME NEW d, IsEnd(d), d.count \in Nat, NEW k, k \in Nat, Receiver(d, k, conf.ordered),
         NEW p, Comes(d, p, k), Fits(d, p), NEW e, Puts(d, p, e)
  PROVE  KeepsOut(d, e) /\ Receiver(e, k, conf.ordered)
<1> DEFINE sq == p.seq
           sl == sq % Window
           cell == PutCell(d, p)
           incoming == [s \in Slots |-> IF s = sl THEN cell ELSE IF s \in Holes(d, p) THEN Nack ELSE d.incoming[s]]
           head == IF sq >= d.in_head THEN sq + 1 ELSE d.in_head
           D == d.delivered
           E == IF AtOnce(p.msg) THEN Append(D, p.msg) ELSE D
<1>1. e = [d EXCEPT !.incoming = incoming, !.in_head = head, !.delivered = E]
  BY DEF Puts
<1>2. /\ sq \in Nat /\ sq > 0 /\ p.nonce = <<d.ngbr_inc, d.my_inc, sq>> /\ Placed(p, sq, k)
  BY ComesIs
<1>3. InWindow(d, k)
  BY DEF Receiver
<1>4. /\ d.in_tail \in Nat /\ d.in_head \in Nat /\ 1 <= d.in_tail /\ d.in_tail <= d.in_head
      /\ d.in_head <= d.in_tail + Window
      /\ d.aru_digest = Digest(d.ngbr_inc, d.my_inc, d.in_tail - 1)
      /\ d.in_tail <= sq /\ sq < d.in_tail + Window /\ d.incoming[sl].flags # "RECVD"
  BY <1>3 DEF InWindow, Fits
<1>5. PICK m \in 0 .. Len(Frags) : Built(d, m, k) /\ Delivered(d, m, conf.ordered)
  BY DEF Receiver
<1>6. head \in Nat /\ d.in_head <= head /\ sq < head /\ head <= d.in_tail + Window
  BY <1>2, <1>4, WindowIs, SMTT(60)
<1>7. sl \in Slots
  BY <1>2, SlotIs
<1>8. cell.flags = "RECVD" /\ cell.nonce = p.nonce /\ cell.msg = p.msg /\ cell.idx = p.idx
  BY DEF PutCell
<1> HIDE DEF sl, head, cell
<1>9. incoming = [s \in Slots |-> incoming[s]] /\ incoming[sl] = cell
  BY <1>7
<1>10. ASSUME NEW s \in Slots, s # sl, incoming[s].flags = "RECVD" PROVE incoming[s] = d.incoming[s]
  BY <1>10 DEF Nack
<1>11. ASSUME NEW s \in Slots, d.incoming[s].flags = "RECVD" PROVE s # sl /\ incoming[s] = d.incoming[s]
  <2>1. s # sl
    BY <1>4, <1>11
  <2>2. PICK q \in d.in_tail .. d.in_head - 1 : q % Window = s
    BY <1>3, <1>11 DEF InWindow, Cell
  <2>3. ASSUME NEW r \in d.in_head .. sq - 1, r % Window = s PROVE FALSE
    <3> DEFINE t == d.in_tail
               h == d.in_head
    <3>1. /\ t \in Nat /\ h \in Nat /\ t <= h /\ sq \in Nat /\ sq < t + Window /\ q \in t .. h - 1
          /\ r \in h .. sq - 1
      BY <1>2, <1>4
    <3> HIDE DEF t, h, sq
    <3>2. r \in Nat /\ q \in Nat /\ r < q + Window /\ q < r + Window /\ r # q
      BY <3>1, WindowIs
    <3> QED
      BY <2>2, <2>3, <3>2, SlotInjective
  <2>4. s \notin Holes(d, p)
    BY <2>3 DEF Holes
  <2> QED
    BY <2>1, <2>4
<1> HIDE DEF incoming, E
<1>12. IsEnd(e)
  BY <1>1 DEF IsEnd
<1>13. \A f \in Fields : e[f] = IF f = "incoming" THEN incoming ELSE IF f = "in_head" THEN head
                               ELSE IF f = "delivered" THEN E ELSE d[f]
  BY <1>1 DEF IsEnd
<1>14. /\ e.incoming = incoming /\ e.in_head = head /\ e.delivered = E /\ e.in_tail = d.in_tail
       /\ e.aru_digest = d.aru_digest /\ e.my_inc = d.my_inc /\ e.ngbr_inc = d.ngbr_inc
       /\ e.in_frag_idx = d.in_frag_idx /\ e.bad = d.bad
  BY <1>13 DEF Fields
<1>15. KeepsOut(d, e)
  BY <1>12, <1>13 DEF Fields, KeepsOut, SameOut, SameJob, Answers
<1>16. Placed(cell, sq, k)
  BY <1>2, <1>8 DEF Placed
<1>17. ASSUME NEW s \in Slots PROVE Cell(e, s, k)
  <2> SUFFICES ASSUME incoming[s].flags = "RECVD"
               PROVE  \E q \in d.in_tail .. head - 1 :
                         /\ q % Window = s
                         /\ incoming[s].nonce = <<d.ngbr_inc, d.my_inc, q>>
                         /\ Placed(incoming[s], q, k)
    BY <1>14 DEF Cell
  <2>1. CASE s = sl
    <3>1. sq \in d.in_tail .. head - 1 /\ sq % Window = s
      BY <1>2, <1>4, <1>6, <2>1 DEF sl
    <3> QED
      BY <1>2, <1>8, <1>9, <1>16, <2>1, <3>1
  <2>2. CASE s # sl
    <3>1. incoming[s] = d.incoming[s]
      BY <1>10, <2>2
    <3>2. PICK q \in d.in_tail .. d.in_head - 1 :
            /\ q % Window = s
            /\ d.incoming[s].nonce = <<d.ngbr_inc, d.my_inc, q>>
            /\ Placed(d.incoming[s], q, k)
      BY <1>3, <3>1 DEF InWindow, Cell
    <3>3. q \in d.in_tail .. head - 1
      BY <1>4, <1>6
    <3> QED
      BY <3>1, <3>2, <3>3
  <2> QED
    BY <2>1, <2>2
<1>18. InWindow(e, k)
  <2>1. e.in_tail <= e.in_head
    BY <1>4, <1>6, <1>14
  <2> QED
    BY <1>4, <1>6, <1>9, <1>14, <1>17, <2>1 DEF InWindow
<1>19. \A x : Early(d, x) => Early(e, x)
  BY <1>11, <1>14 DEF Early
<1>20. D \in Seq(Nat) /\ Len(D) \in Nat /\ \A j \in 1 .. Len(D) : D[j] \in Nat
  BY <1>5 DEF Built
<1>21. CASE ~AtOnce(p.msg)
  <2>1. E = D
    BY <1>21 DEF E
  <2>2. Built(e, m, k)
    BY <1>5, <1>14, <2>1 DEF Built
  <2>3. Delivered(e, m, conf.ordered)
    BY <1>5, <1>14, <1>19, <2>1 DEF Delivered
  <2> QED
    BY <1>15, <1>18, <2>2, <2>3 DEF Receiver
<1>22. CASE AtOnce(p.msg)
  <2> DEFINE x == p.msg
  <2>1. E = Append(D, x)
    BY <1>22 DEF E
  <2>2. ~conf.ordered /\ Frags[x] = 1
    BY <1>22 DEF AtOnce
  <2>3. /\ IsPart(x, p.idx) /\ Before[x - 1] + p.idx = sq + k /\ x \in 1 .. Len(Frags) /\ p.idx \in 1 .. Frags[x]
        /\ x \in Nat
    BY <1>2, FragsAre DEF Placed, IsPart
  <2>4. p.idx = 1
    BY <2>2, <2>3
  <2> DEFINE i == d.in_frag_idx
  <2>5. Before[m] < sq + k
    <3>1. i \in Nat /\ i >= 1 /\ Before[m] + i = d.in_tail + k /\ Before[m] \in Nat
      BY <1>5, BeforeIs DEF Built
    <3> HIDE DEF i, sq
    <3> QED
      BY <1>2, <1>4, <3>1
  <2>6. x > m
    <3> DEFINE y == p.idx
    <3>1. IsPart(x, y) /\ Before[x - 1] + y = sq + k /\ sq \in Nat
      BY <1>2, <2>3
    <3> HIDE DEF x, y, sq
    <3> QED
      BY <2>5, <3>1, LaterMessage
  <2>7. ASSUME NEW j \in 1 .. Len(D) PROVE D[j] # x
    <3>1. D[j] <= m \/ Early(d, D[j])
      BY <1>5, <2>2 DEF Delivered
    <3>2. CASE D[j] <= m
      BY <1>20, <2>3, <2>6, <3>2
    <3>3. CASE Early(d, D[j])
      <4> SUFFICES ASSUME D[j] = x PROVE FALSE
        OBVIOUS
      <4>1. PICK s \in Slots : d.incoming[s].flags = "RECVD" /\ d.incoming[s].msg = x
        BY <3>3 DEF Early
      <4>2. PICK q \in d.in_tail .. d.in_head - 1 : q % Window = s /\ Placed(d.incoming[s], q, k)
        BY <1>3, <4>1 DEF InWindow, Cell
      <4> DEFINE y == d.incoming[s].idx
      <4>3. y \in 1 .. Frags[x] /\ Before[x - 1] + y = q + k
        BY <4>1, <4>2 DEF Placed, IsPart
      <4>4. y = 1 /\ q \in Nat
        BY <1>4, <2>2, <4>3
      <4>5. Before[x - 1] \in Nat
        <5>1. x - 1 \in 0 .. Len(Frags)
          BY <2>3, FragsAre
        <5> QED
          BY <5>1, BeforeIs
      <4>6. q = sq
        <5>1. Before[x - 1] + 1 = q + k /\ Before[x - 1] + 1 = sq + k
          BY <2>3, <2>4, <4>3, <4>4
        <5> HIDE DEF sq, x
        <5> QED
          BY <1>2, <4>4, <4>5, <5>1
      <4>7. s = sl
        BY <4>2, <4>6 DEF sl
      <4> QED
        BY <1>4, <4>1, <4>7
    <3> QED
      BY <3>1, <3>2, <3>3
  <2>8. Early(e, x)
    BY <1>7, <1>8, <1>9, <1>14, <2>2 DEF Early
  <2> HIDE DEF D, x
  <2>9. E \in Seq(Nat) /\ Len(E) = Len(D) + 1 /\ E[Len(D) + 1] = x /\ \A j \in 1 .. Len(D) : E[j] = D[j]
    BY <1>20, <2>1, <2>3
  <2>10. \A j \in 1 .. Len(E) : j \in 1 .. Len(D) \/ j = Len(D) + 1
    BY <1>20, <2>9
  <2>11. \A a, b \in 1 .. Len(E) : E[a] = E[b] => a = b
    <3>1. \A a, b \in 1 .. Len(D) : D[a] = D[b] => a = b
      BY <1>5, <2>2 DEF Delivered, D
    <3> QED
      BY <2>7, <2>9, <2>10, <3>1
  <2>12. \A j \in 1 .. Len(E) : E[j] <= m \/ Early(e, E[j])
    <3>1. \A j \in 1 .. Len(D) : D[j] <= m \/ Early(d, D[j])
      BY <1>5, <2>2 DEF Delivered, D
    <3> QED
      BY <1>19, <2>8, <2>9, <2>10, <3>1
  <2>13. Delivered(e, m, conf.ordered)
    BY <1>14, <2>2, <2>11, <2>12 DEF Delivered
  <2>14. Built(e, m, k)
    BY <1>5, <1>14, <2>9 DEF Built
  <2> QED
    BY <1>15, <1>18, <2>13, <2>14 DEF Receiver
<1> QED
  BY <1>21, <1>22


LEMMA SameReceiver ==
  ASSUME NEW d, NEW e, NEW k, NEW ordered, Receiver(d, k, ordered), SameIn(d, e),
         e.in_frag_idx = d.in_frag_idx, e.delivered = d.delivered, e.bad = d.bad
  PROVE  Receiver(e, k, ordered)
<1>1. InWindow(d, k)
  BY DEF Receiver
<1>2. InWindow(e, k) /\ \A x : Early(d, x) => Early(e, x)
  BY <1>1, SameInWindow
<1>3. PICK m \in 0 .. Len(Frags) : Built(d, m, k) /\ Delivered(d, m, ordered)
  BY DEF Receiver
<1>4. Built(e, m, k)
  BY <1>3 DEF Built, SameIn
<1>5. Delivered(e, m, ordered)
  BY <1>2, <1>3 DEF Delivered
<1> QED
  BY <1>2, <1>4, <1>5 DEF Receiver

LEMMA KeepsReceiver ==
  ASSUME NEW d, NEW e, NEW k, NEW ordered, Receiver(d, k, ordered), Keeps(d, e)
  PROVE  Receiver(e, k, ordered)
<1>1. SameIn(d, e) /\ e.in_frag_idx = d.in_frag_idx /\ e.delivered = d.delivered /\ e.bad = d.bad
  BY DEF Keeps, SameIn
<1> QED
  BY <1>1, SameReceiver

(* All cells that are in order are taken. *)
TakeAll(d0, e) ==
  e = LET loop[i \in 0 .. Window] == IF i = 0 THEN d0 ELSE TakeCell(loop[i - 1]) IN loop[Window]

LEMMA TakeAllOK ==
  ASSUME NEW d, IsEnd(d), d.count \in Nat, NEW k, k \in Nat, Receiver(d, k, conf.ordered),
         NEW e, TakeAll(d, e)
  PROVE  KeepsOut(d, e) /\ Receiver(e, k, conf.ordered)
<1> DEFINE N == Window
           F(f) == [i \in 0 .. N |-> IF i = 0 THEN d ELSE TakeCell(f[i - 1])]
           loop == CHOOSE f : f = F(f)
           Good(x) == KeepsOut(d, x) /\ Receiver(x, k, conf.ordered)
           B == [i \in 0 .. N |-> IF Good(loop[i]) THEN 1 ELSE 0]
           T == {1}
<1>1. e = loop[N]
  BY Zenon DEF TakeAll
<1>2. N \in Nat /\ N >= 1 /\ N \in 0 .. N
  BY WindowIs
<1>3. loop = F(loop)
  <2>1. \E f : f = F(f)
    BY <1>2, TakeLoop, ZenonT(60)
  <2> HIDE DEF F
  <2> QED
    BY <2>1, Zenon
<1>4. loop[0] = d /\ \A i \in 1 .. N : loop[i] = TakeCell(loop[i - 1])
  <2> HIDE DEF loop
  <2> QED
    BY <1>2, <1>3
<1>5. Good(d)
  BY DEF KeepsOut, SameOut, SameJob
<1> HIDE DEF loop, N
<1>6. B[0] \in T
  BY <1>2, <1>4, <1>5
<1>7. ASSUME NEW i \in 1 .. N, B[i - 1] \in T PROVE B[i] \in T
  <2>1. i \in 0 .. N /\ i - 1 \in 0 .. N
    BY <1>2
  <2>2. Good(loop[i - 1])
    BY <1>7, <2>1
  <2>3. IsEnd(loop[i - 1]) /\ loop[i - 1].count \in Nat
    BY <2>2 DEF KeepsOut
  <2>4. KeepsOut(loop[i - 1], loop[i]) /\ Receiver(loop[i], k, conf.ordered)
    BY <1>4, <2>2, <2>3, TakeCellOK
  <2>5. KeepsOut(d, loop[i])
    BY <2>2, <2>4, KeepsOutTransitive
  <2> QED
    BY <2>1, <2>4, <2>5
<1>8. \A i \in 0 .. N : B[i] \in T
  <2> HIDE DEF B, T
  <2> QED
    BY <1>2, <1>6, <1>7, AllReached
<1>9. Good(loop[N])
  BY <1>2, <1>8
<1> QED
  BY <1>1, <1>9

(* Every packet counts for the ack that is due. *)
Counts(d, e) ==
  e = [d EXCEPT !.count = Lesser(d.count + 1, Msg_Per_SAA),
                !.timers = IF d.count + 1 >= Msg_Per_SAA THEN d.timers \cup {"Ack"} ELSE d.timers]

LEMMA CountsOK ==
  ASSUME NEW d, IsEnd(d), d.count \in Nat, NEW e, Counts(d, e)
  PROVE  KeepsOut(d, e) /\ SameIn(d, e)
         /\ e.in_frag_idx = d.in_frag_idx /\ e.delivered = d.delivered /\ e.bad = d.bad
<1> DEFINE count == Lesser(d.count + 1, Msg_Per_SAA)
           timers == IF d.count + 1 >= Msg_Per_SAA THEN d.timers \cup {"Ack"} ELSE d.timers
<1>1. e = [d EXCEPT !.count = count, !.timers = timers]
  BY DEF Counts
<1>2. count \in Nat
  BY SizeAssumption DEF Lesser
<1>3. /\ d.timers \subseteq timers
      /\ d.count = Msg_Per_SAA - 1 => "Ack" \in timers
  BY SizeAssumption
<1> HIDE DEF count, timers
<1>4. IsEnd(e)
  BY <1>1 DEF IsEnd
<1>5. \A f \in Fields : e[f] = IF f = "count" THEN count ELSE IF f = "timers" THEN timers ELSE d[f]
  BY <1>1 DEF IsEnd
<1>6. SameIn(d, e) /\ e.in_frag_idx = d.in_frag_idx /\ e.delivered = d.delivered /\ e.bad = d.bad
      /\ e.count = count /\ e.timers = timers
  BY <1>5 DEF Fields, SameIn
<1>7. Answers(d) => Answers(e)
  BY <1>3, <1>6 DEF Answers
<1>8. SameOut(d, e) /\ SameJob(d, e) /\ e.sent = d.sent /\ e.cwnd = d.cwnd /\ e.given = d.given
      /\ e.established = d.established /\ e.dh_aru = d.dh_aru /\ e.unsent = d.unsent
  BY <1>5 DEF Fields, SameOut, SameJob
<1> QED
  BY <1>2, <1>3, <1>4, <1>6, <1>7, <1>8 DEF KeepsOut, SameIn

LEMMA ReceivedOK ==
  ASSUME NEW d, IsEnd(d), d.count \in Nat, NEW k, k \in Nat, Receiver(d, k, conf.ordered),
         NEW p, PacketOK(p, d.ngbr_inc, d.my_inc, k), p.type \in {"ACK", "DATA"},
         NEW e, e = Received(d, p)
  PROVE  KeepsOut(d, e) /\ Receiver(e, k, conf.ordered)
<1> DEFINE c == [d EXCEPT !.count = Lesser(d.count + 1, Msg_Per_SAA),
                          !.timers = IF d.count + 1 >= Msg_Per_SAA THEN d.timers \cup {"Ack"} ELSE d.timers]
           b == [c EXCEPT !.incoming = [s \in Slots |-> IF s = p.seq % Window THEN PutCell(d, p)
                                                      ELSE IF s \in Holes(d, p) THEN Nack ELSE c.incoming[s]],
                        !.in_head = IF p.seq >= c.in_head THEN p.seq + 1 ELSE c.in_head,
                        !.delivered = IF AtOnce(p.msg) THEN Append(c.delivered, p.msg) ELSE c.delivered]
           F(f) == [i \in 0 .. Window |-> IF i = 0 THEN b ELSE TakeCell(f[i - 1])]
           all == (CHOOSE f : f = F(f))[Window]
<1>1. e = IF p.seq = 0 THEN d
          ELSE IF \/ p.seq < d.in_tail \/ p.seq >= d.in_tail + Window
                  \/ d.incoming[p.seq % Window].flags = "RECVD" THEN c
          ELSE all
  BY Zenon DEF Received, PutCell, Holes
<1>2. TakeAll(b, all)
  BY Zenon DEF TakeAll
<1>3. Counts(d, c)
  BY DEF Counts
<1> HIDE DEF all, c
<1>4. /\ KeepsOut(d, c) /\ SameIn(d, c)
      /\ c.in_frag_idx = d.in_frag_idx /\ c.delivered = d.delivered /\ c.bad = d.bad
  BY <1>3, CountsOK
<1>5. Receiver(c, k, conf.ordered)
  BY <1>4, SameReceiver
<1>6. IsEnd(c) /\ c.count \in Nat /\ c.in_head = d.in_head /\ c.in_tail = d.in_tail /\ c.incoming = d.incoming
      /\ c.my_inc = d.my_inc /\ c.ngbr_inc = d.ngbr_inc
  BY <1>4 DEF KeepsOut, SameIn
<1>7. Puts(c, p, b)
  BY <1>6 DEF Puts, PutCell, Holes
<1> HIDE DEF b
<1>8. CASE p.seq = 0
  <2>1. e = d
    BY <1>1, <1>8
  <2> QED
    BY <2>1 DEF KeepsOut, SameOut, SameJob
<1>9. CASE e = c
  BY <1>4, <1>5, <1>9
<1>10. CASE p.seq # 0 /\ e # c
  <2>1. Comes(c, p, k)
    BY <1>6, <1>10 DEF Comes
  <2>2. e = all /\ ~(p.seq < d.in_tail) /\ ~(p.seq >= d.in_tail + Window) /\ d.incoming[p.seq % Window].flags # "RECVD"
    BY <1>1, <1>10
  <2>3. d.in_tail \in Nat /\ p.seq \in Nat
    BY DEF Receiver, InWindow, PacketOK
  <2>4. Fits(c, p)
    BY <1>6, <2>2, <2>3, WindowIs DEF Fits
  <2>5. KeepsOut(c, b) /\ Receiver(b, k, conf.ordered)
    BY <1>5, <1>6, <1>7, <2>1, <2>4, PutOK
  <2>6. IsEnd(b) /\ b.count \in Nat
    BY <2>5 DEF KeepsOut
  <2>7. KeepsOut(b, all) /\ Receiver(all, k, conf.ordered)
    BY <1>2, <2>5, <2>6, TakeAllOK
  <2>8. KeepsOut(d, b)
    BY <1>4, <2>5, KeepsOutTransitive
  <2>9. KeepsOut(d, all)
    BY <2>7, <2>8, KeepsOutTransitive
  <2> QED
    BY <2>2, <2>7, <2>9
<1> QED
  BY <1>1, <1>8, <1>9, <1>10

-----------------------------------------------------------------------------
(* Whole handlers that leave the incarnations as they are. *)

Good(d, k, r) == SideOK(d, k) /\ Answers(d) /\ Receiver(d, r, conf.ordered)

SameIncs(d, e) == e.my_inc = d.my_inc /\ e.ngbr_inc = d.ngbr_inc

LEMMA ReceiverMail ==
  ASSUME NEW d, NEW k, NEW ordered, Receiver(d, k, ordered) PROVE Mail(d)
<1>1. d.in_tail \in Nat /\ 1 <= d.in_tail
  BY DEF Receiver, InWindow
<1>2. d.in_tail >= 1
  BY <1>1
<1> QED
  BY <1>1, <1>2 DEF Receiver, InWindow, Mail

LEMMA KeepsGood ==
  ASSUME NEW d, NEW e, NEW k, NEW r, Good(d, k, r), SideOK(e, k), Keeps(d, e)
  PROVE  Good(e, k, r) /\ SameIncs(d, e)
<1>1. Receiver(e, r, conf.ordered)
  BY KeepsReceiver DEF Good
<1> QED
  BY <1>1 DEF Good, SameIncs, Keeps

LEMMA ProcessOK ==
  ASSUME NEW d, NEW k, k \in Nat, NEW r, r \in Nat, Good(d, k, r),
         NEW p, PacketOK(p, d.ngbr_inc, d.my_inc, r), p.type \in {"ACK", "DATA"},
         NEW grows, grows \in 0 .. 1, NEW room, NEW due,
         NEW e, e = Process_IT_Ack(d, p, grows, room, due)
  PROVE  Good(e, k, r) /\ SameIncs(d, e)
<1> DEFINE a == IF AcksNews(d, p) THEN AckedUpTo(d, p, grows) ELSE d
           b == Nacked(a, p, room, due)
<1>1. e = IF AcksNews(d, p) /\ ~GoodNonce(d, p) THEN d ELSE Received(b, p)
  BY DEF Process_IT_Ack
<1>2. p.aru \in Nat
  BY DEF PacketOK
<1>3. Good(a, k, r) /\ SameIncs(d, a)
  <2>1. CASE AcksNews(d, p)
    <3>1. SideOK(a, k) /\ Keeps(d, a)
      BY <1>2, <2>1, AckedOK DEF Good
    <3> HIDE DEF a
    <3> QED
      BY <3>1, KeepsGood
  <2>2. CASE ~AcksNews(d, p)
    BY <2>2 DEF SameIncs
  <2> QED
    BY <2>1, <2>2
<1> HIDE DEF a
<1>4. SideOK(b, k) /\ Keeps(a, b)
  BY <1>3, NackedOK DEF Good
<1> HIDE DEF b
<1>5. Good(b, k, r) /\ SameIncs(a, b)
  BY <1>3, <1>4, KeepsGood
<1>6. PacketOK(p, b.ngbr_inc, b.my_inc, r)
  BY <1>3, <1>5 DEF SameIncs
<1>7. IsEnd(b) /\ b.count \in Nat
  BY <1>5 DEF Good, SideOK, SendOK, Typed
<1> DEFINE c == Received(b, p)
<1>8. KeepsOut(b, c) /\ Receiver(c, r, conf.ordered)
  BY <1>5, <1>6, <1>7, ReceivedOK DEF Good
<1> HIDE DEF c
<1>9. Mail(c)
  BY <1>8, ReceiverMail
<1>10. SideOK(c, k)
  BY <1>5, <1>8, <1>9, KeepsSide DEF Good
<1>11. Answers(c) /\ SameIncs(b, c)
  BY <1>5, <1>8 DEF Good, KeepsOut, SameIncs
<1>12. Good(c, k, r) /\ SameIncs(d, c)
  BY <1>3, <1>5, <1>8, <1>10, <1>11 DEF Good, SameIncs
<1> QED
  BY <1>1, <1>12 DEF c, SameIncs

(* The clock: time stamps expire and a timer leaves the queue. *)
Clock(d, x, F, T, e) == e = [d EXCEPT !.expired = x, !.fail = F, !.timers = T]

LEMMA ClockOK ==
  ASSUME NEW d, NEW k, k \in Nat, NEW r, Good(d, k, r), NEW x, NEW F, NEW T, NEW e, Clock(d, x, F, T, e)
  PROVE  /\ SendOK(e, k, e.given - e.wants) /\ Waiting(e) /\ Receiver(e, r, conf.ordered)
         /\ SameOut(d, e) /\ SameJob(d, e) /\ SameIncs(d, e) /\ IsEnd(e)
         /\ e.count = d.count /\ e.timers = T /\ e.sent = d.sent /\ e.given = d.given
         /\ e.established = d.established /\ e.unsent = d.unsent
         /\ NothingIn(d) => NothingIn(e)
<1> DEFINE h == d.given - d.wants
<1>1. SendOK(d, k, h) /\ Waiting(d) /\ Receiver(d, r, conf.ordered)
  BY DEF Good, SideOK
<1>2. Typed(d) /\ IsEnd(d)
  BY <1>1 DEF SendOK, Typed
<1>3. IsEnd(e)
  BY <1>2 DEF IsEnd, Clock
<1>4. \A f \in Fields : e[f] = IF f = "expired" THEN x ELSE IF f = "fail" THEN F
                              ELSE IF f = "timers" THEN T ELSE d[f]
  BY <1>2 DEF IsEnd, Clock
<1>5. /\ SameOut(d, e) /\ SameJob(d, e) /\ SameIncs(d, e) /\ e.given = d.given
      /\ e.count = d.count /\ e.timers = T /\ e.sent = d.sent /\ e.cwnd = d.cwnd
      /\ e.established = d.established /\ e.dh_aru = d.dh_aru /\ e.unsent = d.unsent
  BY <1>4 DEF Fields, SameOut, SameJob, SameIncs
<1>6. /\ SameIn(d, e) /\ e.in_frag_idx = d.in_frag_idx /\ e.delivered = d.delivered /\ e.bad = d.bad
  BY <1>4 DEF Fields, SameIn
<1>7. Receiver(e, r, conf.ordered)
  BY <1>1, <1>6, SameReceiver
<1>8. NothingIn(d) => NothingIn(e)
  BY <1>6 DEF NothingIn, SameIn
<1>9. Mail(e) /\ OutWindow(e, k)
  BY <1>1, <1>5, <1>7, ReceiverMail, SameOutWindow DEF SendOK, SameIncs
<1>10. Typed(e)
  BY <1>2, <1>3, <1>5 DEF Typed, SameOut, SameJob, SameIncs
<1> HIDE DEF h
<1>11. Handed(e, k, h) /\ Sent(e, k) /\ Waiting(e)
  BY <1>1, <1>5 DEF SendOK, Handed, Sent, Waiting, SameOut, SameIncs, Full_Link_IT
<1>12. e.given - e.wants = h
  BY <1>5 DEF h, SameJob
<1> QED
  BY <1>3, <1>5, <1>7, <1>8, <1>9, <1>10, <1>11, <1>12 DEF SendOK

(* What the handler of a timer makes of d. *)
Turns(d, e, k, r) ==
  /\ Good(e, k, r) /\ SameIncs(d, e)
  /\ NothingIn(d) => NothingIn(e)

LEMMA KeepsTurns ==
  ASSUME NEW d, NEW e, NEW f, NEW k, NEW r, Turns(d, e, k, r), SideOK(f, k), Keeps(e, f)
  PROVE  Turns(d, f, k, r)
<1>1. Good(e, k, r)
  BY DEF Turns
<1>2. Good(f, k, r) /\ SameIncs(e, f)
  BY <1>1, KeepsGood
<1>3. NothingIn(e) => NothingIn(f)
  BY DEF Keeps, NothingIn
<1> QED
  BY <1>2, <1>3 DEF Turns, SameIncs

(* Timers other than the reliable one and the bucket's may go. *)
LEMMA ClockSide ==
  ASSUME NEW d, NEW k, k \in Nat, NEW r, Good(d, k, r), NEW x, NEW F, NEW T, NEW e, Clock(d, x, F, T, e),
         "Reliable" \in d.timers => "Reliable" \in T, "Fill" \in d.timers => "Fill" \in T
  PROVE  SideOK(e, k)
<1>1. /\ SendOK(e, k, e.given - e.wants) /\ Waiting(e) /\ SameOut(d, e) /\ SameJob(d, e) /\ e.timers = T
      /\ e.established = d.established /\ e.unsent = d.unsent
  BY ClockOK
<1>2. Alarmed(d) /\ Filled(d) /\ Served(d)
  BY DEF Good, SideOK
<1>3. Alarmed(e) /\ Filled(e) /\ Served(e)
  BY <1>1, <1>2 DEF Alarmed, Filled, Served, SameOut, SameJob, Full_Link_IT
<1> QED
  BY <1>1, <1>3 DEF SideOK

LEMMA ClockTurns ==
  ASSUME NEW d, NEW k, k \in Nat, NEW r, Good(d, k, r), NEW x, NEW F, NEW T, NEW e, Clock(d, x, F, T, e),
         {"Reliable", "Fill", "Ack"} \cap d.timers \subseteq T
  PROVE  Turns(d, e, k, r)
<1>1. /\ Receiver(e, r, conf.ordered) /\ e.count = d.count /\ e.timers = T /\ SameIncs(d, e)
      /\ NothingIn(d) => NothingIn(e)
  BY ClockOK
<1>2. SideOK(e, k)
  BY ClockSide
<1>3. Answers(e)
  BY <1>1 DEF Good, Answers
<1> QED
  BY <1>1, <1>2, <1>3 DEF Turns, Good

(* Retransm. *)
LEMMA RetransmTurns ==
  ASSUME NEW d, NEW k, k \in Nat, NEW r, Good(d, k, r), NEW x, NEW F, NEW b, Clock(d, x, F, d.timers \ {"Retransm"}, b),
         NEW room, NEW due, NEW e, e = Handle_IT_Retransm(b, room, due)
  PROVE  Turns(d, e, k, r)
<1> DEFINE T == d.timers \ {"Retransm"}
<1>1. {"Reliable", "Fill", "Ack"} \cap d.timers \subseteq T /\ Clock(d, x, F, T, b)
  OBVIOUS
<1> HIDE DEF T
<1>2. Turns(d, b, k, r)
  BY <1>1, ClockTurns
<1>3. SideOK(e, k) /\ Keeps(b, e)
  BY <1>2, RetransmOK DEF Turns, Good
<1> QED
  BY <1>2, <1>3, KeepsTurns

(* Ack_IT_Timeout. *)
Counted(d, c, T, e) ==
  /\ IsEnd(e)
  /\ \A f \in Fields : e[f] = IF f = "count" THEN c ELSE IF f = "timers" THEN T ELSE d[f]

LEMMA CountedOK ==
  ASSUME NEW d, NEW k, k \in Nat, NEW r, SideOK(d, k), Receiver(d, r, conf.ordered),
         NEW c, c \in Nat, NEW T, d.timers \subseteq T, "Ack" \in T \/ c = Msg_Per_SAA - 1,
         NEW e, Counted(d, c, T, e)
  PROVE  Turns(d, e, k, r)
<1>1. /\ SameIn(d, e) /\ e.in_frag_idx = d.in_frag_idx /\ e.delivered = d.delivered /\ e.bad = d.bad
  BY DEF Counted, Fields, SameIn
<1>2. /\ SameOut(d, e) /\ SameJob(d, e) /\ e.sent = d.sent /\ e.cwnd = d.cwnd /\ e.given = d.given
      /\ e.timers = T /\ e.count = c
      /\ e.established = d.established /\ e.dh_aru = d.dh_aru /\ e.unsent = d.unsent
  BY DEF Counted, Fields, SameOut, SameJob
<1>3. Answers(e)
  BY <1>2 DEF Answers
<1>4. KeepsOut(d, e)
  BY <1>1, <1>2, <1>3 DEF KeepsOut, Counted, SameIn
<1>5. Receiver(e, r, conf.ordered)
  BY <1>1, SameReceiver
<1>6. SideOK(e, k)
  BY <1>4, <1>5, ReceiverMail, KeepsSide
<1>7. NothingIn(d) => NothingIn(e)
  BY <1>1 DEF NothingIn, SameIn
<1> QED
  BY <1>1, <1>3, <1>5, <1>6, <1>7 DEF Turns, Good, SameIncs, SameIn

LEMMA AckTimeoutTurns ==
  ASSUME NEW d, NEW k, k \in Nat, NEW r, Good(d, k, r), NEW x, NEW F, NEW b, Clock(d, x, F, d.timers \ {"Ack"}, b),
         NEW e, e = AckTimeout(b)
  PROVE  Turns(d, e, k, r)
<1> DEFINE T == d.timers \ {"Ack"}
<1>1. /\ "Reliable" \in d.timers => "Reliable" \in T
      /\ "Fill" \in d.timers => "Fill" \in T
      /\ Clock(d, x, F, T, b)
  OBVIOUS
<1> HIDE DEF T
<1>2. /\ Receiver(b, r, conf.ordered) /\ SameIncs(d, b) /\ IsEnd(b)
      /\ NothingIn(d) => NothingIn(b)
  BY <1>1, ClockOK
<1>3. SideOK(b, k)
  BY <1>1, ClockSide
<1>4. Msg_Per_SAA \in Nat /\ Msg_Per_SAA - 1 \in Nat
  BY SizeAssumption
<1>5. Turns(b, e, k, r)
  <2>1. CASE b.count = 0
    <3> DEFINE c == Msg_Per_SAA - 1
               U == b.timers
    <3>1. e = [b EXCEPT !.count = c]
      BY <2>1 DEF AckTimeout
    <3>2. c \in Nat /\ b.timers \subseteq U /\ ("Ack" \in U \/ c = Msg_Per_SAA - 1)
      BY <1>4
    <3> HIDE DEF c
    <3>3. IsEnd(e)
      BY <1>2, <3>1 DEF IsEnd
    <3>4. \A f \in Fields : e[f] = IF f = "count" THEN c ELSE b[f]
      BY <1>2, <3>1 DEF IsEnd
    <3>5. Counted(b, c, U, e)
      BY <3>3, <3>4 DEF Counted, Fields
    <3> HIDE DEF U
    <3> QED
      BY <1>2, <1>3, <3>2, <3>5, CountedOK
  <2>2. CASE b.count # 0
    <3> DEFINE s == Send_IT_Ack(b)
               c == 0
               U == s.timers \cup {"Ack"}
    <3>1. e = [s EXCEPT !.count = c, !.timers = U]
      BY <2>2 DEF AckTimeout
    <3>2. SideOK(s, k) /\ Keeps(b, s)
      BY <1>3, SendAckOK
    <3>3. c \in Nat /\ s.timers \subseteq U /\ "Ack" \in U
      OBVIOUS
    <3> HIDE DEF c, s, U
    <3>4. Receiver(s, r, conf.ordered) /\ IsEnd(s)
      BY <1>2, <3>2, KeepsReceiver DEF SideOK, SendOK, Typed
    <3>5. IsEnd(e)
      BY <3>1, <3>4 DEF IsEnd
    <3>6. \A f \in Fields : e[f] = IF f = "count" THEN c ELSE IF f = "timers" THEN U ELSE s[f]
      BY <3>1, <3>4 DEF IsEnd
    <3>7. Counted(s, c, U, e)
      BY <3>5, <3>6 DEF Counted
    <3>8. Turns(s, e, k, r)
      BY <3>2, <3>3, <3>4, <3>7, CountedOK
    <3>9. SameIncs(b, s) /\ (NothingIn(b) => NothingIn(s))
      BY <3>2 DEF Keeps, SameIncs, NothingIn
    <3> QED
      BY <3>8, <3>9 DEF Turns, SameIncs
  <2> QED
    BY <2>1, <2>2
<1> QED
  BY <1>2, <1>5 DEF Turns, SameIncs

(* The reliable timer is queued. *)
LEMMA ReliableOK ==
  ASSUME NEW d, NEW k, k \in Nat, SendOK(d, k, d.given - d.wants), Waiting(d), Filled(d), Served(d),
         NEW e, e = ReliableNow(d)
  PROVE  SideOK(e, k) /\ Keeps(d, e)
<1> DEFINE h == d.given - d.wants
           T == d.timers \cup {"Reliable"}
<1>1. IsEnd(d) /\ Typed(d) /\ JobTyped(d)
  BY DEF SendOK, Typed, JobTyped
<1>2. e = [d EXCEPT !.timers = T] /\ d.timers \subseteq T /\ "Reliable" \in T
  BY DEF ReliableNow
<1> HIDE DEF T
<1>3. IsEnd(e)
  BY <1>1, <1>2 DEF IsEnd
<1>4. \A f \in Fields : e[f] = IF f = "timers" THEN T ELSE d[f]
  BY <1>1, <1>2 DEF IsEnd
<1>5. /\ SameOut(d, e) /\ SameJob(d, e) /\ e.sent = d.sent /\ e.cwnd = d.cwnd /\ e.count = d.count
      /\ e.timers = T /\ e.given = d.given
  BY <1>4 DEF Fields, SameOut, SameJob
<1>6. Keeps(d, e)
  BY <1>2, <1>4 DEF Fields, Keeps, Answers
<1>7. LikeOut(d, e) /\ JobTyped(e) /\ e.wants = d.wants
  BY <1>1, <1>5, SameIsLike DEF JobTyped, SameJob
<1>8. SendOK(d, k, h) /\ h = e.given - e.wants
  BY <1>5 DEF SameJob
<1> HIDE DEF h
<1>9. SendOK(e, k, h) /\ Waiting(e)
  BY <1>3, <1>5, <1>6, <1>7, <1>8, TouchOK
<1>10. Alarmed(e) /\ Filled(e) /\ Served(e)
  BY <1>2, <1>5 DEF Alarmed, Filled, Served, SameOut, SameJob, Full_Link_IT
<1> QED
  BY <1>6, <1>8, <1>9, <1>10 DEF SideOK

(* Reliable_IT_Timeout. *)
LEMMA ReliableTurns ==
  ASSUME NEW d, NEW k, k \in Nat, NEW r, Good(d, k, r), NEW x, NEW F, NEW b, Clock(d, x, F, d.timers \ {"Reliable"}, b),
         NEW e, e = IF b.tcp_head > b.out_tail THEN ReliableNow(Send_IT_Data_Msg(b, {b.tcp_head - 1})) ELSE b
  PROVE  Turns(d, e, k, r)
<1> DEFINE T == d.timers \ {"Reliable"}
<1>1. Clock(d, x, F, T, b)
  OBVIOUS
<1>2. /\ "Fill" \in d.timers => "Fill" \in T
      /\ "Ack" \in d.timers => "Ack" \in T
  OBVIOUS
<1> HIDE DEF T
<1> DEFINE h == b.given - b.wants
<1>3. /\ SendOK(b, k, h) /\ Waiting(b) /\ Receiver(b, r, conf.ordered)
      /\ SameOut(d, b) /\ SameJob(d, b) /\ SameIncs(d, b)
      /\ b.count = d.count /\ b.timers = T
      /\ NothingIn(d) => NothingIn(b)
  BY <1>1, ClockOK
<1>4. Filled(b) /\ Served(b) /\ Answers(b)
  BY <1>2, <1>3 DEF Good, SideOK, Filled, Served, Answers, SameJob, SameOut, Full_Link_IT
<1>5. CASE b.tcp_head > b.out_tail
  <2> DEFINE S == {b.tcp_head - 1}
             c == Send_IT_Data_Msg(b, S)
  <2>1. e = ReliableNow(c)
    BY <1>5
  <2>2. S \subseteq b.out_tail .. b.out_head - 1
    BY <1>3, <1>5, SMTT(60) DEF SendOK, Typed, OutWindow
  <2> HIDE DEF S, h
  <2>3. /\ SendOK(c, k, h) /\ Keeps(b, c) /\ SameOut(b, c) /\ SameJob(b, c)
    BY <1>3, <2>2, SendData
  <2> HIDE DEF c
  <2>4. c.given - c.wants = h
    BY <2>3 DEF h, Keeps, SameJob
  <2>5. Waiting(c) /\ Filled(c) /\ Served(c) /\ Answers(c)
    BY <1>3, <1>4, <2>3 DEF Waiting, Filled, Served, Full_Link_IT, SameOut, SameJob, Keeps
  <2>6. SideOK(e, k) /\ Keeps(c, e)
    BY <2>1, <2>3, <2>4, <2>5, ReliableOK
  <2>7. Keeps(b, e)
    BY <2>3, <2>6, KeepsTransitive
  <2>8. Receiver(e, r, conf.ordered) /\ Answers(e)
    BY <1>3, <1>4, <2>7, KeepsReceiver DEF Keeps
  <2>9. SameIncs(d, e) /\ (NothingIn(d) => NothingIn(e))
    BY <1>3, <2>7 DEF SameIncs, NothingIn, Keeps
  <2> QED
    BY <2>6, <2>8, <2>9 DEF Turns, Good
<1>6. CASE ~(b.tcp_head > b.out_tail)
  <2>1. b.tcp_head \in Nat /\ b.out_tail \in Nat
    BY <1>3 DEF SendOK, Typed
  <2>2. b.out_tail .. b.tcp_head - 1 = {}
    BY <1>6, <2>1
  <2>3. e = b /\ Alarmed(b)
    BY <1>6, <2>2 DEF Alarmed
  <2> QED
    BY <1>3, <1>4, <2>3 DEF Turns, Good, SideOK
<1> QED
  BY <1>5, <1>6

(* Further packets are sent. *)
LEMMA SentOK ==
  ASSUME NEW d, NEW k, k \in Nat, SideOK(d, k), NEW X,
         \A p \in X : PacketOK(p, d.my_inc, d.ngbr_inc, k), NEW e, e = [d EXCEPT !.sent = X]
  PROVE  SideOK(e, k) /\ Keeps(d, e)
<1> DEFINE h == d.given - d.wants
<1>1. /\ SendOK(d, k, h) /\ Waiting(d) /\ Alarmed(d) /\ Filled(d) /\ Served(d)
  BY DEF SideOK
<1>2. Typed(d) /\ IsEnd(d) /\ Mail(d) /\ OutWindow(d, k) /\ Handed(d, k, h)
  BY <1>1 DEF SendOK, Typed
<1>3. IsEnd(e)
  BY <1>2 DEF IsEnd
<1>4. \A f \in Fields : e[f] = IF f = "sent" THEN X ELSE d[f]
  BY <1>2 DEF IsEnd
<1>5. /\ SameOut(d, e) /\ SameJob(d, e) /\ e.sent = X /\ e.cwnd = d.cwnd /\ e.count = d.count
  BY <1>4 DEF Fields, SameOut, SameJob
<1>6. Keeps(d, e)
  BY <1>4 DEF Fields, Keeps, Answers
<1>7. Typed(e)
  BY <1>2, <1>3, <1>5, <1>6 DEF Typed, SameOut, SameJob, Keeps
<1>8. Mail(e) /\ OutWindow(e, k)
  BY <1>2, <1>5, <1>6, KeepsMail, SameOutWindow DEF Keeps
<1> HIDE DEF h
<1>9. Handed(e, k, h) /\ Sent(e, k) /\ Waiting(e) /\ Alarmed(e) /\ Filled(e) /\ Served(e)
  BY <1>1, <1>2, <1>5, <1>6
     DEF Handed, Sent, Waiting, Alarmed, Filled, Served, SameOut, SameJob, Keeps, Full_Link_IT
<1>10. e.given - e.wants = h
  BY <1>5, <1>6 DEF h, SameJob, Keeps
<1> QED
  BY <1>6, <1>7, <1>8, <1>9, <1>10 DEF SideOK, SendOK

(* IT_Link_Send. *)
LEMMA LinkSendOK ==
  ASSUME NEW d, NEW k, k \in Nat, SideOK(d, k), NEW p, PacketOK(p, d.my_inc, d.ngbr_inc, k),
         NEW e, e = IT_Link_Send(d, p)
  PROVE  SideOK(e, k) /\ Keeps(d, e)
<1>1. CASE HasKey(d)
  <2> DEFINE X == d.sent \cup {p}
  <2>1. e = [d EXCEPT !.sent = X]
    BY <1>1 DEF IT_Link_Send
  <2>2. \A q \in X : PacketOK(q, d.my_inc, d.ngbr_inc, k)
    BY DEF SideOK, SendOK, Sent
  <2> HIDE DEF X
  <2> QED
    BY <2>1, <2>2, SentOK
<1>2. CASE ~HasKey(d)
  <2>1. e = d
    BY <1>2 DEF IT_Link_Send
  <2> QED
    BY <2>1, KeepsReflexive
<1> QED
  BY <1>1, <1>2

(* Ping_IT_Timeout. *)
LEMMA PingTurns ==
  ASSUME NEW d, NEW k, k \in Nat, NEW r, Good(d, k, r), NEW e, e = IT_Link_Send(d, Ping(d, "PING"))
  PROVE  Turns(d, e, k, r)
<1> DEFINE p == Ping(d, "PING")
<1>1. PacketOK(p, d.my_inc, d.ngbr_inc, k) /\ e = IT_Link_Send(d, p)
  BY PingOK
<1> HIDE DEF p
<1>2. SideOK(e, k) /\ Keeps(d, e)
  BY <1>1, LinkSendOK DEF Good
<1>3. Turns(d, d, k, r)
  BY DEF Turns, SameIncs
<1> QED
  BY <1>2, <1>3, KeepsTurns

(* Send_IT_DH. *)
LEMMA LinkDHOK ==
  ASSUME NEW d, Typed(d), NEW k
  PROVE  PacketOK(LinkDH(d), d.my_inc, d.ngbr_inc, k)
<1> DEFINE p == LinkDH(d)
<1>1. p.type = "DH" /\ p.inc = d.my_inc /\ p.aru_inc = d.dh_aru
  BY DEF LinkDH
<1> HIDE DEF p
<1>2. p.aru_inc \in Nat /\ p.aru_inc <= d.ngbr_inc
  BY <1>1 DEF Typed
<1>3. PacketOK(p, d.my_inc, d.ngbr_inc, k)
  BY <1>1, <1>2 DEF PacketOK
<1> QED
  BY <1>3 DEF p

LEMMA DHTurns ==
  ASSUME NEW d, NEW k, k \in Nat, NEW r, Good(d, k, r), NEW e, e = [d EXCEPT !.sent = {LinkDH(d)}]
  PROVE  Turns(d, e, k, r)
<1> DEFINE X == {LinkDH(d)}
<1>1. \A p \in X : PacketOK(p, d.my_inc, d.ngbr_inc, k)
  BY LinkDHOK DEF Good, SideOK, SendOK
<1>2. e = [d EXCEPT !.sent = X]
  OBVIOUS
<1> HIDE DEF X
<1>3. SideOK(e, k) /\ Keeps(d, e)
  BY <1>1, <1>2, SentOK DEF Good
<1>4. Turns(d, d, k, r)
  BY DEF Turns, SameIncs
<1> QED
  BY <1>3, <1>4, KeepsTurns

(* DH_established: the key is the common one, and the reliable timer starts. *)
LEMMA EstablishTurns ==
  ASSUME NEW d, NEW k, k \in Nat, NEW r, Good(d, k, r), NEW e, e = Establish(d)
  PROVE  Turns(d, e, k, r)
<1>1. CASE d.established
  <2>1. e = d
    BY <1>1 DEF Establish
  <2> QED
    BY <2>1 DEF Turns, SameIncs
<1>2. CASE ~d.established
  <2> DEFINE u == [d EXCEPT !.established = TRUE]
             h == d.given - d.wants
  <2>1. e = ReliableNow(u)
    BY <1>2 DEF Establish
  <2>2. /\ SendOK(d, k, h) /\ Waiting(d) /\ Filled(d) /\ Served(d) /\ Answers(d)
        /\ Receiver(d, r, conf.ordered)
    BY DEF Good, SideOK
  <2>3. IsEnd(d) /\ Typed(d) /\ OutWindow(d, k) /\ Handed(d, k, h) /\ Sent(d, k)
    BY <2>2 DEF SendOK, Typed
  <2>4. IsEnd(u)
    BY <2>3 DEF IsEnd
  <2>5. \A f \in Fields : u[f] = IF f = "established" THEN TRUE ELSE d[f]
    BY <2>3 DEF IsEnd
  <2> HIDE DEF u
  <2>6. /\ SameOut(d, u) /\ SameJob(d, u) /\ SameIncs(d, u) /\ u.given = d.given
        /\ u.count = d.count /\ u.timers = d.timers /\ u.sent = d.sent /\ u.cwnd = d.cwnd
        /\ u.established = TRUE /\ u.dh_aru = d.dh_aru
    BY <2>5 DEF Fields, SameOut, SameJob, SameIncs
  <2>7. SameIn(d, u) /\ u.in_frag_idx = d.in_frag_idx /\ u.delivered = d.delivered /\ u.bad = d.bad
    BY <2>5 DEF Fields, SameIn
  <2>8. Receiver(u, r, conf.ordered) /\ Answers(u) /\ (NothingIn(d) => NothingIn(u))
    BY <2>2, <2>6, <2>7, SameReceiver DEF Answers, NothingIn, SameIn
  <2>9. Mail(u) /\ OutWindow(u, k)
    BY <2>3, <2>6, <2>8, ReceiverMail, SameOutWindow DEF SameIncs
  <2>10. Typed(u)
    BY <2>3, <2>4, <2>6 DEF Typed, SameOut, SameJob, SameIncs
  <2> HIDE DEF h
  <2>11. Handed(u, k, h) /\ Sent(u, k) /\ Waiting(u) /\ Filled(u) /\ Served(u)
    BY <2>2, <2>3, <2>6
       DEF Handed, Sent, Waiting, Filled, Served, SameOut, SameJob, SameIncs, Full_Link_IT
  <2>12. SendOK(u, k, u.given - u.wants)
    BY <2>6, <2>9, <2>10, <2>11 DEF SendOK, SameJob, h
  <2>13. SideOK(e, k) /\ Keeps(u, e)
    BY <2>1, <2>11, <2>12, ReliableOK
  <2>14. Receiver(e, r, conf.ordered) /\ Answers(e)
    BY <2>8, <2>13, KeepsReceiver DEF Keeps
  <2>15. SameIncs(d, e) /\ (NothingIn(d) => NothingIn(e))
    BY <2>6, <2>8, <2>13 DEF SameIncs, NothingIn, Keeps
  <2> QED
    BY <2>13, <2>14, <2>15 DEF Turns, Good
<1> QED
  BY <1>1, <1>2

LEMMA EstablishSent ==
  ASSUME NEW d, IsEnd(d) PROVE Establish(d).sent = d.sent
<1> DEFINE u == [d EXCEPT !.established = TRUE]
<1>1. "sent" \in Fields
  BY DEF Fields
<1>2. u.sent = d.sent /\ u = [f \in Fields |-> u[f]]
  BY <1>1 DEF IsEnd
<1> HIDE DEF u
<1>3. ReliableNow(u).sent = u.sent
  BY <1>1, <1>2 DEF ReliableNow
<1> QED
  BY <1>2, <1>3 DEF Establish, u

(* Fill_Bucket_IT. *)
Fills(b, e) ==
  LET f == [b EXCEPT !.bucket = BUCKET_CAP, !.timers = b.timers \cup {"Fill"}]
  IN  e = IF b.bucket = BUCKET_CAP THEN b ELSE IF b.needed THEN Assign_Resources_IT(f) ELSE f

LEMMA FillTurns ==
  ASSUME NEW d, NEW k, k \in Nat, NEW r, Good(d, k, r), NEW x, NEW F, NEW b, Clock(d, x, F, d.timers \ {"Fill"}, b),
         NEW e, Fills(b, e)
  PROVE  Turns(d, e, k, r)
<1> DEFINE T == d.timers \ {"Fill"}
<1>1. PICK f : /\ f = [b EXCEPT !.bucket = BUCKET_CAP, !.timers = b.timers \cup {"Fill"}]
               /\ e = IF b.bucket = BUCKET_CAP THEN b ELSE IF b.needed THEN Assign_Resources_IT(f) ELSE f
  BY DEF Fills
<1>2. Clock(d, x, F, T, b)
  OBVIOUS
<1>3. /\ "Reliable" \in d.timers => "Reliable" \in T
      /\ "Ack" \in d.timers => "Ack" \in T
  OBVIOUS
<1> HIDE DEF T
<1> DEFINE h == b.given - b.wants
<1>4. /\ SendOK(b, k, h) /\ Waiting(b) /\ Receiver(b, r, conf.ordered)
      /\ SameOut(d, b) /\ SameJob(d, b) /\ SameIncs(d, b) /\ IsEnd(b)
      /\ b.count = d.count /\ b.timers = T /\ b.established = d.established /\ b.unsent = d.unsent
      /\ NothingIn(d) => NothingIn(b)
  BY <1>2, ClockOK
<1>5. BUCKET_CAP \in Nat
  BY SizeAssumption
<1>6. Typed(b)
  BY <1>4 DEF SendOK
<1>7. Alarmed(b) /\ Served(b) /\ Answers(b)
  BY <1>3, <1>4 DEF Good, SideOK, Alarmed, Served, Answers, SameJob, SameOut, Full_Link_IT
<1>8. CASE b.bucket = BUCKET_CAP
  <2>1. e = b /\ Filled(b)
    BY <1>1, <1>5, <1>8 DEF Filled
  <2> QED
    BY <1>4, <1>7, <2>1 DEF Turns, Good, SideOK
<1>9. CASE b.bucket # BUCKET_CAP
  <2> DEFINE U == b.timers \cup {"Fill"}
  <2>1. f = [b EXCEPT !.bucket = BUCKET_CAP, !.timers = U] /\ b.timers \subseteq U /\ "Fill" \in U
    BY <1>1
  <2> HIDE DEF U
  <2>2. IsEnd(f)
    BY <1>4, <2>1 DEF IsEnd
  <2>3. \A y \in Fields : f[y] = IF y = "bucket" THEN BUCKET_CAP ELSE IF y = "timers" THEN U ELSE b[y]
    BY <1>4, <2>1 DEF IsEnd
  <2>4. /\ SameOut(b, f) /\ f.wants = b.wants /\ f.given = b.given /\ f.queued = b.queued /\ f.needed = b.needed
        /\ f.bucket = BUCKET_CAP /\ f.timers = U /\ f.sent = b.sent /\ f.cwnd = b.cwnd /\ f.count = b.count
    BY <2>3 DEF Fields, SameOut
  <2>5. Keeps(b, f)
    BY <2>1, <2>3 DEF Fields, Keeps, Answers
  <2>6. JobTyped(f) /\ LikeOut(b, f)
    <3>1. JobTyped(b)
      BY <1>6 DEF JobTyped, Typed
    <3>2. BUCKET_CAP \in 0 .. BUCKET_CAP
      BY <1>5
    <3>3. JobTyped(f)
      BY <2>4, <3>1, <3>2 DEF JobTyped
    <3> QED
      BY <1>6, <2>4, <3>3, SameIsLike
  <2>7. SendOK(f, k, h) /\ Waiting(f) /\ Alarmed(f)
    <3>1. SendOK(b, k, h) /\ f.wants = b.wants /\ f.sent = b.sent
      BY <1>4, <2>4
    <3> HIDE DEF h
    <3>2. /\ SendOK(f, k, h)
          /\ Waiting(b) => Waiting(f)
          /\ Alarmed(b) => Alarmed(f)
      BY <2>2, <2>5, <2>6, <3>1, TouchOK
    <3> QED
      BY <1>4, <1>7, <3>2
  <2>8. Filled(f)
    BY <2>1, <2>4 DEF Filled
  <2>9. f.given - f.wants = h
    BY <2>4
  <2>10. Answers(f) /\ Receiver(f, r, conf.ordered) /\ SameIncs(d, f) /\ (NothingIn(d) => NothingIn(f))
    BY <1>4, <1>7, <2>5, KeepsReceiver DEF Keeps, SameIncs, NothingIn
  <2>11. CASE ~b.needed
    <3>1. Served(f)
      BY <1>7, <2>4, <2>11 DEF Served, SameOut, Full_Link_IT
    <3>2. e = f
      BY <1>1, <1>9, <2>11
    <3>3. SideOK(f, k)
      BY <2>7, <2>8, <2>9, <3>1 DEF SideOK
    <3> QED
      BY <2>10, <3>2, <3>3 DEF Turns, Good
  <2>12. CASE b.needed
    <3>1. e = Assign_Resources_IT(f)
      BY <1>1, <1>9, <2>12
    <3>2. SendOK(f, k, f.given - f.wants)
      BY <2>7, <2>9
    <3>3. Serves(f, e, k) /\ Filled(e) /\ Served(e)
      BY <2>7, <2>8, <3>1, <3>2, AssignOK
    <3>4. SideOK(e, k) /\ Keeps(f, e)
      BY <2>7, <3>3 DEF Serves, SideOK
    <3>5. Receiver(e, r, conf.ordered) /\ Answers(e)
      <4>1. Receiver(f, r, conf.ordered) /\ Answers(f) /\ Keeps(f, e)
        BY <2>10, <3>4
      <4>2. Receiver(e, r, conf.ordered)
        BY <4>1, KeepsReceiver
      <4> QED
        BY <4>1, <4>2 DEF Keeps
    <3>6. SameIncs(d, e) /\ (NothingIn(d) => NothingIn(e))
      BY <2>10, <3>4 DEF Keeps, SameIncs, NothingIn
    <3> QED
      BY <3>4, <3>5, <3>6 DEF Turns, Good
  <2> QED
    BY <2>11, <2>12
<1> QED
  BY <1>8, <1>9

(* Request_Resources_IT. *)
LEMMA RequestTurns ==
  ASSUME NEW d, NEW k, k \in Nat, NEW r, Good(d, k, r), d.given < Len(Frags),
         NEW f, f = [d EXCEPT !.wants = d.wants + 1, !.given = d.given + 1, !.queued = TRUE],
         NEW e, e = IF Full_Link_IT(f) THEN f ELSE Assign_Resources_IT(f)
  PROVE  Turns(d, e, k, r)
<1> DEFINE h == d.given - d.wants
           wants == d.wants + 1
           given == d.given + 1
<1>1. /\ SendOK(d, k, h) /\ Waiting(d) /\ Alarmed(d) /\ Filled(d) /\ Receiver(d, r, conf.ordered)
      /\ Answers(d)
  BY DEF Good, SideOK
<1>2. Typed(d) /\ IsEnd(d) /\ Mail(d) /\ OutWindow(d, k) /\ Handed(d, k, h) /\ Sent(d, k)
  BY <1>1 DEF SendOK, Typed
<1>3. given \in 0 .. Len(Frags) /\ wants \in 0 .. given /\ given - wants = h
  <2> DEFINE g == d.given
             w == d.wants
             N == Len(Frags)
  <2>1. g \in 0 .. N /\ w \in 0 .. g /\ N \in Nat /\ g < N
    BY <1>2, FragsAre DEF Typed
  <2> HIDE DEF g, w, N
  <2>2. g + 1 \in 0 .. N /\ w + 1 \in 0 .. g + 1 /\ (g + 1) - (w + 1) = g - w
    BY <2>1
  <2> QED
    BY <2>2 DEF g, w, N
<1>4. f = [d EXCEPT !.wants = wants, !.given = given, !.queued = TRUE]
  OBVIOUS
<1> HIDE DEF wants, given, h
<1>5. IsEnd(f)
  BY <1>2, <1>4 DEF IsEnd
<1>6. \A y \in Fields : f[y] = IF y = "wants" THEN wants ELSE IF y = "given" THEN given
                              ELSE IF y = "queued" THEN TRUE ELSE d[y]
  BY <1>2, <1>4 DEF IsEnd
<1>7. /\ SameOut(d, f) /\ f.wants = wants /\ f.given = given /\ f.queued = TRUE /\ f.needed = d.needed
      /\ f.bucket = d.bucket /\ f.timers = d.timers /\ f.sent = d.sent /\ f.cwnd = d.cwnd /\ f.count = d.count
      /\ f.my_inc = d.my_inc /\ f.ngbr_inc = d.ngbr_inc
      /\ f.established = d.established /\ f.dh_aru = d.dh_aru /\ f.unsent = d.unsent
  BY <1>6 DEF Fields, SameOut
<1>8. SameIn(d, f) /\ f.in_frag_idx = d.in_frag_idx /\ f.delivered = d.delivered /\ f.bad = d.bad
  BY <1>6 DEF Fields, SameIn
<1>9. Receiver(f, r, conf.ordered) /\ Mail(f)
  BY <1>1, <1>8, SameReceiver, ReceiverMail
<1>10. Typed(f)
  BY <1>2, <1>3, <1>5, <1>7 DEF Typed, SameOut
<1>11. OutWindow(f, k) /\ Handed(f, k, h) /\ Sent(f, k) /\ Waiting(f) /\ Alarmed(f) /\ Filled(f) /\ Answers(f)
  <2>1. OutWindow(f, k)
    BY <1>2, <1>7, SameOutWindow
  <2> QED
    BY <1>1, <1>2, <1>7, <2>1
       DEF Handed, Sent, Waiting, Alarmed, Filled, Answers, SameOut, Full_Link_IT
<1>12. SendOK(f, k, f.given - f.wants)
  BY <1>3, <1>7, <1>9, <1>10, <1>11 DEF SendOK
<1>13. SameIncs(d, f) /\ (NothingIn(d) => NothingIn(f))
  BY <1>8 DEF SameIncs, SameIn, NothingIn
<1>14. CASE Full_Link_IT(f)
  <2>1. Served(f) /\ e = f
    BY <1>14 DEF Served
  <2> QED
    BY <1>9, <1>11, <1>12, <1>13, <2>1 DEF Turns, Good, SideOK
<1>15. CASE ~Full_Link_IT(f)
  <2>1. e = Assign_Resources_IT(f)
    BY <1>15
  <2>2. Serves(f, e, k) /\ Filled(e) /\ Served(e)
    BY <1>11, <1>12, <2>1, AssignOK
  <2>3. SideOK(e, k) /\ Keeps(f, e)
    BY <1>11, <2>2 DEF Serves, SideOK
  <2>4. Receiver(e, r, conf.ordered) /\ Answers(e)
    <3>1. Receiver(e, r, conf.ordered)
      BY <1>9, <2>3, KeepsReceiver
    <3> QED
      BY <1>11, <2>3, <3>1 DEF Keeps
  <2>5. SameIncs(d, e) /\ (NothingIn(d) => NothingIn(e))
    BY <1>13, <2>3 DEF Keeps, SameIncs, NothingIn
  <2> QED
    BY <2>3, <2>4, <2>5 DEF Turns, Good
<1> QED
  BY <1>14, <1>15

-----------------------------------------------------------------------------
(* Changes of incarnation. *)

(* The packets that are kept are the last n of the window, and begin a message. *)
LEMMA ReintroducedIs ==
  ASSUME NEW d, NEW k, k \in Nat, NEW h, SendOK(d, k, h), Waiting(d)
  PROVE  \E n \in 0 .. d.out_head - d.out_tail :
            Cardinality(Reintroduced(d)) = n /\ IsStart(k + (d.out_head - n - 1))
<1> DEFINE t == d.out_tail
           H == d.out_head
           S == Reintroduced(d)
           left == d.out_message.left
           First(q) == d.outgoing[q % Window].idx = 1
<1>1. /\ t \in Nat /\ H \in Nat /\ 1 <= t /\ t <= H /\ H <= t + Window /\ left \in Nat
      /\ \A q \in t .. H - 1 : Placed(d.outgoing[q % Window], q, k)
  BY SMTT(30) DEF SendOK, Typed, OutWindow
<1>2. S = {q \in t .. H - 1 : \E r \in t .. q : First(r)}
  BY DEF Reintroduced
<1>3. h \in 0 .. Len(Frags) /\ Before[h] + 1 - left = H + k /\ Before[h] \in Nat
  BY BeforeIs DEF SendOK, Handed
<1>4. CASE \E q \in t .. H - 1 : First(q)
  <2> DEFINE A == {q \in t .. H - 1 : First(q)}
  <2>1. A \subseteq Nat /\ A # {}
    BY <1>1, <1>4
  <2>2. PICK b \in A : \A y \in A : b <= y
    BY <2>1, LeastExists
  <2>3. b \in t .. H - 1 /\ First(b)
    BY <2>2
  <2>4. S = b .. H - 1
    <3> HIDE DEF First, S, t, H
    <3>1. ASSUME NEW q \in S PROVE q \in b .. H - 1
      <4>1. PICK r \in t .. q : First(r)
        BY <1>2
      <4>2. q \in t .. H - 1
        BY <1>2
      <4>3. r \in A
        BY <1>1, <4>1, <4>2
      <4>4. b <= r
        BY <2>2, <4>3
      <4> QED
        BY <1>1, <2>3, <4>1, <4>2, <4>4
    <3>2. ASSUME NEW q \in b .. H - 1 PROVE q \in S
      <4>1. q \in t .. H - 1 /\ b \in t .. q
        BY <1>1, <2>3
      <4> QED
        BY <1>2, <2>3, <4>1
    <3> QED
      BY <3>1, <3>2
  <2> DEFINE n == H - b
  <2>5. b \in Int /\ H - 1 \in Int /\ b \in Nat /\ H - 1 - b + 1 = n /\ n \in 0 .. H - t /\ k + (H - n - 1) = b + k - 1
        /\ b <= H - 1
    <3> HIDE DEF t, H
    <3> QED
      BY <1>1, <2>3
  <2>6. Cardinality(S) = n
    <3> DEFINE z == H - 1
    <3>1. b \in Int /\ z \in Int /\ b <= z /\ z - b + 1 = n /\ S = b .. z
      BY <2>4, <2>5
    <3> HIDE DEF z, S, n
    <3>2. Cardinality(b .. z) = IF b > z THEN 0 ELSE z - b + 1
      BY <3>1, FS_Interval
    <3> QED
      BY <3>1, <3>2
  <2>7. IsStart(b + k - 1)
    <3> DEFINE c == d.outgoing[b % Window]
               x == c.msg
    <3>1. IsPart(x, 1) /\ Before[x - 1] + 1 = b + k
      BY <1>1, <2>3 DEF Placed
    <3> HIDE DEF x
    <3>2. x - 1 \in 0 .. Len(Frags)
      BY <3>1, FragsAre DEF IsPart
    <3>3. Before[x - 1] \in Nat
      BY <3>2, BeforeIs
    <3>4. Before[x - 1] = b + k - 1
      BY <2>5, <3>1, <3>3
    <3> QED
      BY <3>2, <3>4 DEF IsStart
  <2> HIDE DEF n, S
  <2> QED
    BY <2>5, <2>6, <2>7 DEF S
<1>5. CASE ~ \E q \in t .. H - 1 : First(q)
  <2>1. S = {}
    <3> HIDE DEF First, S, t, H
    <3>1. ASSUME NEW q \in S PROVE FALSE
      <4>1. PICK r \in t .. q : First(r)
        BY <1>2
      <4>2. q \in t .. H - 1
        BY <1>2
      <4>3. r \in t .. H - 1
        BY <1>1, <4>1, <4>2
      <4> QED
        BY <1>5, <4>1, <4>3
    <3> QED
      BY <3>1
  <2>2. left = 0
    <3> SUFFICES ASSUME left > 0 PROVE FALSE
      BY <1>1
    <3> DEFINE F == Frags[h]
               B == Before[h - 1]
    <3>1. Full_Link_IT(d) /\ h > 0 /\ left < F
      BY DEF Waiting, SendOK, Handed
    <3>2. h \in 1 .. Len(Frags)
      BY <1>3, <3>1, FragsAre
    <3>3. F \in Nat /\ F <= Window /\ F >= 1 /\ h - 1 \in 0 .. Len(Frags)
      BY <3>2, FragsAre
    <3>4. B \in Nat /\ Before[h] = B + F
      BY <3>2, <3>3, BeforeIs
    <3>5. H = t + Window
      BY <1>1, <3>1, WindowIs DEF Full_Link_IT
    <3> DEFINE f == B + 1 - k
    <3>6. f \in t .. H - 1 /\ f + k = B + 1 /\ f \in Nat
      <4>1. B + F + 1 - left = H + k /\ left < F
        BY <1>3, <3>1, <3>4
      <4> HIDE DEF B, F, H, t, left
      <4> QED
        BY <1>1, <3>3, <3>4, <3>5, <4>1, WindowIs
    <3> HIDE DEF f
    <3> DEFINE c == d.outgoing[f % Window]
               x == c.msg
               y == c.idx
    <3>7. IsPart(x, y) /\ Before[x - 1] + y = B + 1
      BY <1>1, <3>6 DEF Placed
    <3> HIDE DEF c, x, y
    <3>8. x = h /\ y = 1
      <4> DEFINE w == 1
                 a == h - 1
      <4>1. /\ a \in 0 .. Len(Frags) /\ a + 1 = h /\ w \in Nat /\ w >= 1 /\ w <= Frags[h]
            /\ Before[x - 1] + y = Before[a] + w
        BY <3>2, <3>3, <3>7
      <4> HIDE DEF w, a
      <4>2. a < Len(Frags) => w <= Frags[a + 1]
        BY <4>1
      <4>3. x = a + 1 /\ y = w
        BY <3>7, <4>1, <4>2, PlaceIsUnique
      <4> QED
        BY <4>1, <4>3 DEF w
    <3> QED
      BY <1>5, <3>6, <3>8 DEF y, c
  <2>3. Cardinality(S) = 0
    BY <2>1, FS_EmptySet
  <2>4. 0 \in 0 .. H - t /\ k + (H - 0 - 1) = Before[h]
    <3> HIDE DEF H, t, left
    <3> QED
      BY <1>1, <1>3, <2>2
  <2>5. IsStart(k + (H - 0 - 1))
    BY <1>3, <2>4 DEF IsStart
  <2> QED
    BY <2>3, <2>4, <2>5
<1> QED
  BY <1>4, <1>5

(* What a reset leaves and what it empties. *)
Emptied(d, inc, r) ==
  /\ IsEnd(r) /\ NothingIn(r) /\ SameJob(d, r) /\ r.given = d.given
  /\ r.my_inc = d.my_inc /\ r.ngbr_inc = inc
  /\ r.outgoing = d.outgoing /\ r.out_message = d.out_message
  /\ r.out_digest = [s \in Slots |-> IF s = 0 THEN {} ELSE d.out_digest[s]]
  /\ r.cwnd = Minimum_Window /\ r.count = d.count /\ r.timers = d.timers /\ r.sent = d.sent
  /\ r.established = d.established /\ r.dh_aru = d.dh_aru

LEMMA ResetOK ==
  ASSUME NEW d, IsEnd(d), d.bad = FALSE, NEW inc, NEW r, r = Reset(d, inc)
  PROVE  Emptied(d, inc, r)
<1> DEFINE digest == [s \in Slots |-> IF s = 0 THEN {} ELSE d.out_digest[s]]
           cells == [s \in Slots |-> Empty]
           none == << >>
           w == [d EXCEPT !.ngbr_inc = inc, !.in_tail = 1, !.in_head = 1, !.incoming = cells,
                          !.delivered = none, !.out_digest = digest,
                          !.cwnd = Minimum_Window, !.ssthresh = Window, !.unsent = {}]
<1>1. r = [w EXCEPT !.aru_digest = {}, !.in_frag_idx = 1]
  BY DEF Reset, ResetWindows
<1> HIDE DEF digest, cells, none
<1>2. IsEnd(w)
  BY DEF IsEnd
<1>3. \A f \in Fields : w[f] = IF f = "ngbr_inc" THEN inc ELSE IF f = "in_tail" THEN 1 ELSE IF f = "in_head" THEN 1
                              ELSE IF f = "incoming" THEN cells ELSE IF f = "delivered" THEN none
                              ELSE IF f = "out_digest" THEN digest ELSE IF f = "cwnd" THEN Minimum_Window
                              ELSE IF f = "ssthresh" THEN Window ELSE IF f = "unsent" THEN {} ELSE d[f]
  BY DEF IsEnd
<1> HIDE DEF w
<1>4. IsEnd(r)
  BY <1>1, <1>2 DEF IsEnd
<1>5. \A f \in Fields : r[f] = IF f = "aru_digest" THEN {} ELSE IF f = "in_frag_idx" THEN 1 ELSE w[f]
  BY <1>1, <1>2 DEF IsEnd
<1>6. /\ r.in_tail = 1 /\ r.in_head = 1 /\ r.incoming = cells /\ r.aru_digest = {} /\ r.in_frag_idx = 1
      /\ r.delivered = none /\ r.bad = d.bad
  BY <1>3, <1>5 DEF Fields
<1>7. /\ SameJob(d, r) /\ r.given = d.given /\ r.my_inc = d.my_inc /\ r.ngbr_inc = inc
      /\ r.outgoing = d.outgoing /\ r.out_message = d.out_message /\ r.out_digest = digest
      /\ r.cwnd = Minimum_Window /\ r.count = d.count /\ r.timers = d.timers /\ r.sent = d.sent
      /\ r.established = d.established /\ r.dh_aru = d.dh_aru
  BY <1>3, <1>5 DEF Fields, SameJob
<1>8. NothingIn(r)
  BY <1>6 DEF NothingIn, cells, none
<1> QED
  BY <1>4, <1>7, <1>8 DEF Emptied, digest

LEMMA NoDigest ==
  ASSUME NEW i, NEW j PROVE Digest(i, j, 0) = {}
  BY DEF Digest

LEMMA NothingMail ==
  ASSUME NEW d, NothingIn(d) PROVE Mail(d)
<1>1. d.in_tail = 1 /\ d.in_head = 1 /\ d.aru_digest = {}
  BY DEF NothingIn
<1>2. d.in_tail - 1 = 0
  BY <1>1
<1> QED
  BY <1>1, <1>2, NoDigest DEF Mail

(* The window after a reset. *)
Starts(d, inc, x, k) ==
  /\ SendOK(x, k, x.given - x.wants) /\ NothingIn(x)
  /\ x.my_inc = d.my_inc /\ x.ngbr_inc = inc /\ x.bucket = d.bucket /\ x.timers = d.timers
  /\ x.established = d.established
  /\ Answers(d) => Answers(x)

NewWindow(d, r, x, k) ==
  /\ IsEnd(x) /\ OutWindow(x, k) /\ Handed(x, k, d.given - d.wants)
  /\ x.out_tail \in Nat /\ x.tcp_head \in Nat /\ x.out_head \in Nat
  /\ x.outgoing \in [Slots -> OutCell] /\ x.out_message \in [msg : Nat, left : Nat]
  /\ \A f \in Fields \ {"out_tail", "tcp_head", "out_head", "outgoing", "out_digest", "out_message"} : x[f] = r[f]

LEMMA StartsOK ==
  ASSUME NEW d, Typed(d), d.sent = {}, NEW inc, inc \in Nat, d.ngbr_inc <= inc, NEW r, Emptied(d, inc, r),
         NEW x, NEW k, NewWindow(d, r, x, k)
  PROVE  Starts(d, inc, x, k)
<1>1. /\ x.my_inc = r.my_inc /\ x.ngbr_inc = r.ngbr_inc /\ SameJob(r, x) /\ x.given = r.given
      /\ x.cwnd = r.cwnd /\ x.count = r.count /\ x.timers = r.timers /\ x.sent = r.sent
      /\ x.in_tail = r.in_tail /\ x.in_head = r.in_head /\ x.incoming = r.incoming
      /\ x.aru_digest = r.aru_digest /\ x.in_frag_idx = r.in_frag_idx /\ x.delivered = r.delivered
      /\ x.bad = r.bad /\ x.established = r.established /\ x.dh_aru = r.dh_aru
  BY DEF NewWindow, Fields, SameJob
<1>2. /\ x.my_inc = d.my_inc /\ x.ngbr_inc = inc /\ x.bucket = d.bucket /\ x.count = d.count
      /\ x.timers = d.timers /\ x.given = d.given /\ x.wants = d.wants /\ x.sent = {} /\ x.cwnd = Minimum_Window
      /\ x.queued = d.queued /\ x.needed = d.needed
      /\ x.established = d.established /\ x.dh_aru = d.dh_aru
  BY <1>1 DEF Emptied, SameJob
<1>3. NothingIn(x)
  BY <1>1 DEF Emptied, NothingIn
<1>4. Mail(x)
  BY <1>3, NothingMail
<1>5. Typed(x)
  <2>1. x.dh_aru \in Nat /\ x.dh_aru <= x.ngbr_inc /\ x.established \in BOOLEAN
    BY <1>2 DEF Typed
  <2> QED
    BY <1>2, <2>1, SizeAssumption DEF NewWindow, Typed
<1>6. Sent(x, k)
  BY <1>2 DEF Sent
<1> QED
  BY <1>2, <1>3, <1>4, <1>5, <1>6 DEF NewWindow, Starts, SendOK, Answers

(* Without Reintroduce_Messages the window is empty. *)
LEMMA DropOK ==
  ASSUME NEW d, Typed(d), d.sent = {}, NEW inc, inc \in Nat, d.ngbr_inc <= inc, NEW r, Emptied(d, inc, r),
         NEW x, x = DropOutgoing(r)
  PROVE  Waiting(x) /\ \E k \in Nat : IsStart(k) /\ Starts(d, inc, x, k)
<1> DEFINE h == d.given - d.wants
           k == Before[h]
           none == None
<1>1. x = [r EXCEPT !.out_tail = 1, !.tcp_head = 1, !.out_head = 1, !.out_message = none]
  BY DEF DropOutgoing
<1>2. none \in [msg : Nat, left : Nat] /\ none.left = 0
  BY DEF None
<1>3. h \in 0 .. Len(Frags)
  <2> DEFINE g == d.given
             w == d.wants
             N == Len(Frags)
  <2>1. g \in 0 .. N /\ w \in 0 .. g /\ N \in Nat
    BY FragsAre DEF Typed
  <2> HIDE DEF g, w, N
  <2>2. g - w \in 0 .. N
    BY <2>1
  <2> QED
    BY <2>2 DEF g, w, N
<1>4. k \in Nat /\ IsStart(k)
  BY <1>3, BeforeIs DEF IsStart
<1> HIDE DEF none, k
<1>5. IsEnd(r)
  BY DEF Emptied
<1>6. IsEnd(x)
  BY <1>1, <1>5 DEF IsEnd
<1>7. \A f \in Fields : x[f] = IF f = "out_tail" THEN 1 ELSE IF f = "tcp_head" THEN 1 ELSE IF f = "out_head" THEN 1
                              ELSE IF f = "out_message" THEN none ELSE r[f]
  BY <1>1, <1>5 DEF IsEnd
<1>8. /\ x.out_tail = 1 /\ x.tcp_head = 1 /\ x.out_head = 1 /\ x.out_message = none
      /\ x.outgoing = r.outgoing /\ x.out_digest = r.out_digest
      /\ x.my_inc = r.my_inc /\ x.ngbr_inc = r.ngbr_inc
  BY <1>7 DEF Fields
<1>9. \A f \in Fields \ {"out_tail", "tcp_head", "out_head", "outgoing", "out_digest", "out_message"} : x[f] = r[f]
  BY <1>7
<1>10. OutWindow(x, k)
  <2>1. x.out_digest = [s \in Slots |-> x.out_digest[s]] /\ 0 % Window \in Slots /\ 0 % Window = 0
        /\ x.out_digest[0 % Window] = {}
    BY <1>8, WindowIs DEF Emptied, Slots
  <2>2. ASSUME NEW q \in x.out_tail - 1 .. x.out_head - 1
        PROVE  x.out_digest[q % Window] = Digest(x.my_inc, x.ngbr_inc, q)
    <3>1. q = 0
      BY <1>8
    <3> QED
      BY <2>1, <3>1, NoDigest
  <2>3. ASSUME NEW q \in x.out_tail .. x.out_head - 1 PROVE FALSE
    BY <1>8
  <2>4. 1 <= x.out_tail /\ x.out_tail <= x.tcp_head /\ x.tcp_head <= x.out_head /\ x.out_head <= x.out_tail + Window
    BY <1>8, WindowIs
  <2> QED
    BY <2>1, <2>2, <2>3, <2>4 DEF OutWindow
<1>11. Handed(x, k, h)
  <2>1. k + 1 - 0 = 1 + k
    BY <1>4
  <2> QED
    BY <1>2, <1>3, <1>8, <2>1 DEF Handed, k
<1>12. x.outgoing \in [Slots -> OutCell]
  BY <1>8 DEF Emptied, Typed
<1>13. Starts(d, inc, x, k)
  <2>1. NewWindow(d, r, x, k)
    BY <1>2, <1>6, <1>8, <1>9, <1>10, <1>11, <1>12 DEF NewWindow
  <2> QED
    BY <2>1, StartsOK
<1>14. Waiting(x)
  BY <1>2, <1>8 DEF Waiting
<1> QED
  BY <1>4, <1>13, <1>14

(* With it, the kept packets are at the head of the new window. *)
LEMMA KeptCell ==
  ASSUME NEW g, g \in [Slots -> OutCell], NEW a, a \in Nat, NEW c, c = [g[a % Window] EXCEPT !.nacked = FALSE]
  PROVE  c \in OutCell /\ c.msg = g[a % Window].msg /\ c.idx = g[a % Window].idx
<1>1. g[a % Window] \in OutCell
  BY SlotIs
<1> QED
  BY <1>1 DEF OutCell

LEMMA KeepOK ==
  ASSUME NEW d, NEW k, k \in Nat, SendOK(d, k, d.given - d.wants), Waiting(d), d.sent = {},
         NEW inc, inc \in Nat, d.ngbr_inc <= inc, NEW r, Emptied(d, inc, r), NEW x, x = KeepOutgoing(r, d)
  PROVE  Waiting(x) /\ \E j \in Nat : IsStart(j) /\ Starts(d, inc, x, j)
<1> DEFINE h == d.given - d.wants
           t == d.out_tail
           H == d.out_head
           n == Cardinality(Reintroduced(d))
           skip == H - n - 1
           from(i) == [d.outgoing[(i + skip) % Window] EXCEPT !.nacked = FALSE]
           At(s) == CHOOSE i \in 1 .. n : i % Window = s
           Used == {i % Window : i \in 1 .. n}
           outgoing == [s \in Slots |-> IF s \in Used THEN from(At(s)) ELSE r.outgoing[s]]
           digest == [s \in Slots |-> IF s \in Used THEN {Nonce(r, i) : i \in 1 .. At(s)} ELSE r.out_digest[s]]
           tcp == Lesser(2, n + 1)
           head == n + 1
           y == [r EXCEPT !.outgoing = outgoing, !.out_digest = digest, !.tcp_head = tcp,
                          !.out_head = head, !.out_tail = 1]
<1>1. x = Pack_Fragments_Into_Packets_IT(y)
  BY DEF KeepOutgoing
<1>2. SendOK(d, k, h) /\ Typed(d) /\ OutWindow(d, k) /\ Handed(d, k, h)
  BY DEF SendOK
<1>3. n \in 0 .. H - t /\ IsStart(k + skip)
  <2> HIDE DEF h
  <2> QED
    BY <1>2, ReintroducedIs
<1>4. /\ t \in Nat /\ H \in Nat /\ 1 <= t /\ t <= H /\ H <= t + Window
      /\ d.outgoing \in [Slots -> OutCell]
      /\ \A q \in t .. H - 1 : Placed(d.outgoing[q % Window], q, k)
  BY <1>2, SMTT(60) DEF Typed, OutWindow
<1> HIDE DEF n
<1>5. n \in Nat /\ n <= Window /\ skip \in Nat /\ k + skip \in Nat /\ head \in Nat /\ tcp \in Nat
      /\ 1 <= tcp /\ tcp <= head /\ H + k = head + (k + skip)
  <2> HIDE DEF t, H
  <2> QED
    BY <1>3, <1>4, WindowIs DEF Lesser
<1>6. ASSUME NEW i \in 1 .. n PROVE At(i % Window) = i /\ i % Window \in Used /\ i % Window \in Slots /\ i \in Nat
  <2>1. At(i % Window) \in 1 .. n /\ At(i % Window) % Window = i % Window
    BY Zenon
  <2> DEFINE a == At(i % Window)
  <2> HIDE DEF At
  <2>2. a \in Nat /\ i \in Nat /\ a < i + Window /\ i < a + Window
    BY <1>5, <2>1, WindowIs
  <2>3. a = i
    BY <2>1, <2>2, SlotInjective
  <2> QED
    BY <2>2, <2>3, SlotIs
<1>7. ASSUME NEW i \in 1 .. n PROVE from(i) \in OutCell /\ Placed(from(i), i, k + skip)
  <2> DEFINE a == i + skip
             c == from(i)
  <2>1. a \in t .. H - 1 /\ a \in Nat /\ i \in Nat /\ a + k = i + (k + skip)
    <3> HIDE DEF t, H
    <3> QED
      BY <1>3, <1>4, <1>5
  <2>2. Placed(d.outgoing[a % Window], a, k)
    BY <1>4, <2>1
  <2>3. c = [d.outgoing[a % Window] EXCEPT !.nacked = FALSE]
    OBVIOUS
  <2> HIDE DEF a, c
  <2>4. c \in OutCell /\ c.msg = d.outgoing[a % Window].msg /\ c.idx = d.outgoing[a % Window].idx
    BY <1>4, <2>1, <2>3, KeptCell
  <2>5. Placed(c, i, k + skip)
    BY <2>1, <2>2, <2>4 DEF Placed
  <2> QED
    BY <2>4, <2>5 DEF c
<1>8. \A i \in 1 .. n : outgoing[i % Window] = from(i)
  <2> HIDE DEF At, Used, from
  <2> QED
    BY <1>6
<1>9. ASSUME NEW i \in 1 .. n PROVE digest[i % Window] = Digest(d.my_inc, inc, i)
  <2>1. digest[i % Window] = {Nonce(r, q) : q \in 1 .. i}
    <3> HIDE DEF At, Used
    <3> QED
      BY <1>6
  <2> QED
    BY <2>1, ZenonT(60) DEF Emptied, Nonce, Digest
<1>10. outgoing \in [Slots -> OutCell]
  <2>1. ASSUME NEW s \in Slots PROVE outgoing[s] \in OutCell
    <3>1. CASE s \in Used
      <4>1. PICK i \in 1 .. n : s = i % Window
        BY <3>1
      <4> HIDE DEF outgoing
      <4> QED
        BY <1>7, <1>8, <4>1
    <3>2. CASE s \notin Used
      <4> HIDE DEF Used
      <4> QED
        BY <1>4, <3>2 DEF Emptied
    <3> QED
      BY <3>1, <3>2
  <2> HIDE DEF Used, At, from
  <2> QED
    BY <2>1
<1>11. digest = [s \in Slots |-> digest[s]]
  <2> HIDE DEF Used, At
  <2> QED
    OBVIOUS
<1>12. n = 0 => digest[0 % Window] = {} /\ 0 % Window = 0
  <2> SUFFICES ASSUME n = 0 PROVE digest[0 % Window] = {} /\ 0 % Window = 0
    OBVIOUS
  <2>1. Used = {}
    OBVIOUS
  <2>2. 0 \in Slots /\ 0 % Window = 0
    BY WindowIs DEF Slots
  <2> HIDE DEF Used, At
  <2> QED
    BY <2>1, <2>2 DEF Emptied
<1> HIDE DEF outgoing, digest, tcp, head, skip
<1>13. IsEnd(r) /\ r.out_message = d.out_message
  BY DEF Emptied
<1>14. IsEnd(y)
  BY <1>13 DEF IsEnd
<1>15. \A f \in Fields : y[f] = IF f = "outgoing" THEN outgoing ELSE IF f = "out_digest" THEN digest
                               ELSE IF f = "tcp_head" THEN tcp ELSE IF f = "out_head" THEN head
                               ELSE IF f = "out_tail" THEN 1 ELSE r[f]
  BY <1>13 DEF IsEnd
<1>16. /\ y.out_tail = 1 /\ y.tcp_head = tcp /\ y.out_head = head /\ y.outgoing = outgoing
       /\ y.out_digest = digest /\ y.out_message = r.out_message
       /\ y.my_inc = r.my_inc /\ y.ngbr_inc = r.ngbr_inc
  BY <1>15 DEF Fields
<1>17. \A f \in Fields \ {"out_tail", "tcp_head", "out_head", "outgoing", "out_digest", "out_message"} : y[f] = r[f]
  BY <1>15
<1> DEFINE j == k + skip
<1> HIDE DEF y
<1>18. OutWindow(y, j)
  <2>1. ASSUME NEW q \in y.out_tail .. y.out_head - 1 PROVE Placed(y.outgoing[q % Window], q, j)
    <3>1. q \in 1 .. n
      BY <1>5, <1>16 DEF head
    <3> HIDE DEF from
    <3> QED
      BY <1>7, <1>8, <1>16, <3>1
  <2>2. ASSUME NEW q \in y.out_tail - 1 .. y.out_head - 1, q = y.out_head - 1 \/ q >= y.out_tail
        PROVE  y.out_digest[q % Window] = Digest(y.my_inc, y.ngbr_inc, q)
    <3>1. y.my_inc = d.my_inc /\ y.ngbr_inc = inc
      BY <1>16 DEF Emptied
    <3>2. q \in 1 .. n \/ (q = 0 /\ n = 0)
      BY <1>5, <1>16, <2>2 DEF head
    <3>3. CASE q \in 1 .. n
      BY <1>9, <1>16, <3>1, <3>3
    <3>4. CASE q = 0 /\ n = 0
      BY <1>12, <1>16, <3>1, <3>4, NoDigest
    <3> QED
      BY <3>2, <3>3, <3>4
  <2>3. 1 <= y.out_tail /\ y.out_tail <= y.tcp_head /\ y.tcp_head <= y.out_head /\ y.out_head <= y.out_tail + Window
    BY <1>5, <1>16, WindowIs DEF head
  <2> QED
    BY <1>11, <1>16, <2>1, <2>2, <2>3 DEF OutWindow
<1>19. Handed(y, j, h)
  <2> HIDE DEF h
  <2>1. Before[h] + 1 - d.out_message.left = y.out_head + j
    BY <1>2, <1>5, <1>16 DEF Handed
  <2> QED
    BY <1>2, <1>13, <1>16, <2>1 DEF Handed
<1>20. NewWindow(d, r, y, j)
  BY <1>2, <1>5, <1>10, <1>13, <1>14, <1>16, <1>17, <1>18, <1>19 DEF NewWindow, Typed
<1> HIDE DEF j
<1>21. Starts(d, inc, y, j)
  BY <1>2, <1>20, StartsOK
<1>22. j \in Nat /\ IsStart(j)
  BY <1>3, <1>5 DEF j
<1> DEFINE g == y.given - y.wants
<1>23. g = h
  <2>1. y.given = r.given /\ y.wants = r.wants
    BY <1>15 DEF Fields
  <2> QED
    BY <2>1 DEF Emptied, SameJob
<1>24. SendOK(y, j, g)
  BY <1>21 DEF Starts
<1>25. y.out_message.left > 0 => ~Full_Link_IT(y) \/ y.out_message.left < Frags[g]
  BY <1>2, <1>13, <1>16, <1>23 DEF Waiting, Handed
<1> HIDE DEF g
<1>26. SendOK(x, j, g) /\ Keeps(y, x) /\ SameJob(y, x) /\ Waiting(x) /\ x.timers = y.timers
  BY <1>1, <1>22, <1>24, <1>25, PackOK
<1>27. x.given - x.wants = g
  BY <1>26 DEF Keeps, SameJob, g
<1>28. NothingIn(x)
  BY <1>21, <1>26 DEF Starts, NothingIn, Keeps
<1>29. Starts(d, inc, x, j)
  BY <1>21, <1>26, <1>27, <1>28 DEF Starts, Keeps, SameJob
<1> QED
  BY <1>22, <1>26, <1>29

(* A pair of incarnations is entered with nothing received in it. *)
Begins(e, j) == IsStart(j) /\ SideOK(e, j) /\ Answers(e) /\ NothingIn(e)

(* The same, but for the reliable timer, which the caller sees to. *)
Enters(e, j) ==
  /\ IsStart(j) /\ SendOK(e, j, e.given - e.wants) /\ Waiting(e) /\ Filled(e) /\ Served(e)
  /\ Answers(e) /\ NothingIn(e)

LEMMA ChangeOK ==
  ASSUME NEW d, NEW k, k \in Nat, SendOK(d, k, d.given - d.wants), Waiting(d), Filled(d), Answers(d),
         d.bad = FALSE, d.sent = {}, NEW inc, inc \in Nat, d.ngbr_inc <= inc,
         NEW e, e = Incarnation_Change(d, inc)
  PROVE  /\ e.my_inc = d.my_inc /\ e.ngbr_inc = inc /\ e.established = d.established
         /\ \E j \in Nat : Enters(e, j)
<1> DEFINE z == Reset(d, inc)
           x == IF conf.reintroduce THEN KeepOutgoing(z, d) ELSE DropOutgoing(z)
<1>1. e = Assign_Resources_IT(x)
  BY DEF Incarnation_Change
<1>2. Typed(d) /\ IsEnd(d)
  BY DEF SendOK, Typed
<1>3. Emptied(d, inc, z)
  BY <1>2, ResetOK
<1> HIDE DEF z
<1>4. Waiting(x) /\ \E j \in Nat : IsStart(j) /\ Starts(d, inc, x, j)
  BY <1>2, <1>3, KeepOK, DropOK
<1> HIDE DEF x
<1>5. PICK j \in Nat : IsStart(j) /\ Starts(d, inc, x, j)
  BY <1>4
<1>6. Filled(x) /\ SendOK(x, j, x.given - x.wants) /\ Answers(x) /\ NothingIn(x)
      /\ x.my_inc = d.my_inc /\ x.ngbr_inc = inc /\ x.established = d.established
  BY <1>5 DEF Starts, Filled
<1>7. Serves(x, e, j) /\ Filled(e) /\ Served(e)
  BY <1>1, <1>4, <1>6, AssignOK
<1>8. SendOK(e, j, e.given - e.wants) /\ Waiting(e) /\ Keeps(x, e)
  BY <1>7 DEF Serves
<1>9. /\ Answers(e) /\ NothingIn(e) /\ e.my_inc = d.my_inc /\ e.ngbr_inc = inc
      /\ e.established = d.established
  BY <1>6, <1>8 DEF Keeps, NothingIn
<1>10. Enters(e, j)
  BY <1>5, <1>7, <1>8, <1>9 DEF Enters
<1> QED
  BY <1>9, <1>10

(* Process_intru_tol_ping. *)
LEMMA PingSame ==
  ASSUME NEW d, NEW k, k \in Nat, NEW r, Good(d, k, r), d.ngbr_inc \in Nat, NEW p, p.inc \in Nat,
         p.inc <= d.ngbr_inc, NEW e, e = Process_intru_tol_ping(d, p)
  PROVE  Turns(d, e, k, r)
<1> DEFINE q == Ping(d, "PONG")
<1>1. e = d \/ e = IT_Link_Send(d, q)
  BY DEF Process_intru_tol_ping
<1>2. Turns(d, d, k, r)
  BY DEF Turns, SameIncs
<1>3. PacketOK(q, d.my_inc, d.ngbr_inc, k)
  BY PingOK
<1> HIDE DEF q
<1>4. CASE e = IT_Link_Send(d, q)
  <2>1. SideOK(e, k) /\ Keeps(d, e)
    BY <1>3, <1>4, LinkSendOK DEF Good
  <2> QED
    BY <1>2, <2>1, KeepsTurns
<1> QED
  BY <1>1, <1>2, <1>4

LEMMA PingChange ==
  ASSUME NEW d, NEW k, k \in Nat, NEW r, Good(d, k, r), d.sent = {}, d.ngbr_inc \in Nat, NEW p, p.inc \in Nat,
         p.inc > d.ngbr_inc, NEW e, e = Process_intru_tol_ping(d, p)
  PROVE  e.my_inc = d.my_inc /\ e.ngbr_inc = p.inc /\ \E j \in Nat : Begins(e, j)
<1> DEFINE i == p.inc
           b == Incarnation_Change(d, i)
           c == ReliableNow(b)
           q == Ping(c, "PONG")
<1>1. e = c \/ e = IT_Link_Send(c, q)
  BY DEF Process_intru_tol_ping
<1>2. i \in Nat /\ d.ngbr_inc <= i
  OBVIOUS
<1> HIDE DEF i
<1>3. SendOK(d, k, d.given - d.wants) /\ Waiting(d) /\ Filled(d) /\ Answers(d) /\ d.bad = FALSE
  BY DEF Good, SideOK, Receiver, Built
<1>b. b = Incarnation_Change(d, i)
  OBVIOUS
<1> HIDE DEF b
<1>4. b.my_inc = d.my_inc /\ b.ngbr_inc = i /\ \E j \in Nat : Enters(b, j)
  <2>1. \A x : x = Incarnation_Change(d, i) =>
           /\ x.my_inc = d.my_inc /\ x.ngbr_inc = i /\ x.established = d.established
           /\ \E j \in Nat : Enters(x, j)
    BY <1>2, <1>3, ChangeOK, Zenon
  <2> QED
    BY <1>b, <2>1, Zenon
<1>5. PICK j \in Nat : Enters(b, j)
  BY <1>4
<1>6. /\ IsStart(j) /\ SendOK(b, j, b.given - b.wants) /\ Waiting(b) /\ Filled(b) /\ Served(b)
      /\ Answers(b) /\ NothingIn(b)
  BY <1>5 DEF Enters
<1>7. SideOK(c, j) /\ Keeps(b, c)
  BY <1>6, ReliableOK
<1>8. PacketOK(q, c.my_inc, c.ngbr_inc, j)
  BY PingOK
<1> HIDE DEF c, q
<1>9. SideOK(e, j) /\ Keeps(b, e)
  <2>1. CASE e = c
    BY <1>7, <2>1
  <2>2. CASE e = IT_Link_Send(c, q)
    <3>1. SideOK(e, j) /\ Keeps(c, e)
      BY <1>7, <1>8, <2>2, LinkSendOK
    <3> QED
      BY <1>7, <3>1, KeepsTransitive
  <2> QED
    BY <1>1, <2>1, <2>2
<1>10. e.my_inc = d.my_inc /\ e.ngbr_inc = i /\ Answers(e) /\ NothingIn(e)
  BY <1>4, <1>6, <1>9 DEF Keeps, NothingIn
<1>11. Begins(e, j)
  BY <1>6, <1>9, <1>10 DEF Begins
<1> QED
  BY <1>10, <1>11 DEF i

(* Process_DH_IT: the handshake begins again, and will queue the reliable timer. *)
LEMMA TakeDHOK ==
  ASSUME NEW d, NEW k, k \in Nat, NEW r, Good(d, k, r), d.sent = {}, NEW p, p.inc \in Nat,
         p.inc > d.ngbr_inc, p.aru_inc \in Nat, p.aru_inc <= d.my_inc, NEW e, e = TakeDH(d, p)
  PROVE  e.my_inc = d.my_inc /\ e.ngbr_inc = p.inc /\ \E j \in Nat : Begins(e, j)
<1> DEFINE i == p.inc
           aru == IF d.ngbr_inc > 0 THEN d.ngbr_inc ELSE d.dh_aru
           T == d.timers \cup {"Ping"}
           u == [d EXCEPT !.established = FALSE, !.dh_aru = aru, !.timers = T]
           h == d.given - d.wants
<1>1. /\ SendOK(d, k, h) /\ Waiting(d) /\ Filled(d) /\ Served(d) /\ Answers(d)
      /\ Receiver(d, r, conf.ordered)
  BY DEF Good, SideOK
<1>2. IsEnd(d) /\ Typed(d) /\ OutWindow(d, k) /\ Handed(d, k, h) /\ Sent(d, k)
  BY <1>1 DEF SendOK, Typed
<1>3. /\ d.ngbr_inc \in Nat /\ d.my_inc \in Nat /\ d.dh_aru \in Nat /\ d.dh_aru <= d.ngbr_inc
  BY <1>2 DEF Typed
<1>4. e = Incarnation_Change(u, i)
  BY <1>3 DEF TakeDH
<1>5. aru \in Nat /\ aru <= d.ngbr_inc /\ d.timers \subseteq T /\ i \in Nat /\ d.ngbr_inc <= i
  BY <1>3
<1> HIDE DEF i, aru, T
<1>6. IsEnd(u)
  BY <1>2 DEF IsEnd
<1>7. \A f \in Fields : u[f] = IF f = "established" THEN FALSE ELSE IF f = "dh_aru" THEN aru
                              ELSE IF f = "timers" THEN T ELSE d[f]
  BY <1>2 DEF IsEnd
<1> HIDE DEF u
<1>8. /\ SameOut(d, u) /\ SameJob(d, u) /\ SameIncs(d, u) /\ u.given = d.given
      /\ u.count = d.count /\ u.timers = T /\ u.sent = d.sent /\ u.cwnd = d.cwnd
      /\ u.established = FALSE /\ u.dh_aru = aru
  BY <1>7 DEF Fields, SameOut, SameJob, SameIncs
<1>9. SameIn(d, u) /\ u.in_frag_idx = d.in_frag_idx /\ u.delivered = d.delivered /\ u.bad = d.bad
  BY <1>7 DEF Fields, SameIn
<1>10. Receiver(u, r, conf.ordered) /\ Answers(u)
  BY <1>1, <1>5, <1>8, <1>9, SameReceiver DEF Answers
<1>11. Mail(u) /\ OutWindow(u, k) /\ u.bad = FALSE
  BY <1>2, <1>8, <1>10, ReceiverMail, SameOutWindow DEF SameIncs, Receiver, Built
<1>12. Typed(u)
  BY <1>2, <1>5, <1>6, <1>8 DEF Typed, SameOut, SameJob, SameIncs
<1> HIDE DEF h
<1>13. Handed(u, k, h) /\ Sent(u, k) /\ Waiting(u) /\ Filled(u)
  BY <1>1, <1>2, <1>5, <1>8
     DEF Handed, Sent, Waiting, Filled, SameOut, SameJob, SameIncs, Full_Link_IT
<1>14. SendOK(u, k, u.given - u.wants)
  BY <1>8, <1>11, <1>12, <1>13 DEF SendOK, SameJob, h
<1>15. u.sent = {} /\ u.ngbr_inc <= i /\ u.my_inc = d.my_inc
  BY <1>5, <1>8 DEF SameIncs
<1>16. /\ e.my_inc = u.my_inc /\ e.ngbr_inc = i /\ e.established = u.established
       /\ \E j \in Nat : Enters(e, j)
  BY <1>4, <1>5, <1>10, <1>11, <1>13, <1>14, <1>15, ChangeOK
<1>17. PICK j \in Nat : Enters(e, j)
  BY <1>16
<1>18. Alarmed(e)
  BY <1>8, <1>16 DEF Alarmed
<1>19. Begins(e, j)
  BY <1>17, <1>18 DEF Enters, Begins, SideOK
<1> QED
  BY <1>15, <1>16, <1>19 DEF i

(* A daemon starts. *)
LEMMA FreshOK ==
  ASSUME NEW inc, inc \in Nat, NEW e, e = Fresh(inc)
  PROVE  e.my_inc = inc /\ e.ngbr_inc = 0 /\ e.sent = {} /\ Begins(e, 0) /\ Typed(e)
<1>1. IsEnd(e)
  BY DEF Fresh, IsEnd, Fields
<1>2. /\ e.my_inc = inc /\ e.ngbr_inc = 0 /\ e.sent = {} /\ e.out_tail = 1 /\ e.tcp_head = 1 /\ e.out_head = 1
      /\ e.outgoing = [s \in Slots |-> [msg |-> 0, idx |-> 0, nacked |-> FALSE]]
      /\ e.out_digest = [s \in Slots |-> {}] /\ e.out_message = None
      /\ e.count = Msg_Per_SAA - 1 /\ e.cwnd = Minimum_Window /\ e.bucket = 0
      /\ e.needed = FALSE /\ e.queued = FALSE /\ e.wants = 0 /\ e.given = 0 /\ "Fill" \in e.timers
      /\ e.established = ~conf.crypto /\ e.dh_aru = 0
  BY DEF Fresh
<1>3. NothingIn(e)
  BY DEF Fresh, NothingIn
<1>4. None \in [msg : Nat, left : Nat] /\ None.left = 0
  BY DEF None
<1>5. e.outgoing \in [Slots -> OutCell]
  BY <1>2 DEF OutCell
<1>6. Typed(e)
  <2>1. /\ Msg_Per_SAA - 1 \in Nat /\ Minimum_Window \in Nat /\ 0 \in 0 .. BUCKET_CAP
        /\ 0 \in 0 .. Len(Frags) /\ 0 \in 0 .. 0
    BY SizeAssumption, FragsAre
  <2> QED
    <3>1. e.given \in 0 .. Len(Frags) /\ e.wants \in 0 .. e.given /\ e.bucket \in 0 .. BUCKET_CAP
      BY <1>2, <2>1
    <3>2. e.queued \in BOOLEAN /\ e.needed \in BOOLEAN /\ e.established \in BOOLEAN
      BY <1>2
    <3>3. /\ e.my_inc \in Nat /\ e.ngbr_inc \in Nat /\ e.cwnd \in Nat /\ e.count \in Nat
          /\ e.out_tail \in Nat /\ e.tcp_head \in Nat /\ e.out_head \in Nat
          /\ e.out_message \in [msg : Nat, left : Nat]
          /\ e.dh_aru \in Nat /\ e.dh_aru <= e.ngbr_inc
      BY <1>2, <1>4, <2>1
    <3> QED
      BY <1>1, <1>5, <3>1, <3>2, <3>3 DEF Typed
<1>7. Before[0] = 0 /\ 0 \in 0 .. Len(Frags)
  BY BeforeIs, FragsAre
<1>8. IsStart(0)
  BY <1>7 DEF IsStart
<1>9. OutWindow(e, 0)
  <2>1. 0 % Window \in Slots
    BY SlotIs
  <2>2. ASSUME NEW q \in e.out_tail - 1 .. e.out_head - 1
        PROVE  e.out_digest[q % Window] = Digest(e.my_inc, e.ngbr_inc, q)
    <3>1. q = 0
      BY <1>2
    <3> QED
      BY <1>2, <2>1, <3>1, NoDigest
  <2>3. ASSUME NEW q \in e.out_tail .. e.out_head - 1 PROVE FALSE
    BY <1>2
  <2>4. 1 <= e.out_tail /\ e.out_tail <= e.tcp_head /\ e.tcp_head <= e.out_head /\ e.out_head <= e.out_tail + Window
    BY <1>2, WindowIs
  <2>5. e.out_digest = [s \in Slots |-> e.out_digest[s]]
    BY <1>2
  <2> QED
    BY <2>2, <2>3, <2>4, <2>5 DEF OutWindow
<1>10. e.given - e.wants = 0
  BY <1>2
<1>11. Handed(e, 0, 0)
  BY <1>2, <1>4, <1>7 DEF Handed
<1>12. Mail(e) /\ Sent(e, 0) /\ Waiting(e)
  BY <1>2, <1>3, <1>4, NothingMail DEF Sent, Waiting
<1>13. Alarmed(e) /\ Filled(e) /\ Served(e) /\ Answers(e)
  <2>1. e.out_tail .. e.tcp_head - 1 = {}
    BY <1>2
  <2> QED
    BY <1>2, <2>1 DEF Alarmed, Filled, Served, Answers
<1> QED
  BY <1>2, <1>3, <1>6, <1>8, <1>9, <1>10, <1>11, <1>12, <1>13 DEF Begins, SideOK, SendOK

-----------------------------------------------------------------------------
(* Steps of the two ends. *)

LEMMA TwoEnds ==
  ASSUME NEW n, n \in End
  PROVE  Other(n) \in End /\ Other(n) # n /\ \A m \in End : m = n \/ m = Other(n)
<1>1. PICK a, b \in End : a # b /\ End = {a, b}
  BY EndAssumption
<1>2. \E m \in End : m # n
  BY <1>1
<1>3. Other(n) \in End /\ Other(n) # n
  BY <1>2, Zenon DEF Other
<1> QED
  BY <1>1, <1>3

LEMMA OtherOfOther ==
  ASSUME NEW n, n \in End PROVE Other(Other(n)) = n
  BY TwoEnds

(* After a step its packets are in the network. *)
LEMMA CleanOK ==
  ASSUME NEW d, NEW k, k \in Nat, SideOK(d, k), Answers(d), NEW e, e = [d EXCEPT !.sent = {}, !.expired = FALSE, !.fail = {}]
  PROVE  /\ Typed(e) /\ Timers(e) /\ e.sent = {} /\ Sender(e, k) /\ SameIncs(d, e)
         /\ NothingIn(d) => NothingIn(e)
         /\ \A r, ordered : Receiver(d, r, ordered) => Receiver(e, r, ordered)
<1> DEFINE X == {}
           x == FALSE
<1>1. SendOK(d, k, d.given - d.wants) /\ Waiting(d) /\ Alarmed(d) /\ Filled(d) /\ Served(d)
  BY DEF SideOK
<1>2. Typed(d) /\ IsEnd(d) /\ OutWindow(d, k) /\ Handed(d, k, d.given - d.wants)
  BY <1>1 DEF SendOK, Typed
<1>3. e = [d EXCEPT !.sent = X, !.expired = x, !.fail = X] /\ X = {}
  OBVIOUS
<1> HIDE DEF X, x
<1>4. IsEnd(e)
  BY <1>2, <1>3 DEF IsEnd
<1>5. \A f \in Fields : e[f] = IF f = "sent" \/ f = "fail" THEN X ELSE IF f = "expired" THEN x ELSE d[f]
  BY <1>2, <1>3 DEF IsEnd
<1>6. /\ SameOut(d, e) /\ SameJob(d, e) /\ SameIncs(d, e) /\ e.given = d.given
      /\ e.count = d.count /\ e.timers = d.timers /\ e.sent = X /\ e.cwnd = d.cwnd
      /\ e.established = d.established /\ e.dh_aru = d.dh_aru /\ e.unsent = d.unsent
  BY <1>5 DEF Fields, SameOut, SameJob, SameIncs
<1>7. /\ SameIn(d, e) /\ e.in_frag_idx = d.in_frag_idx /\ e.delivered = d.delivered /\ e.bad = d.bad
  BY <1>5 DEF Fields, SameIn
<1>8. Typed(e)
  BY <1>2, <1>4, <1>6 DEF Typed, SameOut, SameJob, SameIncs
<1>9. Timers(e) /\ Waiting(e)
  BY <1>1, <1>6 DEF Timers, Alarmed, Filled, Served, Answers, Waiting, SameOut, SameJob, Full_Link_IT
<1>10. OutWindow(e, k)
  BY <1>2, <1>6, SameOutWindow DEF SameIncs
<1>11. Handed(e, k, e.given - e.wants)
  BY <1>2, <1>6 DEF Handed, SameOut, SameJob
<1>12. NothingIn(d) => NothingIn(e)
  BY <1>7 DEF NothingIn, SameIn
<1>13. ASSUME NEW r, NEW ordered, Receiver(d, r, ordered) PROVE Receiver(e, r, ordered)
  BY <1>7, <1>13, SameReceiver
<1> QED
  BY <1>3, <1>6, <1>8, <1>9, <1>10, <1>11, <1>12, <1>13 DEF Sender

(* Nothing received agrees with every start. *)
LEMMA NothingReceiver ==
  ASSUME NEW d, NothingIn(d), NEW k, k \in Nat, IsStart(k), NEW ordered
  PROVE  Receiver(d, k, ordered)
<1>1. /\ d.in_tail = 1 /\ d.in_head = 1 /\ d.incoming = [s \in Slots |-> Empty]
      /\ d.aru_digest = {} /\ d.in_frag_idx = 1 /\ d.delivered = << >> /\ d.bad = FALSE
  BY DEF NothingIn
<1>2. d.aru_digest = Digest(d.ngbr_inc, d.my_inc, d.in_tail - 1)
  BY <1>1, NothingMail DEF Mail
<1>3. ASSUME NEW s \in Slots PROVE Cell(d, s, k)
  BY <1>1 DEF Cell, Empty
<1>4. InWindow(d, k)
  BY <1>1, <1>2, <1>3, WindowIs DEF InWindow
<1>5. PICK m \in 0 .. Len(Frags) : k = Before[m]
  BY DEF IsStart
<1>6. Built(d, m, k)
  <2>1. IF m = Len(Frags) THEN TRUE ELSE 1 <= Frags[m + 1]
    BY FragsAre
  <2> QED
    BY <1>1, <1>5, <2>1 DEF Built
<1>7. Delivered(d, m, ordered)
  BY <1>1 DEF Delivered
<1> QED
  BY <1>4, <1>6, <1>7 DEF Receiver

Became(n, d, rest) ==
  /\ end = [m \in End |-> end[m]] /\ n \in End /\ rest \subseteq net /\ Step(n, d, rest)

LEMMA StepIs ==
  ASSUME NEW n, NEW d, NEW rest, Became(n, d, rest)
  PROVE  /\ conf' = conf /\ end' = [m \in End |-> end'[m]]
         /\ end'[n] = [d EXCEPT !.sent = {}, !.expired = FALSE, !.fail = {}] /\ end'[Other(n)] = end[Other(n)]
         /\ \A m \in net' : m \in net \/ \E p \in d.sent : m = [to |-> Other(n), pkt |-> p]
<1> DEFINE e == [d EXCEPT !.sent = {}, !.expired = FALSE, !.fail = {}]
           out == {[to |-> Other(n), pkt |-> p] : p \in d.sent}
<1>1. /\ end' = [end EXCEPT ![n] = e] /\ conf' = conf
      /\ net' = IF Cardinality(rest \cup out) <= MaxNet THEN rest \cup out ELSE rest
  BY DEF Became, Step
<1>2. end = [m \in End |-> end[m]] /\ n \in End /\ rest \subseteq net /\ Other(n) \in End /\ Other(n) # n
  BY TwoEnds DEF Became
<1>3. \A m \in net' : m \in net \/ m \in out
  <2> HIDE DEF out
  <2> QED
    BY <1>1, <1>2
<1>4. \A m \in net' : m \in net \/ \E p \in d.sent : m = [to |-> Other(n), pkt |-> p]
  BY <1>3
<1> HIDE DEF e, out
<1>5. end' = [m \in End |-> end'[m]] /\ end'[n] = e /\ end'[Other(n)] = end[Other(n)]
  BY <1>1, <1>2
<1> QED
  BY <1>1, <1>4, <1>5 DEF e

(* What both kinds of steps have in common. *)
Moves(n, o, d, k, e) ==
  /\ n \in End /\ o \in End /\ n # o /\ \A m \in End : m = n \/ m = o
  /\ conf' = conf /\ end' = [m \in End |-> end'[m]] /\ end'[n] = e /\ end'[o] = end[o]
  /\ Typed(e) /\ Timers(e) /\ e.sent = {} /\ Sender(e, k) /\ SameIncs(d, e)
  /\ \A m \in net' : m \in net \/ (m.to = o /\ PacketOK(m.pkt, e.my_inc, e.ngbr_inc, k))

LEMMA MovesIs ==
  ASSUME NEW n, NEW o, o = Other(n), NEW d, NEW rest, Became(n, d, rest), NEW k, k \in Nat,
         SideOK(d, k), Answers(d), NEW e, e = [d EXCEPT !.sent = {}, !.expired = FALSE, !.fail = {}]
  PROVE  Moves(n, o, d, k, e)
<1>1. /\ conf' = conf /\ end' = [m \in End |-> end'[m]] /\ end'[n] = e /\ end'[o] = end[o]
      /\ \A m \in net' : m \in net \/ \E p \in d.sent : m = [to |-> o, pkt |-> p]
  <2>1. /\ conf' = conf /\ end' = [m \in End |-> end'[m]]
        /\ end'[n] = [d EXCEPT !.sent = {}, !.expired = FALSE, !.fail = {}] /\ end'[Other(n)] = end[Other(n)]
        /\ \A m \in net' : m \in net \/ \E p \in d.sent : m = [to |-> Other(n), pkt |-> p]
    BY StepIs, ZenonT(60)
  <2> QED
    BY <2>1, Zenon
<1>2. /\ n \in End /\ o \in End /\ n # o /\ \A m \in End : m = n \/ m = o
  BY TwoEnds DEF Became
<1>3. Typed(e) /\ Timers(e) /\ e.sent = {} /\ Sender(e, k) /\ SameIncs(d, e)
  BY CleanOK
<1>4. \A p \in d.sent : PacketOK(p, e.my_inc, e.ngbr_inc, k)
  BY <1>3 DEF SideOK, SendOK, Sent, SameIncs
<1>5. ASSUME NEW m \in net' PROVE m \in net \/ (m.to = o /\ PacketOK(m.pkt, e.my_inc, e.ngbr_inc, k))
  <2>1. CASE m \notin net
    <3>1. PICK p \in d.sent : m = [to |-> o, pkt |-> p]
      BY <1>1, <2>1
    <3>2. m.to = o /\ m.pkt = p
      BY <3>1
    <3> QED
      BY <1>4, <3>2
  <2> QED
    BY <2>1
<1> QED
  BY <1>1, <1>2, <1>3, <1>5 DEF Moves

(* A Diffie-Hellman packet names incarnations, and agrees with every stream. *)
LEMMA InItsPair ==
  ASSUME NEW p, NEW i, NEW j, NEW k, PacketOK(p, i, j, k), NEW a, NEW b, p.inc = a, p.aru_inc = b,
         b \in Nat, ~(a = i /\ b = j), NEW c
  PROVE  PacketOK(p, a, b, c)
  BY DEF PacketOK

LEMMA EndsStay ==
  ASSUME EndInv, NetInv, NEW n, NEW o, NEW d, NEW k, NEW e, Moves(n, o, d, k, e)
  PROVE  EndInv' /\ NetInv'
<1>1. /\ n \in End /\ o \in End /\ \A m \in End : m = n \/ m = o
      /\ conf' = conf /\ end' = [m \in End |-> end'[m]] /\ end'[n] = e /\ end'[o] = end[o]
      /\ Typed(e) /\ Timers(e) /\ e.sent = {}
      /\ \A m \in net' : m \in net \/ (m.to = o /\ PacketOK(m.pkt, e.my_inc, e.ngbr_inc, k))
  BY DEF Moves
<1>2. e.my_inc \in Nat /\ e.ngbr_inc \in Nat
  BY <1>1 DEF Typed
<1>3. ASSUME NEW m \in End PROVE Typed(end'[m]) /\ Timers(end'[m]) /\ end'[m].sent = {}
  BY <1>1 DEF EndInv
<1>4. EndInv'
  BY <1>1, <1>3 DEF EndInv
<1>5. ASSUME NEW m \in net' PROVE m.to \in End /\ m.pkt.inc \in Nat /\ m.pkt.aru_inc \in Nat
  BY <1>1, <1>2 DEF NetInv, PacketOK
<1>6. NetInv'
  BY <1>5 DEF NetInv
<1> QED
  BY <1>4, <1>6

(* The pair that end n sends in. *)
Picked(n, o, k, r) ==
  /\ k \in Nat /\ IsStart(k) /\ Agree(n, o, end[n].my_inc, end[n].ngbr_inc, k)
  /\ r \in Nat /\ IsStart(r) /\ Agree(o, n, end[n].ngbr_inc, end[n].my_inc, r)

(* A step within a pair of incarnations. *)
LEMMA StepKeeps ==
  ASSUME LinkInv, NEW n, NEW o, o = Other(n), NEW d, NEW rest, Became(n, d, rest),
         NEW k, NEW r, Picked(n, o, k, r), Good(d, k, r), SameIncs(end[n], d),
         end[n].ngbr_inc = end[o].my_inc /\ end[n].my_inc > end[o].ngbr_inc => NothingIn(d)
  PROVE  LinkInv'
<1> DEFINE e == [d EXCEPT !.sent = {}, !.expired = FALSE, !.fail = {}]
<1>1. k \in Nat /\ r \in Nat /\ SideOK(d, k) /\ Answers(d) /\ Receiver(d, r, conf.ordered)
  BY DEF Picked, Good
<1>2. Moves(n, o, d, k, e)
  BY <1>1, MovesIs
<1>3. /\ NothingIn(d) => NothingIn(e)
      /\ Receiver(e, r, conf.ordered)
  <2>1. /\ NothingIn(d) => NothingIn(e)
        /\ \A q, ordered : Receiver(d, q, ordered) => Receiver(e, q, ordered)
    BY <1>1, CleanOK, Zenon
  <2> QED
    BY <1>1, <2>1, Zenon
<1> HIDE DEF e
<1>4. /\ n \in End /\ o \in End /\ n # o /\ \A m \in End : m = n \/ m = o
      /\ conf' = conf /\ end'[n] = e /\ end'[o] = end[o]
      /\ Typed(e) /\ Sender(e, k) /\ SameIncs(end[n], e)
      /\ \A m \in net' : m \in net \/ (m.to = o /\ PacketOK(m.pkt, e.my_inc, e.ngbr_inc, k))
  BY <1>2 DEF Moves, SameIncs
<1>5. e.my_inc = end[n].my_inc /\ e.ngbr_inc = end[n].ngbr_inc /\ e.my_inc \in Nat /\ e.ngbr_inc \in Nat
  BY <1>4 DEF SameIncs, Typed
<1>6. EndInv' /\ NetInv'
  BY <1>2, EndsStay DEF LinkInv
<1>7. PairInv(n, o) /\ PairInv(o, n)
  BY <1>4 DEF LinkInv
<1>8. PairInv(n, o)'
  <2>1. ASSUME NEW m \in net', m.to = o
        PROVE  /\ m.pkt.inc \in Nat /\ m.pkt.inc <= e.my_inc
               /\ m.pkt.inc = e.my_inc => m.pkt.aru_inc <= e.ngbr_inc
    <3>1. CASE m \in net
      BY <1>5, <1>7, <2>1, <3>1 DEF PairInv, Older
    <3>2. CASE m \notin net
      BY <1>4, <1>5, <3>2 DEF PacketOK
    <3> QED
      BY <3>1, <3>2
  <2>2. (\A m \in net : m.to = o => Older(n, m.pkt))'
    BY <1>4, <2>1 DEF Older
  <2>3. Heard(n, o)'
    BY <1>4, <1>5, <1>7 DEF PairInv, Heard
  <2>4. ASSUME NEW i \in Nat, NEW j \in Nat PROVE \E c \in Nat : IsStart(c) /\ Agree(n, o, i, j, c)'
    <3>1. CASE i = e.my_inc /\ j = e.ngbr_inc
      <4>1. Agree(n, o, i, j, k)
        BY <1>5, <3>1 DEF Picked
      <4>2. ASSUME NEW m \in net', m.to = o, m.pkt.inc = i, m.pkt.aru_inc = j PROVE PacketOK(m.pkt, i, j, k)
        BY <1>4, <3>1, <4>1, <4>2 DEF Agree
      <4>3. end[o].my_inc = j /\ end[o].ngbr_inc = i => Receiver(end[o], k, conf.ordered)
        BY <4>1 DEF Agree
      <4>4. Agree(n, o, i, j, k)'
        BY <1>4, <4>2, <4>3 DEF Agree
      <4> QED
        BY <4>4 DEF Picked
    <3>2. CASE ~(i = e.my_inc /\ j = e.ngbr_inc)
      <4>1. PICK c \in Nat : IsStart(c) /\ Agree(n, o, i, j, c)
        BY <1>7 DEF PairInv
      <4>2. ASSUME NEW m \in net', m.to = o, m.pkt.inc = i, m.pkt.aru_inc = j PROVE PacketOK(m.pkt, i, j, c)
        <5>1. CASE m \in net
          BY <4>1, <4>2, <5>1 DEF Agree
        <5>2. CASE m \notin net
          <6>1. PacketOK(m.pkt, e.my_inc, e.ngbr_inc, k)
            BY <1>4, <5>2
          <6> QED
            BY <3>2, <4>2, <6>1, InItsPair
        <5> QED
          BY <5>1, <5>2
      <4>3. end[o].my_inc = j /\ end[o].ngbr_inc = i => Receiver(end[o], c, conf.ordered)
        BY <4>1 DEF Agree
      <4>4. Agree(n, o, i, j, c)'
        BY <1>4, <3>2, <4>2, <4>3 DEF Agree
      <4> QED
        BY <4>1, <4>4
    <3> QED
      BY <3>1, <3>2
  <2> QED
    BY <2>2, <2>3, <2>4 DEF PairInv
<1>9. PairInv(o, n)'
  <2>1. ASSUME NEW m \in net', m.to = n PROVE m \in net
    BY <1>4, <2>1
  <2>2. (\A m \in net : m.to = n => Older(o, m.pkt))'
    BY <1>4, <1>7, <2>1 DEF PairInv, Older
  <2>3. Heard(o, n)'
    BY <1>3, <1>4, <1>5, <1>7 DEF PairInv, Heard
  <2>4. ASSUME NEW i \in Nat, NEW j \in Nat PROVE \E c \in Nat : IsStart(c) /\ Agree(o, n, i, j, c)'
    <3>1. CASE j = e.my_inc /\ i = e.ngbr_inc
      <4>1. Agree(o, n, i, j, r)
        BY <1>5, <3>1 DEF Picked
      <4>2. ASSUME NEW m \in net', m.to = n, m.pkt.inc = i, m.pkt.aru_inc = j PROVE PacketOK(m.pkt, i, j, r)
        BY <2>1, <4>1, <4>2 DEF Agree
      <4>3. Agree(o, n, i, j, r)'
        BY <1>3, <1>4, <4>1, <4>2 DEF Agree
      <4> QED
        BY <4>3 DEF Picked
    <3>2. CASE ~(j = e.my_inc /\ i = e.ngbr_inc)
      <4>1. PICK c \in Nat : IsStart(c) /\ Agree(o, n, i, j, c)
        BY <1>7 DEF PairInv
      <4>2. ASSUME NEW m \in net', m.to = n, m.pkt.inc = i, m.pkt.aru_inc = j PROVE PacketOK(m.pkt, i, j, c)
        BY <2>1, <4>1, <4>2 DEF Agree
      <4>3. Agree(o, n, i, j, c)'
        BY <1>4, <3>2, <4>1, <4>2 DEF Agree
      <4> QED
        BY <4>1, <4>3
    <3> QED
      BY <3>1, <3>2
  <2> QED
    BY <2>2, <2>3, <2>4 DEF PairInv
<1> QED
  <2>1. ASSUME NEW a \in End, NEW b \in End, a # b PROVE PairInv(a, b)'
    BY <1>4, <1>8, <1>9, <2>1
  <2> QED
    BY <1>6, <2>1 DEF LinkInv

(* A step into a new pair of incarnations: nothing of it is in the network,  *)
(* and the other end has received nothing in it.                             *)
LEMMA StepChanges ==
  ASSUME LinkInv, NEW n, NEW o, o = Other(n), NEW d, NEW rest, Became(n, d, rest),
         NEW k, k \in Nat, Begins(d, k), d.ngbr_inc <= end[o].my_inc,
         \/ d.my_inc > end[n].my_inc
         \/ d.my_inc = end[n].my_inc /\ d.ngbr_inc > end[n].ngbr_inc
  PROVE  LinkInv'
<1> DEFINE e == [d EXCEPT !.sent = {}, !.expired = FALSE, !.fail = {}]
<1>1. IsStart(k) /\ SideOK(d, k) /\ Answers(d) /\ NothingIn(d)
  BY DEF Begins
<1>2. Moves(n, o, d, k, e)
  BY <1>1, MovesIs
<1>3. NothingIn(e)
  BY <1>1, CleanOK, Zenon
<1> HIDE DEF e
<1> DEFINE x == end[n]
           y == end[o]
<1>4. /\ n \in End /\ o \in End /\ n # o /\ \A m \in End : m = n \/ m = o
      /\ conf' = conf /\ end'[n] = e /\ end'[o] = y
      /\ Typed(e) /\ Sender(e, k)
      /\ \A m \in net' : m \in net \/ (m.to = o /\ PacketOK(m.pkt, e.my_inc, e.ngbr_inc, k))
  BY <1>2 DEF Moves
<1>5. /\ e.my_inc \in Nat /\ e.ngbr_inc \in Nat /\ x.my_inc \in Nat /\ x.ngbr_inc \in Nat
      /\ y.my_inc \in Nat /\ y.ngbr_inc \in Nat /\ e.ngbr_inc <= y.my_inc
      /\ e.my_inc > x.my_inc \/ (e.my_inc = x.my_inc /\ e.ngbr_inc > x.ngbr_inc)
  BY <1>2, <1>4 DEF Moves, SameIncs, LinkInv, EndInv, Typed
<1>6. EndInv' /\ NetInv'
  BY <1>2, EndsStay DEF LinkInv
<1>7. PairInv(n, o) /\ PairInv(o, n)
  BY <1>4 DEF LinkInv
<1>8. /\ \A m \in net : m.to = o =>
            /\ m.pkt.inc \in Nat /\ m.pkt.aru_inc \in Nat /\ m.pkt.inc <= x.my_inc
            /\ m.pkt.inc = x.my_inc => m.pkt.aru_inc <= x.ngbr_inc
      /\ y.ngbr_inc <= x.my_inc
      /\ y.ngbr_inc = x.my_inc /\ y.my_inc > x.ngbr_inc => NothingIn(y)
  BY <1>7 DEF PairInv, Older, Heard, LinkInv, NetInv
<1>9. PairInv(n, o)'
  <2> HIDE DEF x, y
  <2>1. ASSUME NEW m \in net', m.to = o
        PROVE  /\ m.pkt.inc \in Nat /\ m.pkt.inc <= e.my_inc
               /\ m.pkt.inc = e.my_inc => m.pkt.aru_inc <= e.ngbr_inc
    <3>1. CASE m \in net
      BY <1>5, <1>8, <2>1, <3>1
    <3>2. CASE m \notin net
      BY <1>4, <1>5, <3>2 DEF PacketOK
    <3> QED
      BY <3>1, <3>2
  <2>2. (\A m \in net : m.to = o => Older(n, m.pkt))'
    BY <1>4, <2>1 DEF Older
  <2>3. Heard(n, o)'
    <3>1. /\ y.ngbr_inc <= e.my_inc
          /\ y.ngbr_inc = e.my_inc /\ y.my_inc > e.ngbr_inc => NothingIn(y)
      BY <1>5, <1>8
    <3> QED
      BY <1>4, <3>1 DEF Heard
  <2>4. ASSUME NEW i \in Nat, NEW j \in Nat PROVE \E c \in Nat : IsStart(c) /\ Agree(n, o, i, j, c)'
    <3>1. CASE i = e.my_inc /\ j = e.ngbr_inc
      <4>1. ASSUME NEW m \in net', m.to = o, m.pkt.inc = i, m.pkt.aru_inc = j PROVE PacketOK(m.pkt, i, j, k)
        <5>1. m \notin net
          BY <1>5, <1>8, <3>1, <4>1
        <5> QED
          BY <1>4, <3>1, <5>1
      <4>2. y.my_inc = j /\ y.ngbr_inc = i => Receiver(y, k, conf.ordered)
        <5>1. y.my_inc = j /\ y.ngbr_inc = i => NothingIn(y)
          BY <1>5, <1>8, <3>1
        <5> DEFINE ordered == conf.ordered
        <5> HIDE DEF ordered
        <5>2. NothingIn(y) => Receiver(y, k, ordered)
          BY <1>1, NothingReceiver
        <5> QED
          BY <5>1, <5>2 DEF ordered
      <4>3. Agree(n, o, i, j, k)'
        BY <1>4, <4>1, <4>2 DEF Agree
      <4> QED
        BY <1>1, <4>3
    <3>2. CASE ~(i = e.my_inc /\ j = e.ngbr_inc)
      <4>1. PICK c \in Nat : IsStart(c) /\ Agree(n, o, i, j, c)
        BY <1>7 DEF PairInv
      <4>2. ASSUME NEW m \in net', m.to = o, m.pkt.inc = i, m.pkt.aru_inc = j PROVE PacketOK(m.pkt, i, j, c)
        <5>1. CASE m \in net
          BY <4>1, <4>2, <5>1 DEF Agree
        <5>2. CASE m \notin net
          <6>1. PacketOK(m.pkt, e.my_inc, e.ngbr_inc, k)
            BY <1>4, <5>2
          <6> QED
            BY <3>2, <4>2, <6>1, InItsPair
        <5> QED
          BY <5>1, <5>2
      <4>3. y.my_inc = j /\ y.ngbr_inc = i => Receiver(y, c, conf.ordered)
        BY <4>1 DEF Agree, y
      <4>4. Agree(n, o, i, j, c)'
        BY <1>4, <3>2, <4>2, <4>3 DEF Agree
      <4> QED
        BY <4>1, <4>4
    <3> QED
      BY <3>1, <3>2
  <2> QED
    BY <2>2, <2>3, <2>4 DEF PairInv
<1>10. PairInv(o, n)'
  <2>1. ASSUME NEW m \in net', m.to = n PROVE m \in net
    BY <1>4, <2>1
  <2>2. (\A m \in net : m.to = n => Older(o, m.pkt))'
    BY <1>4, <1>7, <2>1 DEF PairInv, Older
  <2>3. Heard(o, n)'
    BY <1>3, <1>4, <1>5 DEF Heard
  <2>4. ASSUME NEW i \in Nat, NEW j \in Nat PROVE \E c \in Nat : IsStart(c) /\ Agree(o, n, i, j, c)'
    <3>1. PICK c \in Nat : IsStart(c) /\ Agree(o, n, i, j, c)
      BY <1>7 DEF PairInv
    <3>2. ASSUME NEW m \in net', m.to = n, m.pkt.inc = i, m.pkt.aru_inc = j PROVE PacketOK(m.pkt, i, j, c)
      BY <2>1, <3>1, <3>2 DEF Agree
    <3>3. Receiver(e, c, conf.ordered)
      <4> DEFINE ordered == conf.ordered
      <4> HIDE DEF ordered
      <4>1. Receiver(e, c, ordered)
        BY <1>3, <3>1, NothingReceiver
      <4> QED
        BY <4>1 DEF ordered
    <3>4. Agree(o, n, i, j, c)'
      BY <1>4, <3>1, <3>2, <3>3 DEF Agree
    <3> QED
      BY <3>1, <3>4
  <2> QED
    BY <2>2, <2>3, <2>4 DEF PairInv
<1> QED
  <2>1. ASSUME NEW a \in End, NEW b \in End, a # b PROVE PairInv(a, b)'
    BY <1>4, <1>9, <1>10, <2>1
  <2> QED
    BY <1>6, <2>1 DEF LinkInv

(* Less in the network. *)
LEMMA LoseKeeps ==
  ASSUME LinkInv, UNCHANGED <<end, conf>>, net' \subseteq net PROVE LinkInv'
<1>1. end' = end /\ conf' = conf
  OBVIOUS
<1>2. EndInv' /\ NetInv'
  BY <1>1 DEF LinkInv, EndInv, NetInv
<1>3. ASSUME NEW n \in End, NEW o \in End, n # o PROVE PairInv(n, o)'
  <2>1. PairInv(n, o)
    BY <1>3 DEF LinkInv
  <2>2. (\A m \in net : m.to = o => Older(n, m.pkt))'
    BY <1>1, <2>1 DEF PairInv, Older
  <2>3. Heard(n, o)'
    BY <1>1, <2>1 DEF PairInv, Heard
  <2>4. ASSUME NEW i \in Nat, NEW j \in Nat PROVE \E c \in Nat : IsStart(c) /\ Agree(n, o, i, j, c)'
    <3>1. PICK c \in Nat : IsStart(c) /\ Agree(n, o, i, j, c)
      BY <2>1 DEF PairInv
    <3>2. Agree(n, o, i, j, c)'
      BY <1>1, <3>1 DEF Agree
    <3> QED
      BY <3>1, <3>2
  <2> QED
    BY <2>2, <2>3, <2>4 DEF PairInv
<1> QED
  BY <1>2, <1>3 DEF LinkInv

LEMMA GoodEnd ==
  ASSUME LinkInv, NEW n, n \in End, NEW o, o = Other(n)
  PROVE  \E k, r : Picked(n, o, k, r) /\ Good(end[n], k, r)
<1> DEFINE d == end[n]
           i == d.my_inc
           j == d.ngbr_inc
<1>1. o \in End /\ n # o
  BY TwoEnds
<1>2. Typed(d) /\ Timers(d) /\ d.sent = {} /\ i \in Nat /\ j \in Nat
  BY DEF LinkInv, EndInv, Typed
<1>3. PICK k \in Nat : IsStart(k) /\ Agree(n, o, i, j, k)
  BY <1>1, <1>2 DEF LinkInv, PairInv
<1>4. PICK r \in Nat : IsStart(r) /\ Agree(o, n, j, i, r)
  BY <1>1, <1>2 DEF LinkInv, PairInv
<1>5. Sender(d, k) /\ Receiver(d, r, conf.ordered)
  BY <1>3, <1>4 DEF Agree
<1>6. Mail(d)
  BY <1>5, ReceiverMail
<1>7. Sent(d, k)
  BY <1>2 DEF Sent
<1>8. Good(d, k, r)
  <2> HIDE DEF d
  <2> QED
    BY <1>2, <1>5, <1>6, <1>7 DEF Good, SideOK, SendOK, Sender, Timers
<1> QED
  BY <1>3, <1>4, <1>8 DEF Picked

LEMMA TurnsStep ==
  ASSUME LinkInv, NEW n, NEW o, o = Other(n), NEW e, NEW rest, Became(n, e, rest),
         NEW k, NEW r, Picked(n, o, k, r), Turns(end[n], e, k, r)
  PROVE  LinkInv'
<1>1. n \in End /\ o \in End /\ n # o
  BY TwoEnds DEF Became
<1>2. end[n].ngbr_inc = end[o].my_inc /\ end[n].my_inc > end[o].ngbr_inc => NothingIn(end[n])
  BY <1>1 DEF LinkInv, PairInv, Heard
<1>3. /\ Good(e, k, r) /\ SameIncs(end[n], e)
      /\ NothingIn(end[n]) => NothingIn(e)
  BY DEF Turns
<1>4. end[n].ngbr_inc = end[o].my_inc /\ end[n].my_inc > end[o].ngbr_inc => NothingIn(e)
  BY <1>2, <1>3
<1> QED
  BY <1>3, <1>4, StepKeeps

LEMMA NowIs ==
  ASSUME LinkInv, NEW n, n \in End, NEW x, NEW F, NEW d, d = Now(n, x, F)
  PROVE  Clock(end[n], x, F, end[n].timers, d)
<1> DEFINE a == end[n]
<1>1. d = [a EXCEPT !.expired = x, !.fail = F]
  BY DEF Now
<1>2. IsEnd(a)
  BY DEF LinkInv, EndInv, Typed
<1> HIDE DEF a
<1>3. "timers" \in Fields
  BY DEF Fields
<1>4. d = [a EXCEPT !.expired = x, !.fail = F, !.timers = a.timers]
  BY <1>1, <1>2, <1>3 DEF IsEnd
<1> QED
  BY <1>4 DEF Clock, a

LEMMA FiredIs ==
  ASSUME LinkInv, NEW n, n \in End, NEW x, NEW F, NEW t, NEW d, d = Fired(n, t, x, F)
  PROVE  Clock(end[n], x, F, end[n].timers \ {t}, d)
<1> DEFINE a == end[n]
           b == [a EXCEPT !.expired = x, !.fail = F]
<1>1. d = [b EXCEPT !.timers = b.timers \ {t}]
  BY DEF Fired, Now
<1>2. IsEnd(a)
  BY DEF LinkInv, EndInv, Typed
<1> HIDE DEF a
<1>3. "timers" \in Fields /\ "timers" # "expired" /\ "timers" # "fail"
  BY DEF Fields
<1>4. b.timers = a.timers
  BY <1>2, <1>3 DEF IsEnd
<1>5. d = [a EXCEPT !.expired = x, !.fail = F, !.timers = a.timers \ {t}]
  BY <1>1, <1>4
<1> QED
  BY <1>5 DEF Clock, a

LEMMA BecameIs ==
  ASSUME LinkInv, NEW n, n \in End, NEW d, NEW rest, rest \subseteq net, Step(n, d, rest)
  PROVE  Became(n, d, rest)
  BY DEF LinkInv, EndInv, Became

-----------------------------------------------------------------------------
(* The invariant holds, one lemma for each action. *)

LEMMA ReceiveKeeps ==
  ASSUME LinkInv, NEW n, n \in End, NEW m, NEW x, NEW F, Receive(n, m, x, F) PROVE LinkInv'
<1> DEFINE o == Other(n)
           p == m.pkt
           a == end[n]
           w == Now(n, x, F)
           d == Establish(w)
           T == a.timers
<1>1. PICK rest \in {net, net \ {m}} :
        \/ /\ p.type = "DH"
           /\ Step(n, TakeDH(w, p), rest)
        \/ /\ p.type \in {"PING", "PONG"}
           /\ Step(n, Process_intru_tol_ping(d, p), rest)
        \/ /\ p.type \in {"ACK", "DATA"}
           /\ p.inc = d.ngbr_inc /\ p.aru_inc = d.my_inc
           /\ \E grows \in 0 .. (IF AcksNews(d, p) THEN 1 ELSE 0),
                 room \in 0 .. (IF p.nacks = {} THEN 0 ELSE 1),
                 due \in IF p.nacks = {} THEN {FALSE} ELSE BOOLEAN :
                 Step(n, Process_IT_Ack(d, p, grows, room, due), rest)
  BY Zenon DEF Receive
<1>2. m \in net /\ m.to = n /\ rest \subseteq net
  BY DEF Receive
<1>3. o \in End /\ o # n
  BY TwoEnds
<1>4. Clock(a, x, F, T, w)
  BY NowIs
<1> HIDE DEF o, w
<1>5. o = Other(n)
  BY DEF o
<1>6. PICK k, r : Picked(n, o, k, r) /\ Good(a, k, r)
  BY <1>5, GoodEnd
<1>7. k \in Nat /\ r \in Nat
  BY <1>6 DEF Picked
<1>8. Turns(a, w, k, r) /\ w.sent = a.sent
  <2>1. {"Reliable", "Fill", "Ack"} \cap a.timers \subseteq T
    OBVIOUS
  <2> HIDE DEF a, T
  <2>2. Turns(a, w, k, r)
    BY <1>4, <1>6, <1>7, <2>1, ClockTurns
  <2>3. w.sent = a.sent
    <3>1. k \in Nat /\ Good(a, k, r) /\ Clock(a, x, F, T, w)
      BY <1>4, <1>6, <1>7
    <3> QED
      BY <3>1, ClockOK, SMTT(60)
  <2> QED
    BY <2>2, <2>3
<1>9. a.sent = {} /\ a.ngbr_inc \in Nat /\ a.my_inc \in Nat
  BY DEF LinkInv, EndInv, Typed
<1>10. /\ Good(w, k, r) /\ SameIncs(a, w) /\ w.sent = {} /\ w.ngbr_inc \in Nat /\ w.my_inc \in Nat
       /\ w.ngbr_inc = a.ngbr_inc /\ w.my_inc = a.my_inc
  BY <1>8, <1>9 DEF Turns, SameIncs
<1>11. /\ p.inc \in Nat /\ p.aru_inc \in Nat /\ p.inc <= end[o].my_inc
       /\ p.inc = end[o].my_inc => p.aru_inc <= end[o].ngbr_inc
  BY <1>2, <1>3 DEF LinkInv, NetInv, PairInv, Older
<1>12. Turns(a, d, k, r) /\ d.sent = {}
  <2>1. Turns(w, d, k, r)
    BY <1>7, <1>10, EstablishTurns
  <2>2. d.sent = {}
    BY <1>10, EstablishSent DEF Good, SideOK, SendOK, Typed
  <2> HIDE DEF d
  <2> QED
    BY <1>8, <2>1, <2>2 DEF Turns, SameIncs
<1> HIDE DEF d
<1>13. Good(d, k, r) /\ SameIncs(a, d) /\ d.ngbr_inc \in Nat /\ d.ngbr_inc = a.ngbr_inc /\ d.my_inc = a.my_inc
  BY <1>9, <1>12 DEF Turns, SameIncs
<1>14. CASE Step(n, TakeDH(w, p), rest)
  <2> DEFINE e == TakeDH(w, p)
  <2>1. Became(n, e, rest)
    BY <1>2, <1>14, BecameIs
  <2>2. CASE p.inc <= w.ngbr_inc \/ p.aru_inc > w.my_inc
    <3>1. e = w
      BY <2>2 DEF TakeDH
    <3> HIDE DEF e
    <3> QED
      BY <1>5, <1>6, <1>8, <2>1, <3>1, TurnsStep
  <2>3. CASE p.inc > w.ngbr_inc /\ p.aru_inc <= w.my_inc
    <3>1. e.my_inc = w.my_inc /\ e.ngbr_inc = p.inc /\ \E j \in Nat : Begins(e, j)
      BY <1>7, <1>10, <1>11, <2>3, TakeDHOK
    <3> HIDE DEF e
    <3>2. PICK j \in Nat : Begins(e, j)
      BY <3>1
    <3>3. e.ngbr_inc <= end[o].my_inc /\ e.my_inc = end[n].my_inc /\ e.ngbr_inc > end[n].ngbr_inc
      BY <1>10, <1>11, <2>3, <3>1
    <3> QED
      BY <1>5, <2>1, <3>2, <3>3, StepChanges
  <2> QED
    BY <1>10, <1>11, <2>2, <2>3
<1>15. CASE Step(n, Process_intru_tol_ping(d, p), rest)
  <2> DEFINE e == Process_intru_tol_ping(d, p)
  <2>1. Became(n, e, rest)
    BY <1>2, <1>15, BecameIs
  <2>2. CASE p.inc <= d.ngbr_inc
    <3>1. Turns(d, e, k, r)
      BY <1>7, <1>11, <1>13, <2>2, PingSame
    <3> HIDE DEF e
    <3>2. Turns(a, e, k, r)
      BY <1>12, <3>1 DEF Turns, SameIncs
    <3> QED
      BY <1>5, <1>6, <2>1, <3>2, TurnsStep
  <2>3. CASE p.inc > d.ngbr_inc
    <3>1. e.my_inc = d.my_inc /\ e.ngbr_inc = p.inc /\ \E j \in Nat : Begins(e, j)
      BY <1>7, <1>11, <1>12, <1>13, <2>3, PingChange
    <3> HIDE DEF e
    <3>2. PICK j \in Nat : Begins(e, j)
      BY <3>1
    <3>3. e.ngbr_inc <= end[o].my_inc /\ e.my_inc = end[n].my_inc /\ e.ngbr_inc > end[n].ngbr_inc
      BY <1>11, <1>13, <2>3, <3>1
    <3> QED
      BY <1>5, <2>1, <3>2, <3>3, StepChanges
  <2> QED
    BY <1>11, <1>13, <2>2, <2>3
<1>16. ASSUME p.type \in {"ACK", "DATA"}, p.inc = d.ngbr_inc, p.aru_inc = d.my_inc,
              NEW grows \in 0 .. (IF AcksNews(d, p) THEN 1 ELSE 0), NEW room, NEW due,
              Step(n, Process_IT_Ack(d, p, grows, room, due), rest)
       PROVE  LinkInv'
  <2> DEFINE e == Process_IT_Ack(d, p, grows, room, due)
  <2>1. Became(n, e, rest)
    BY <1>2, <1>16, BecameIs
  <2>2. grows \in 0 .. 1
    OBVIOUS
  <2>3. PacketOK(p, d.ngbr_inc, d.my_inc, r)
    BY <1>2, <1>6, <1>13, <1>16 DEF Picked, Agree
  <2>4. Good(e, k, r) /\ SameIncs(d, e)
    BY <1>7, <1>13, <1>16, <2>2, <2>3, ProcessOK
  <2> HIDE DEF e
  <2>5. SameIncs(a, e)
    BY <1>13, <2>4 DEF SameIncs
  <2>6. ~(a.ngbr_inc = end[o].my_inc /\ a.my_inc > end[o].ngbr_inc)
    <3>1. end[o].ngbr_inc \in Nat
      BY <1>3 DEF LinkInv, EndInv, Typed
    <3> QED
      BY <1>9, <1>11, <1>13, <1>16, <3>1
  <2> QED
    BY <1>5, <1>6, <2>1, <2>4, <2>5, <2>6, StepKeeps
<1> QED
  BY <1>1, <1>14, <1>15, <1>16

LEMMA AckTimeoutKeeps ==
  ASSUME LinkInv, NEW n, n \in End, NEW x, Ack_IT_Timeout(n, x) PROVE LinkInv'
<1> DEFINE a == end[n]
           F == {}
           b == Fired(n, "Ack", x, F)
           e == AckTimeout(b)
<1>1. Clock(a, x, F, a.timers \ {"Ack"}, b)
  BY FiredIs
<1>2. Became(n, e, net)
  BY BecameIs DEF Ack_IT_Timeout
<1>3. PICK o : o = Other(n)
  OBVIOUS
<1>4. PICK k, r : Picked(n, o, k, r) /\ Good(a, k, r)
  BY <1>3, GoodEnd
<1>5. Turns(a, e, k, r)
  <2>1. k \in Nat
    BY <1>4 DEF Picked
  <2> HIDE DEF a, b, F
  <2> QED
    BY <1>1, <1>4, <2>1, AckTimeoutTurns
<1> HIDE DEF e
<1> QED
  BY <1>2, <1>3, <1>4, <1>5, TurnsStep

LEMMA ReliableKeeps ==
  ASSUME LinkInv, NEW n, n \in End, NEW x, NEW F, Reliable_IT_Timeout(n, x, F) PROVE LinkInv'
<1> DEFINE a == end[n]
           b == Fired(n, "Reliable", x, F)
           e == IF b.tcp_head > b.out_tail THEN ReliableNow(Send_IT_Data_Msg(b, {b.tcp_head - 1})) ELSE b
<1>1. Clock(a, x, F, a.timers \ {"Reliable"}, b)
  BY FiredIs
<1>2. Became(n, e, net)
  BY BecameIs DEF Reliable_IT_Timeout
<1>3. PICK o : o = Other(n)
  OBVIOUS
<1>4. PICK k, r : Picked(n, o, k, r) /\ Good(a, k, r)
  BY <1>3, GoodEnd
<1>5. Turns(a, e, k, r)
  <2>1. k \in Nat
    BY <1>4 DEF Picked
  <2> HIDE DEF a, b
  <2> QED
    BY <1>1, <1>4, <2>1, ReliableTurns
<1> HIDE DEF e
<1> QED
  BY <1>2, <1>3, <1>4, <1>5, TurnsStep

LEMMA RetransmKeeps ==
  ASSUME LinkInv, NEW n, n \in End, NEW x, NEW F, Retransm(n, x, F) PROVE LinkInv'
<1> DEFINE a == end[n]
           b == Fired(n, "Retransm", x, F)
<1>1. Clock(a, x, F, a.timers \ {"Retransm"}, b)
  BY FiredIs
<1>2. PICK room \in 0 .. 1, due \in BOOLEAN : Step(n, Handle_IT_Retransm(b, room, due), net)
  BY DEF Retransm
<1> DEFINE e == Handle_IT_Retransm(b, room, due)
<1>3. Became(n, e, net)
  BY <1>2, BecameIs
<1>4. PICK o : o = Other(n)
  OBVIOUS
<1>5. PICK k, r : Picked(n, o, k, r) /\ Good(a, k, r)
  BY <1>4, GoodEnd
<1>6. Turns(a, e, k, r)
  <2>1. k \in Nat
    BY <1>5 DEF Picked
  <2> HIDE DEF a, b
  <2> QED
    BY <1>1, <1>5, <2>1, RetransmTurns
<1> HIDE DEF e
<1> QED
  BY <1>3, <1>4, <1>5, <1>6, TurnsStep

LEMMA PingKeeps ==
  ASSUME LinkInv, NEW n, n \in End, Ping_IT_Timeout(n) PROVE LinkInv'
<1> DEFINE a == end[n]
           e == IT_Link_Send(a, Ping(a, "PING"))
<1>1. Became(n, e, net)
  BY BecameIs DEF Ping_IT_Timeout
<1>2. PICK o : o = Other(n)
  OBVIOUS
<1>3. PICK k, r : Picked(n, o, k, r) /\ Good(a, k, r)
  BY <1>2, GoodEnd
<1>4. Turns(a, e, k, r)
  <2>1. k \in Nat
    BY <1>3 DEF Picked
  <2> HIDE DEF a
  <2> QED
    BY <1>3, <2>1, PingTurns
<1> HIDE DEF e
<1> QED
  BY <1>1, <1>2, <1>3, <1>4, TurnsStep

LEMMA SendDHKeeps ==
  ASSUME LinkInv, NEW n, n \in End, SendDH(n) PROVE LinkInv'
<1> DEFINE a == end[n]
           e == [a EXCEPT !.sent = {LinkDH(a)}]
<1>1. Became(n, e, net)
  BY BecameIs DEF SendDH
<1>2. PICK o : o = Other(n)
  OBVIOUS
<1>3. PICK k, r : Picked(n, o, k, r) /\ Good(a, k, r)
  BY <1>2, GoodEnd
<1>4. Turns(a, e, k, r)
  <2>1. k \in Nat
    BY <1>3 DEF Picked
  <2> HIDE DEF a
  <2> QED
    BY <1>3, <2>1, DHTurns
<1> HIDE DEF e
<1> QED
  BY <1>1, <1>2, <1>3, <1>4, TurnsStep

LEMMA FillKeeps ==
  ASSUME LinkInv, NEW n, n \in End, NEW F, Fill_Bucket_IT(n, F) PROVE LinkInv'
<1> DEFINE a == end[n]
           b == Fired(n, "Fill", FALSE, F)
           f == [b EXCEPT !.bucket = BUCKET_CAP, !.timers = b.timers \cup {"Fill"}]
           e == IF b.bucket = BUCKET_CAP THEN b ELSE IF b.needed THEN Assign_Resources_IT(f) ELSE f
<1>1. Clock(a, FALSE, F, a.timers \ {"Fill"}, b)
  BY FiredIs
<1>2. Step(n, e, net)
  BY DEF Fill_Bucket_IT
<1>3. Became(n, e, net)
  BY <1>2, BecameIs
<1>4. PICK o : o = Other(n)
  OBVIOUS
<1>5. PICK k, r : Picked(n, o, k, r) /\ Good(a, k, r)
  BY <1>4, GoodEnd
<1>6. Turns(a, e, k, r)
  <2>1. k \in Nat
    BY <1>5 DEF Picked
  <2> DEFINE x == FALSE
  <2>2. Clock(a, x, F, a.timers \ {"Fill"}, b)
    BY <1>1
  <2>3. Fills(b, e)
    BY DEF Fills
  <2> HIDE DEF a, b, x, e
  <2> QED
    BY <1>5, <2>1, <2>2, <2>3, FillTurns
<1> HIDE DEF e
<1> QED
  BY <1>3, <1>4, <1>5, <1>6, TurnsStep

LEMMA RequestKeeps ==
  ASSUME LinkInv, NEW n, n \in End, NEW F, Request_Resources_IT(n, F) PROVE LinkInv'
<1> DEFINE a == end[n]
           x == FALSE
           T == a.timers
           b == Now(n, x, F)
           f == [b EXCEPT !.wants = b.wants + 1, !.given = b.given + 1, !.queued = TRUE]
           e == IF Full_Link_IT(f) THEN f ELSE Assign_Resources_IT(f)
<1>1. Step(n, e, net) /\ a.given < Given[n]
  BY DEF Request_Resources_IT
<1>2. Became(n, e, net)
  BY <1>1, BecameIs
<1>3. a.given < Len(Frags)
  <2>1. a.given \in Nat
    BY FragsAre DEF LinkInv, EndInv, Typed
  <2>2. Given[n] \in Nat /\ Given[n] <= Len(Frags) /\ Len(Frags) \in Nat
    BY MessageAssumption, FragsAre
  <2> QED
    BY <1>1, <2>1, <2>2
<1>4. PICK o : o = Other(n)
  OBVIOUS
<1>5. PICK k, r : Picked(n, o, k, r) /\ Good(a, k, r)
  BY <1>4, GoodEnd
<1>6. Clock(a, x, F, T, b)
  BY NowIs
<1>7. Turns(a, e, k, r)
  <2>1. k \in Nat /\ {"Reliable", "Fill", "Ack"} \cap a.timers \subseteq T
    BY <1>5 DEF Picked
  <2> HIDE DEF a, T, x, b
  <2>2. Turns(a, b, k, r)
    BY <1>5, <1>6, <2>1, ClockTurns
  <2>3. b.given = a.given
    <3>1. IsEnd(a)
      BY <1>5 DEF Good, SideOK, SendOK, Typed
    <3> QED
      BY <1>6, <3>1 DEF Clock, IsEnd
  <2>4. Good(b, k, r) /\ b.given < Len(Frags)
    BY <1>3, <2>2, <2>3 DEF Turns
  <2>5. Turns(b, e, k, r)
    BY <2>1, <2>4, RequestTurns
  <2> HIDE DEF e
  <2> QED
    BY <2>2, <2>5 DEF Turns, SameIncs
<1> HIDE DEF e
<1> QED
  BY <1>2, <1>4, <1>5, <1>7, TurnsStep

LEMMA RestartKeeps ==
  ASSUME LinkInv, NEW n, n \in End, Restart(n) PROVE LinkInv'
<1> DEFINE i == end[n].my_inc + 1
           e == Fresh(i)
           k == 0
<1>1. PICK o : o = Other(n)
  OBVIOUS
<1>2. o \in End
  BY <1>1, TwoEnds
<1>3. end[n].my_inc \in Nat /\ end[o].my_inc \in Nat /\ i \in Nat /\ i > end[n].my_inc
  BY <1>2 DEF LinkInv, EndInv, Typed
<1>4. Became(n, e, net)
  BY BecameIs DEF Restart
<1>5. e.my_inc = i /\ e.ngbr_inc = 0 /\ Begins(e, k)
  <2> HIDE DEF i
  <2> QED
    BY <1>3, FreshOK
<1> HIDE DEF e
<1>6. k \in Nat /\ e.ngbr_inc <= end[o].my_inc /\ e.my_inc > end[n].my_inc
  BY <1>3, <1>5
<1> HIDE DEF k
<1> QED
  BY <1>1, <1>4, <1>5, <1>6, StepChanges

LEMMA InitOK == Init => LinkInv
<1> SUFFICES ASSUME Init PROVE LinkInv
  OBVIOUS
<1> DEFINE e == Fresh(1)
           k == 0
<1>1. end = [n \in End |-> e] /\ net = {} /\ conf \in Configurations
  BY DEF Init
<1>2. e.my_inc = 1 /\ e.ngbr_inc = 0 /\ e.sent = {} /\ Begins(e, k) /\ Typed(e)
  <2> DEFINE i == 1
  <2>1. i \in Nat
    OBVIOUS
  <2> HIDE DEF i
  <2>2. LET z == Fresh(i) IN z.my_inc = i /\ z.ngbr_inc = 0 /\ z.sent = {} /\ Begins(z, 0) /\ Typed(z)
    BY <2>1, FreshOK
  <2> QED
    BY <2>2 DEF i
<1> HIDE DEF e
<1>3. \A n \in End : end[n] = e
  BY <1>1
<1>4. k \in Nat
  OBVIOUS
<1> HIDE DEF k
<1>5. IsStart(k) /\ SideOK(e, k) /\ Answers(e) /\ NothingIn(e)
  BY <1>2 DEF Begins
<1>6. Timers(e) /\ Sender(e, k)
  BY <1>5 DEF Timers, SideOK, SendOK, Sender
<1>7. EndInv
  BY <1>1, <1>2, <1>3, <1>6 DEF EndInv
<1>8. NetInv
  BY <1>1 DEF NetInv
<1>9. ASSUME NEW n \in End, NEW o \in End, n # o PROVE PairInv(n, o)
  <2>1. Heard(n, o)
    BY <1>2, <1>3 DEF Heard
  <2>2. ASSUME NEW i \in Nat, NEW j \in Nat PROVE Agree(n, o, i, j, k)
    <3> DEFINE ordered == conf.ordered
    <3> HIDE DEF ordered
    <3>1. Receiver(e, k, ordered)
      BY <1>4, <1>5, NothingReceiver
    <3> QED
      BY <1>1, <1>3, <1>6, <3>1 DEF Agree, ordered
  <2> QED
    BY <1>1, <1>4, <1>5, <2>1, <2>2 DEF PairInv
<1> QED
  BY <1>7, <1>8, <1>9 DEF LinkInv

LEMMA NextOK == LinkInv /\ [Next]_vars => LinkInv'
<1> SUFFICES ASSUME LinkInv, [Next]_vars PROVE LinkInv'
  OBVIOUS
<1>1. CASE UNCHANGED vars
  BY <1>1, LoseKeeps DEF vars
<1>2. ASSUME NEW m \in net, Lose(m) PROVE LinkInv'
  <2>1. net' \subseteq net /\ UNCHANGED <<end, conf>>
    BY <1>2 DEF Lose
  <2> QED
    BY <2>1, LoseKeeps
<1>3. ASSUME NEW n \in End, NEW x \in Expired(n), NEW F \in Failures, NEW m \in net, Receive(n, m, x, F)
      PROVE  LinkInv'
  BY <1>3, ReceiveKeeps
<1>4. ASSUME NEW n \in End, NEW x \in Expired(n), Ack_IT_Timeout(n, x) PROVE LinkInv'
  BY <1>4, AckTimeoutKeeps
<1>5. ASSUME NEW n \in End, NEW x \in Expired(n), NEW F \in Failures, Reliable_IT_Timeout(n, x, F) PROVE LinkInv'
  BY <1>5, ReliableKeeps
<1>6. ASSUME NEW n \in End, NEW x \in Expired(n), NEW F \in Failures, Retransm(n, x, F) PROVE LinkInv'
  BY <1>6, RetransmKeeps
<1>7. ASSUME NEW n \in End, Ping_IT_Timeout(n) PROVE LinkInv'
  BY <1>7, PingKeeps
<1>8. ASSUME NEW n \in End, NEW F \in Failures, Fill_Bucket_IT(n, F) PROVE LinkInv'
  BY <1>8, FillKeeps
<1>9. ASSUME NEW n \in End, NEW F \in Failures, Request_Resources_IT(n, F) PROVE LinkInv'
  BY <1>9, RequestKeeps
<1>10. ASSUME NEW n \in End, SendDH(n) PROVE LinkInv'
  BY <1>10, SendDHKeeps
<1>11. ASSUME NEW n \in End, Restart(n) PROVE LinkInv'
  BY <1>11, RestartKeeps
<1> QED
  BY <1>1, <1>2, <1>3, <1>4, <1>5, <1>6, <1>7, <1>8, <1>9, <1>10, <1>11 DEF Next

LEMMA Invariance == Spec => []LinkInv
  BY InitOK, NextOK, PTL DEF Spec

-----------------------------------------------------------------------------
(* What the invariant shows. *)

Once(d, ordered) ==
  LET s == d.delivered
  IN  /\ ~d.bad
      /\ \A i, j \in 1 .. Len(s) : i < j => IF ordered THEN s[j] = s[i] + j - i ELSE s[i] # s[j]

LEMMA OrderedOnce ==
  ASSUME NEW d, NEW k, k \in Nat, NEW ordered, Receiver(d, k, ordered) PROVE Once(d, ordered)
<1> DEFINE s == d.delivered
<1>1. PICK m \in 0 .. Len(Frags) : Built(d, m, k) /\ Delivered(d, m, ordered)
  BY DEF Receiver
<1>2. d.bad = FALSE /\ s \in Seq(Nat) /\ Len(s) \in Nat /\ m \in Nat
  BY <1>1, FragsAre DEF Built
<1>3. ASSUME NEW i \in 1 .. Len(s), NEW j \in 1 .. Len(s), i < j
      PROVE  IF ordered THEN s[j] = s[i] + j - i ELSE s[i] # s[j]
  <2>1. CASE ordered
    <3>1. s[i] = m - Len(s) + i /\ s[j] = m - Len(s) + j
      BY <1>1, <2>1 DEF Delivered
    <3> QED
      BY <1>2, <2>1, <3>1
  <2>2. CASE ~ordered
    <3>1. s[i] = s[j] => i = j
      BY <1>1, <2>2 DEF Delivered
    <3> QED
      BY <1>3, <2>2, <3>1
  <2> QED
    BY <2>1, <2>2
<1> QED
  BY <1>2, <1>3 DEF Once

LEMMA InvInOrderOnce == LinkInv => InOrderOnce
<1> SUFFICES ASSUME LinkInv, NEW n \in End PROVE Once(end[n], conf.ordered)
  BY DEF InOrderOnce, Once
<1>1. PICK o : o = Other(n)
  OBVIOUS
<1>2. PICK k, r : Picked(n, o, k, r) /\ Good(end[n], k, r)
  BY <1>1, GoodEnd
<1>3. r \in Nat /\ Receiver(end[n], r, conf.ordered)
  BY <1>2 DEF Picked, Good
<1> QED
  BY <1>3, OrderedOnce

LEMMA InvHonestAcksPass == LinkInv => HonestAcksPass
<1> SUFFICES ASSUME LinkInv, NEW m \in net, m.pkt.type \in {"ACK", "DATA"},
                    m.pkt.inc = end[m.to].ngbr_inc, m.pkt.aru_inc = end[m.to].my_inc,
                    AcksNews(end[m.to], m.pkt)
             PROVE  GoodNonce(end[m.to], m.pkt)
  BY DEF HonestAcksPass
<1> DEFINE n == m.to
           d == end[n]
           p == m.pkt
           a == p.aru
<1>1. n \in End
  BY DEF LinkInv, NetInv
<1>2. PICK o : o = Other(n)
  OBVIOUS
<1>3. PICK k, r : Picked(n, o, k, r) /\ Good(d, k, r)
  BY <1>1, <1>2, GoodEnd
<1>4. PacketOK(p, d.ngbr_inc, d.my_inc, r)
  BY <1>3 DEF Picked, Agree
<1>5. a \in Nat /\ p.aru_nonce = Digest(d.my_inc, d.ngbr_inc, a)
  BY <1>4 DEF PacketOK
<1>6. OutWindow(d, k) /\ Typed(d)
  BY <1>3 DEF Good, SideOK, SendOK
<1>7. d.out_tail \in Nat /\ d.tcp_head \in Nat /\ d.out_head \in Nat /\ d.tcp_head <= d.out_head
      /\ d.out_tail <= a /\ a < d.tcp_head
  BY <1>6 DEF Typed, OutWindow, AcksNews
<1>8. a \in d.out_tail - 1 .. d.out_head - 1 /\ a >= d.out_tail
  <2> DEFINE t == d.out_tail
             c == d.tcp_head
             h == d.out_head
  <2>1. t \in Nat /\ c \in Nat /\ h \in Nat /\ c <= h /\ t <= a /\ a < c
    BY <1>7
  <2> HIDE DEF t, c, h, a
  <2>2. a \in t - 1 .. h - 1 /\ a >= t
    BY <1>5, <2>1
  <2> QED
    BY <2>2 DEF t, h
<1>9. d.out_digest[a % Window] = Digest(d.my_inc, d.ngbr_inc, a)
  BY <1>6, <1>8 DEF OutWindow
<1> QED
  BY <1>5, <1>9 DEF GoodNonce

LEMMA InvNothingForgotten == LinkInv => NothingForgotten
<1> SUFFICES ASSUME LinkInv, NEW n \in End, NEW d, d = end[n]
             PROVE  /\ \/ "Reliable" \in d.timers
                       \/ ~d.established
                       \/ d.out_tail .. d.tcp_head - 1 \subseteq d.unsent
                    /\ "Ack" \in d.timers \/ d.count = Msg_Per_SAA - 1
                    /\ d.queued => Full_Link_IT(d) \/ (d.needed /\ "Fill" \in d.timers)
  BY DEF NothingForgotten
<1>1. Timers(d)
  BY DEF LinkInv, EndInv
<1> QED
  BY <1>1 DEF Timers, Alarmed, Answers, Filled, Served

(* Whatever the network loses, repeats and reorders, and however often the   *)
(* daemons restart: within a pair of incarnations, messages are delivered    *)
(* whole, in order and once (Build_Message_From_Fragments_IT), none twice    *)
(* without ordered delivery, and no honest neighbor is blacklisted for a     *)
(* fragment out of place.                                                    *)
THEOREM DeliveredInOrderOnce == Spec => []InOrderOnce
  BY Invariance, InvInOrderOnce, PTL

(* The digest of nonces in an honest neighbor's ack is the one that the      *)
(* sender computed for the acked packets, so Process_IT_Ack never takes it   *)
(* for a lie, through every reset and renumbering of the windows.            *)
THEOREM AcksOfHonestPass == Spec => []HonestAcksPass
  BY Invariance, InvHonestAcksPass, PTL

(* Whichever sends fail: packets of which one has left and none is acked     *)
(* have the reliable timer (Send_IT_Data_Msg) or a handshake that queues it  *)
(* (DH_established), a receiver will answer, and a dissemination that waits, *)
(* waits for the window or for tokens on their way.                          *)
THEOREM NothingIsForgotten == Spec => []NothingForgotten
  BY Invariance, InvNothingForgotten, PTL
=============================================================================

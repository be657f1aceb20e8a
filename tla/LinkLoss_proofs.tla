--------------------------- MODULE LinkLoss_proofs -------------------------
(***************************************************************************)
(* Proof of LossCounted, for every PACK_MAX_SEQ and any number of packets, *)
(* as long as the network keeps no packet for half a round of the numbers. *)
(***************************************************************************)
EXTENDS LinkLoss, TLAPS

(* The bound on what is on its way, which the code takes for granted when it *)
(* decides by the nearer way around whether a number is a late one.          *)
UnderHalfARound == PACK_MAX_SEQ \in Nat \ {0} /\ MaxAhead \in Nat /\ 2 * MaxAhead < PACK_MAX_SEQ

-----------------------------------------------------------------------------
(* Arithmetic of the numbers. *)

LEMMA Multiples ==
  ASSUME NEW w \in Nat \ {0}, NEW k \in Int
  PROVE  /\ k >= 1 => w * k >= w
         /\ k <= -1 => w * k <= -w
         /\ k >= 2 => w * k >= w + w
         /\ k <= -2 => w * k <= -(w + w)
<1>1. ASSUME NEW j \in Nat PROVE w * j >= 0
  OBVIOUS
<1>2. ASSUME k >= 1 PROVE w * k >= w
  <2>1. k - 1 \in Nat /\ w * k = w * (k - 1) + w
    BY <1>2
  <2>2. w * (k - 1) >= 0
    BY <1>1, <2>1
  <2> QED
    BY <2>1, <2>2
<1>3. ASSUME k <= -1 PROVE w * k <= -w
  <2>1. -1 - k \in Nat /\ w * k = -(w * (-1 - k)) - w
    BY <1>3
  <2>2. w * (-1 - k) >= 0
    BY <1>1, <2>1
  <2> QED
    BY <2>1, <2>2
<1>4. ASSUME k >= 2 PROVE w * k >= w + w
  <2>1. k - 2 \in Nat /\ w * k = w * (k - 2) + w + w
    BY <1>4
  <2>2. w * (k - 2) >= 0
    BY <1>1, <2>1
  <2> QED
    BY <2>1, <2>2
<1>5. ASSUME k <= -2 PROVE w * k <= -(w + w)
  <2>1. -2 - k \in Nat /\ w * k = -(w * (-2 - k)) - w - w
    BY <1>5
  <2>2. w * (-2 - k) >= 0
    BY <1>1, <2>1
  <2> QED
    BY <2>1, <2>2
<1> QED
  BY <1>2, <1>3, <1>4, <1>5

LEMMA Divided ==
  ASSUME NEW w \in Nat \ {0}, NEW x \in Int
  PROVE  x \div w \in Int /\ x % w \in 0 .. w - 1 /\ x = w * (x \div w) + (x % w)
<1>1. x \div w \in Int
  OBVIOUS
<1>2. x % w \in 0 .. w - 1
  OBVIOUS
<1>3. x = w * (x \div w) + (x % w)
  OBVIOUS
<1> QED
  BY <1>1, <1>2, <1>3

(* A remainder is what is left of any multiple. *)
LEMMA RemainderIs ==
  ASSUME NEW w \in Nat \ {0}, NEW q \in Int, NEW r \in 0 .. w - 1, NEW x \in Int, x = w * q + r
  PROVE  x % w = r
<1> DEFINE p == x \div w
           s == x % w
<1>1. p \in Int /\ s \in 0 .. w - 1 /\ x = w * p + s
  BY Divided
<1> HIDE DEF p, s
<1>2. q - p \in Int /\ w * (q - p) = s - r
  BY <1>1
<1>3. s - r < w /\ s - r > -w
  BY <1>1
<1>4. ~(q - p >= 1) /\ ~(q - p <= -1)
  BY <1>2, <1>3, Multiples
<1>5. q = p
  BY <1>1, <1>4
<1>6. s = r
  BY <1>1, <1>5
<1> QED
  BY <1>6 DEF s

(* Set_Loss_SeqNo numbers the packets from 0 on, round and round. *)
LEMMA NextSeqIs ==
  ASSUME UnderHalfARound, NEW k \in Nat
  PROVE  NextSeq(k % PACK_MAX_SEQ) = (k + 1) % PACK_MAX_SEQ
<1> DEFINE w == PACK_MAX_SEQ
           q == k \div w
           r == k % w
<1>1. w \in Nat \ {0} /\ q \in Int /\ r \in 0 .. w - 1 /\ k = w * q + r
  BY Divided DEF UnderHalfARound
<1>2. NextSeq(r) = IF r + 1 >= w THEN 0 ELSE r + 1
  BY DEF NextSeq
<1> HIDE DEF w, q, r
<1>3. CASE r + 1 < w
  <2>1. r + 1 \in 0 .. w - 1 /\ k + 1 = w * q + (r + 1) /\ k + 1 \in Int
    BY <1>1, <1>3
  <2>2. (k + 1) % w = r + 1
    BY <1>1, <2>1, RemainderIs
  <2> QED
    BY <1>1, <1>2, <1>3, <2>2 DEF w, r
<1>4. CASE r + 1 = w
  <2>1. 0 \in 0 .. w - 1 /\ k + 1 = w * (q + 1) + 0 /\ k + 1 \in Int /\ q + 1 \in Int
    BY <1>1, <1>4
  <2>2. (k + 1) % w = 0
    BY <1>1, <2>1, RemainderIs
  <2> QED
    BY <1>1, <1>2, <1>4, <2>2 DEF w, r
<1> QED
  BY <1>1, <1>3, <1>4

(* Of two packets less than half a round apart the test of Check_Link_Loss   *)
(* says which came later, and the gap is what lies between them.             *)
LEMMA NumbersTell ==
  ASSUME UnderHalfARound, NEW a \in Nat, NEW b \in Nat, b - a <= MaxAhead, a - b <= MaxAhead
  PROVE  LET x == a % PACK_MAX_SEQ
             y == b % PACK_MAX_SEQ
         IN  /\ Reordered(y, x) <=> b <= a
             /\ b > a => Gap(y, x) = b - a - 1
<1> DEFINE w == PACK_MAX_SEQ
           p == a \div w
           x == a % w
           q == b \div w
           y == b % w
           d == b - a
<1>1. w \in Nat \ {0} /\ p \in Int /\ x \in 0 .. w - 1 /\ a = w * p + x
  BY Divided DEF UnderHalfARound
<1>2. q \in Int /\ y \in 0 .. w - 1 /\ b = w * q + y
  BY Divided DEF UnderHalfARound
<1>3. d \in Int /\ d + d < w /\ -(d + d) < w
  BY DEF UnderHalfARound
<1>4. /\ Reordered(y, x) <=> \/ y <= x /\ x - y < w - x + y
                             \/ y > x /\ w - y + x < y - x
      /\ Gap(y, x) = (y - x - 1) % w
      /\ d > 0 <=> b > a
  BY DEF Reordered, Gap
<1> HIDE DEF w, p, q, x, y
<1>5. q - p \in Int /\ w * (q - p) = d + x - y
  BY <1>1, <1>2
<1> HIDE DEF d
<1>6. w * (q - p) < w + w /\ w * (q - p) > -(w + w)
  BY <1>1, <1>2, <1>3, <1>5
<1>7. q - p \in {-1, 0, 1}
  <2>1. ~(q - p >= 2) /\ ~(q - p <= -2)
    BY <1>1, <1>5, <1>6, Multiples
  <2> QED
    BY <1>5, <2>1
<1>8. \/ q - p = 0 /\ y - x = d
      \/ q - p = 1 /\ y - x = d - w
      \/ q - p = -1 /\ y - x = d + w
  <2>1. CASE q - p = 0
    BY <1>1, <1>2, <1>3, <1>5, <2>1
  <2>2. CASE q - p = 1
    BY <1>1, <1>2, <1>3, <1>5, <2>2
  <2>3. CASE q - p = -1
    BY <1>1, <1>2, <1>3, <1>5, <2>3
  <2> QED
    BY <1>7, <2>1, <2>2, <2>3
<1>9. Reordered(y, x) <=> d <= 0
  BY <1>1, <1>2, <1>3, <1>4, <1>8
<1>10. ASSUME d > 0 PROVE Gap(y, x) = d - 1
  <2>1. d - 1 \in 0 .. w - 1 /\ y - x - 1 \in Int
    BY <1>1, <1>2, <1>3, <1>10
  <2>2. CASE y - x = d
    <3>1. y - x - 1 = w * 0 + (d - 1)
      BY <1>1, <1>2, <1>3, <2>2
    <3>2. w \in Nat \ {0} /\ 0 \in Int
      BY <1>1
    <3>3. (y - x - 1) % w = d - 1
      BY <2>1, <3>1, <3>2, RemainderIs
    <3> QED
      BY <1>4, <3>3
  <2>3. CASE y - x = d - w
    <3>1. y - x - 1 = w * (-1) + (d - 1)
      BY <1>1, <1>2, <1>3, <2>3
    <3>2. w \in Nat \ {0} /\ -1 \in Int
      BY <1>1
    <3>3. (y - x - 1) % w = d - 1
      BY <2>1, <3>1, <3>2, RemainderIs
    <3> QED
      BY <1>4, <3>3
  <2>4. CASE y - x = d + w
    BY <1>1, <1>2, <1>3, <1>10, <2>4
  <2> QED
    BY <1>8, <2>2, <2>3, <2>4
<1>11. (d <= 0 <=> b <= a) /\ (d > 0 <=> b > a) /\ (d - 1 = b - a - 1)
  BY DEF d
<1> QED
  BY <1>9, <1>10, <1>11 DEF w, x, y

-----------------------------------------------------------------------------
(* The inductive invariant: the numbers of the sender, of the packets on     *)
(* their way and of the receiver are those of their ids, and none of them is *)
(* more than MaxAhead behind.                                                *)

Packet == [seq : Int, id : Int]

Measure ==
  [kind : {"CONTROL_LINK", "UDP_LINK"}, my_seq : Int, recvd_seq : Int, begun : BOOLEAN,
   next : Int, net : SUBSET Packet, first : Int, head : Int, received : Int, lost : Int]

Numbered(id, seq, next) ==
  /\ id >= 1 /\ id < next
  /\ next - 1 - id <= MaxAhead
  /\ seq = (id - 1) % PACK_MAX_SEQ

SenderOK(l) ==
  /\ l.next >= 1
  /\ l.my_seq = IF l.next = 1 THEN PACK_MAX_SEQ ELSE (l.next - 2) % PACK_MAX_SEQ

PacketsOK(l) == \A p \in l.net : Numbered(p.id, p.seq, l.next)

Counts(l) == Numbered(l.head, l.recvd_seq, l.next) /\ l.received + l.lost = l.head - l.first

Waits(l) == l.kind = "UDP_LINK" /\ l.recvd_seq = Reset

ReceiverOK(l) ==
  /\ l.begun /\ l.first > 0 => Counts(l)
  /\ l.begun /\ ~(l.first > 0) => Waits(l)
  /\ ~(l.begun /\ l.first > 0) => l.first = 0 /\ l.received = 0 /\ l.lost = 0

Good(l) == l \in Measure /\ SenderOK(l) /\ PacketsOK(l) /\ ReceiverOK(l)

-----------------------------------------------------------------------------
(* One lemma per handler. *)

LEMMA NumberTyped ==
  ASSUME UnderHalfARound, NEW id \in Int, id >= 1
  PROVE  (id - 1) % PACK_MAX_SEQ \in 0 .. PACK_MAX_SEQ - 1
  BY Divided DEF UnderHalfARound

LEMMA InitGood ==
  ASSUME UnderHalfARound, Init
  PROVE  Good(ll)
<1>1. PICK kind \in {"CONTROL_LINK", "UDP_LINK"} :
        ll = [kind |-> kind, my_seq |-> PACK_MAX_SEQ, recvd_seq |-> 0, begun |-> FALSE,
              next |-> 1, net |-> {}, first |-> 0, head |-> 0, received |-> 0, lost |-> 0]
  BY DEF Init
<1>2. ll \in Measure
  BY <1>1 DEF UnderHalfARound, Measure
<1> QED
  BY <1>1, <1>2 DEF Good, SenderOK, PacketsOK, ReceiverOK

LEMMA SendGood ==
  ASSUME UnderHalfARound, Good(ll), Send
  PROVE  Good(ll')
<1> DEFINE n == ll.next
           s == NextSeq(ll.my_seq)
           p == [seq |-> s, id |-> n]
           w == ll.net \cup {p}
<1>1. ll \in Measure /\ n \in Int /\ n >= 1
  BY DEF Good, Measure, SenderOK
<1>2. ll' = [ll EXCEPT !.my_seq = s, !.next = n + 1, !.net = w]
  BY DEF Send
<1>3. s = (n - 1) % PACK_MAX_SEQ
  <2>1. CASE n = 1
    <3>1. ll.my_seq = PACK_MAX_SEQ
      BY <2>1 DEF Good, SenderOK
    <3>2. s = 0
      BY <3>1 DEF NextSeq, UnderHalfARound
    <3>3. (n - 1) % PACK_MAX_SEQ = 0
      BY <2>1, RemainderIs DEF UnderHalfARound
    <3> QED
      BY <3>2, <3>3
  <2>2. CASE n # 1
    <3>1. ll.my_seq = (n - 2) % PACK_MAX_SEQ
      BY <2>2 DEF Good, SenderOK
    <3> HIDE DEF n
    <3>2. n - 2 \in Nat /\ n - 2 + 1 = n - 1
      BY <1>1, <2>2
    <3> QED
      BY <3>1, <3>2, NextSeqIs
  <2> QED
    BY <2>1, <2>2
<1>4. s \in Int
  BY <1>1, <1>3, NumberTyped DEF UnderHalfARound
<1>5. \A q \in ll.net : n - q.id <= MaxAhead
  BY DEF Send
<1>6. ll.begun => n - ll.head <= MaxAhead
  BY DEF Send
<1>7. p \in Packet /\ p.id = n /\ p.seq = s
  BY <1>1, <1>4 DEF Packet
<1>8. PacketsOK(ll)
  BY DEF Good
<1>9. ReceiverOK(ll)
  BY DEF Good
<1> HIDE DEF s, p
<1>10. w \in SUBSET Packet
  BY <1>1, <1>7 DEF Measure
<1>11. \A q \in w : Numbered(q.id, q.seq, n + 1)
  <2> SUFFICES ASSUME NEW q \in w PROVE Numbered(q.id, q.seq, n + 1)
    OBVIOUS
  <2>1. CASE q = p
    BY <1>1, <1>3, <1>7, <2>1 DEF Numbered, UnderHalfARound
  <2>2. CASE q \in ll.net
    <3>1. Numbered(q.id, q.seq, n) /\ q.id \in Int
      BY <1>1, <1>8, <2>2 DEF PacketsOK, Measure, Packet
    <3> QED
      BY <1>1, <1>5, <2>2, <3>1 DEF Numbered, UnderHalfARound
  <2> QED
    BY <2>1, <2>2
<1> HIDE DEF w, n
<1>12. ll' \in Measure
  <2> DEFINE k == n + 1
  <2>1. k \in Int
    BY <1>1
  <2>2. ll' = [ll EXCEPT !.my_seq = s, !.next = k, !.net = w]
    BY <1>2
  <2> HIDE DEF k
  <2> QED
    BY <1>1, <1>4, <1>10, <2>1, <2>2 DEF Measure
<1>13. /\ ll'.my_seq = s /\ ll'.next = n + 1 /\ ll'.net = w
       /\ ll'.begun = ll.begun /\ ll'.kind = ll.kind /\ ll'.first = ll.first
       /\ ll'.head = ll.head /\ ll'.recvd_seq = ll.recvd_seq
       /\ ll'.received = ll.received /\ ll'.lost = ll.lost
  BY <1>1, <1>2 DEF Measure
<1>14. SenderOK(ll')
  <2> DEFINE k == n + 1
  <2>1. k >= 1 /\ k # 1 /\ k - 2 = n - 1
    BY <1>1
  <2>2. ll'.next = k /\ ll'.my_seq = (k - 2) % PACK_MAX_SEQ
    BY <1>3, <1>13, <2>1
  <2> HIDE DEF k
  <2> QED
    BY <2>1, <2>2 DEF SenderOK
<1>15. PacketsOK(ll')
  BY <1>11, <1>13 DEF PacketsOK
<1>16. ASSUME ll.begun, Counts(ll) PROVE Counts(ll')
  <2>1. Numbered(ll.head, ll.recvd_seq, n) /\ ll.head \in Int
    BY <1>1, <1>16 DEF Counts, Measure, n
  <2>2. Numbered(ll.head, ll.recvd_seq, n + 1)
    BY <1>1, <1>6, <1>16, <2>1 DEF Numbered, UnderHalfARound
  <2> QED
    BY <1>13, <1>16, <2>2 DEF Counts
<1>17. ReceiverOK(ll')
  BY <1>9, <1>13, <1>16 DEF ReceiverOK, Waits
<1> QED
  BY <1>12, <1>14, <1>15, <1>17 DEF Good

(* Fewer packets on their way. *)
LEMMA LessGood ==
  ASSUME UnderHalfARound, NEW l, Good(l), NEW left \in SUBSET l.net
  PROVE  LET m == [l EXCEPT !.net = left]
         IN  Good(m) /\ m.net = left /\ m.kind = l.kind /\ m.begun = l.begun /\ m.next = l.next
<1> DEFINE m == [l EXCEPT !.net = left]
<1>1. l \in Measure
  BY DEF Good
<1>2. m \in Measure
  BY <1>1 DEF Measure
<1>3. /\ m.net = left /\ m.my_seq = l.my_seq /\ m.next = l.next
      /\ m.begun = l.begun /\ m.kind = l.kind /\ m.first = l.first
      /\ m.head = l.head /\ m.recvd_seq = l.recvd_seq
      /\ m.received = l.received /\ m.lost = l.lost
  BY <1>1 DEF Measure
<1> HIDE DEF m
<1>4. SenderOK(m) /\ PacketsOK(m) /\ ReceiverOK(m)
  BY <1>3 DEF Good, SenderOK, PacketsOK, ReceiverOK, Counts, Waits
<1> QED
  BY <1>2, <1>3, <1>4 DEF Good, m

(* Check_Link_Loss counts the packets between the head and p. *)
LEMMA CheckGood ==
  ASSUME UnderHalfARound, NEW l, Good(l), l.begun, NEW p \in Packet,
         Numbered(p.id, p.seq, l.next)
  PROVE  Good(Check_Link_Loss(l, p))
<1>1. l \in Measure /\ l.next \in Int /\ l.head \in Int /\ l.recvd_seq \in Int
  BY DEF Good, Measure
<1>2. p.id \in Int /\ p.seq \in Int
  BY DEF Packet
<1>3. SenderOK(l) /\ PacketsOK(l) /\ ReceiverOK(l)
  BY DEF Good
<1>4. CASE l.recvd_seq = Reset
  <2> DEFINE m == [l EXCEPT !.recvd_seq = p.seq, !.first = p.id, !.head = p.id]
  <2>1. Check_Link_Loss(l, p) = m
    BY <1>4 DEF Check_Link_Loss
  <2>2. m \in Measure
    BY <1>1, <1>2 DEF Measure
  <2>3. /\ m.net = l.net /\ m.my_seq = l.my_seq /\ m.next = l.next
        /\ m.begun = l.begun /\ m.kind = l.kind /\ m.first = p.id
        /\ m.head = p.id /\ m.recvd_seq = p.seq
        /\ m.received = l.received /\ m.lost = l.lost
    BY <1>1 DEF Measure
  <2> HIDE DEF m
  <2>4. ~(l.first > 0)
    <3>1. SUFFICES ASSUME l.first > 0 PROVE FALSE
      OBVIOUS
    <3>2. l.recvd_seq = (l.head - 1) % PACK_MAX_SEQ /\ l.head >= 1
      BY <1>3, <3>1 DEF ReceiverOK, Counts, Numbered
    <3> QED
      BY <1>1, <1>4, <3>2, NumberTyped DEF Reset, UnderHalfARound
  <2>5. l.received = 0 /\ l.lost = 0
    BY <1>3, <2>4 DEF ReceiverOK
  <2>6. p.id > 0
    BY <1>2 DEF Numbered
  <2>7. Counts(m)
    BY <1>2, <2>3, <2>5 DEF Counts
  <2>8. ReceiverOK(m)
    BY <2>3, <2>6, <2>7 DEF ReceiverOK
  <2>9. SenderOK(m) /\ PacketsOK(m)
    BY <1>3, <2>3 DEF SenderOK, PacketsOK
  <2> QED
    BY <2>1, <2>2, <2>8, <2>9 DEF Good
<1>5. CASE l.recvd_seq # Reset /\ Reordered(p.seq, l.recvd_seq)
  BY <1>5 DEF Check_Link_Loss
<1>6. CASE l.recvd_seq # Reset /\ ~Reordered(p.seq, l.recvd_seq)
  <2> DEFINE g == Gap(p.seq, l.recvd_seq)
             m == [l EXCEPT !.recvd_seq = p.seq, !.head = p.id,
                            !.received = l.received + 1, !.lost = l.lost + g]
  <2>1. Check_Link_Loss(l, p) = m
    BY <1>6 DEF Check_Link_Loss
  <2>2. l.first > 0 /\ Counts(l)
    BY <1>3, <1>6 DEF ReceiverOK, Waits
  <2>3. /\ l.head >= 1 /\ l.head < l.next /\ l.next - 1 - l.head <= MaxAhead
        /\ l.recvd_seq = (l.head - 1) % PACK_MAX_SEQ
    BY <2>2 DEF Counts, Numbered
  <2>4. /\ p.id >= 1 /\ p.id < l.next /\ l.next - 1 - p.id <= MaxAhead
        /\ p.seq = (p.id - 1) % PACK_MAX_SEQ
    BY DEF Numbered
  <2>5. /\ l.head - 1 \in Nat /\ p.id - 1 \in Nat
        /\ (p.id - 1) - (l.head - 1) <= MaxAhead /\ (l.head - 1) - (p.id - 1) <= MaxAhead
    BY <1>1, <1>2, <2>3, <2>4 DEF UnderHalfARound
  <2>6. /\ Reordered(p.seq, l.recvd_seq) <=> p.id - 1 <= l.head - 1
        /\ p.id - 1 > l.head - 1 => g = (p.id - 1) - (l.head - 1) - 1
    BY <2>3, <2>4, <2>5, NumbersTell
  <2>7. p.id - 1 > l.head - 1
    BY <1>1, <1>2, <1>6, <2>6
  <2>8. g = p.id - l.head - 1 /\ g \in Int
    BY <1>1, <1>2, <2>6, <2>7
  <2> HIDE DEF g
  <2>9. l.received \in Int /\ l.lost \in Int /\ l.first \in Int
    BY <1>1 DEF Measure
  <2>10. l.received + 1 \in Int /\ l.lost + g \in Int
    BY <2>8, <2>9
  <2>11. m \in Measure
    BY <1>1, <1>2, <2>10 DEF Measure
  <2>12. /\ m.net = l.net /\ m.my_seq = l.my_seq /\ m.next = l.next
         /\ m.begun = l.begun /\ m.kind = l.kind /\ m.first = l.first
         /\ m.head = p.id /\ m.recvd_seq = p.seq
         /\ m.received = l.received + 1 /\ m.lost = l.lost + g
    BY <1>1 DEF Measure
  <2> HIDE DEF m
  <2>13. l.received + l.lost = l.head - l.first
    BY <2>2 DEF Counts
  <2>14. (l.received + 1) + (l.lost + g) = p.id - l.first
    BY <1>1, <1>2, <2>8, <2>9, <2>13
  <2>15. Counts(m)
    BY <2>12, <2>14 DEF Counts
  <2>16. ReceiverOK(m)
    BY <2>2, <2>12, <2>15 DEF ReceiverOK
  <2>17. SenderOK(m) /\ PacketsOK(m)
    BY <1>3, <2>12 DEF SenderOK, PacketsOK
  <2> QED
    BY <2>1, <2>11, <2>16, <2>17 DEF Good
<1> QED
  BY <1>4, <1>5, <1>6

(* The hello that begins the session on a control link carries its number. *)
LEMMA BeginControlGood ==
  ASSUME UnderHalfARound, NEW l, Good(l), ~l.begun, l.kind = "CONTROL_LINK",
         NEW p \in Packet, Numbered(p.id, p.seq, l.next)
  PROVE  LET m == Begin(l, p.seq, p.id) IN Good(m) /\ m.begun /\ m.next = l.next
<1> DEFINE m == [l EXCEPT !.begun = TRUE, !.recvd_seq = p.seq, !.first = p.id, !.head = p.id]
<1>1. l \in Measure /\ SenderOK(l) /\ PacketsOK(l) /\ ReceiverOK(l)
  BY DEF Good
<1>2. p.id \in Int /\ p.seq \in Int
  BY DEF Packet
<1>3. Begin(l, p.seq, p.id) = m
  BY DEF Begin
<1>4. m \in Measure
  BY <1>1, <1>2 DEF Measure
<1>5. /\ m.net = l.net /\ m.my_seq = l.my_seq /\ m.next = l.next
      /\ m.begun /\ m.kind = l.kind /\ m.first = p.id
      /\ m.head = p.id /\ m.recvd_seq = p.seq
      /\ m.received = l.received /\ m.lost = l.lost
  BY <1>1 DEF Measure
<1> HIDE DEF m
<1>6. l.received = 0 /\ l.lost = 0
  BY <1>1 DEF ReceiverOK
<1>7. p.id > 0
  BY <1>2 DEF Numbered
<1>8. Counts(m)
  BY <1>2, <1>5, <1>6 DEF Counts
<1>9. ReceiverOK(m)
  BY <1>5, <1>7, <1>8 DEF ReceiverOK
<1>10. SenderOK(m) /\ PacketsOK(m)
  BY <1>1, <1>5 DEF SenderOK, PacketsOK
<1> QED
  BY <1>3, <1>4, <1>5, <1>9, <1>10 DEF Good

LEMMA ReceiveGood ==
  ASSUME UnderHalfARound, Good(ll), NEW p \in ll.net, Receive(p)
  PROVE  Good(ll')
<1>1. PICK left \in {ll.net, ll.net \ {p}} :
        LET l == [ll EXCEPT !.net = left]
        IN  ll' = IF l.kind = "CONTROL_LINK"
                  THEN Check_Link_Loss(IF l.begun THEN l ELSE Begin(l, p.seq, p.id), p)
                  ELSE IF l.begun THEN Check_Link_Loss(l, p) ELSE l
  BY DEF Receive
<1> DEFINE l == [ll EXCEPT !.net = left]
<1>2. left \in SUBSET ll.net
  OBVIOUS
<1>3. Good(l) /\ l.next = ll.next
  BY <1>2, LessGood
<1>4. p \in Packet /\ Numbered(p.id, p.seq, l.next)
  BY <1>3 DEF Good, Measure, PacketsOK
<1>5. l.kind \in {"CONTROL_LINK", "UDP_LINK"} /\ l.begun \in BOOLEAN
  BY <1>3 DEF Good, Measure
<1>6. ll' = IF l.kind = "CONTROL_LINK"
            THEN Check_Link_Loss(IF l.begun THEN l ELSE Begin(l, p.seq, p.id), p)
            ELSE IF l.begun THEN Check_Link_Loss(l, p) ELSE l
  BY <1>1
<1> HIDE DEF l
<1>7. CASE l.begun
  BY <1>3, <1>4, <1>6, <1>7, CheckGood
<1>8. CASE ~l.begun /\ l.kind = "CONTROL_LINK"
  <2> DEFINE m == Begin(l, p.seq, p.id)
  <2>1. Good(m) /\ m.begun /\ m.next = l.next
    BY <1>3, <1>4, <1>8, BeginControlGood
  <2>2. ll' = Check_Link_Loss(m, p)
    BY <1>6, <1>8
  <2> HIDE DEF m
  <2> QED
    BY <1>4, <2>1, <2>2, CheckGood
<1>9. CASE ~l.begun /\ l.kind = "UDP_LINK"
  BY <1>3, <1>6, <1>9
<1> QED
  BY <1>5, <1>7, <1>8, <1>9

LEMMA HelloGood ==
  ASSUME UnderHalfARound, Good(ll), Hello
  PROVE  Good(ll')
<1> DEFINE m == [ll EXCEPT !.begun = TRUE, !.recvd_seq = Reset, !.head = ll.next - 1]
<1>1. ll \in Measure /\ SenderOK(ll) /\ PacketsOK(ll) /\ ReceiverOK(ll)
  BY DEF Good
<1>2. ll' = m /\ ~ll.begun /\ ll.kind = "UDP_LINK"
  BY DEF Hello, Begin
<1>3. ll.next - 1 \in Int /\ Reset \in Int
  BY <1>1 DEF Measure, Reset, UnderHalfARound
<1>4. m \in Measure
  BY <1>1, <1>3 DEF Measure
<1>5. /\ m.net = ll.net /\ m.my_seq = ll.my_seq /\ m.next = ll.next
      /\ m.begun /\ m.kind = ll.kind /\ m.first = ll.first /\ m.recvd_seq = Reset
      /\ m.received = ll.received /\ m.lost = ll.lost
  BY <1>1 DEF Measure
<1> HIDE DEF m
<1>6. ll.first = 0 /\ ll.received = 0 /\ ll.lost = 0
  BY <1>1, <1>2 DEF ReceiverOK
<1>7. ReceiverOK(m)
  BY <1>2, <1>5, <1>6 DEF ReceiverOK, Waits
<1>8. SenderOK(m) /\ PacketsOK(m)
  BY <1>1, <1>5 DEF SenderOK, PacketsOK
<1> QED
  BY <1>2, <1>4, <1>7, <1>8 DEF Good

LEMMA NextGood ==
  ASSUME UnderHalfARound, Good(ll), [Next]_ll
  PROVE  Good(ll')
<1>1. CASE Send
  BY <1>1, SendGood
<1>2. CASE \E p \in ll.net : Receive(p)
  BY <1>2, ReceiveGood
<1>3. CASE Hello
  BY <1>3, HelloGood
<1>4. CASE Lose
  <2>1. PICK p \in ll.net : ll' = [ll EXCEPT !.net = ll.net \ {p}]
    BY <1>4 DEF Lose
  <2>2. ll.net \ {p} \in SUBSET ll.net
    OBVIOUS
  <2> QED
    BY <2>1, <2>2, LessGood
<1>5. CASE UNCHANGED ll
  BY <1>5
<1> QED
  BY <1>1, <1>2, <1>3, <1>4, <1>5 DEF Next

(* Every packet from the first that was noticed to the latest one is counted *)
(* once, as received or as lost (Check_Link_Loss), for every PACK_MAX_SEQ    *)
(* and any number of packets, when nothing is late by half a round or more.  *)
THEOREM LossIsCounted ==
  ASSUME UnderHalfARound
  PROVE  Spec => []LossCounted
<1>1. Init => Good(ll)
  BY InitGood
<1>2. Good(ll) /\ [Next]_ll => Good(ll)'
  BY NextGood
<1>3. Good(ll) => LossCounted
  BY DEF Good, ReceiverOK, Counts, Numbered, LossCounted
<1> QED
  BY <1>1, <1>2, <1>3, PTL DEF Spec

=============================================================================

----------------------------- MODULE LegBucket ------------------------------
(***************************************************************************)
(* The rate limit of a network leg (Link_Send, Leg_Try_Send_Buffered and   *)
(* Fill_Leg_Bucket of daemon/link.c): a leaky bucket of bytes that a       *)
(* packet needs to leave at once, and a buffer for those that wait.  Time  *)
(* is counted in units in which Leg_Rate bytes may be sent; a packet is    *)
(* its number and its size.                                                *)
(***************************************************************************)
EXTENDS Integers, Sequences, FiniteSets

CONSTANTS Leg_Rate,           \* bytes of a unit of time
          leg_bucket_to,      \* time between two fillings
          MAX_PACKET_SIZE,
          Sizes,              \* sizes of packets
          MaxPackets, MaxTime \* bounds: packets sent, clock

VARIABLE lb

(* As set by Init_Network; the number of packets that may wait is the        *)
(* capacity in bytes.                                                        *)
Leg_Bucket_Cap   == Leg_Rate * leg_bucket_to + MAX_PACKET_SIZE
Leg_Max_Buffered == Leg_Bucket_Cap

(* Create_Network_Leg.  "spent" and "dropped" are history. *)
Init ==
  lb = [bytes |-> Leg_Bucket_Cap, last_filled |-> 0, due |-> leg_bucket_to,
        buf |-> <<>>, now |-> 0, next |-> 1, sent |-> <<>>, dropped |-> {}, spent |-> 0]

Leave(l, p) == [l EXCEPT !.sent = Append(@, p.id), !.bytes = @ - p.size, !.spent = @ + p.size]

(* Leg_Try_Send_Buffered: the packets at the head of the buffer that the     *)
(* bucket pays for.                                                          *)
Total(q, n) == LET sum[i \in 0 .. n] == IF i = 0 THEN 0 ELSE sum[i - 1] + q[i].size IN sum[n]
Paid(l) == CHOOSE n \in 0 .. Len(l.buf) :
             /\ Total(l.buf, n) <= l.bytes
             /\ n < Len(l.buf) => Total(l.buf, n + 1) > l.bytes
Leg_Try_Send_Buffered(l) ==
  LET n == Paid(l)
  IN  [l EXCEPT !.sent = @ \o [i \in 1 .. n |-> l.buf[i].id], !.bytes = @ - Total(l.buf, n),
                !.spent = @ + Total(l.buf, n), !.buf = SubSeq(@, n + 1, Len(@))]

(* Link_Send: dropped if the buffer is full, sent at once if nothing waits   *)
(* and the bucket pays for it, buffered otherwise.                           *)
Link_Send(size) ==
  /\ lb.next <= MaxPackets
  /\ LET p == [id |-> lb.next, size |-> size]
         l == [lb EXCEPT !.next = @ + 1]
     IN  lb' = IF Len(l.buf) >= Leg_Max_Buffered THEN [l EXCEPT !.dropped = @ \cup {p.id}]
               ELSE IF l.buf = <<>> /\ size <= l.bytes THEN Leave(l, p)
               ELSE Leg_Try_Send_Buffered([l EXCEPT !.buf = Append(@, p)])

(* Fill_Leg_Bucket.  A bucket that is full is left alone, last_filled        *)
(* included: the time it stayed full is paid out after the next packet.      *)
Filled(l) ==
  LET sum == l.bytes + Leg_Rate * (l.now - l.last_filled)
  IN  [l EXCEPT !.bytes = IF sum > Leg_Bucket_Cap THEN Leg_Bucket_Cap ELSE sum,
                !.last_filled = l.now]

Fill_Leg_Bucket ==
  /\ lb.now >= lb.due
  /\ LET l == [lb EXCEPT !.due = lb.now + leg_bucket_to]
         f == Filled(l)
     IN  lb' = IF l.bytes = Leg_Bucket_Cap THEN l
               ELSE IF f.buf # <<>> /\ f.bytes > 0 THEN Leg_Try_Send_Buffered(f) ELSE f

(* The event queue may call Fill_Leg_Bucket later than asked for. *)
Tick == lb.now < MaxTime /\ lb' = [lb EXCEPT !.now = @ + 1]

Next == (\E size \in Sizes : Link_Send(size)) \/ Fill_Leg_Bucket \/ Tick

-----------------------------------------------------------------------------
Pending == {lb.buf[i].id : i \in 1 .. Len(lb.buf)}
Gone == {lb.sent[i] : i \in 1 .. Len(lb.sent)}

(* The bucket does not lose, repeat or reorder packets: but for those that   *)
(* found the buffer full, packets leave in the order of Link_Send, none      *)
(* overtakes one that waits, and none waits that the bucket pays for; and    *)
(* from the start on no more leaves than the rate and one bucket allow.      *)
RateKept ==
  /\ \A i, j \in 1 .. Len(lb.sent) : i < j => lb.sent[i] < lb.sent[j]
  /\ \A p \in Pending, q \in Gone : q < p
  /\ Gone \cup Pending \cup lb.dropped = 1 .. lb.next - 1
  /\ lb.buf # <<>> => lb.buf[1].size > lb.bytes
  /\ lb.bytes \in 0 .. Leg_Bucket_Cap
  /\ lb.spent <= Leg_Bucket_Cap + Leg_Rate * lb.now
=============================================================================

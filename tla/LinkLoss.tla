------------------------------ MODULE LinkLoss ------------------------------
(***************************************************************************)
(* How the receiving end of a link measures loss (Set_Loss_SeqNo and       *)
(* Check_Link_Loss of daemon/link.c, and the reset by Process_hello_packet *)
(* of daemon/hello.c): packets are numbered 0 .. PACK_MAX_SEQ - 1 and      *)
(* again, and every number that is skipped is taken for a lost packet.     *)
(* The decaying estimate is abstracted to the packets that were counted    *)
(* as lost and as received.  The network loses, duplicates and reorders.   *)
(***************************************************************************)
EXTENDS Integers, FiniteSets

CONSTANTS PACK_MAX_SEQ,
          MaxPackets,   \* bound: packets sent
          MaxAhead      \* bound: how far the sender is ahead of the receiver and
                        \* of the oldest packet in flight, under half a round

VARIABLE ll

Reset == PACK_MAX_SEQ + 1

(* Create_Link on both ends; kind says whether this is the control link.  A  *)
(* packet of another link is dropped until a hello has named the session.    *)
Init ==
  \E kind \in {"CONTROL_LINK", "UDP_LINK"} :
    ll = [kind |-> kind, my_seq |-> PACK_MAX_SEQ, recvd_seq |-> 0, begun |-> FALSE,
          next |-> 1, net |-> {}, first |-> 0, head |-> 0, received |-> 0, lost |-> 0]

(* Set_Loss_SeqNo *)
NextSeq(seq) == IF seq + 1 >= PACK_MAX_SEQ THEN 0 ELSE seq + 1

Send ==
  /\ ll.next <= MaxPackets
  /\ ll.begun => ll.next - ll.head <= MaxAhead
  /\ \A p \in ll.net : ll.next - p.id <= MaxAhead
  /\ ll' = [ll EXCEPT !.my_seq = NextSeq(@), !.next = @ + 1,
                      !.net = @ \cup {[seq |-> NextSeq(ll.my_seq), id |-> ll.next]}]

(* The test for a reordered or duplicate packet in Check_Link_Loss. *)
Reordered(seq, head) ==
  \/ seq <= head /\ head - seq < PACK_MAX_SEQ - head + seq
  \/ seq > head /\ PACK_MAX_SEQ - seq + head < seq - head

(* The numbers its loop goes through before it meets seq. *)
Gap(seq, head) == (seq - head - 1) % PACK_MAX_SEQ

(* Check_Link_Loss of packet p. *)
Check_Link_Loss(l, p) ==
  IF l.recvd_seq = Reset
  THEN [l EXCEPT !.recvd_seq = p.seq, !.first = p.id, !.head = p.id]
  ELSE IF Reordered(p.seq, l.recvd_seq) THEN l
  ELSE [l EXCEPT !.recvd_seq = p.seq, !.head = p.id, !.received = @ + 1,
                 !.lost = @ + Gap(p.seq, l.recvd_seq)]

(* The hello that begins a session: the number of the control link is taken  *)
(* from it, those of the other links are to be taken from their next packet. *)
Begin(l, seq, id) ==
  IF l.kind = "CONTROL_LINK"
  THEN [l EXCEPT !.begun = TRUE, !.recvd_seq = seq, !.first = id, !.head = id]
  ELSE [l EXCEPT !.begun = TRUE, !.recvd_seq = Reset, !.head = l.next - 1]

(* A packet arrives, and may arrive again. *)
Receive(p) ==
  \E left \in {ll.net, ll.net \ {p}} :
    LET l == [ll EXCEPT !.net = left]
    IN  ll' = IF l.kind = "CONTROL_LINK"
              THEN Check_Link_Loss(IF l.begun THEN l ELSE Begin(l, p.seq, p.id), p)
              ELSE IF l.begun THEN Check_Link_Loss(l, p) ELSE l

Hello == ll.kind = "UDP_LINK" /\ ~ll.begun /\ ll' = Begin(ll, 0, 0)
Lose == \E p \in ll.net : ll' = [ll EXCEPT !.net = @ \ {p}]

Next == Send \/ (\E p \in ll.net : Receive(p)) \/ Hello \/ Lose

Spec == Init /\ [][Next]_ll

-----------------------------------------------------------------------------
(* The loss reported to the neighbor, which sets the cost of the edge, is    *)
(* the true one: each packet sent after the first that was noticed, up to    *)
(* the latest, is counted once, as received or as lost, through the wraps of *)
(* the numbers and whatever comes late or twice.                             *)
LossCounted ==
  ll.begun /\ ll.first > 0 => /\ ll.received + ll.lost = ll.head - ll.first
                              /\ ll.recvd_seq = (ll.head - 1) % PACK_MAX_SEQ
=============================================================================

---------------------------- MODULE RealtimeLink ----------------------------
(***************************************************************************)
(* The real-time link (daemon/realtime_udp.c): packets are kept for        *)
(* HISTORY_TIME and resent once when the receiver misses them.  Both ends  *)
(* of one direction are one record `rt': the sender's window of packets,   *)
(* the receiver's window of flags, and the datagrams between them, which   *)
(* the network may lose, duplicate and reorder.  A packet's payload is the *)
(* number of the Forward_RT_UDP_Data call that made it.                    *)
(***************************************************************************)
EXTENDS Integers, Sequences, FiniteSets, FiniteSetsExt, SequencesExt

CONSTANTS MAX_HISTORY, HISTORY_TIME, MAX_BUCKET, RT_RETRANSM_TOK,
          MAX_NACKS,                     \* what the nack buffer holds
          MaxPackets, MaxTime, MaxNet    \* bounds: packets, clock, datagrams in flight

VARIABLE rt

NULL == -1
Cells == 0 .. MAX_HISTORY - 1
Cell(seq) == seq % MAX_HISTORY

(* The REALTIME_UDP_LINK part of Create_Link.                                *)
Init ==
  rt = [head |-> 0, tail |-> 0, window |-> [c \in Cells |-> [buff |-> NULL, timestamp |-> 0]],
        bucket |-> 0, retransm |-> {},
        recv_head |-> 0, recv_tail |-> 0,
        recv_window |-> [c \in Cells |-> [flags |-> "EMPTY_CELL", timestamp |-> 0]],
        nacks |-> <<>>, queued |-> {},
        data |-> {}, asked |-> {}, now |-> 0,
        delivered |-> {}, repeated |-> {}, refused |-> {}, broken |-> FALSE]

-----------------------------------------------------------------------------
(* The loop at the head of Forward_RT_UDP_Data, of Send_RT_Retransm and in    *)
(* Clean_RT_history: the packets older than HISTORY_TIME are released.        *)
FirstYoung(r) ==
  LET young == {s \in r.tail .. r.head - 1 :
                  r.now - r.window[Cell(s)].timestamp <= HISTORY_TIME}
  IN  IF young = {} THEN r.head ELSE Min(young)

Release(r, upTo) ==
  [r EXCEPT !.tail = upTo,
            !.window = [c \in Cells |-> IF \E s \in r.tail .. upTo - 1 : Cell(s) = c
                                        THEN [@[c] EXCEPT !.buff = NULL] ELSE @[c]]]

Clean_RT_history(r) == Release(r, FirstYoung(r))

(* A full window gives up its oldest packet.  The assertion of the code is     *)
(* kept in "broken".                                                           *)
MakeRoom(r) ==
  IF r.head - r.tail >= MAX_HISTORY
  THEN [Release(r, r.tail + 1) EXCEPT !.broken = @ \/ r.head - r.tail # MAX_HISTORY]
  ELSE r

(* Forward_RT_UDP_Data.  A send that fails is a datagram that is lost.         *)
Forward_RT_UDP_Data ==
  /\ rt.head < MaxPackets /\ Cardinality(rt.data) < MaxNet
  /\ LET r == MakeRoom(Clean_RT_history(rt))
     IN  rt' = [r EXCEPT !.window[Cell(r.head)] = [buff |-> r.head, timestamp |-> r.now],
                         !.head = @ + 1, !.bucket = IF @ < MAX_BUCKET THEN @ + 1 ELSE @,
                         !.data = @ \cup {<<r.head, r.head>>}]

(* Process_RT_nack_packet: a new request replaces the one not yet served.      *)
Process_RT_nack_packet ==
  \E req \in rt.asked :
    rt' = [rt EXCEPT !.asked = @ \ {req}, !.retransm = {req},
                     !.queued = @ \cup {"Send_RT_Retransm"}]

(* Send_RT_Retransm.  The packets of the request are sent in turn while there *)
(* are tokens; the ones that have left the window are passed over.            *)
Sendable(r, seq) == seq < r.head /\ seq >= r.tail

Send_RT_Retransm ==
  /\ "Send_RT_Retransm" \in rt.queued
  /\ LET r == Clean_RT_history(rt)
         want == IF r.retransm = {} THEN <<>>
                 ELSE SelectSeq(CHOOSE q \in r.retransm : TRUE, LAMBDA s : Sendable(r, s))
         n == Min({Len(want), r.bucket \div RT_RETRANSM_TOK})
         new == {<<want[i], r.window[Cell(want[i])].buff>> : i \in 1 .. n}
     IN  IF rt.retransm = {} THEN rt' = [rt EXCEPT !.queued = @ \ {"Send_RT_Retransm"}]
         ELSE /\ Cardinality(r.data \cup new) <= MaxNet
              /\ rt' = [r EXCEPT !.queued = @ \ {"Send_RT_Retransm"},
                                 !.bucket = @ - n * RT_RETRANSM_TOK,
                                 !.data = @ \cup new, !.retransm = {}]

(* Clean_RT_history, called for each hello.                                   *)
Clean == rt' = Clean_RT_history(rt)

-----------------------------------------------------------------------------
(* Process_RT_UDP_data_packet.                                                *)
TooOld(r, seq) == seq < r.recv_tail
Known(r, seq) == seq < r.recv_head /\ r.recv_window[Cell(seq)].flags # "EMPTY_CELL"

(* The cells that were filled too long ago are emptied, and the tail moves    *)
(* past them and past the gaps between them.                                  *)
RECURSIVE Forget(_)
Forget(r) ==
  LET full == {s \in r.recv_tail .. r.recv_head - 1 :
                 r.recv_window[Cell(s)].flags # "EMPTY_CELL"}
      i == Min(full)
  IN  IF full = {} THEN r
      ELSE IF r.now - r.recv_window[Cell(i)].timestamp <= HISTORY_TIME THEN r
      ELSE Forget([r EXCEPT !.recv_window[Cell(i)].flags = "EMPTY_CELL", !.recv_tail = i + 1])

(* Mutant: the cells that the window skips keep what they held. *)
AdvanceKeepingSkipped(r, seq) ==
  LET tail == Max({r.recv_tail, seq - MAX_HISTORY + 1})
      gap == [k \in 1 .. seq - r.recv_head |-> r.recv_head + k - 1]
      room == Min({Len(gap), MAX_NACKS - Len(r.nacks)})
      nacks == r.nacks \o SubSeq(gap, 1, room)
  IN  [r EXCEPT !.recv_tail = tail, !.nacks = nacks, !.recv_head = seq + 1,
                !.queued = IF nacks # <<>> THEN @ \cup {"Send_RT_Nack"} ELSE @]

(* A packet above all others moves the window: the cells that fall out of it  *)
(* and the ones it skips are emptied, and the skipped ones are asked for.     *)
Advance(r, seq) ==
  LET tail == Max({r.recv_tail, seq - MAX_HISTORY + 1})
      gap == [k \in 1 .. seq - r.recv_head |-> r.recv_head + k - 1]
      emptied == (r.recv_tail .. tail - 1) \cup (r.recv_head .. seq - 1)
      room == Min({Len(gap), MAX_NACKS - Len(r.nacks)})
      nacks == r.nacks \o SubSeq(gap, 1, room)
  IN  [r EXCEPT !.recv_tail = tail, !.nacks = nacks, !.recv_head = seq + 1,
                !.recv_window = [c \in Cells |-> IF \E s \in emptied : Cell(s) = c
                                                 THEN [@[c] EXCEPT !.flags = "EMPTY_CELL"] ELSE @[c]],
                !.queued = IF nacks # <<>> THEN @ \cup {"Send_RT_Nack"} ELSE @]

Accept(r, seq, payload) ==
  LET f == Forget(r)
      w == IF seq >= f.recv_head THEN Advance(f, seq) ELSE f
  IN  [w EXCEPT !.recv_window[Cell(seq)] = [flags |-> "RECVD_CELL", timestamp |-> w.now],
                !.delivered = @ \cup {<<seq, payload>>},
                !.repeated = IF \E d \in w.delivered : d[1] = seq THEN @ \cup {seq} ELSE @]

Process_RT_UDP_data_packet ==
  \E d \in rt.data, again \in BOOLEAN :
    LET r == IF again THEN rt ELSE [rt EXCEPT !.data = @ \ {d}]
    IN  rt' = IF TooOld(r, d[1]) THEN r
              ELSE IF Known(r, d[1]) THEN [r EXCEPT !.refused = @ \cup {d[1]}]
              ELSE Accept(r, d[1], d[2])

(* Send_RT_Nack.                                                              *)
Send_RT_Nack ==
  /\ "Send_RT_Nack" \in rt.queued
  /\ rt' = [rt EXCEPT !.queued = @ \ {"Send_RT_Nack"}, !.nacks = <<>>,
                      !.asked = {rt.nacks}]

(* The network loses a datagram; time passes.                                 *)
LoseData == \E d \in rt.data : rt' = [rt EXCEPT !.data = @ \ {d}]
LoseNack == \E req \in rt.asked : rt' = [rt EXCEPT !.asked = @ \ {req}]
Tick == rt.now < MaxTime /\ rt' = [rt EXCEPT !.now = @ + 1]

Next == \/ Forward_RT_UDP_Data \/ Process_RT_nack_packet \/ Send_RT_Retransm \/ Clean
        \/ Process_RT_UDP_data_packet \/ Send_RT_Nack \/ LoseData \/ LoseNack \/ Tick

Spec == Init /\ [][Next]_rt

-----------------------------------------------------------------------------
(* What leaves the link is what entered it under the same number, once at     *)
(* most, however often a packet is resent or duplicated and however the       *)
(* windows moved meanwhile; and a packet is taken for a duplicate only when   *)
(* it was delivered.  (Cells are reused modulo MAX_HISTORY by both ends.)     *)
OnceAndGenuine ==
  /\ \A d \in rt.delivered : d[1] = d[2]
  /\ rt.repeated = {}
  /\ \A s \in rt.refused : <<s, s>> \in rt.delivered
  /\ ~rt.broken
=============================================================================

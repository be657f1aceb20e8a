--------------------------- MODULE PriorityFlood ---------------------------
(***************************************************************************)
(* Priority flooding at one daemon (daemon/priority_flood.c): each message *)
(* is remembered until it expires, and waits in a queue per neighbor,      *)
(* source and priority.  When the messages for a neighbor take too much    *)
(* room the source that uses most loses its oldest message of the lowest   *)
(* priority; the sources that wait for a neighbor take turns.              *)
(*                                                                         *)
(* The messages that may come are listed in Mail: their source and its     *)
(* incarnation, priority, length in packets, time of expiry, the neighbors *)
(* on their dissemination graph and whether they are for this daemon only. *)
(* Edges are undirected, so a neighbor that sends a message is on its      *)
(* graph.                                                                  *)
(***************************************************************************)
EXTENDS Integers, Sequences, FiniteSets, SequencesExt

CONSTANTS Near,              \* the neighbors
          Mail, Client,      \* the messages; this daemon as a source
          MAX_PRIORITY, Max_Mess_Stored,
          MaxTime,           \* bound: the clock
          Bursts             \* how many messages a link may take at once, and
                             \* whether the next send fails or finds no room

VARIABLE hold                \* Belly, Edge_Data, Node_Incarnation, clock, deliveries

Letters == DOMAIN Mail
Senders == {Mail[i].src : i \in Letters}
Levels == 1 .. MAX_PRIORITY

(* Init_Priority_Flooding.  "flag" has the messages of the Belly: what each  *)
(* neighbor still needs.                                                     *)
Init ==
  hold = [flag |-> [i \in {} |-> "NONE"], time |-> 0, incarnation |-> [s \in Senders |-> 0],
          delivered |-> [i \in Letters |-> 0], exit |-> FALSE,
          edge |-> [n \in Near |->
            [pq |-> [s \in Senders |-> [p \in Levels |-> <<>>]], msg_count |-> [s \in Senders |-> 0],
             total_msg |-> 0, max_pq |-> [s \in Senders |-> 0],
             min_pq |-> [s \in Senders |-> MAX_PRIORITY + 1],
             in_send_queue |-> {}, urgent |-> <<>>, norm |-> <<>>]]]

Expired(h, i) == Mail[i].expire <= h.time
need_count(h, i) == Cardinality({n \in Near : h.flag[i][n] = "NEED_MSG"})

-----------------------------------------------------------------------------
(* Mutant: the range of priorities in use is not narrowed. *)
UnqueueKeepsBounds(e, i) ==
  LET m == Mail[i]
  IN  [e EXCEPT !.pq[m.src][m.prio] = SelectSeq(@, LAMBDA k : k # i),
                !.msg_count[m.src] = @ - m.size, !.total_msg = @ - m.size]

(* Cleanup_prio_flood_ds: message i leaves the queue of the neighbors in S.  *)
(* The bounds of the priorities in use are followed when the last message of *)
(* a level goes.                                                             *)
Unqueue(e, i) ==
  LET m == Mail[i]
      last == e.pq[m.src][m.prio][Len(e.pq[m.src][m.prio])] = i
      f == [e EXCEPT !.pq[m.src][m.prio] = SelectSeq(@, LAMBDA k : k # i),
                     !.msg_count[m.src] = @ - m.size, !.total_msg = @ - m.size]
      used == {p \in Levels : f.pq[m.src][p] # <<>>}
      below == {p \in used : p <= e.max_pq[m.src]}
      above == {p \in used : p >= e.min_pq[m.src]}
  IN  IF ~last THEN f
      ELSE IF f.msg_count[m.src] = 0
           THEN [f EXCEPT !.max_pq[m.src] = 0, !.min_pq[m.src] = MAX_PRIORITY + 1]
      ELSE [f EXCEPT !.max_pq[m.src] = IF below = {} THEN 0 ELSE CHOOSE p \in below : \A q \in below : q <= p,
                     !.min_pq[m.src] = IF above = {} THEN MAX_PRIORITY + 1
                                       ELSE CHOOSE p \in above : \A q \in above : p <= q]

Cleanup(h, S, i, why) ==
  LET T == {n \in S : h.flag[i][n] = "NEED_MSG"}
  IN  [h EXCEPT !.edge = [n \in Near |-> IF n \in T THEN Unqueue(@[n], i) ELSE @[n]],
                !.flag[i] = [n \in Near |-> IF n \in T THEN why ELSE @[n]]]

(* Priority_Flood_Send_One for neighbor n, when the link has room; "ok" is   *)
(* whether Forward_Data succeeds.  The sources take turns: the urgent ones   *)
(* first, then the others; each pays with a penalty for the packets it has   *)
(* sent.  After a failure the source keeps its place and its penalty.        *)
RECURSIVE Send_One(_, _, _)
Send_One(h, n, ok) ==
  LET e == h.edge[n]
      urgent == e.urgent # <<>>
      q == [Head(IF urgent THEN e.urgent ELSE e.norm) EXCEPT !.penalty = @ - 1]
      rest == IF urgent THEN Tail(e.urgent) ELSE Tail(e.norm)
      idle == e.msg_count[q.src] = 0
      i == Head(e.pq[q.src][e.max_pq[q.src]])
      first(p) == IF urgent THEN [e EXCEPT !.urgent = <<p>> \o rest] ELSE [e EXCEPT !.norm = <<p>> \o rest]
      toNorm(p) == IF urgent THEN [e EXCEPT !.urgent = rest, !.norm = Append(@, p)]
                   ELSE [e EXCEPT !.norm = Append(rest, p)]
      now(f) == [h EXCEPT !.edge[n] = f]
  IN  IF e.urgent = <<>> /\ e.norm = <<>> THEN h
      ELSE IF q.penalty > 0 \/ (urgent /\ idle) THEN Send_One(now(toNorm(q)), n, ok)
      ELSE IF idle
           THEN Send_One(now([e EXCEPT !.norm = rest, !.in_send_queue = @ \ {q.src}]), n, ok)
      ELSE IF Expired(h, i)
           THEN Send_One(Cleanup(now(first([q EXCEPT !.penalty = 1])), Near, i, "EXPIRED_MSG"), n, ok)
      ELSE IF ~ok THEN now(first([q EXCEPT !.penalty = @ + 1]))
      ELSE Cleanup(now(toNorm([q EXCEPT !.penalty = Mail[i].size])), {n}, i, "ON_LINK_MSG")

(* As long as sources wait and the link has room for one of "room" messages, *)
(* another message goes out; then the link is full or a send fails.          *)
RECURSIVE Send_While(_, _, _, _)
Send_While(h, n, room, fails) ==
  IF h.edge[n].urgent = <<>> /\ h.edge[n].norm = <<>> THEN h
  ELSE IF room > 0 THEN Send_While(Send_One(h, n, TRUE), n, room - 1, fails)
  ELSE IF fails THEN Send_One(h, n, FALSE) ELSE h

(* Priority_Flood_Disseminate: message i waits for neighbor n. *)
Queue(e, i) ==
  LET m == Mail[i]
      new == m.src \notin e.in_send_queue
  IN  [e EXCEPT !.pq[m.src][m.prio] = Append(@, i),
                !.urgent = IF new THEN Append(@, [src |-> m.src, penalty |-> 1]) ELSE @,
                !.in_send_queue = @ \cup {m.src},
                !.msg_count[m.src] = @ + m.size, !.total_msg = @ + m.size,
                !.max_pq[m.src] = IF m.prio > @ THEN m.prio ELSE @,
                !.min_pq[m.src] = IF m.prio < @ THEN m.prio ELSE @]

(* The source that uses most loses a message.  MAX_NODES numbers the         *)
(* sources: of two that use as much it is the first.                         *)
Hogs(e) == {s \in Senders : \A t \in Senders : e.msg_count[t] <= e.msg_count[s]}
Shed(h, n) ==
  LET e == h.edge[n]
      hog == CHOOSE s \in Hogs(e) : \A t \in Hogs(e) : s <= t
  IN  IF e.total_msg > Max_Mess_Stored
      THEN Cleanup(h, {n}, Head(e.pq[hog][e.min_pq[hog]]), "DROPPED_MSG") ELSE h

(* What becomes of message i at neighbor n. *)
Offer(h, n, i, from, out) ==
  LET m == Mail[i]
      done(f) == [h EXCEPT !.flag[i][n] = f]
      q == [done("NEED_MSG") EXCEPT !.edge[n] = Queue(@, i)]
  IN  IF n = from \/ n = m.src THEN done("RECV_MSG")
      ELSE IF n \notin m.mask THEN done("NOT_IN_MASK")
      ELSE IF m.mine THEN done("DROPPED_MSG")
      ELSE Shed(Send_While(q, n, out[n].room, out[n].fails), n)

(* The first copy of a message; out[n] is what the link to n takes. *)
First(h, i, from, out) ==
  LET order == SetToSeq(Near)
      b == [h EXCEPT !.flag = [k \in DOMAIN @ \cup {i} |->
                                 IF k = i THEN [n \in Near |-> "NONE"] ELSE @[k]],
                     !.delivered[i] = @ + 1]
  IN  FoldLeft(LAMBDA g, n : Offer(g, n, i, from, out), b, order)

(* Another copy, from a neighbor: it need not be sent there. *)
Duplicate(h, i, from) ==
  IF from = Client \/ need_count(h, i) = 0 THEN h
  ELSE CASE h.flag[i][from] = "NEED_MSG" -> Cleanup(h, {from}, i, "RECV_MSG")
         [] h.flag[i][from] \in {"RECV_MSG", "DROPPED_MSG", "EXPIRED_MSG", "ON_LINK_MSG"} -> h
         [] OTHER -> [h EXCEPT !.exit = TRUE]

Arrive(i, from) ==
  LET m == Mail[i]
      g == [hold EXCEPT !.incarnation[m.src] = m.inc]
  IN  /\ IF from = Client THEN m.src = Client ELSE m.src # Client /\ (from \in m.mask \/ from = m.src)
      /\ IF m.inc < hold.incarnation[m.src] THEN UNCHANGED hold
         ELSE IF i \in DOMAIN hold.flag THEN hold' = Duplicate(g, i, from)
         ELSE IF Expired(g, i) THEN hold' = g
         ELSE \E out \in [Near -> Bursts] : hold' = First(g, i, from, out)

(* A copy of a client's message comes back from a neighbor. *)
ComesBack(i, from) ==
  /\ Mail[i].src = Client /\ from \in Mail[i].mask
  /\ i \in DOMAIN hold.flag
  /\ hold' = Duplicate(hold, i, from)

(* The link asks for a message. *)
Resources(n) == \E ok \in BOOLEAN : hold' = Send_One(hold, n, ok)

(* Priority_Garbage_Collect forgets what has expired. *)
Garbage_Collect ==
  LET gone == {i \in DOMAIN hold.flag : Expired(hold, i)}
      h == FoldLeft(LAMBDA g, i : Cleanup(g, Near, i, "EXPIRED_MSG"), hold, SetToSeq(gone))
  IN  hold' = [h EXCEPT !.flag = [i \in DOMAIN @ \ gone |-> @[i]]]

Tick == hold.time < MaxTime /\ hold' = [hold EXCEPT !.time = @ + 1]

Next ==
  \/ \E i \in Letters, from \in Near \cup {Client} : Arrive(i, from)
  \/ \E i \in Letters, n \in Near : ComesBack(i, n)
  \/ \E n \in Near : Resources(n)
  \/ Garbage_Collect
  \/ Tick

Spec == Init /\ [][Next]_hold

-----------------------------------------------------------------------------
QueuedFor(e) == {r.src : r \in ToSet(e.urgent) \cup ToSet(e.norm)}

(* The queues, counts and bounds of priority_flood.c describe the same       *)
(* messages, whatever is sent, dropped, expired or collected in between: a   *)
(* message is queued for the neighbors that need it and counted once; the    *)
(* highest and lowest level in use are the ends of what is queued; a source  *)
(* with messages for a neighbor has its turn coming; and no message is       *)
(* delivered to the clients twice or makes the daemon exit.                  *)
QueuesAgree ==
  /\ ~hold.exit
  /\ \A i \in Letters : hold.delivered[i] <= 1
  /\ \A n \in Near, s \in Senders :
       LET e == hold.edge[n]
           mine == {i \in DOMAIN hold.flag : Mail[i].src = s /\ hold.flag[i][n] = "NEED_MSG"}
           used == {Mail[i].prio : i \in mine}
       IN  /\ \A p \in Levels : /\ ToSet(e.pq[s][p]) = {i \in mine : Mail[i].prio = p}
                                /\ Len(e.pq[s][p]) = Cardinality(ToSet(e.pq[s][p]))
           /\ e.msg_count[s] = FoldLeft(LAMBDA a, i : a + Mail[i].size, 0, SetToSeq(mine))
           /\ \A p \in used : e.min_pq[s] <= p /\ p <= e.max_pq[s]
           /\ used # {} => {e.min_pq[s], e.max_pq[s]} \subseteq used /\ s \in e.in_send_queue
           /\ e.in_send_queue = QueuedFor(e)
=============================================================================

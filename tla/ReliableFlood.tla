--------------------------- MODULE ReliableFlood ---------------------------
(***************************************************************************)
(* Reliable flooding (daemon/reliable_flood.c): the flow from one source   *)
(* to one destination over the intrusion-tolerant links of the overlay.    *)
(* Every daemon holds the messages of the flow until an end-to-end         *)
(* acknowledgement of the destination covers them.  The same               *)
(* acknowledgements carry the epochs with which the two ends start over    *)
(* after one of them restarts.                                             *)
(*                                                                         *)
(* A directed link delivers in order and exactly once from the time the    *)
(* sender has seen the present incarnation of its neighbor (the promise of *)
(* IntrusionTolLink); before that what it sends is lost.  The default      *)
(* configuration is modelled: HBH_Opt = 1, HBH_Advance = 0, E2E_Opt = 1.   *)
(***************************************************************************)
EXTENDS Integers, Sequences, FiniteSets

CONSTANTS Daemon, Source, Destination,
          Wire,                \* the edges, sets of two daemons
          Routings,            \* dissemination masks (sets of edges), by their growth
          Failing,             \* the daemons whose Forward_Data may fail
          MAX_MESS_PER_FLOW,
          MaxMessages,         \* bound: messages the client sends
          MaxClock,            \* bound: 1 + restarts; the time in seconds
          MaxQueue             \* bound: messages on a directed link

ASSUME FlowAssumption == {Source, Destination} \subseteq Daemon /\ Source # Destination
ASSUME RoomAssumption == MAX_MESS_PER_FLOW \in Nat \ {0}
ASSUME RoutingAssumption == Routings # <<>> /\ Routings \in Seq(SUBSET Wire)

VARIABLES node,                \* node[n]: the flow, and RF_Edge_Data, at daemon n
          link,                \* link[<<n, j>>]: messages on the way from n to j
          fresh,               \* directed links whose Neighbor_Transfer is due
          world                \* clock, routing, messages given and delivered

relvars == <<node, link, fresh, world>>

FlowEnds == {Source, Destination}
Ngbrs(n) == {j \in Daemon : {n, j} \in Wire}
Directed == {l \in Daemon \X Daemon : {l[1], l[2]} \in Wire}
Cells == 0 .. MAX_MESS_PER_FLOW - 1
Index(seq) == seq % MAX_MESS_PER_FLOW
NoMsg == [seq |-> 0, epoch |-> 0, load |-> 0, mask |-> {}]
NoAck == [epoch |-> 0, aru |-> 0, sow |-> 0]
SENT == {"NEW_SENT", "RESTAMPED_SENT"}
Opposite(x) == CHOOSE y \in FlowEnds : y # x
Larger(a, b) == IF a > b THEN a ELSE b
Smaller(a, b) == IF a < b THEN a ELSE b

(* Init_Reliable_Flooding in the second "now".  Of the cells of an E2E only  *)
(* the one of the other end matters for this flow.  The first Gen_E2E event  *)
(* has mode -1: it only clears Initial_E2E.                                  *)
FreshNode(n, now) ==
  [epoch |-> 0, sow |-> 1, head |-> 1, next |-> [j \in Ngbrs(n) |-> 1],
   msg |-> [c \in Cells |-> NoMsg], status |-> [c \in Cells |-> [j \in Ngbrs(n) |-> "EMPTY"]],
   e2e |-> [x \in FlowEnds |-> [de |-> IF x = n THEN now ELSE 0, se |-> 0, aru |-> 0, known |-> x = n]],
   handshake |-> FALSE, flow_epoch |-> now, flow_seq |-> 1, initial |-> FALSE, gen |-> FALSE,
   edge |-> [j \in Ngbrs(n) |-> [aru |-> 0, sow |-> 1, queued |-> FALSE, hbh |-> FALSE,
                                  unsent |-> {}, block |-> FALSE]],
   exit |-> FALSE]

World == [clock |-> 1, route |-> 1, given |-> 0, delivered |-> <<>>, seen |-> [p \in {} |-> 0]]

FlowInit ==
  /\ node = [n \in Daemon |-> FreshNode(n, 1)]
  /\ link = [l \in Directed |-> <<>>]
  /\ fresh = Directed
  /\ world = World

(* The state at rest after the start: every daemon has both E2Es, which      *)
(* acknowledge each other's epochs.  The larger instances begin here.        *)
Settled ==
  /\ node = [n \in Daemon |->
       [FreshNode(n, 1) EXCEPT !.epoch = 1, !.handshake = n \in FlowEnds,
          !.e2e = [x \in FlowEnds |-> [de |-> 1, se |-> 1, aru |-> 0, known |-> TRUE]]]]
  /\ link = [l \in Directed |-> <<>>]
  /\ fresh = {}
  /\ world = World

-----------------------------------------------------------------------------
(* The flow buffer. *)

(* The loop that moves next_seq over what need not be sent. *)
Advance(v, j) ==
  LET open == {i \in v.next[j] .. v.head - 1 : v.status[Index(i)][j] \notin SENT}
  IN  [v EXCEPT !.next[j] = IF v.next[j] >= v.head THEN @
                            ELSE IF open = {} THEN v.head
                            ELSE CHOOSE i \in open : \A k \in open : i <= k]
AdvanceAll(n, v) == [v EXCEPT !.next = [j \in Ngbrs(n) |-> Advance(v, j).next[j]]]

On_Path(n, j, mask) == {n, j} \in mask

(* The flow waits for neighbor j, if the next message may go to it. *)
Requeue(n, v, j) ==
  IF ~v.edge[j].queued /\ v.next[j] < v.head /\ On_Path(n, j, v.msg[Index(v.next[j])].mask)
  THEN [v EXCEPT !.edge[j].queued = TRUE] ELSE v

(* Cells sow .. upto - 1 are freed. *)
Clean(n, v, upto) ==
  LET gone == {Index(i) : i \in v.sow .. upto - 1}
  IN  [v EXCEPT !.msg = [c \in Cells |-> IF c \in gone THEN NoMsg ELSE v.msg[c]],
                !.status = [c \in Cells |-> IF c \in gone THEN [j \in Ngbrs(n) |-> "EMPTY"] ELSE v.status[c]]]

(* A new epoch of either end empties the flow. *)
StartOver(n, v, cell) ==
  [v EXCEPT !.sow = cell.aru + 1, !.head = cell.aru + 1,
            !.next = [j \in Ngbrs(n) |-> cell.aru + 1], !.epoch = cell.se,
            !.edge = [j \in Ngbrs(n) |-> [v.edge[j] EXCEPT !.aru = cell.aru, !.sow = cell.aru + 1]]]

(* An end-to-end aru frees what the destination has. *)
Acknowledged(n, v, aru) ==
  LET c == [Clean(n, v, Smaller(aru + 1, v.head)) EXCEPT !.sow = Larger(@, aru + 1)]
      h == [c EXCEPT !.head = Larger(@, c.sow), !.next = [j \in Ngbrs(n) |-> Larger(c.next[j], c.sow)],
                     !.edge = [j \in Ngbrs(n) |-> [c.edge[j] EXCEPT !.aru = Larger(@, aru),
                                                                    !.sow = Larger(@, aru + 1)]]]
  IN  AdvanceAll(n, h)

(* Reliable_Flood_Process_Acks: a hop-by-hop ack of neighbor j. *)
Process_Acks(n, v, j, ack) ==
  LET raised  == [v EXCEPT !.edge[j].sow = Larger(@, ack.sow), !.edge[j].aru = Larger(@, ack.aru)]
      covered == {i \in v.next[j] .. Smaller(ack.aru, v.head - 1) : v.status[Index(i)][j] = "NEW_UNSENT"
                    /\ \A k \in v.next[j] .. i : v.status[Index(k)][j] \in SENT \cup {"NEW_UNSENT"}}
      skipped == IF v.edge[j].aru < ack.aru /\ v.next[j] <= ack.aru
                 THEN Advance([raised EXCEPT !.status =
                        [c \in Cells |-> IF c \in {Index(i) : i \in covered}
                                         THEN [v.status[c] EXCEPT ![j] = "NEW_SENT"] ELSE v.status[c]]], j)
                 ELSE raised
  IN  IF ack = NoAck \/ v.epoch # ack.epoch THEN v
      ELSE IF skipped.next[j] < skipped.edge[j].sow + MAX_MESS_PER_FLOW
           THEN Requeue(n, skipped, j) ELSE skipped

(* Reliable_Flood_Process_Data refuses another epoch, what is below the      *)
(* window, beyond the next message, or does not fit.                         *)
Acceptable(v, m) == m.epoch = v.epoch /\ m.epoch # 0 /\ m.seq >= v.sow /\ m.seq <= v.head

(* The message comes again with the mask it has: neighbor j has it. *)
Again(v, j, m) ==
  Advance([v EXCEPT !.status[Index(m.seq)][j] =
             IF @ = "NEW_UNSENT" THEN "NEW_SENT" ELSE IF @ = "RESTAMPED_UNSENT" THEN "RESTAMPED_SENT" ELSE @], j)

(* It is stored, to be sent to every neighbor but the one it came from and   *)
(* the source.                                                               *)
Store(n, v, from, m, restamped) ==
  LET status == [j \in Ngbrs(n) |->
                   IF j = from \/ j = Source
                   THEN IF restamped THEN "RESTAMPED_SENT" ELSE "NEW_SENT"
                   ELSE IF restamped THEN "RESTAMPED_UNSENT" ELSE "NEW_UNSENT"]
      s == [v EXCEPT !.msg[Index(m.seq)] = m, !.status[Index(m.seq)] = status,
                     !.next = [j \in Ngbrs(n) |-> IF restamped THEN Smaller(v.next[j], m.seq) ELSE v.next[j]]]
  IN  AdvanceAll(n, s)

(* What every edge notes: the aru of the hop it came from, or a place in the *)
(* urgent queue; and that a hop-by-hop ack is due.                           *)
Spread(n, v, from, m, restamped) ==
  [v EXCEPT !.edge = [j \in Ngbrs(n) |->
     LET e == IF j = from \/ j = Source THEN [v.edge[j] EXCEPT !.aru = Larger(@, m.seq)]
              ELSE IF v.next[j] = m.seq /\ On_Path(n, j, m.mask) THEN [v.edge[j] EXCEPT !.queued = TRUE]
              ELSE v.edge[j]
     IN  [e EXCEPT !.hbh = @ \/ ~restamped]]]

Process_Data(n, v, from, m) ==
  LET restamped == m.seq # v.head
      stored == v.msg[Index(m.seq)]
      h == IF restamped THEN v ELSE [v EXCEPT !.head = @ + 1]
      atEnd == [h EXCEPT !.sow = @ + 1, !.next = [j \in Ngbrs(n) |-> h.head], !.gen = TRUE]
  IN  IF ~Acceptable(v, m) THEN v
      ELSE IF restamped /\ stored = NoMsg THEN [v EXCEPT !.exit = TRUE]
      ELSE IF restamped /\ m.mask = stored.mask THEN IF from \in Ngbrs(n) THEN Again(v, from, m) ELSE v
      ELSE IF restamped /\ ~(stored.mask \subseteq m.mask) THEN v
      ELSE IF m.seq >= v.sow + MAX_MESS_PER_FLOW THEN v
      ELSE Spread(n, IF n = Destination THEN atEnd ELSE Store(n, h, from, m, restamped),
                  from, m, restamped)

Accepts(v, m) == Acceptable(v, m) /\ m.seq = v.head /\ m.seq < v.sow + MAX_MESS_PER_FLOW

-----------------------------------------------------------------------------
(* End-to-end acknowledgements. *)

Later(a, b) ==
  \/ a.de > b.de
  \/ a.de = b.de /\ (a.se > b.se \/ (a.se = b.se /\ a.aru > b.aru))

(* Mutant: the node goes on in its own epoch. *)
NewPeerEpochKeepsOwn(n, v, x, cell) ==
  LET mine == [v EXCEPT !.handshake = FALSE, !.e2e[n] = [@ EXCEPT !.se = cell.de, !.aru = 0],
                        !.initial = TRUE, !.gen = TRUE]
  IN  IF n # Destination THEN mine
      ELSE [mine EXCEPT !.sow = 1, !.head = 1, !.next = [j \in Ngbrs(n) |-> 1], !.epoch = cell.de]

(* A daemon that is an end of the flow meets a new epoch of the other end    *)
(* "x": it acknowledges that epoch, and starts over if it has sent anything. *)
NewPeerEpoch(n, v, x, cell) ==
  LET mine == [v EXCEPT !.handshake = FALSE,
                        !.flow_epoch = IF v.flow_seq > 1 THEN world.clock ELSE @,
                        !.flow_seq = 1,
                        !.e2e[n] = [v.e2e[n] EXCEPT !.de = IF v.flow_seq > 1 THEN world.clock ELSE @,
                                                     !.se = cell.de, !.aru = 0],
                        !.initial = TRUE, !.gen = TRUE]
  IN  IF n # Destination THEN mine
      ELSE [mine EXCEPT !.sow = 1, !.head = 1, !.next = [j \in Ngbrs(n) |-> 1], !.epoch = cell.de]

(* The destination's E2E changes the flow; the flow waits for the E2E on the *)
(* links to the other neighbors.                                             *)
ApplyE2E(n, v, from, old, cell) ==
  LET w == IF cell.de > old.de THEN StartOver(n, Clean(n, v, v.head), cell)
           ELSE IF cell.se > old.se THEN StartOver(n, v, cell)
           ELSE Acknowledged(n, v, cell.aru)
  IN  Requeue(n, [w EXCEPT !.edge = [j \in Ngbrs(n) |->
                    IF j = from THEN w.edge[j] ELSE [w.edge[j] EXCEPT !.block = TRUE]]], from)

(* Reliable_Flood_Process_E2E for the acknowledgement "cell" of end x. *)
Process_E2E(n, v, from, x, cell) ==
  LET old  == v.e2e[x]
      peer == n = Opposite(x)
      a == IF peer /\ cell.de > old.de THEN NewPeerEpoch(n, v, x, cell) ELSE v
      completes == peer /\ ~a.handshake /\ cell.se = a.flow_epoch
      b == IF completes THEN [a EXCEPT !.handshake = TRUE] ELSE a
      c == IF x = Destination THEN ApplyE2E(n, b, from, old, cell) ELSE b
      d == [c EXCEPT !.edge = [j \in Ngbrs(n) |->
              IF j = from THEN c.edge[j] ELSE [c.edge[j] EXCEPT !.unsent = @ \cup {x}]],
                     !.e2e[x] = [cell EXCEPT !.known = TRUE]]
  IN  IF ~Later(cell, old) THEN v
      ELSE IF completes /\ cell.aru # 0 THEN a
      ELSE d

-----------------------------------------------------------------------------
(* Steps. *)

Become(n, v) == node' = [node EXCEPT ![n] = v]

(* A message for neighbor j, with the ack that is due to it. *)
Add_Acks(v, j) == IF v.edge[j].hbh THEN [epoch |-> v.epoch, aru |-> v.head - 1, sow |-> v.sow] ELSE NoAck
Packet(type, who, body, ack) == [type |-> type, who |-> who, body |-> body, ack |-> ack]

(* Request_Resources calls Reliable_Flood_Send_One when the link can take a  *)
(* message.  A link that has not seen the present incarnation of its end     *)
(* loses it; one whose other end has not seen ours holds it back.            *)
LinkReady(n, j) == <<j, n>> \in fresh => <<n, j>> \in fresh
Forward_Data(n, j, p) ==
  link' = IF <<n, j>> \in fresh THEN link ELSE [link EXCEPT ![<<n, j>>] = Append(@, p)]
CanSend(n, j) == LinkReady(n, j) /\ Len(link[<<n, j>>]) < MaxQueue

(* Forward_Data fails, after Reliable_Flood_Add_Acks has taken the ack that  *)
(* was due: the ack is lost, and what was to be sent stays queued.           *)
Failed_Send(n, j) ==
  /\ n \in Failing
  /\ node' = [node EXCEPT ![n] = [node[n] EXCEPT !.edge[j].hbh = FALSE]]
  /\ UNCHANGED link

(* Mutant: the flow is unblocked but not queued again. *)
UnblockedOnly(n, v, j, x) ==
  [v EXCEPT !.edge[j].unsent = @ \ {x}, !.edge[j].hbh = FALSE,
            !.edge[j].block = IF x = Destination THEN FALSE ELSE @]

(* Reliable_Flood_E2E_Event and Reliable_Flood_Send_E2E: the flow that       *)
(* waited for it is queued again.                                            *)
Unblocked(n, v, j, x) ==
  LET w == [v EXCEPT !.edge[j].unsent = @ \ {x}, !.edge[j].hbh = FALSE,
                     !.edge[j].block = IF x = Destination THEN FALSE ELSE @]
  IN  IF x = Destination THEN Requeue(n, w, j) ELSE w
Send_E2E(n, j) ==
  \E x \in FlowEnds :
    LET v == node[n]
    IN  /\ CanSend(n, j)
        /\ x \in v.edge[j].unsent
        /\ \/ /\ Forward_Data(n, j, Packet("E2E", x, v.e2e[x], Add_Acks(v, j)))
              /\ Become(n, Unblocked(n, v, j, x))
           \/ Failed_Send(n, j)
        /\ UNCHANGED <<fresh, world>>

(* The flow may send its next message to j. *)
MaySend(n, v, j) ==
  /\ v.next[j] < v.edge[j].sow + MAX_MESS_PER_FLOW
  /\ v.next[j] < v.head
  /\ ~v.edge[j].block
  /\ n = Source => v.handshake
  /\ On_Path(n, j, v.msg[Index(v.next[j])].mask)

(* Reliable_Flood_Send_Data: a flow that may not send leaves the queue. *)
Send_Data(n, j) ==
  LET v == node[n]
  IN  /\ CanSend(n, j)
      /\ v.edge[j].queued
      /\ \/ /\ MaySend(n, v, j)
            /\ \E i \in Cells :
                 /\ i = Index(v.next[j])
                 /\ Forward_Data(n, j, Packet("DATA", Source, v.msg[i], Add_Acks(v, j)))
                 /\ Become(n, Advance([v EXCEPT !.edge[j].hbh = FALSE,
                               !.status[i][j] = IF @ = "NEW_UNSENT" THEN "NEW_SENT" ELSE "RESTAMPED_SENT"], j))
         \/ MaySend(n, v, j) /\ Failed_Send(n, j)
         \/ ~MaySend(n, v, j) /\ Become(n, [v EXCEPT !.edge[j].queued = FALSE]) /\ UNCHANGED link
      /\ UNCHANGED <<fresh, world>>

(* Reliable_Flood_SAA_Event and Reliable_Flood_Send_SAA. *)
Send_SAA(n, j) ==
  /\ CanSend(n, j)
  /\ node[n].edge[j].hbh /\ ~node[n].edge[j].queued
  /\ \/ /\ Forward_Data(n, j, Packet("SAA", n, NoMsg, Add_Acks(node[n], j)))
        /\ Become(n, [node[n] EXCEPT !.edge[j].hbh = FALSE])
     \/ Failed_Send(n, j)
  /\ UNCHANGED <<fresh, world>>

(* Reliable_Flood_Disseminate of what a neighbor sent. *)
Disseminate(n, j) ==
  LET p == Head(link[<<j, n>>])
      a == Process_Acks(n, node[n], j, p.ack)
      gets == p.type = "DATA" /\ n = Destination /\ Accepts(a, p.body)
  IN  /\ link[<<j, n>>] # <<>>
      /\ link' = [link EXCEPT ![<<j, n>>] = Tail(@)]
      /\ Become(n, CASE p.type = "E2E"  -> Process_E2E(n, a, j, p.who, p.body)
                     [] p.type = "DATA" -> Process_Data(n, a, j, p.body)
                     [] OTHER           -> a)
      /\ world' = IF gets THEN [world EXCEPT !.delivered = Append(@, p.body.load)] ELSE world
      /\ UNCHANGED fresh

(* Reliable_Flood_Gen_E2E. *)
Gen_E2E(n) ==
  LET v == node[n]
      old == v.e2e[n]
      grown == n = Destination /\ old.se = v.epoch /\ old.aru < v.head - 1
      w == [v EXCEPT !.e2e[n] = IF ~v.initial /\ grown THEN [@ EXCEPT !.aru = v.head - 1] ELSE @,
                     !.initial = FALSE,
                     !.edge = [j \in Ngbrs(n) |-> [v.edge[j] EXCEPT !.unsent = @ \cup {n}]]]
  IN  /\ n \in FlowEnds /\ v.gen
      /\ Become(n, IF v.initial \/ grown THEN w ELSE [v EXCEPT !.gen = FALSE])
      /\ UNCHANGED <<link, fresh, world>>

(* The client sends when Reliable_Flood_Can_Flow_Send lets it.               *)
(* Fill_Packet_Header_Reliable_Flood numbers the message.                    *)
Can_Flow_Send(v) == v.head < v.sow + MAX_MESS_PER_FLOW /\ v.flow_epoch = v.epoch
Client_Send ==
  LET v == node[Source]
      m == [seq |-> v.flow_seq, epoch |-> v.flow_epoch, load |-> world.given + 1,
            mask |-> Routings[world.route]]
  IN  /\ world.given < MaxMessages
      /\ Can_Flow_Send(v)
      /\ Become(Source, Process_Data(Source, [v EXCEPT !.flow_seq = @ + 1], Source, m))
      /\ world' = [world EXCEPT !.given = @ + 1,
                     !.seen = [p \in DOMAIN @ \cup {m.load} |-> IF p = m.load THEN v.e2e[Destination].de ELSE world.seen[p]]]
      /\ UNCHANGED <<link, fresh>>

(* Reliable_Flood_Restamp, after the link status has changed the graph. *)
Restamp ==
  LET v == node[Source]
      mask == Routings[world.route + 1]
      held == {i \in v.sow .. v.head - 1 : ~(mask \subseteq v.msg[Index(i)].mask)}
      hit == {Index(i) : i \in held}
      s == [v EXCEPT !.msg = [c \in Cells |-> IF c \in hit THEN [v.msg[c] EXCEPT !.mask = @ \cup mask] ELSE v.msg[c]],
                     !.status = [c \in Cells |-> IF c \in hit THEN [j \in Ngbrs(Source) |-> "RESTAMPED_UNSENT"]
                                                 ELSE v.status[c]]]
      back(j) == Advance([s EXCEPT !.next[j] = s.sow], j).next[j]
      t == [s EXCEPT !.next = [j \in Ngbrs(Source) |-> back(j)]]
  IN  /\ world.route < Len(Routings)
      /\ world' = [world EXCEPT !.route = @ + 1]
      /\ Become(Source, IF held = {} THEN v
                        ELSE [t EXCEPT !.exit = \E j \in Ngbrs(Source) : back(j) > v.next[j],
                                       !.edge = [j \in Ngbrs(Source) |-> Requeue(Source, t, j).edge[j]]])
      /\ UNCHANGED <<link, fresh>>

(* The link layer has seen the present incarnation of j                      *)
(* (Reliable_Flood_Neighbor_Transfer); what an earlier one sent is gone.     *)
Reliable_Flood_Neighbor_Transfer(n, j) ==
  LET v == node[n]
      x == {y \in FlowEnds \ {j} : v.e2e[y].known}
      blocks == Destination \in x \ v.edge[j].unsent
      s == [v EXCEPT !.status = [c \in Cells |-> [v.status[c] EXCEPT ![j] =
              IF c \in {Index(i) : i \in v.sow .. v.head - 1}
              THEN CASE @ = "NEW_SENT" -> "NEW_UNSENT" [] @ = "RESTAMPED_SENT" -> "RESTAMPED_UNSENT" [] OTHER -> @
              ELSE @]],
                     !.next[j] = v.sow,
                     !.edge[j].unsent = @ \cup x, !.edge[j].block = @ \/ blocks]
  IN  /\ <<n, j>> \in fresh
      /\ fresh' = fresh \ {<<n, j>>}
      /\ Become(n, Requeue(n, s, j))
      /\ link' = [link EXCEPT ![<<j, n>>] = <<>>]
      /\ UNCHANGED world

(* A daemon restarts, in a later second. *)
RestartDaemon(n) ==
  /\ world.clock < MaxClock
  /\ world' = [world EXCEPT !.clock = @ + 1,
                            !.delivered = IF n = Destination THEN <<>> ELSE @,
                            !.seen = IF n = Source THEN [p \in {} |-> 0] ELSE @]
  /\ Become(n, FreshNode(n, world.clock + 1))
  /\ fresh' = fresh \cup {l \in Directed : n \in {l[1], l[2]}}
  /\ link' = [l \in Directed |-> IF l[2] = n THEN <<>> ELSE link[l]]

FlowNext ==
  \/ \E l \in Directed :
       \/ Send_E2E(l[1], l[2]) \/ Send_Data(l[1], l[2]) \/ Send_SAA(l[1], l[2])
       \/ Disseminate(l[1], l[2]) \/ Reliable_Flood_Neighbor_Transfer(l[1], l[2])
  \/ \E n \in Daemon : Gen_E2E(n) \/ RestartDaemon(n)
  \/ Client_Send
  \/ Restamp

FlowSpec == FlowInit /\ [][FlowNext]_relvars
SettledSpec == Settled /\ [][FlowNext]_relvars

-----------------------------------------------------------------------------
Increasing(q) == \A i, j \in 1 .. Len(q) : i < j => q[i] < q[j]

(* The source frees a message only when the destination has it: what the     *)
(* client gave to the present incarnations of both ends is delivered, or is  *)
(* still held by the source; and the destination delivers no message twice,  *)
(* nor out of order.                                                         *)
KeptUntilDelivered ==
  LET s == node[Source]
      d == node[Destination]
      held == {s.msg[Index(i)].load : i \in s.sow .. s.head - 1}
      got == {world.delivered[i] : i \in 1 .. Len(world.delivered)}
  IN  /\ Increasing(world.delivered)
      /\ s.handshake => \A p \in DOMAIN world.seen :
           (world.seen[p] = d.e2e[Destination].de /\ s.e2e[Destination].de = d.e2e[Destination].de)
             => p \in held \cup got

(* Nothing is left to happen. *)
Quiet ==
  /\ \A l \in Directed : link[l] = <<>> /\ l \notin fresh
  /\ \A l \in Directed : LET e == node[l[1]].edge[l[2]] IN e.unsent = {} /\ ~e.queued /\ ~e.hbh
  /\ \A n \in FlowEnds : ~node[n].gen

(* When the overlay has come to rest the flow is not stuck: its two ends     *)
(* agree on their epochs, and the source holds nothing that is not delivered *)
(* and acknowledged; no daemon has run into one of its exits.                *)
NothingStalls ==
  /\ \A n \in Daemon : ~node[n].exit
  /\ Quiet =>
       LET s == node[Source]
           d == node[Destination]
       IN  s.sow = s.head /\ d.epoch = s.flow_epoch /\ s.handshake /\ s.head = d.head
=============================================================================

---------------------------- MODULE LinkStatus -----------------------------
(***************************************************************************)
(* Link status changes (daemon/reliable_flood.c): a daemon tells the whole *)
(* overlay what its links cost.  Each daemon keeps the last status change  *)
(* of every creator, applies its costs to its own graph, and passes it on; *)
(* the dissemination graphs are computed from these costs.                 *)
(*                                                                         *)
(* Links are reliable from the time the sender has seen the incarnation of *)
(* its neighbor, as in ReliableFlood.                                      *)
(***************************************************************************)
EXTENDS Integers, Sequences, FiniteSets

CONSTANTS Site, Cable,       \* the daemons; the edges, sets of two daemons
          Costs,             \* what a link may cost: -1 (down), 1 as configured, more for loss
          MaxChanges,        \* bound: link status changes
          MaxEpoch           \* bound: 1 + restarts; the time in seconds

VARIABLE st                  \* per site: its statuses and graph; the links between them

Pairs == {p \in Site \X Site : {p[1], p[2]} \in Cable}
Adj(n) == {j \in Site : {n, j} \in Cable}

(* An edge is between two daemons, and the edges connect all of them. *)
ASSUME CableAssumption == \A n \in Site : {n} \notin Cable
ASSUME OneOverlay ==
  \A S \in SUBSET Site : S # {} /\ S # Site => \E p \in Pairs : p[1] \in S /\ p[2] \notin S
ASSUME CostAssumption == Costs \subseteq {-1} \cup (Nat \ {0})

(* Init_Reliable_Flooding, and the edges as configured.  The first           *)
(* Neighbor_Transfer of each link is done: there was nothing to transfer.    *)
FreshSite(n) ==
  [sc |-> [c \in Site |-> [epoch |-> 0, cell |-> [j \in Adj(c) |-> [seq |-> 0, cost |-> IF c = n THEN -1 ELSE 0]]]],
   graph |-> [p \in Pairs |-> 1], unsent |-> [j \in Adj(n) |-> {}],
   progress |-> FALSE, gen |-> FALSE]

StatusInit ==
  st = [site |-> [n \in Site |-> FreshSite(n)], wire |-> [p \in Pairs |-> <<>>], new |-> {},
        boot |-> [n \in Site |-> 1], clock |-> 1, changes |-> 0,
        back |-> {}]         \* history: the creators that have got an old status of their own back

(* Apply_Link_Status_Change refuses a cost below the configured one; it ends *)
(* in MultiPath_Clear_Cache.                                                 *)
Apply(graph, c, j, cost) == IF cost # -1 /\ cost < 1 THEN graph ELSE [graph EXCEPT ![<<c, j>>] = cost]

(* Generate_Link_Status_Change: the link layer at n says what its link to j  *)
(* costs.                                                                    *)
Generate_Link_Status_Change(n, j) ==
  \E cost \in Costs :
    LET v == st.site[n]
        own == v.sc[n]
    IN  /\ st.changes < MaxChanges
        /\ st' = [st EXCEPT !.changes = @ + 1,
             !.site[n] = [v EXCEPT !.graph = Apply(@, n, j, cost),
                                   !.sc[n] = [epoch |-> IF own.epoch = 0 THEN st.boot[n] ELSE own.epoch,
                                              cell |-> [own.cell EXCEPT ![j] = [seq |-> @.seq + 1, cost |-> cost]]],
                                   !.progress = TRUE, !.gen = TRUE]]

(* Gen_Status_Change queues itself while there is news. *)
Gen_Status_Change(n) ==
  LET v == st.site[n]
  IN  /\ v.gen
      /\ st' = [st EXCEPT !.site[n] =
           IF v.progress THEN [v EXCEPT !.progress = FALSE, !.unsent = [j \in Adj(n) |-> v.unsent[j] \cup {n}]]
           ELSE [v EXCEPT !.gen = FALSE]]

(* Status_Change_Event and Send_Status_Change. *)
Send_Status_Change(n, j) ==
  \E c \in st.site[n].unsent[j] :
    /\ <<j, n>> \in st.new => <<n, j>> \in st.new
    /\ Len(st.wire[<<n, j>>]) < 1
    /\ st' = [st EXCEPT !.site[n].unsent[j] = @ \ {c},
                        !.wire[<<n, j>>] = IF <<n, j>> \in st.new THEN @
                                           ELSE Append(@, [creator |-> c, sc |-> st.site[n].sc[c]])]

(* Process_Status_Change: older content, or a mixture, is refused.  A status *)
(* change of the daemon itself, from before it restarted, is treated as any  *)
(* other.                                                                    *)
Newer(new, old) == \E j \in DOMAIN new.cell : new.cell[j].seq > old.cell[j].seq
Valid(new, old) ==
  /\ new.epoch >= old.epoch
  /\ \A j \in DOMAIN new.cell : new.cell[j].cost = -1 \/ new.cell[j].cost >= 1
  /\ new.epoch = old.epoch => Newer(new, old) /\ ~Newer(old, new)

(* Mutant: only a newer number is applied, a newer epoch is not. *)
ApplyNewerOnly(graph, c, new, old) ==
  [p \in Pairs |->
     IF p[1] = c /\ new.cell[p[2]].seq > old.cell[p[2]].seq
     THEN Apply(graph, c, p[2], new.cell[p[2]].cost)[p] ELSE graph[p]]

ApplyAll(graph, c, new, old) ==
  [p \in Pairs |->
     IF p[1] = c /\ (new.epoch > old.epoch \/ new.cell[p[2]].seq > old.cell[p[2]].seq)
     THEN Apply(graph, c, p[2], new.cell[p[2]].cost)[p] ELSE graph[p]]

Process_Status_Change(n, j) ==
  LET m == Head(st.wire[<<j, n>>])
      v == st.site[n]
      old == v.sc[m.creator]
      w == [v EXCEPT !.graph = ApplyAll(@, m.creator, m.sc, old), !.sc[m.creator] = m.sc,
                     !.unsent = [k \in Adj(n) |-> IF k = j THEN v.unsent[k] ELSE v.unsent[k] \cup {m.creator}]]
  IN  /\ st.wire[<<j, n>>] # <<>>
      /\ st' = [st EXCEPT !.wire[<<j, n>>] = Tail(@), !.site[n] = IF Valid(m.sc, old) THEN w ELSE v,
                          !.back = IF Valid(m.sc, old) /\ m.creator = n THEN @ \cup {n} ELSE @]

(* Reliable_Flood_Neighbor_Transfer, the status changes. *)
Neighbor_Transfer(n, j) ==
  /\ <<n, j>> \in st.new
  /\ st' = [st EXCEPT !.new = @ \ {<<n, j>>}, !.wire[<<j, n>>] = <<>>,
                      !.site[n].unsent[j] = @ \cup {c \in Site \ {j} : st.site[n].sc[c].epoch > 0}]

RestartSite(n) ==
  /\ st.clock < MaxEpoch
  /\ st' = [st EXCEPT !.clock = @ + 1, !.boot[n] = st.clock + 1, !.site[n] = FreshSite(n),
                      !.new = @ \cup {p \in Pairs : n \in {p[1], p[2]}}, !.back = @ \ {n},
                      !.wire = [p \in Pairs |-> IF p[2] = n THEN <<>> ELSE st.wire[p]]]

StatusNext ==
  \/ \E p \in Pairs : \/ Generate_Link_Status_Change(p[1], p[2]) \/ Send_Status_Change(p[1], p[2])
                      \/ Process_Status_Change(p[1], p[2]) \/ Neighbor_Transfer(p[1], p[2])
  \/ \E n \in Site : Gen_Status_Change(n) \/ RestartSite(n)

StatusSpec == StatusInit /\ [][StatusNext]_st

-----------------------------------------------------------------------------
AtRest ==
  /\ st.new = {}
  /\ \A p \in Pairs : st.wire[p] = <<>> /\ st.site[p[1]].unsent[p[2]] = {}
  /\ \A n \in Site : ~st.site[n].gen

(* At rest every daemon has the last status change of every creator, and its *)
(* graph has the costs the creator has: dissemination graphs are computed    *)
(* from the same network everywhere, in spite of restarts and of the order   *)
(* in which the changes came.  Not so for a creator that restarted and got   *)
(* an old status change of its own back before it made one: it goes on with  *)
(* the old epoch, below or beside numbers that others have seen.             *)
GraphsAgree ==
  AtRest => \A n \in Site, c \in Site \ st.back : \A j \in Adj(c) :
    st.site[c].sc[c].epoch > 0 =>
      /\ st.site[n].sc[c] = st.site[c].sc[c]
      /\ n # c => st.site[n].graph[<<c, j>>] = st.site[c].sc[c].cell[j].cost
=============================================================================

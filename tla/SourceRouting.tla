---------------------------- MODULE SourceRouting ---------------------------
(***************************************************************************)
(* Source-based routing as one daemon, My_ID, does it (daemon/multipath.c, *)
(* daemon/dissem_graphs.c and Source_Based_Disseminate of daemon/route.c). *)
(* The source stamps a packet with the set of overlay edges it may use: k  *)
(* node-disjoint paths, computed as a flow of least cost and cached, or a  *)
(* dissemination graph, which it picks for each destination from those     *)
(* computed at start-up, according to where problems are reported.  The    *)
(* other daemons pass the packet on along the stamped edges.               *)
(*                                                                         *)
(* Left out: the TTL, which lets a packet cross 255 daemons; a call for a  *)
(* destination that does not exist, which stamps nothing; a k above the    *)
(* maximum, which is the maximum; and a daemon without dissemination       *)
(* graphs (DG_NONE_GRAPH), for which DG_K_FLAG is k = 2.                   *)
(***************************************************************************)
EXTENDS Integers, SequencesExt

CONSTANTS Base,                   \* the configured directed edges and their base costs
          Volatile,               \* the edges whose cost changes
          Problem,                \* what a problem adds to the cost of an edge
          My_ID, Site, Dests,     \* the destinations of this daemon's packets
          MULTIPATH_MAX_K, DG_LATENCY_REQ, DG_PROB_COUNT_THRESH,
          USHRT_MAX, SOURCE_HIST_SIZE, SEQ_LIMIT,
          MaxSends, MaxAhead      \* bounds: packets; packets under way at a time

VARIABLE sb

Edges == DOMAIN Base
DG_K_FLAG == MULTIPATH_MAX_K + 1
NoMask == {<<0, 0>>}
AbsCost(c) == IF c < 0 THEN -c ELSE c

-----------------------------------------------------------------------------
(* Init_MultiPath: every site is an inbound and an outbound node with a flow *)
(* edge <<n, n>> between them; each flow edge has a residual twin that leads *)
(* back.  New edges go to the head of the list.                              *)
Inbound(n) == 2 * n
Outbound(n) == 2 * n + 1
Flow_Nodes == {Inbound(n) : n \in Site} \cup {Outbound(n) : n \in Site}
Inner(e) == e[1] = e[2]
Pairs == LET n == Cardinality(Site)          \* sites are numbered from 1
         IN  [i \in 1 .. n * n |-> <<((i - 1) \div n) + 1, ((i - 1) % n) + 1>>]
Created == SelectSeq(Pairs, Inner) \o SelectSeq(Pairs, LAMBDA e : e \in Edges)
Flow_Edges ==
  LET Put(list, e) == <<[e |-> e, residual |-> TRUE], [e |-> e, residual |-> FALSE]>> \o list
  IN  FoldLeft(Put, <<>>, Created)
FlowStart(f) ==
  IF f.residual THEN IF Inner(f.e) THEN Outbound(f.e[2]) ELSE Inbound(f.e[2])
  ELSE IF Inner(f.e) THEN Inbound(f.e[1]) ELSE Outbound(f.e[1])
FlowEnd(f) == FlowStart([f EXCEPT !.residual = ~@])

(* MultiPath_Compute.  `used' are the edges that carry flow: an edge may be  *)
(* taken if it carries none, its twin if it does.  `weight' are base costs   *)
(* or current ones, where -1 means down.                                     *)
Room(f, used) == IF f.residual THEN f.e \in used ELSE f.e \notin used
Weight(f, weight) == LET w == IF Inner(f.e) THEN 0 ELSE AbsCost(weight[f.e])
                     IN  IF f.residual THEN -w ELSE w
Takeable(f, used, weight, down) == Room(f, used) /\ (Inner(f.e) \/ ~down \/ weight[f.e] # -1)

(* The Bellman-Ford rounds over the whole list, until nothing changes.       *)
Relaxed(bf, f, end, dist, open) ==
  IF open /\ bf.node[end].distance > dist
  THEN [bf EXCEPT !.node[end] = [distance |-> dist, previous |-> f], !.progress = TRUE]
  ELSE bf
RECURSIVE Sweep(_, _, _, _, _)
Sweep(bf, list, used, weight, down) ==
  IF list = <<>> THEN bf
  ELSE Sweep(Relaxed(bf, Head(list), FlowEnd(Head(list)),
                     bf.node[FlowStart(Head(list))].distance + Weight(Head(list), weight),
                     Takeable(Head(list), used, weight, down)),
             Tail(list), used, weight, down)
RECURSIVE Rounds(_, _, _, _, _, _)
Rounds(bf, list, used, weight, down, left) ==
  IF left = 0 \/ ~bf.progress THEN bf
  ELSE Rounds(Sweep([bf EXCEPT !.progress = FALSE], list, used, weight, down),
              list, used, weight, down, left - 1)
BellmanFord(used, weight, down) ==
  LET none == [e |-> <<0, 0>>, residual |-> FALSE]
      start == (Outbound(My_ID) :> [distance |-> 0, previous |-> none])
               @@ [n \in Flow_Nodes |-> [distance |-> USHRT_MAX, previous |-> none]]
  IN  Rounds([node |-> start, progress |-> TRUE], Flow_Edges, used, weight, down,
             2 * Cardinality(Site) + 1)

(* The path is walked back from the destination; a twin on it takes its      *)
(* edge out again.                                                           *)
Taken(f, used) == IF f.residual THEN used \ {f.e} ELSE used \cup {f.e}
RECURSIVE Augment(_, _, _)
Augment(node, t, used) ==
  IF t = Outbound(My_ID) THEN used
  ELSE Augment(node, FlowStart(node[t].previous), Taken(node[t].previous, used))
OnePathMore(dest, bf, have) ==
  CASE bf.progress -> [have EXCEPT !.ended = TRUE, !.cycle = TRUE]     \* Alarm(EXIT)
    [] ~bf.progress /\ bf.node[Inbound(dest)].distance = USHRT_MAX -> [have EXCEPT !.ended = TRUE]
    [] OTHER -> [have EXCEPT !.used = Augment(bf.node, Inbound(dest), @), !.paths = @ + 1]
RECURSIVE Flow(_, _, _, _, _)
Flow(dest, k, weight, down, have) ==
  IF have.paths = k \/ have.ended THEN have
  ELSE Flow(dest, k, weight, down,
            OnePathMore(dest, BellmanFord(have.used, weight, down), have))
MultiPath_Compute(dest, k, weight, down) ==
  Flow(dest, IF dest = My_ID THEN 0 ELSE k, weight, down,
       [used |-> {}, paths |-> 0, ended |-> FALSE, cycle |-> FALSE])
MaskOf(flow) == {e \in flow.used : ~Inner(e)}

-----------------------------------------------------------------------------
(* Dijkstra on a graph, a function from edges to costs (SP_Add_Node,         *)
(* SP_Add_Edge and the loop of Destination_Problem_Shortest_Path_Tree): the  *)
(* nearest node that is left, the lowest identifier of several, is finished. *)
Closest(sp, left) ==
  CHOOSE n \in left : \A m \in left : \/ sp[n].dist < sp[m].dist
                                      \/ sp[n].dist = sp[m].dist /\ n <= m
RECURSIVE Dijkstra(_, _, _)
Dijkstra(g, sp, left) ==
  LET n == Closest(sp, left)
      nearer == {m \in DOMAIN sp : <<n, m>> \in DOMAIN g /\ sp[n].dist + g[<<n, m>>] < sp[m].dist}
  IN  IF left = {} \/ sp[n].dist = USHRT_MAX THEN sp
      ELSE Dijkstra(g, [m \in nearer |-> [dist |-> sp[n].dist + g[<<n, m>>], prev |-> n]] @@ sp,
                    left \ {n})
RECURSIVE PathTo(_, _)
PathTo(sp, n) == IF sp[n].prev = 0 THEN {} ELSE {<<sp[n].prev, n>>} \cup PathTo(sp, sp[n].prev)

(* Destination_Problem_Graph: the neighbors over which dst is reached in     *)
(* time, each with its shortest path that avoids dst.                        *)
Ends(es) == UNION {{e[1], e[2]} : e \in es}
Without(g, n) == [e \in {e \in DOMAIN g : n \notin {e[1], e[2]}} |-> g[e]]
From(src, nodes) == (src :> [dist |-> 0, prev |-> 0])
                    @@ [n \in nodes |-> [dist |-> USHRT_MAX, prev |-> 0]]
ShortestPaths(g, src) == Dijkstra(g, From(src, Ends(DOMAIN g)), {src} \cup Ends(DOMAIN g))
InTime(g, sp, dst) ==
  UNION {{<<n, dst>>} \cup PathTo(sp, n) :
           n \in {n \in DOMAIN sp : /\ sp[n].dist < USHRT_MAX /\ <<n, dst>> \in DOMAIN g
                                    /\ g[<<n, dst>>] + sp[n].dist <= DG_LATENCY_REQ}}
Destination_Problem_Graph(g, src, dst) == InTime(g, ShortestPaths(Without(g, dst), src), dst)
Reversed(es) == {<<e[2], e[1]>> : e \in es}
Source_Problem_Graph(g, src, dst) ==
  Reversed(Destination_Problem_Graph([e \in Reversed(DOMAIN g) |-> g[<<e[2], e[1]>>]], dst, src))

(* DG_Compute_Graphs; a graph that does not exist is replaced by the static  *)
(* two paths.                                                                *)
Or(m, k2) == IF m = {} THEN k2 ELSE m
Graphs(k2, src, dst) ==
  [K2 |-> k2, SRC |-> Or(src, k2), DST |-> Or(dst, k2),
   SRC_DST |-> IF src = {} \/ dst = {} THEN k2 ELSE src \cup dst]
DG_Compute_Graphs(dest) ==
  Graphs(MaskOf(MultiPath_Compute(dest, 2, Base, FALSE)),
         Source_Problem_Graph(Base, My_ID, dest), Destination_Problem_Graph(Base, My_ID, dest))

(* Create_Edge leaves every edge down; the ones that do not change here have *)
(* come up since.                                                            *)
Init ==
  sb = [cost |-> [e \in Edges |-> IF e \in Volatile THEN -1 ELSE Base[e]],
        graphs |-> [d \in Site |-> DG_Compute_Graphs(d)],
        problems |-> {},
        dst |-> [d \in Site |-> [type |-> "K2", problems |-> {}, count |-> 0]],
        src |-> [problems |-> {}, count |-> 0],
        cache |-> [d \in Site |-> [k \in 1 .. MULTIPATH_MAX_K |-> NoMask]],
        exit |-> FALSE,
        seq |-> 0, inc |-> 1, sent |-> {}, flight |-> {}, got |-> <<>>,
        hist |-> [n \in Site |-> [i \in 0 .. SOURCE_HIST_SIZE - 1 |-> <<0, 0>>]]]

-----------------------------------------------------------------------------
(* DG_Problem_On_Graph: a problem that is not one of the source's (the       *)
(* destination's) own edges lies on its graph.                               *)
DG_Problem_On_Graph(s, d, type) ==
  \E e \in s.graphs[d][type] : e \in s.problems /\ IF type = "SRC" THEN e[1] # My_ID ELSE e[2] # d

Retyped(s, New(_)) ==
  [s EXCEPT !.dst = [d \in Site |-> [s.dst[d] EXCEPT !.type = New(d)]] @@ @]

(* DG_Process_Edge_Update, PROBLEM STARTED.                                  *)
OnCurrentGraph(s, e) ==
  LET New(d) == LET t == s.dst[d].type
                IN  IF /\ (t = "SRC" /\ e[1] # My_ID) \/ (t = "DST" /\ e[2] # d)
                       /\ e \in s.graphs[d][t]
                    THEN "SRC_DST" ELSE t
  IN  Retyped(s, New)
DestinationProblem(s, e) ==
  LET d == e[2]
      a == [s EXCEPT !.dst[d].problems = @ \cup {e[1]}, !.dst[d].count = @ + 1]
      t == s.dst[d].type
  IN  IF e[1] \in s.dst[d].problems THEN s
      ELSE IF a.dst[d].count # DG_PROB_COUNT_THRESH THEN a
      ELSE [a EXCEPT !.dst[d].type =
              CASE t = "SRC" -> "SRC_DST"
                [] t = "K2" -> IF DG_Problem_On_Graph(s, d, "DST") THEN "SRC_DST" ELSE "DST"
                [] OTHER -> t]
SourceProblem(s, e) ==
  LET a == [s EXCEPT !.src.problems = @ \cup {e[2]}, !.src.count = @ + 1]
      New(d) == LET t == s.dst[d].type
                IN  CASE t = "DST" -> "SRC_DST"
                      [] t = "K2" -> IF DG_Problem_On_Graph(s, d, "SRC") THEN "SRC_DST" ELSE "SRC"
                      [] OTHER -> t
  IN  IF e[1] # My_ID \/ e[2] \in s.src.problems THEN s
      ELSE IF a.src.count = DG_PROB_COUNT_THRESH THEN Retyped(a, New) ELSE a
Started(s, e) ==
  IF e \in s.problems THEN s
  ELSE SourceProblem(DestinationProblem(OnCurrentGraph([s EXCEPT !.problems = @ \cup {e}], e), e), e)

(* PROBLEM RESOLVED.                                                         *)
DestinationResolved(s, e) ==
  LET d == e[2]
      t == s.dst[d].type
      a == [s EXCEPT !.dst[d].problems = @ \ {e[1]}, !.dst[d].count = @ - 1]
  IN  IF e[1] \notin s.dst[d].problems THEN s
      ELSE IF s.dst[d].count # DG_PROB_COUNT_THRESH THEN a
      ELSE [a EXCEPT !.dst[d].type =
              CASE t = "DST" -> "K2"
                [] t = "SRC_DST" -> IF s.src.count < DG_PROB_COUNT_THRESH THEN "K2"
                                    ELSE IF ~DG_Problem_On_Graph(s, d, "SRC") THEN "SRC" ELSE t
                [] OTHER -> t]
SourceResolved(s, e) ==
  LET a == [s EXCEPT !.src.problems = @ \ {e[2]}, !.src.count = @ - 1]
      New(d) == LET t == s.dst[d].type
                IN  CASE t = "SRC" -> "K2"
                      [] t = "SRC_DST" -> IF s.dst[d].count < DG_PROB_COUNT_THRESH THEN "K2"
                                          ELSE IF ~DG_Problem_On_Graph(s, d, "DST") THEN "DST" ELSE t
                      [] OTHER -> t
  IN  IF e[1] # My_ID \/ e[2] \notin s.src.problems THEN s
      ELSE IF s.src.count = DG_PROB_COUNT_THRESH THEN Retyped(a, New) ELSE a

(* Mutant: a problem that ends in the middle of the network changes nothing. *)
MidNetIgnored(s) == s

(* Elsewhere than at the ends: what is left of the other problem decides.    *)
MidNetResolved(s) ==
  LET New(d) == LET t == s.dst[d].type
                IN  IF t # "SRC_DST" THEN t
                    ELSE IF s.src.count < DG_PROB_COUNT_THRESH
                    THEN IF DG_Problem_On_Graph(s, d, "DST") THEN t ELSE "DST"
                    ELSE IF s.dst[d].count < DG_PROB_COUNT_THRESH /\ ~DG_Problem_On_Graph(s, d, "SRC")
                    THEN "SRC" ELSE t
      lost == \E d \in Site : /\ s.dst[d].type = "SRC_DST" /\ s.src.count < DG_PROB_COUNT_THRESH
                              /\ s.dst[d].count < DG_PROB_COUNT_THRESH
  IN  [Retyped(s, New) EXCEPT !.exit = @ \/ lost]           \* Alarm(EXIT)
Resolved(s, e) ==
  IF e \notin s.problems THEN s
  ELSE MidNetResolved(SourceResolved(DestinationResolved([s EXCEPT !.problems = @ \ {e}], e), e))

SameKind(old, new) == (old = -1 /\ new = -1) \/ (old < -1 /\ new < -1) \/ (old >= 0 /\ new >= 0)
DG_Process_Edge_Update(s, e, new) ==
  IF SameKind(s.cost[e], new) THEN s ELSE IF new < 0 THEN Started(s, e) ELSE Resolved(s, e)

(* MultiPath_Clear_Cache.                                                    *)
MultiPath_Clear_Cache(s) ==
  [s EXCEPT !.cache = [d \in Site |-> [k \in 1 .. MULTIPATH_MAX_K |-> NoMask]]]

(* Network_Leg_Set_Cost of an edge of this daemon, Edge_Process_state_cell   *)
(* of another's.                                                             *)
EdgeUpdate ==
  \E e \in Volatile :
    \E new \in {-1, Base[e], -(Base[e] + Problem)} \ {sb.cost[e]} :
      sb' = MultiPath_Clear_Cache([DG_Process_Edge_Update(sb, e, new) EXCEPT !.cost[e] = new])

-----------------------------------------------------------------------------
(* MultiPath_Stamp_Bitmask: the mask, and the cache after it.  With fewer    *)
(* paths than were asked for, the mask is also that of every larger k, but   *)
(* not when it was computed for a dissemination graph.                       *)
Filled(s, d, k, all, flow) ==
  LET also == IF all /\ 0 < flow.paths /\ flow.paths < k THEN flow.paths .. MULTIPATH_MAX_K ELSE {}
  IN  [s EXCEPT !.cache[d] = [i \in also \cup {k} |-> MaskOf(flow)] @@ @,
                !.exit = @ \/ flow.cycle]
PathsUsed(s, d, k) == IF k # DG_K_FLAG THEN k
                      ELSE IF s.dst[d].type \in {"K2", "SRC_DST"} THEN 2 ELSE 0
Cached(s, d, k, n) ==              \* n = PathsUsed(s, d, k)
  IF n = 0 THEN s ELSE IF s.cache[d][n] # NoMask THEN s
  ELSE Filled(s, d, n, k # DG_K_FLAG, MultiPath_Compute(d, n, s.cost, TRUE))
Stamped(s, d, k) ==                \* of the state that Cached gives
  CASE k = 0 -> Edges
    [] k = DG_K_FLAG -> CASE s.dst[d].type = "K2" -> s.cache[d][2]
                          [] s.dst[d].type = "SRC_DST" -> s.cache[d][2] \cup s.graphs[d].SRC_DST
                          [] OTHER -> s.graphs[d][s.dst[d].type]
    [] OTHER -> s.cache[d][k]
MultiPath_Stamp_Bitmask ==
  \E d \in Dests, k \in 0 .. DG_K_FLAG : sb' = Cached(sb, d, k, PathsUsed(sb, d, k))

(* Source_Based_Disseminate at n of a packet that `last' passed on.  A       *)
(* duplicate, or one so old that nobody knows, is dropped.                   *)
Older(p, q) == p[1] < q[1] \/ (p[1] = q[1] /\ p[2] < q[2])
Slot(id) == id[2] % SOURCE_HIST_SIZE
Fresh(h, p) == h # p.id /\ ~Older(p.id, h)
Onward(s, n, p) ==
  {m \in Site : /\ <<n, m>> \in p.mask /\ m # p.last /\ m # My_ID /\ n # p.dest
                /\ s.cost[<<n, m>>] # -1}
Disseminate(s, n, p) ==
  IF ~Fresh(s.hist[n][Slot(p.id)], p) THEN s
  ELSE [s EXCEPT !.hist[n][Slot(p.id)] = p.id,
                 !.flight = @ \cup {[p EXCEPT !.last = n, !.to = m] : m \in Onward(s, n, p)},
                 !.got = IF n = p.dest THEN Append(@, p.id) ELSE @]

(* Session_Send_Message with SOURCE_BASED_ROUTING: the number rolls over     *)
(* into a new incarnation.                                                   *)
NextId(s) == IF (s.seq + 1) % SEQ_LIMIT = 0 THEN <<s.inc + 1, 1>> ELSE <<s.inc, s.seq + 1>>
SendAs(s, id, d, k) ==
  Disseminate([s EXCEPT !.inc = id[1], !.seq = id[2], !.sent = @ \cup {id}], My_ID,
              [id |-> id, mask |-> Stamped(s, d, k), dest |-> d, last |-> My_ID, to |-> My_ID])
Session_Send_Message ==
  /\ Cardinality(sb.sent) < MaxSends /\ Cardinality({p.id : p \in sb.flight}) < MaxAhead
  /\ \E d \in Dests, k \in 0 .. DG_K_FLAG :
       sb' = SendAs(Cached(sb, d, k, PathsUsed(sb, d, k)), NextId(sb), d, k)

Source_Based_Disseminate ==
  \E p \in sb.flight : sb' = Disseminate([sb EXCEPT !.flight = @ \ {p}], p.to, p)

Next == \/ EdgeUpdate \/ MultiPath_Stamp_Bitmask
        \/ Session_Send_Message \/ Source_Based_Disseminate

Spec == Init /\ [][Next]_sb

-----------------------------------------------------------------------------
(* Reference: all simple paths over edges that are up.                       *)
Up == {e \in Edges : sb.cost[e] # -1}
RECURSIVE Extensions(_)
Extensions(q) ==
  LET on == {n \in Site : <<q[Len(q)], n>> \in Up /\ \A i \in 1 .. Len(q) : q[i] # n}
  IN  {q} \cup UNION {Extensions(Append(q, n)) : n \in on}
EdgesOf(q) == {<<q[i], q[i + 1]>> : i \in 1 .. Len(q) - 1}
InnerNodes(q) == {q[i] : i \in 2 .. Len(q) - 1}
Disjoint(qs) == \A q, r \in qs : q # r => InnerNodes(q) \cap InnerNodes(r) = {}
MaskCost(m) == MapThenSumSet(LAMBDA e : AbsCost(sb.cost[e]), m)
Families(d) ==
  {qs \in SUBSET {q \in Extensions(<<My_ID>>) : q[Len(q)] = d} : Disjoint(qs)}

(* A cached mask is that of the current costs: as many node-disjoint paths   *)
(* as were asked for, or all there are, and of least total cost.             *)
CachedPathsBest ==
  \A d \in Site \ {My_ID} :
    (\E k \in 1 .. MULTIPATH_MAX_K : sb.cache[d][k] # NoMask) =>
      LET fam == Families(d)
          most == Max({Cardinality(qs) : qs \in fam})
      IN  \A k \in 1 .. MULTIPATH_MAX_K :
            LET n == Min({k, most})
                masks == {UNION {EdgesOf(q) : q \in qs} : qs \in {f \in fam : Cardinality(f) = n}}
            IN  sb.cache[d][k] # NoMask =>
                  /\ sb.cache[d][k] \in masks
                  /\ \A m \in masks : MaskCost(sb.cache[d][k]) <= MaskCost(m)

(* The graph type that the reported problems call for.                       *)
CalledFor(d) ==
  LET s == Cardinality({e \in sb.problems : e[1] = My_ID}) >= DG_PROB_COUNT_THRESH
      t == Cardinality({e \in sb.problems : e[2] = d}) >= DG_PROB_COUNT_THRESH
  IN  CASE s /\ t -> "SRC_DST"
        [] s /\ ~t -> IF DG_Problem_On_Graph(sb, d, "SRC") THEN "SRC_DST" ELSE "SRC"
        [] t /\ ~s -> IF DG_Problem_On_Graph(sb, d, "DST") THEN "SRC_DST" ELSE "DST"
        [] OTHER -> "K2"

(* Whatever the order in which problems start and end, in the middle of the  *)
(* network or at its ends, the graph used for a destination is the one that  *)
(* the present problems call for, though each update changes it only by      *)
(* looking at the old type and at counts; and the daemon does not exit.      *)
GraphMatchesProblems == ~sb.exit /\ \A d \in Site : sb.dst[d].type = CalledFor(d)

(* A packet reaches its destination at most once, also when the numbers      *)
(* roll over.  While no edge is down it does reach it, unless one that was   *)
(* sent later and has the same place in the history overtook it.             *)
ReachedOnce ==
  /\ \A i, j \in 1 .. Len(sb.got) : sb.got[i] = sb.got[j] => i = j
  /\ sb.flight = {} /\ Volatile = {} =>
       \A id \in sb.sent \ {sb.got[i] : i \in 1 .. Len(sb.got)} :
         \E later \in sb.sent : Older(id, later) /\ Slot(id) = Slot(later)
=============================================================================

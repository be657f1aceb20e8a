------------------------------- MODULE Routing ------------------------------
(***************************************************************************)
(* Minimum-weight routing (daemon/route.c).  From the flooded edge costs   *)
(* every daemon computes all shortest paths with the same deterministic    *)
(* Floyd-Warshall, but keeps for each path only whether it lies on it and, *)
(* if so, its own next hop, so that packets follow the path of their       *)
(* source hop by hop.  Next hops towards groups are collected on demand    *)
(* and cached.  Edge and group states are taken as flooded already: what   *)
(* is not atomic is that each daemon recomputes its routes when its own    *)
(* timer fires.  One packet at a time is under way.                        *)
(***************************************************************************)
EXTENDS Integers, SequencesExt

CONSTANTS Router,                 \* node identifiers: 1 .. n
          Graphs, Members,        \* the edge costs and the groups to begin with
          Cost,                   \* what an edge may change to; -1 is down
          MAX_TTL, MaxEvents      \* bounds: hops of a packet; changes and packets

VARIABLE rt

NoHop == 0
None == {0}                       \* no cached neighbors
Group == 100                      \* a multicast and an anycast address
Anycast == 101
Destinations == Router \cup {Group, Anycast}

AbsCost(c) == IF c < 0 THEN -c ELSE c

(* RR_Init, before the triple loop.                                          *)
Direct(edge, me) ==
  [p \in {e \in DOMAIN edge : edge[e] # -1} |->
     [cost |-> AbsCost(edge[p]), distance |-> 1, forwarder |-> IF p[1] = me THEN p[2] ELSE NoHop]]
  @@ [p \in Router \X Router |->
     [cost |-> IF p[1] = p[2] THEN 0 ELSE -1, distance |-> IF p[1] = p[2] THEN 0 ELSE -1,
      forwarder |-> NoHop]]

(* One round of the triple loop: whatever is cheaper through k.  The routes  *)
(* from and to k itself do not change in that round.                         *)
Joined(ik, kj) ==
  [cost |-> ik.cost + kj.cost, distance |-> ik.distance + kj.distance,
   forwarder |-> IF kj.forwarder # NoHop THEN kj.forwarder ELSE ik.forwarder]
Cheaper(r, i, j, k) ==
  /\ i # k /\ j # k /\ i # j
  /\ r[<<i, k>>].cost >= 0 /\ r[<<k, j>>].cost >= 0
  /\ \/ r[<<i, j>>].cost < 0
     \/ r[<<i, k>>].cost + r[<<k, j>>].cost < r[<<i, j>>].cost
Through(r, k) ==
  [p \in {q \in Router \X Router : Cheaper(r, q[1], q[2], k)} |->
     Joined(r[<<p[1], k>>], r[<<k, p[2]>>])] @@ r
RR_Init(edge, me) == FoldLeft(Through, Direct(edge, me), SetToSortSeq(Router, <))

(* RR_Find_Route, RR_Get_Next_Hop, Get_Route.                                *)
RR_Get_Next_Hop(n, s, d) == rt.regime[n][<<s, d>>].forwarder

(* RR_Get_Mcast_Neighbors without its cache: the next hops towards all       *)
(* members.  Of an anycast group a local member is served here; otherwise    *)
(* one next hop is taken, the first in the order of a hash table, because    *)
(* the node costs that should be compared are -1 for all.                    *)
Hops(n, s) == {RR_Get_Next_Hop(n, s, m) : m \in rt.member} \ {NoHop}
McastNeighbors(n, s) == {Hops(n, s)}
AcastNeighbors(n, s) ==
  IF n \in rt.member \/ Hops(n, s) = {} THEN {{}} ELSE {{h} : h \in Hops(n, s)}
Computed(n, s, g) == IF g = Group THEN McastNeighbors(n, s) ELSE AcastNeighbors(n, s)

Uncached == [n \in Router |-> [p \in Router \X {Group, Anycast} |-> None]]
NoPacket == [flight |-> {}, got |-> [n \in Router |-> 0], source |-> 0, dest |-> 0, steady |-> FALSE]

(* Init_Routes at every daemon.                                              *)
Init ==
  \E edge \in Graphs, member \in Members :
    rt = [edge |-> edge, member |-> member,
          regime |-> [n \in Router |-> RR_Init(edge, n)],
          cache |-> Uncached, due |-> {}, pkt |-> NoPacket, events |-> 0]

Event(r) == [r EXCEPT !.events = @ + 1, !.pkt.steady = FALSE]

(* An edge changes, at its end and then by flooding: Schedule_Routes at      *)
(* every daemon (network.c and state_flood.c).                               *)
Schedule_Routes ==
  /\ rt.events < MaxEvents
  /\ \E e \in DOMAIN rt.edge, c \in Cost :
       c # rt.edge[e] /\ rt' = Event([rt EXCEPT !.edge[e] = c, !.due = Router])

(* Mutant: cached next hops outlive a change of the group. *)
KeepNeighbors(cache) == cache

(* A daemon joins or leaves: Add_to_changed_states calls                     *)
(* Discard_Mcast_Neighbors for the group.                                    *)
Discarded(cache) == Uncached
Discard_Mcast_Neighbors ==
  /\ rt.events < MaxEvents
  /\ \E n \in Router :
       rt' = Event([rt EXCEPT !.cache = Discarded(@),
                              !.member = IF n \in @ THEN @ \ {n} ELSE @ \cup {n}])

(* Set_Routes: RR_Fini of the old regime, RR_Init of the new one.            *)
Set_Routes ==
  \E n \in rt.due :
    rt' = [rt EXCEPT !.due = @ \ {n}, !.regime[n] = RR_Init(rt.edge, n),
                     !.cache[n] = Uncached[n]]

(* A client's packet enters at its daemon.                                   *)
Send ==
  /\ rt.events < MaxEvents /\ rt.pkt.flight = {}
  /\ \E s \in Router, d \in Destinations :
       rt' = [rt EXCEPT !.events = @ + 1,
                        !.pkt = [NoPacket EXCEPT !.flight = {[at |-> s, ttl |-> MAX_TTL, n |-> 1]},
                                                 !.source = s, !.dest = d, !.steady = (rt.due = {})]]

(* Copies under way, told apart by a count.                                  *)
Add(flight, at, ttl) ==
  flight \cup {[at |-> at, ttl |-> ttl,
                n |-> 1 + Cardinality({c \in flight : c.at = at /\ c.ttl = ttl})]}
RECURSIVE AddAll(_, _, _)
AddAll(flight, hops, ttl) ==
  IF hops = {} THEN flight ELSE AddAll(Add(flight, Min(hops), ttl), hops \ {Min(hops)}, ttl)

Connected(n, h) == <<n, h>> \in DOMAIN rt.edge /\ rt.edge[<<n, h>>] # -1
Remembered(n, s, g) == IF rt.cache[n][<<s, g>>] # None THEN {rt.cache[n][<<s, g>>]} ELSE Computed(n, s, g)

(* Deliver_and_Forward_Data with MIN_WEIGHT_ROUTING.  Forward_Data to a      *)
(* neighbor that is disconnected sends nothing.                              *)
Deliver_and_Forward_Data ==
  \E c \in rt.pkt.flight :
    LET n == c.at
        s == rt.pkt.source
        d == rt.pkt.dest
        rest == rt.pkt.flight \ {c}
        ttl == c.ttl - 1
        Sent(hops) == AddAll(rest, {h \in hops : Connected(n, h)}, ttl)
        mine == d = n \/ (d \in {Group, Anycast} /\ n \in rt.member)
        deliver == [rt.pkt.got EXCEPT ![n] = IF mine THEN @ + 1 ELSE @]
    IN  \/ /\ c.ttl <= 0                                    \* dropped
           /\ rt' = [rt EXCEPT !.pkt.flight = rest]
        \/ /\ c.ttl > 0 /\ d \in Router
           /\ LET hops == {RR_Get_Next_Hop(n, s, d)} \ {NoHop}
              IN  rt' = [rt EXCEPT !.pkt.flight = IF d = n \/ ttl = 0 THEN rest ELSE Sent(hops),
                                   !.pkt.got = deliver]
        \/ /\ c.ttl > 0 /\ d \notin Router
           /\ \E hops \in IF ttl = 0 THEN {{}} ELSE Remembered(n, s, d) :
                rt' = [rt EXCEPT !.pkt.flight = Sent(hops), !.pkt.got = deliver,
                                 !.cache[n][<<s, d>>] = IF ttl = 0 THEN @ ELSE hops]

Next == \/ Schedule_Routes \/ Discard_Mcast_Neighbors \/ Set_Routes
        \/ Send \/ Deliver_and_Forward_Data

Spec == Init /\ [][Next]_rt

-----------------------------------------------------------------------------
(* Reference: the cheapest of all simple paths, hop by hop.                  *)
Up == {e \in DOMAIN rt.edge : rt.edge[e] # -1}
RECURSIVE Extensions(_)
Extensions(q) ==
  LET on == {n \in Router : <<q[Len(q)], n>> \in Up /\ \A i \in 1 .. Len(q) : q[i] # n}
  IN  {q} \cup UNION {Extensions(Append(q, n)) : n \in on}
Length(q) == MapThenSumSet(LAMBDA i : AbsCost(rt.edge[<<q[i], q[i + 1]>>]), 1 .. Len(q) - 1)
RECURSIVE Closure(_)
Closure(ns) == LET more == ns \cup {n \in Router : \E m \in ns : <<m, n>> \in Up}
               IN  IF more = ns THEN ns ELSE Closure(more)
Reached(s) == Closure({s})

(* The nodes that a packet from s to d visits.                               *)
RECURSIVE Walk(_, _, _, _)
Walk(n, s, d, left) ==
  LET h == RR_Get_Next_Hop(n, s, d)
  IN  IF n = d \/ h = NoHop \/ left = 0 THEN <<n>> ELSE <<n>> \o Walk(h, s, d, left - 1)

ShortestPathsKept ==
  rt.due = {} /\ rt.pkt.flight = {} =>
    \A s \in Router :
      LET all == Extensions(<<s>>)
      IN  \A d \in Router \ {s} :
            LET paths == {q \in all : q[Len(q)] = d}
                w == Walk(s, s, d, Cardinality(Router))
                r == rt.regime[s][<<s, d>>]
            IN  IF paths # {}
                THEN /\ w \in paths /\ Len(w) = r.distance + 1 /\ Length(w) = r.cost
                     /\ \A q \in paths : r.cost <= Length(q)
                     /\ \A n \in Router :
                          (RR_Get_Next_Hop(n, s, d) # NoHop) = (\E i \in 1 .. Len(w) - 1 : w[i] = n)
                ELSE r.cost = -1 /\ \A n \in Router : RR_Get_Next_Hop(n, s, d) = NoHop

CacheCurrent ==
  \A n, s \in Router, g \in {Group, Anycast} :
    rt.cache[n][<<s, g>>] # None => rt.cache[n][<<s, g>>] \in Computed(n, s, g)

Delivered ==
  rt.pkt.steady /\ rt.pkt.flight = {} /\ rt.pkt.source # 0 =>
    LET s == rt.pkt.source
        to == rt.member \cap Reached(s)
        got == rt.pkt.got
    IN  CASE rt.pkt.dest = Group -> \A n \in Router : got[n] = IF n \in to THEN 1 ELSE 0
          [] rt.pkt.dest = Anycast -> IF to = {} THEN \A n \in Router : got[n] = 0
                                      ELSE \E m \in to : got = [n \in Router |-> IF n = m THEN 1 ELSE 0]
          [] OTHER -> \A n \in Router : got[n] = IF n = rt.pkt.dest /\ n \in Reached(s) THEN 1 ELSE 0

(* Once all daemons have computed their routes, the next hops that they hold *)
(* separately join up to the cheapest path, without loops and with no other  *)
(* daemon thinking it lies on it; cached next hops are those of the current  *)
(* groups and routes; no daemon forwards to itself (an assertion); and a     *)
(* packet sent on settled routes reaches its destination once, every member  *)
(* of its multicast group, or exactly one member of its anycast group.       *)
RoutesWork ==
  /\ ShortestPathsKept
  /\ CacheCurrent
  /\ \A n, s, d \in Router : RR_Get_Next_Hop(n, s, d) # n
  /\ Delivered
=============================================================================

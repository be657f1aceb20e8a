------------------------------ MODULE SkipList ------------------------------
(***************************************************************************)
(* The skip list of stdutil (stdutil/src/stdskl.c), in which the daemon    *)
(* keeps its nodes by identifier, from which every router numbers the      *)
(* rows of its routing table.  A node of height h is linked, both ways, on *)
(* levels 0 .. h; heights are drawn at random.  The sentinel that ends all *)
(* levels is replaced by a higher one when a node outgrows it.  Sentinels  *)
(* are negative numbers, so that a link to a freed one shows.              *)
(***************************************************************************)
EXTENDS Integers, Sequences, FiniteSets, FiniteSetsExt

CONSTANTS Keys,                    \* natural numbers
          EndHeight,               \* the first sentinel's height (4 in the code)
          STDSKL_MAX_HEIGHT,
          MaxSize                  \* bound: nodes

VARIABLE sl

NodeId == 1 .. MaxSize
Live(l) == {n \in NodeId : n \in DOMAIN l.height}
IsEnd(l, n) == n = l.end
Free(l) == NodeId \ Live(l)

(* stdskl_construct: every level of the sentinel refers to itself.           *)
Init == LET loop == [lvl \in 0 .. EndHeight |-> -1]
        IN  sl = [end |-> -1, height |-> [n \in {-1} |-> EndHeight], key |-> [n \in {-1} |-> 0],
                  nexts |-> [n \in {-1} |-> loop], prevs |-> [n \in {-1} |-> loop],
                  size |-> 0, bag |-> [k \in Keys |-> 0]]

(* stdskl_low_find_right and stdskl_low_find_left: along the levels, from    *)
(* the sentinel, over the nodes that lie before (behind) the key; with       *)
(* find_any a match on a higher level ends the search.                       *)
Passes(l, n, k, right) == ~IsEnd(l, n) /\ IF right THEN k > l.key[n] ELSE k < l.key[n]
Hits(l, n, k) == ~IsEnd(l, n) /\ l.key[n] = k
Links(l, right) == IF right THEN l.nexts ELSE l.prevs
RECURSIVE Slide(_, _, _, _, _)
Slide(l, n, k, lvl, right) ==        \* the last node to be passed
  LET m == Links(l, right)[n][lvl]
  IN  IF Passes(l, m, k, right) THEN Slide(l, m, k, lvl, right) ELSE n
RECURSIVE Descend(_, _, _, _, _, _)
Descend(l, n, k, lvl, right, find_any) ==
  LET c == Slide(l, n, k, lvl, right)
      m == Links(l, right)[c][lvl]
  IN  IF lvl = 0 \/ (find_any /\ Hits(l, m, k)) THEN m
      ELSE Descend(l, c, k, lvl - 1, right, find_any)
find_right(l, k, find_any) == Descend(l, l.end, k, l.height[l.end], TRUE, find_any)
find_left(l, k, find_any) == Descend(l, l.end, k, l.height[l.end], FALSE, find_any)

stdskl_find(l, k) == LET n == find_right(l, k, TRUE) IN IF Hits(l, n, k) THEN n ELSE l.end
stdskl_lowerb(l, k) == find_right(l, k, FALSE)
stdskl_upperb(l, k) == l.nexts[find_left(l, k, FALSE)][0]

(* From a node whose highest level is lvl on to one that goes higher.        *)
RECURSIVE Climb(_, _, _, _)
Climb(l, n, lvl, right) ==
  IF lvl = l.height[n] THEN Climb(l, Links(l, right)[n][lvl], lvl, right) ELSE n

(* stdskl_low_link_right, stdskl_low_link_left.                              *)
RECURSIVE LinkUp(_, _, _, _, _)
LinkUp(l, node, other, lvl, right) ==
  LET j == IF right THEN [l EXCEPT !.nexts[node][lvl] = other, !.prevs[other][lvl] = node]
           ELSE [l EXCEPT !.prevs[node][lvl] = other, !.nexts[other][lvl] = node]
  IN  IF lvl = l.height[node] THEN j
      ELSE LinkUp(j, node, Climb(j, other, lvl, right), lvl + 1, right)
link_right(l, ins_pos, node) == LinkUp(l, node, ins_pos, 0, TRUE)
link_left(l, ins_pos, node) == LinkUp(l, node, l.prevs[ins_pos][0], 0, FALSE)
LinkBoth(l, ins_pos, node) ==
  LET r == link_left(l, ins_pos, node) IN link_right(r, ins_pos, node)

(* stdskl_low_create_node with a height of its own.                          *)
Create(l, node, h, k) ==
  LET blank == [lvl \in 0 .. h |-> node]
      With(f, v) == [n \in DOMAIN f \cup {node} |-> IF n = node THEN v ELSE f[n]]
  IN  [l EXCEPT !.height = With(@, h), !.key = With(@, k),
                !.nexts = With(@, blank), !.prevs = With(@, blank)]
Discard(l, gone) ==
  LET Less(f) == [n \in DOMAIN f \ gone |-> f[n]]
  IN  [l EXCEPT !.height = Less(@), !.key = Less(@), !.nexts = Less(@), !.prevs = Less(@)]

(* A sentinel higher than the new node takes the place of the old one on     *)
(* every level that is in use.                                               *)
Used(l) == {lvl \in 0 .. l.height[l.end] : \A low \in 0 .. lvl : l.prevs[l.end][low] # l.end}
RECURSIVE Adopt(_, _, _)
Adopt(l, new, lvls) ==
  IF lvls = {} THEN l
  ELSE LET lvl == Min(lvls)
           p == l.prevs[l.end][lvl]
           n == l.nexts[l.end][lvl]
       IN  Adopt([l EXCEPT !.prevs[new][lvl] = p, !.nexts[p][lvl] = new,
                           !.nexts[new][lvl] = n, !.prevs[n][lvl] = new], new, lvls \ {lvl})
RaiseEnd(l, h) ==
  LET new == l.end - 1
      a == Adopt(Create(l, new, Min({h + 1, STDSKL_MAX_HEIGHT}), 0), new, Used(l))
  IN  [Discard(a, {l.end}) EXCEPT !.end = new]

(* One round of stdskl_low_insert: with a hint the position is tried, then   *)
(* its successor; otherwise, or if both are wrong, the list is searched.     *)
(* The result has the list and the position that the next round is hinted.   *)
Fits(l, next, k) ==
  LET prev == l.prevs[next][0]
  IN  /\ IsEnd(l, next) \/ k <= l.key[next]
      /\ IsEnd(l, prev) \/ k >= l.key[prev]
Place(l, next, k, hint) ==
  IF hint /\ Fits(l, next, k) THEN next
  ELSE IF hint /\ Fits(l, l.nexts[next][0], k) THEN l.nexts[next][0]
  ELSE find_right(l, k, TRUE)
InsertAt(l, pos, k, h) ==
  LET node == Min(Free(l))
      c == Create(l, node, h, k)
      higher == h > l.height[l.end]
      g == IF higher THEN RaiseEnd(c, h) ELSE c
      next == IF higher /\ IsEnd(l, pos) THEN g.end ELSE pos
      done == LinkBoth(g, next, node)
  IN  [l |-> [done EXCEPT !.size = @ + 1, !.bag[k] = @ + 1], next |-> next]
RECURSIVE low_insert(_, _, _, _, _)
low_insert(l, next, ks, hs, hint) ==
  IF ks = <<>> THEN l
  ELSE LET i == InsertAt(l, Place(l, next, Head(ks), hint), Head(ks), Head(hs))
       IN  low_insert(i.l, i.next, Tail(ks), Tail(hs), TRUE)

(* stdskl_low_erase of num nodes from b on.                                  *)
RECURSIVE Run(_, _, _)
Run(l, b, num) == IF num = 0 THEN <<b>> ELSE <<b>> \o Run(l, l.nexts[b][0], num - 1)
RECURSIVE Relink(_, _, _, _, _)
Relink(l, prev, next, lvl, max_lvl) ==
  LET j == [l EXCEPT !.nexts[prev][lvl] = next, !.prevs[next][lvl] = prev]
  IN  IF lvl = max_lvl THEN j
      ELSE Relink(j, Climb(j, prev, lvl, FALSE), Climb(j, next, lvl, TRUE), lvl + 1, max_lvl)
low_erase(l, b, num) ==
  LET run == Run(l, b, num)
      gone == {run[i] : i \in 1 .. num}
      left == Relink(l, l.prevs[b][0], run[num + 1], 0, Max({0} \cup {l.height[n] : n \in gone}))
  IN  [Discard(left, gone) EXCEPT
         !.size = @ - num,
         !.bag = [k \in Keys |-> @[k] - Cardinality({n \in gone : l.key[n] = k})]]

(* stdskl_erase_key: from the lower bound on, while the key matches.         *)
RECURSIVE EraseKey(_, _, _)
EraseKey(l, n, k) == IF ~Hits(l, n, k) THEN l ELSE EraseKey(low_erase(l, n, 1), l.nexts[n][0], k)

(* stdskl_clear.                                                             *)
Clear(l) == LET loop == [lvl \in 0 .. l.height[l.end] |-> l.end]
            IN  [Discard(l, Live(l)) EXCEPT !.nexts = [n \in {l.end} |-> loop],
                                            !.prevs = [n \in {l.end} |-> loop],
                                            !.size = 0, !.bag = [k \in Keys |-> 0]]

-----------------------------------------------------------------------------
Heights == 0 .. STDSKL_MAX_HEIGHT
Batches == {1, 2}             \* stdskl_insert and stdskl_insert_seq

(* stdskl_insert, _n, _seq, _rep.                                            *)
stdskl_insert ==
  \E n \in Batches : n <= Cardinality(Free(sl)) /\
    \E ks \in [1 .. n -> Keys], hs \in [1 .. n -> Heights], hint \in BOOLEAN :
      \E pos \in IF hint THEN DOMAIN sl.height ELSE {sl.end} :
        sl' = low_insert(sl, pos, ks, hs, hint)

(* stdskl_put after a search of its own: a match is overwritten.             *)
stdskl_put ==
  \E k \in Keys, h \in Heights :
    /\ ~Hits(sl, find_right(sl, k, TRUE), k) /\ Free(sl) # {}
    /\ sl' = InsertAt(sl, find_right(sl, k, TRUE), k, h).l

(* stdskl_erase, _n, _seq.                                                   *)
Behind(l, n) == {m \in Live(l) : \E i \in 1 .. l.size : Run(l, n, i - 1)[i] = m}
stdskl_erase ==
  \E n \in Live(sl) : \E num \in 1 .. Cardinality(Behind(sl, n)) :
    /\ \A i \in 1 .. num : ~IsEnd(sl, Run(sl, n, num - 1)[i])
    /\ sl' = low_erase(sl, n, num)

stdskl_erase_key == \E k \in Keys : sl' = EraseKey(sl, stdskl_lowerb(sl, k), k)
stdskl_clear == sl.size > 0 /\ sl' = Clear(sl)

Next == stdskl_insert \/ stdskl_put \/ stdskl_erase \/ stdskl_erase_key \/ stdskl_clear

Spec == Init /\ [][Next]_sl

-----------------------------------------------------------------------------
(* The nodes from n on along a level, up to the sentinel.                    *)
RECURSIVE Level(_, _, _, _)
Level(n, lvl, links, left) ==
  IF n = sl.end \/ left = 0 THEN <<>> ELSE <<n>> \o Level(links[n][lvl], lvl, links, left - 1)

Linked(row, lvl) ==
  LET ring == <<sl.end>> \o row \o <<sl.end>>
  IN  \A i \in 1 .. Len(ring) - 1 :
        sl.nexts[ring[i]][lvl] = ring[i + 1] /\ sl.prevs[ring[i + 1]][lvl] = ring[i]

Row == Level(sl.nexts[sl.end][0], 0, sl.nexts, MaxSize)
Sorted == \A i \in 1 .. Len(Row) - 1 : sl.key[Row[i]] <= sl.key[Row[i + 1]]
From(P(_)) == LET at == {i \in 1 .. Len(Row) : P(sl.key[Row[i]])}
              IN  IF at = {} THEN sl.end ELSE Row[Min(at)]

(* Whatever heights were drawn, hints given and sentinels replaced, the      *)
(* levels stay one list: level 0 has every node once in the order of the     *)
(* keys, a higher level exactly those that reach it, linked alike both ways; *)
(* each key is there as often as inserted and not erased; and the searches   *)
(* from either end find the first match, or the bounds, of every key.        *)
SkipFaithful ==
  /\ DOMAIN sl.height = Live(sl) \cup {sl.end}
  /\ {Row[i] : i \in 1 .. Len(Row)} = Live(sl) /\ Len(Row) = sl.size
  /\ Cardinality(Live(sl)) = sl.size
  /\ \A lvl \in 0 .. sl.height[sl.end] :
       Linked(SelectSeq(Row, LAMBDA n : sl.height[n] >= lvl), lvl)
  /\ \A n \in Live(sl) : sl.height[n] <= sl.height[sl.end]
  /\ Sorted
  /\ \A k \in Keys :
       /\ sl.bag[k] = Cardinality({n \in Live(sl) : sl.key[n] = k})
       /\ (stdskl_find(sl, k) # sl.end) = (sl.bag[k] > 0)
       /\ stdskl_lowerb(sl, k) = From(LAMBDA key : key >= k)
       /\ stdskl_upperb(sl, k) = From(LAMBDA key : key > k)
=============================================================================

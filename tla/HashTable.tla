----------------------------- MODULE HashTable ------------------------------
(***************************************************************************)
(* The hash table of stdutil (stdutil/src/stdhash.c), in which the daemon  *)
(* keeps its nodes, edges, groups and sessions: open addressing with       *)
(* double hashing.  An erased node stays as an inactive place holder until *)
(* the table is rehashed; begin is kept at the first active node.  Keys    *)
(* may occur several times (stdhash_insert) or be overwritten              *)
(* (stdhash_put); values are left out.  `walk' is a program's iterator     *)
(* that goes from begin to end and may erase where it stands.              *)
(***************************************************************************)
EXTENDS Integers, Sequences, FiniteSets, FiniteSetsExt

CONSTANTS Key, HCode,               \* the keys and what hcode_fcn makes of them
          HBITS,                    \* bits of a stdhcode
          STDHASH_MIN_AUTO_ALLOC,
          NO_AUTO_SHRINK,           \* the option of this table
          MaxNodes, MaxReserve      \* bounds: elements; what stdhash_reserve is asked for

VARIABLE ht

Empty == 0                    \* keys are positive
Inactive == -1
Active(c) == c \notin {Empty, Inactive}

(* stdlg_up, stdpow2_up, stdpow2_cap.                                        *)
RECURSIVE stdlg_up(_)
stdlg_up(x) == IF x = 1 THEN 0 ELSE 1 + stdlg_up((x + 1) \div 2)
stdpow2_cap(x) == LET up == 2 ^ stdlg_up(x)
                  IN  IF up < x + x \div 2 THEN 2 * up ELSE up

(* stdhash_low_hcode and stdhash_low_hash: where a key's search begins and   *)
(* the odd step with which it goes on, around the table.                     *)
low_hcode(k) == IF HCode[k] = 0 THEN 1 ELSE HCode[k]
H1(k, cap) == low_hcode(k) % cap
H2(k, cap) == LET top == low_hcode(k) \div 2 ^ (HBITS - stdlg_up(cap))
              IN  IF top % 2 = 0 THEN top + 1 ELSE top
Probe(k, cap, i) == (H1(k, cap) + i * H2(k, cap)) % cap

Cap(h) == Cardinality(DOMAIN h.table)
high_thresh(h) == Cap(h) \div 2
low_thresh(h) == Cap(h) \div 8
TableEnd(h) == Cap(h)

(* stdhash_low_next: the first active node behind p, or the end.             *)
Following(t, p) == {q \in DOMAIN t : q > p /\ Active(t[q])}
low_next(t, p) == IF Following(t, p) = {} THEN Cardinality(DOMAIN t) ELSE Min(Following(t, p))

(* stdhash_low_find: along the probe sequence to an empty place, or to a     *)
(* match, or (for an insertion that does not overwrite) to an inactive node. *)
(* -1 stands for a search that does not end.                                 *)
Stops(c, k, find_match) == c = Empty \/ IF find_match THEN c = k ELSE c = Inactive
RECURSIVE Search(_, _, _, _, _, _)
Search(t, k, find_match, p, step, left) ==
  IF left = 0 THEN -1
  ELSE IF Stops(t[p], k, find_match) THEN p
  ELSE Search(t, k, find_match, (p + step) % Cardinality(DOMAIN t), step, left - 1)
low_find(t, k, find_match) ==
  LET cap == Cardinality(DOMAIN t)
  IN  Search(t, k, find_match, H1(k, cap), H2(k, cap), cap)

(* stdhash_low_rehash: the active nodes, in the order of the old table, go   *)
(* to a new one.                                                             *)
NewCap(n) == 2 * stdpow2_cap(Max({n, STDHASH_MIN_AUTO_ALLOC}))
RECURSIVE Refill(_, _, _)
Refill(old, p, new) ==
  LET q == low_next(old, p)
  IN  IF q = Cardinality(DOMAIN old) THEN new
      ELSE Refill(old, q, [new EXCEPT ![low_find(new, old[q], FALSE)] = old[q]])
low_rehash(h, n) ==
  LET t == Refill(h.table, -1, [p \in 0 .. NewCap(n) - 1 |-> Empty])
  IN  [h EXCEPT !.table = t, !.num_nodes = h.size, !.begin = low_next(t, -1)]

-----------------------------------------------------------------------------
(* stdhash_construct.  "count" is how often each key should be there.        *)
Init == ht = [table |-> [p \in {} |-> Empty], begin |-> 0, num_nodes |-> 0, size |-> 0,
              count |-> [k \in Key |-> 0],
              walk |-> [on |-> FALSE, pos |-> 0, seen |-> {}]]

(* stdhash_low_insert of one pair.                                           *)
Grow(h) == IF h.num_nodes >= high_thresh(h) THEN low_rehash(h, h.size + 1) ELSE h
low_insert(h, k, overwrite) ==
  LET g == Grow(h)
      p == low_find(g.table, k, overwrite)
      new == ~Active(g.table[p])
  IN  [g EXCEPT !.table[p] = k,
                !.num_nodes = IF g.table[p] = Empty THEN @ + 1 ELSE @,
                !.size = IF new THEN @ + 1 ELSE @,
                !.begin = IF p < @ THEN p ELSE @,
                !.count[k] = IF overwrite THEN Max({@, 1}) ELSE @ + 1]

(* Mutant: the place of an erased node is free again. *)
RemovedOutright == Empty

(* stdhash_erase of the node at p; rehashing may fail for lack of memory.    *)
(* The result has the iterator that is given back.                           *)
Removed == Inactive           \* hcode 0: the place stays taken
ShrinksNow(h) == /\ ~NO_AUTO_SHRINK /\ Cap(h) # STDHASH_MIN_AUTO_ALLOC
                 /\ h.size <= low_thresh(h)
EraseAt(h, p, nomem) ==
  LET next == low_next(h.table, p)
      e == [h EXCEPT !.table[p] = Removed, !.size = @ - 1,
                     !.begin = IF p = @ THEN next ELSE @,
                     !.count[h.table[p]] = @ - 1]
      r == low_rehash(e, e.size)
  IN  IF ShrinksNow(e) /\ ~nomem THEN [h |-> r, it |-> r.begin] ELSE [h |-> e, it |-> next]

(* stdhash_find.                                                             *)
Find(h, k) == IF h.size = 0 THEN TableEnd(h)
              ELSE LET p == low_find(h.table, k, TRUE)
                   IN  IF p = -1 \/ h.table[p] = Empty THEN TableEnd(h) ELSE p

(* stdhash_erase_key: while the key is found, that node is erased.           *)
RECURSIVE EraseKey(_, _)
EraseKey(h, k) == IF Find(h, k) = TableEnd(h) THEN h ELSE EraseKey(EraseAt(h, Find(h, k), FALSE).h, k)

(* stdhash_low_clear, stdhash_clear.                                         *)
Clear(h) ==
  LET c == IF h.num_nodes = 0 THEN h
           ELSE [h EXCEPT !.table = [p \in DOMAIN @ |-> Empty], !.begin = TableEnd(h),
                          !.num_nodes = 0, !.size = 0]
  IN  [IF ShrinksNow(c) THEN low_rehash(c, c.size) ELSE c EXCEPT !.count = [k \in Key |-> 0]]

-----------------------------------------------------------------------------
Still == ~ht.walk.on          \* nobody changes the table under an iterator
stdhash_put == Still /\ \E k \in Key : ht.size < MaxNodes /\ ht' = low_insert(ht, k, TRUE)
stdhash_insert == Still /\ \E k \in Key : ht.size < MaxNodes /\ ht' = low_insert(ht, k, FALSE)
stdhash_erase ==
  Still /\ \E k \in Key, nomem \in BOOLEAN :
    Find(ht, k) # TableEnd(ht) /\ ht' = EraseAt(ht, Find(ht, k), nomem).h
stdhash_erase_key == Still /\ \E k \in Key : ht' = EraseKey(ht, k)
stdhash_clear == Still /\ ht' = Clear(ht)
stdhash_reserve == Still /\ \E n \in 1 .. MaxReserve :
                     n > high_thresh(ht) /\ ht' = low_rehash(ht, n)
stdhash_rehash == Still /\ ht' = low_rehash(ht, ht.size)

(* A walk: stdhash_begin, then stdhash_it_next or stdhash_erase at each      *)
(* node, until stdhash_is_end.                                               *)
WalkBegin == Still /\ ht' = [ht EXCEPT !.walk = [on |-> TRUE, pos |-> ht.begin, seen |-> {}]]
AtNode == ht.walk.on /\ ht.walk.pos # TableEnd(ht)
WalkNext ==
  AtNode /\ ht' = [ht EXCEPT !.walk.pos = low_next(ht.table, @), !.walk.seen = @ \cup {ht.table[ht.walk.pos]}]
WalkErase ==
  AtNode /\ \E nomem \in BOOLEAN :
    LET e == EraseAt(ht, ht.walk.pos, nomem)
    IN  ht' = [e.h EXCEPT !.walk.pos = e.it]
WalkEnd ==
  /\ ht.walk.on /\ ht.walk.pos = TableEnd(ht)
  /\ ht' = [ht EXCEPT !.walk = [on |-> FALSE, pos |-> 0, seen |-> {}]]

Next == \/ stdhash_put \/ stdhash_insert \/ stdhash_erase \/ stdhash_erase_key \/ stdhash_clear
        \/ stdhash_reserve \/ stdhash_rehash
        \/ WalkBegin \/ WalkNext \/ WalkErase \/ WalkEnd

Spec == Init /\ [][Next]_ht

-----------------------------------------------------------------------------
(* stdhash_keyed_next, stdhash_keyed_prev: the matches of a key lie on its   *)
(* probe sequence before the first empty place.                              *)
Reach(k) ==
  LET empty == {i \in 0 .. Cap(ht) - 1 : ht.table[Probe(k, Cap(ht), i)] = Empty}
  IN  IF empty = {} THEN {} ELSE 0 .. Min(empty) - 1
Matches(k) == {i \in Reach(k) : ht.table[Probe(k, Cap(ht), i)] = k}

(* Whatever was inserted, erased and rehashed before, the table holds what   *)
(* it should: each key as often as it was put there, all within reach of a   *)
(* search that ends; begin is the first active node; and a walk that erases  *)
(* on its way, which may rehash the table under it, passes no node by.       *)
TableFaithful ==
  /\ \A k \in Key : /\ (Find(ht, k) # TableEnd(ht)) = (ht.count[k] > 0)
                    /\ Cap(ht) > 0 => /\ Cardinality(Matches(k)) = ht.count[k]
                                      /\ low_find(ht.table, k, TRUE) # -1
  /\ ht.size = MapThenSumSet(LAMBDA k : ht.count[k], Key)
  /\ ht.num_nodes = Cardinality({p \in DOMAIN ht.table : ht.table[p] # Empty})
  /\ ht.begin = low_next(ht.table, -1)
  /\ ht.walk.on => /\ ht.walk.pos \in DOMAIN ht.table \cup {TableEnd(ht)}
                   /\ \A p \in DOMAIN ht.table :
                        Active(ht.table[p]) /\ p < ht.walk.pos => ht.table[p] \in ht.walk.seen
=============================================================================

------------------------------- MODULE Memory -------------------------------
(***************************************************************************)
(* The allocator and the reference counts under every packet, message and  *)
(* session (libspread-util/src/memory.c).  Freed objects of a type go to a *)
(* pool, up to its threshold; the pool is a list whose links lie in the    *)
(* place of the objects' headers.  `mem.word' has, for each address that   *)
(* malloc gave out, this first word: a header or a link.                   *)
(*                                                                         *)
(* The build defines NDEBUG, so that the pools are used and the statistics *)
(* of the other build are not kept.  The callers are those the code        *)
(* expects: each reference is given up once by who holds it, and an object *)
(* without a count is disposed once.                                       *)
(***************************************************************************)
EXTENDS Integers, FiniteSets, FiniteSetsExt

CONSTANTS Addr,                        \* bound: the addresses malloc can give
          Size, threshold, initial,    \* of the one pooled type
          Lengths,                     \* of blocks that Mem_alloc is asked for
          MaxRefs                      \* bound: references to one object

NULL == 0
NO_REF_CNT == -1

VARIABLE mem

Live(m) == DOMAIN m.word
IsHeader(w) == "obj_type" \in DOMAIN w
Put(word, a, w) == [x \in DOMAIN word \cup {a} |-> IF x = a THEN w ELSE word[x]]
Drop(word, a) == [x \in DOMAIN word \ {a} |-> word[x]]

-----------------------------------------------------------------------------
(* Mem_init_object: the pool starts with `initial' objects.                  *)
Init ==
  \E A \in {S \in SUBSET Addr : Cardinality(S) = initial} :
  \E order \in {f \in [1 .. initial -> A] : \A i, j \in 1 .. initial : i # j => f[i] # f[j]} :
    mem = [num_obj_inpool |-> initial, list_head |-> IF initial = 0 THEN NULL ELSE order[initial],
           word |-> [a \in A |-> LET i == CHOOSE k \in 1 .. initial : order[k] = a
                                 IN  [next |-> IF i = 1 THEN NULL ELSE order[i - 1]]],
           held |-> [a \in {} |-> 0], broken |-> FALSE]

Header(t, len, refs) == [obj_type |-> t, block_len |-> len, ref_cnt |-> refs]

(* new and new_ref_cnt: an object from the pool, or a new one.               *)
NewObject(refs) ==
  LET given(m, a) == [m EXCEPT !.word = Put(@, a, Header("POOLED", Size, refs)), !.held = Put(@, a, 1)]
      first == mem.list_head
  IN  IF first = NULL THEN \E a \in Addr \ Live(mem) : mem' = given(mem, a)
      ELSE mem' = given([mem EXCEPT !.list_head = mem.word[first].next, !.num_obj_inpool = @ - 1,
                                    !.broken = @ \/ mem.num_obj_inpool = 0], first)
new == NewObject(NO_REF_CNT)
new_ref_cnt == NewObject(1)

(* Mem_alloc and Mem_alloc_ref_cnt.                                          *)
AllocBlock(len, refs) ==
  \E a \in Addr \ Live(mem) :
    mem' = [mem EXCEPT !.word = Put(@, a, Header("BLOCK_OBJECT", len, refs)), !.held = Put(@, a, 1)]
Mem_alloc == \E len \in Lengths : AllocBlock(len, NO_REF_CNT)
Mem_alloc_ref_cnt == \E len \in Lengths : AllocBlock(len, 1)

(* Mem_copy: a copy has no count.                                            *)
Mem_copy ==
  \E a \in DOMAIN mem.held :
    IF mem.word[a].obj_type = "BLOCK_OBJECT" THEN AllocBlock(mem.word[a].block_len, NO_REF_CNT)
    ELSE new

-----------------------------------------------------------------------------
(* dispose, with the assertion of the code: back to malloc, or to the pool   *)
(* as far as its threshold goes.  Blocks have no pool.                       *)
Disposed(m, a) ==
  LET h == m.word[a]
      b == [m EXCEPT !.broken = @ \/ h.ref_cnt # NO_REF_CNT]
  IN  IF h.obj_type = "BLOCK_OBJECT" \/ m.num_obj_inpool >= threshold
      THEN [b EXCEPT !.word = Drop(@, a)]
      ELSE [b EXCEPT !.word = Put(@, a, [next |-> m.list_head]), !.list_head = a, !.num_obj_inpool = @ + 1]

dispose ==
  \E a \in DOMAIN mem.held :
    /\ mem.word[a].ref_cnt = NO_REF_CNT
    /\ mem' = [Disposed(mem, a) EXCEPT !.held = Drop(@, a)]

inc_ref_cnt ==
  \E a \in DOMAIN mem.held :
    /\ mem.word[a].ref_cnt > 0 /\ mem.held[a] < MaxRefs
    /\ mem' = [mem EXCEPT !.word[a].ref_cnt = @ + 1, !.held[a] = @ + 1]

(* dec_ref_cnt: the last reference disposes of the object.                   *)
LastOne(n) == n = 0
dec_ref_cnt ==
  \E a \in DOMAIN mem.held :
    /\ IsHeader(mem.word[a]) => mem.word[a].ref_cnt > 0
    /\ LET left == [mem EXCEPT !.word[a].ref_cnt = @ - 1]
           given == [left EXCEPT !.held = IF left.held[a] = 1 THEN Drop(@, a) ELSE [@ EXCEPT ![a] = @ - 1]]
       IN  mem' = IF LastOne(left.word[a].ref_cnt)
                  THEN Disposed([given EXCEPT !.word[a].ref_cnt = NO_REF_CNT], a)
                  ELSE given

Next == \/ new \/ new_ref_cnt \/ Mem_alloc \/ Mem_alloc_ref_cnt \/ Mem_copy
        \/ dispose \/ inc_ref_cnt \/ dec_ref_cnt

Spec == Init /\ [][Next]_mem

-----------------------------------------------------------------------------
Pooled == {a \in Live(mem) : ~IsHeader(mem.word[a])}

(* The pool is a chain from list_head through exactly the pooled addresses.  *)
Chained ==
  /\ (mem.list_head = NULL) = (Pooled = {})
  /\ Pooled # {} => mem.list_head \in Pooled
  /\ LET targets == {mem.word[a].next : a \in Pooled}
     IN  /\ targets \subseteq Pooled \cup {NULL}
         /\ mem.list_head \notin targets \/ Pooled = {}
         /\ Cardinality(targets) = Cardinality(Pooled)

(* An object that somebody still refers to is never in the pool nor given    *)
(* back, its count is the number of references, and no assertion of new and  *)
(* dispose fails.  The pool, which dispose compares with its threshold by    *)
(* num_obj_inpool, has as many objects as that says.                         *)
ReferencedIsLive ==
  /\ ~mem.broken
  /\ DOMAIN mem.held = Live(mem) \ Pooled
  /\ \A a \in DOMAIN mem.held : mem.word[a].ref_cnt \in {mem.held[a], NO_REF_CNT}
  /\ Chained
  /\ mem.num_obj_inpool = Cardinality(Pooled)
  /\ mem.num_obj_inpool <= Max({threshold, initial})
=============================================================================

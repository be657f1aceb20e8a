--------------------------- MODULE CircularArray ----------------------------
(***************************************************************************)
(* The circular array of stdutil (stdutil/src/stdcarr.c), which holds the  *)
(* queues of the daemon.  The elements lie in cap cells from `begin' on,   *)
(* around the end of the memory; one cell stays free.  An insertion or an  *)
(* erasure moves the shorter side with a few memcpy and memmove, whose     *)
(* cases depend on what wraps around.                                      *)
(*                                                                         *)
(* What is stored does not matter, so the state is only where the elements *)
(* lie: before an operation the i-th element is i, and `arr.result' has    *)
(* what the operation made of them, beside what it should have made.       *)
(* Lengths count elements (vsize is 1); pointers are cells.                *)
(***************************************************************************)
EXTENDS Integers, Sequences, FiniteSets, FiniteSetsExt, SequencesExt

CONSTANTS STDCARR_MIN_AUTO_ALLOC,
          Opts,               \* the sets of options an array may have
          MaxSize, MaxChange  \* bounds: elements; elements one call adds or takes

VARIABLE arr

JUNK == 0
NoGrow == "STDCARR_OPTS_NO_AUTO_GROW"
NoShrink == "STDCARR_OPTS_NO_AUTO_SHRINK"

-----------------------------------------------------------------------------
(* Pointers: stdcarr_low_forward, stdcarr_low_backward, stdcarr_rank,        *)
(* stdcarr_it_cmp.                                                           *)
Forward(p, n, cap) == IF p + n < cap THEN p + n ELSE p + n - cap
Backward(p, n, cap) == IF p - n >= 0 THEN p - n ELSE cap + p - n
End(a) == IF a.cap = 0 THEN 0 ELSE Forward(a.begin, a.size, a.cap)
Ptr(a, k) == IF a.cap = 0 THEN 0 ELSE Forward(a.begin, k, a.cap)
Rank(a, p) == IF p >= a.begin THEN p - a.begin ELSE (a.cap - a.begin) + p
It_cmp(a, p, q) ==
  IF p >= a.begin THEN (IF q >= a.begin THEN p - q ELSE (p - a.cap) - q)
  ELSE (IF q < a.begin THEN p - q ELSE (a.cap - q) + p)

(* Memory: memcpy needs its ranges apart, and both stay inside.              *)
Contents(a) == [p \in 0 .. a.cap - 1 |->
                  IF Rank(a, p) < a.size THEN Rank(a, p) + 1 ELSE JUNK]
Cpy(d, s, n) == [op |-> "memcpy", dst |-> d, src |-> s, len |-> n]
Move(d, s, n) == [op |-> "memmove", dst |-> d, src |-> s, len |-> n]
Within(c, dstcap, srccap) ==
  /\ c.len >= 0
  /\ c.len > 0 => /\ c.dst >= 0 /\ c.dst + c.len <= dstcap
                  /\ c.src >= 0 /\ c.src + c.len <= srccap
Sound(c, cap) ==
  /\ Within(c, cap, cap)
  /\ c.op = "memcpy" => c.len = 0 \/ c.dst + c.len <= c.src \/ c.src + c.len <= c.dst
Moved(m, c) ==
  [p \in DOMAIN m |-> IF p >= c.dst /\ p < c.dst + c.len THEN m[c.src + p - c.dst] ELSE m[p]]
Run(m, calls) == FoldLeft(Moved, m, calls)

(* stdcarr_low_copy_to_buf: the cells from b to e, around the end.           *)
Slice(a, b, e) ==
  LET m == Contents(a)
      Part(x, y) == [i \in 1 .. y - x |-> m[x + i - 1]]
  IN  IF b <= e THEN Part(b, e) ELSE Part(b, a.cap) \o Part(0, e)

-----------------------------------------------------------------------------
(* stdcarr_low_insert_shift_right, _left: the calls that open a gap of d     *)
(* cells at `it'.                                                            *)
InsertShiftRight(a, it, d) ==
  LET end == End(a)
      over == end + d - a.cap
      tail == end - it
      high == a.cap - it
  IN  IF a.begin <= end
      THEN IF over <= 0 THEN <<Move(it + d, it, tail)>>
           ELSE IF tail <= over THEN <<Cpy(over - tail, it, tail)>>
           ELSE <<Cpy(0, end - over, over), Move(it + d, it, tail - over)>>
      ELSE IF tail >= 0 THEN <<Move(it + d, it, tail)>>
      ELSE <<Move(d, 0, end)>> \o
           (IF high <= d THEN <<Cpy(d - high, it, high)>>
            ELSE <<Cpy(0, a.cap - d, d), Move(it + d, it, high - d)>>)

InsertShiftLeft(a, it, d) ==
  LET over == d - a.begin
      front == it - a.begin
  IN  IF a.begin <= End(a)
      THEN IF over <= 0 THEN <<Move(a.begin - d, a.begin, front)>>
           ELSE IF front <= over THEN <<Cpy(a.cap - over, a.begin, front)>>
           ELSE <<Cpy(a.cap - over, a.begin, over), Move(0, a.begin + over, front - over)>>
      ELSE IF it >= a.begin THEN <<Move(a.begin - d, a.begin, front)>>
      ELSE <<Move(a.begin - d, a.begin, a.cap - a.begin)>> \o
           (IF it <= d THEN <<Cpy(a.cap - d, 0, it)>>
            ELSE <<Cpy(a.cap - d, 0, d), Move(0, d, it - d)>>)

(* stdcarr_low_erase_shift_left: the cells from `to' on close the gap below. *)
EraseShiftLeft(a, to, d) ==
  LET end == End(a)
      from == to - d
      tail == end - to
      high == a.cap - to
  IN  IF tail >= 0
      THEN IF from >= 0 THEN <<Move(from, to, tail)>>
           ELSE IF tail <= -from THEN <<Cpy(a.cap + from, to, tail)>>
           ELSE <<Cpy(a.cap + from, to, -from), Move(0, to - from, tail + from)>>
      ELSE <<Move(from, to, high)>> \o
           (IF end <= d THEN <<Cpy(from + high, 0, end)>>
            ELSE <<Cpy(from + high, 0, d), Move(0, d, end - d)>>)

(* stdcarr_low_erase_shift_right: the cells before `from' close the gap.     *)
EraseShiftRight(a, from, d) ==
  LET front == from - a.begin
      over == from + d - a.cap
      high == a.cap - a.begin
  IN  IF front >= 0
      THEN IF over <= 0 THEN <<Move(a.begin + d, a.begin, front)>>
           ELSE IF over >= front THEN <<Cpy(over - front, a.begin, front)>>
           ELSE <<Cpy(0, from - over, over), Move(a.begin + d, a.begin, front - over)>>
      ELSE <<Move(d, 0, from)>> \o
           (IF high <= d THEN <<Cpy(d - high, a.begin, high)>>
            ELSE <<Cpy(0, a.cap - d, d), Move(a.begin + d, a.begin, high - d)>>)

-----------------------------------------------------------------------------
(* Init: stdcarr_construct.  "it" is the iterator that a call gives back and *)
(* "rank" the element that it should be at.                                  *)
Blank(o) == [cap |-> 0, begin |-> 0, size |-> 0, opts |-> o,
             result |-> [got |-> <<>>, want |-> <<>>, sound |-> TRUE, it |-> 0, rank |-> 0]]
Init == \E o \in Opts : arr = Blank(o)

high_capacity(a) == IF a.cap # 0 THEN a.cap - 1 ELSE 0
low_capacity(a) == a.cap \div 4
NewCap(n) == Max({2 * n, STDCARR_MIN_AUTO_ALLOC})
Elements(a) == [i \in 1 .. a.size |-> i]
Fresh(n) == [i \in 1 .. n |-> -i]

(* What lies in array a whose memory is m.                                   *)
Read(a, m) == [i \in 1 .. a.size |-> m[Ptr(a, i - 1)]]
Done(a, got, want, sound, it, rank) ==
  arr' = [a EXCEPT !.result = [got |-> got, want |-> want, sound |-> sound, it |-> it, rank |-> rank]]

(* stdcarr_low_insert_shift at rank k, and the caller that fills the gap     *)
(* from `it' on, around the end (stdcarr_insert_n, _seq_n, _rep).            *)
Fill(a, it, vals, m) ==
  [p \in DOMAIN m |-> LET i == IF p >= it THEN p - it + 1 ELSE a.cap - it + p + 1
                      IN  IF i <= Len(vals) THEN vals[i] ELSE m[p]]
Inserted(k, vals) ==
  SubSeq(Elements(arr), 1, k) \o vals \o SubSeq(Elements(arr), k + 1, arr.size)

InsertInPlace(k, vals, right) ==
  LET n == Len(vals)
      p == Ptr(arr, k)
      calls == IF right THEN InsertShiftRight(arr, p, n) ELSE InsertShiftLeft(arr, p, n)
      a == [arr EXCEPT !.size = @ + n,
                       !.begin = IF right THEN @ ELSE Backward(@, n, arr.cap)]
      it == IF right THEN p ELSE Backward(p, n, arr.cap)
      sound == \A c \in Range(calls) : Sound(c, arr.cap)
      m == IF sound THEN Fill(a, it, vals, Run(Contents(arr), calls)) ELSE Contents(a)
  IN  /\ arr.size + n <= high_capacity(arr)
      /\ Done(a, Read(a, m), Inserted(k, vals), sound, it, k)

InsertGrowing(k, vals) ==
  LET p == Ptr(arr, k)
      front == IF arr.cap = 0 THEN <<>> ELSE Slice(arr, arr.begin, p)
      back == IF arr.cap = 0 THEN <<>> ELSE Slice(arr, p, End(arr))
      a == [arr EXCEPT !.size = @ + Len(vals), !.cap = NewCap(arr.size + Len(vals)), !.begin = 0]
  IN  /\ arr.size + Len(vals) > high_capacity(arr) /\ NoGrow \notin arr.opts
      /\ Done(a, front \o vals \o back, Inserted(k, vals), TRUE, Len(front), k)

(* stdcarr_insert_n and its relatives; a failure (no memory, growth not      *)
(* allowed) leaves the array alone.                                          *)
INS_SHIFT_RIGHT(a, p) == IF p >= a.begin THEN p - a.begin > a.size \div 2
                         ELSE End(a) - p <= a.size \div 2
Changes == 1 .. MaxChange
stdcarr_insert_n ==
  \E k \in 0 .. arr.size, n \in Changes :
    /\ arr.size + n <= MaxSize
    /\ \/ InsertInPlace(k, Fresh(n), INS_SHIFT_RIGHT(arr, Ptr(arr, k)))
       \/ InsertGrowing(k, Fresh(n))

(* stdcarr_low_erase_shift of n elements from rank k on.                     *)
(* The iterator ends up at the gap's end in both cases, which after a move   *)
(* to the left is n elements behind the place of the erasure.                *)
Erased(k, n) == SubSeq(Elements(arr), 1, k) \o SubSeq(Elements(arr), k + n + 1, arr.size)
EraseInPlace(k, n, right) ==
  LET from == Ptr(arr, k)
      to == Ptr(arr, k + n)
      calls == IF right THEN EraseShiftRight(arr, from, n) ELSE EraseShiftLeft(arr, to, n)
      a == [arr EXCEPT !.size = @ - n, !.begin = IF right THEN Forward(@, n, arr.cap) ELSE @]
      sound == \A c \in Range(calls) : Sound(c, arr.cap)
      m == IF sound THEN Run(Contents(arr), calls) ELSE Contents(a)
  IN  Done(a, Read(a, m), Erased(k, n), sound, to, IF right THEN k ELSE k + n)

EraseShrinking(k, n) ==
  LET front == Slice(arr, arr.begin, Ptr(arr, k))
      back == Slice(arr, Ptr(arr, k + n), End(arr))
      a == [arr EXCEPT !.size = @ - n, !.cap = NewCap(arr.size - n), !.begin = 0]
  IN  Done(a, front \o back, Erased(k, n), TRUE, Len(front), k)

MayShrink(n) == /\ NoShrink \notin arr.opts
                /\ arr.size - n <= low_capacity(arr) /\ arr.cap # STDCARR_MIN_AUTO_ALLOC
Erase(k, n, right) == \/ EraseInPlace(k, n, right)     \* also when malloc fails
                      \/ MayShrink(n) /\ EraseShrinking(k, n)

ERS_SHIFT_RIGHT(a, p, n) == IF p >= a.begin THEN p - a.begin < (a.size - n) \div 2
                            ELSE End(a) - p >= (a.size + n) \div 2
stdcarr_erase_n ==
  \E k \in 0 .. arr.size - 1, n \in Changes :
    k + n <= arr.size /\ Erase(k, n, ERS_SHIFT_RIGHT(arr, Ptr(arr, k), n))

(* stdcarr_pop_front_n, stdcarr_pop_back_n.                                  *)
stdcarr_pop_front_n == \E n \in Changes : n <= arr.size /\ Erase(0, n, TRUE)
stdcarr_pop_back_n == \E n \in Changes : n <= arr.size /\ Erase(arr.size - n, n, FALSE)

-----------------------------------------------------------------------------
(* stdcarr_resize: new elements at the end, whose values nobody sets.        *)
Junk(n) == [i \in 1 .. n |-> JUNK]
stdcarr_resize ==
  \E n \in 0 .. MaxSize :
    \/ n > arr.size /\ (InsertInPlace(arr.size, Junk(n - arr.size), TRUE)
                        \/ InsertGrowing(arr.size, Junk(n - arr.size)))
    \/ n < arr.size /\ Erase(n, arr.size - n, FALSE)

(* stdcarr_set_capacity (stdcarr_reserve and stdcarr_shrink_fit call it).    *)
stdcarr_set_capacity ==
  \E n \in 0 .. MaxSize :
    LET kept == Min({n, arr.size})
        a == [arr EXCEPT !.cap = IF n = 0 THEN 0 ELSE n + 1, !.size = kept, !.begin = 0]
        got == IF arr.cap = 0 THEN <<>> ELSE Slice(arr, arr.begin, Ptr(arr, kept))
    IN  n # high_capacity(arr) /\ Done(a, IF n = 0 THEN <<>> ELSE got, SubSeq(Elements(arr), 1, kept), TRUE, 0, 0)

(* stdcarr_set_eq: this array takes the elements of another one, which lies  *)
(* at cell b of its memory; stdcarr_copy_construct: it is a copy of it.      *)
Other(n, b) == [cap |-> n + 1, begin |-> b, size |-> n]
stdcarr_set_eq ==
  \E n \in 0 .. MaxSize : \E b \in 0 .. n :
    LET o == Other(n, b)
        grow == n > high_capacity(arr)
        shrink == n < arr.size /\ MayShrink(arr.size - n)
        a == [arr EXCEPT !.cap = IF grow \/ shrink THEN NewCap(n) ELSE @, !.size = n, !.begin = 0]
    IN  /\ ~(grow /\ NoGrow \in arr.opts)
        /\ Done(a, Slice(o, b, End(o)), Elements(o), TRUE, 0, 0)
stdcarr_copy_construct ==
  /\ arr.cap # 0
  /\ Done([arr EXCEPT !.begin = 0], Slice(arr, arr.begin, End(arr)), Elements(arr), TRUE, 0, 0)

Next == \/ stdcarr_insert_n \/ stdcarr_erase_n \/ stdcarr_pop_front_n \/ stdcarr_pop_back_n
        \/ stdcarr_resize \/ stdcarr_set_capacity \/ stdcarr_set_eq \/ stdcarr_copy_construct

Spec == Init /\ [][Next]_arr

-----------------------------------------------------------------------------
(* STDCARR_IS_LEGAL.                                                         *)
Legal(a) == /\ a.begin \in 0 .. Max({0, a.cap - 1})
            /\ a.size < a.cap \/ (a.size = 0 /\ a.cap = 0)

(* Every operation, whichever side it moves and whatever wraps around, does  *)
(* to the elements what its name says, copies no memory onto itself with     *)
(* memcpy nor past its ends, gives back an iterator at the first of the new  *)
(* elements (see EraseInPlace for erasures), and leaves a legal array whose  *)
(* iterators compare as their ranks.                                         *)
ArrayFaithful ==
  /\ arr.result.sound
  /\ arr.result.got = arr.result.want
  /\ Len(arr.result.want) = arr.size
  /\ Legal(arr)
  /\ arr.result.it = Ptr(arr, arr.result.rank)
  /\ arr.cap # 0 => \A i, j \in 0 .. arr.size :
       /\ Rank(arr, Ptr(arr, i)) = i
       /\ It_cmp(arr, Ptr(arr, i), Ptr(arr, j)) = i - j
=============================================================================

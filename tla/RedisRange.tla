----------------------------- MODULE RedisRange -----------------------------
(***************************************************************************)
(* The index arithmetic of LRANGE and ZRANGE, which the code repeats in    *)
(* redis_lrange and redis_zrange.                                          *)
(***************************************************************************)
EXTENDS Integers, Sequences

\* Mutant: a start that is still negative stays so.
RangeBoundsUnclamped(start, stop, size) ==
  LET to == IF stop < 0 THEN stop + size ELSE stop
  IN  <<IF start < 0 THEN start + size ELSE start, IF to < 0 \/ to >= size THEN size - 1 ELSE to>>

(***************************************************************************)
(* The first and the last index answered, for a list of the given size.    *)
(* Indices count from 0, negative ones from the end.  stop is an int that  *)
(* is compared with a size_t, so a stop that is still negative counts as   *)
(* behind the end.                                                         *)
(***************************************************************************)
RangeBounds(start, stop, size) ==
  LET from == IF start < 0 THEN start + size ELSE start
      to   == IF stop < 0 THEN stop + size ELSE stop
  IN  <<IF from < 0 THEN 0 ELSE from, IF to < 0 \/ to >= size THEN size - 1 ELSE to>>

Slice(elements, start, stop) ==
  LET r == RangeBounds(start, stop, Len(elements))
  IN  IF elements = << >> \/ r[1] > r[2] THEN << >> ELSE SubSeq(elements, r[1] + 1, r[2] + 1)

\* Whatever the indices, the loop reads no element outside the vector; and it reads
\* every element between start and stop, and no other unless stop lies before the
\* first element.
ExactRange(start, stop, size) ==
  LET answered == RangeBounds(start, stop, size)[1] .. RangeBounds(start, stop, size)[2]
      from     == IF start < 0 THEN start + size ELSE start
      to       == IF stop < 0 THEN stop + size ELSE stop
      between  == {i \in 0..(size - 1) : from <= i /\ i <= to}
  IN  /\ answered \subseteq 0..(size - 1) /\ between \subseteq answered
      /\ to >= 0 => answered = between
=============================================================================

-------------------------------- MODULE Ring --------------------------------
(***************************************************************************)
(* The ring buffers of the firmware: an array of size cells, a produce     *)
(* index where the next element goes and a consume index where the next    *)
(* one is taken.  The indices are equal when the ring is empty; no code    *)
(* looks for a full ring.                                                  *)
(***************************************************************************)
EXTENDS Integers, Sequences

\* A mutant without the mask, and the index after i, "(i + 1) & MASK" for a size that
\* is a power of two.
RingUnmasked(size, i) == i + 1
RingNext(size, i) == (i + 1) % size

\* How many elements wait between the two indices.
RingCount(size, produce, consume) ==
  IF produce >= consume THEN produce - consume ELSE produce - consume + size

\* The cell of the k-th waiting element, k = 1 for the next one to be taken.
RingCell(size, consume, k) ==
  IF consume + k <= size THEN consume + k - 1 ELSE consume + k - 1 - size

\* The waiting elements, oldest first: what the ring means as a queue.
RingQueue(size, buff, produce, consume) ==
  [k \in 1..RingCount(size, produce, consume) |-> buff[RingCell(size, consume, k)]]
=============================================================================

------------------------------- MODULE ByteLine -------------------------------
(***************************************************************************)
(* What a reader of a serial line may rely on: it gets the bytes in the    *)
(* order they arrived, each at most once.  Bytes may be lost, the oldest   *)
(* first, so that what is read is a subsequence of what was sent.          *)
(***************************************************************************)
EXTENDS Naturals, Sequences

CONSTANTS Byte, NoByte
VARIABLES q,      \* the bytes that arrived and were neither read nor lost
          taken   \* the byte read last

ByteLineInit == q = <<>> /\ taken = NoByte

\* A byte of any value arrives.
Arrives ==
  /\ Len(q') > Len(q) /\ taken' = taken
  /\ \E b \in Byte : q' = Append(q, b)

Take == q # <<>> /\ taken' = Head(q) /\ q' = Tail(q)

\* Bytes are lost, the oldest first.
Lose ==
  /\ Len(q') < Len(q) /\ taken' = taken
  /\ q' = SubSeq(q, Len(q) - Len(q') + 1, Len(q))

\* The reader starts again and nothing is left of what arrived before.
Reset == q' = <<>> /\ taken' = NoByte

ByteLineNext == Arrives \/ Take \/ Lose \/ Reset

ByteLineSpec == ByteLineInit /\ [][ByteLineNext]_<<q, taken>>
===============================================================================

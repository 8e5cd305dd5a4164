----------------------------- MODULE Ring_proofs -----------------------------
(***************************************************************************)
(* What the ring's operators do, for every size: a put appends to the      *)
(* queue or, on a full ring, empties it; a take removes the first.         *)
(***************************************************************************)
EXTENDS Ring, SequenceTheorems, TLAPS

\* "& MASK" wraps at the end of the array and nowhere else.
LEMMA RingNextWraps ==
  ASSUME NEW size \in Nat \ {0}, NEW i \in 0 .. size - 1
  PROVE  /\ RingNext(size, i) = IF i + 1 = size THEN 0 ELSE i + 1
         /\ RingNext(size, i) \in 0 .. size - 1
<1>1. CASE i + 1 = size
  BY <1>1, Z3 DEF RingNext
<1>2. CASE i + 1 # size
  BY <1>2, Z3 DEF RingNext
<1> QED BY <1>1, <1>2

\* The number of waiting elements and their cells are in range.
LEMMA RingCountType ==
  ASSUME NEW size \in Nat \ {0}, NEW p \in 0 .. size - 1, NEW c \in 0 .. size - 1
  PROVE  /\ RingCount(size, p, c) \in 0 .. size - 1
         /\ RingCount(size, p, c) = 0 <=> p = c
         /\ \A k \in 1 .. RingCount(size, p, c) : RingCell(size, c, k) \in 0 .. size - 1
<1>1. RingCount(size, p, c) \in 0 .. size - 1
  BY DEF RingCount
<1>2. RingCount(size, p, c) = 0 <=> p = c
  BY DEF RingCount
<1> QED BY <1>1, <1>2 DEF RingCell

(***************************************************************************)
(* A window of a ring: its n cells from index first.  The waiting elements *)
(* are one; so are those of a ring all of whose cells wait.                *)
(***************************************************************************)
RingWindow(size, buff, first, n) == [k \in 1 .. n |-> buff[RingCell(size, first, k)]]

\* A window is the sequence of its cells.
LEMMA WindowCells ==
  ASSUME NEW size \in Nat \ {0}, NEW first \in 0 .. size - 1, NEW n \in 0 .. size
  PROVE  \A k \in 1 .. n : RingCell(size, first, k) \in 0 .. size - 1
BY DEF RingCell

LEMMA WindowType ==
  ASSUME NEW S, NEW size \in Nat \ {0}, NEW buff, \A j \in 0 .. size - 1 : buff[j] \in S,
         NEW first \in 0 .. size - 1, NEW n \in 0 .. size
  PROVE  RingWindow(size, buff, first, n) \in Seq(S)
<1> DEFINE q == RingWindow(size, buff, first, n)
<1>1. q \in [1 .. n -> S] /\ n \in Nat
  BY WindowCells DEF RingWindow
<1> QED BY <1>1, SeqDef

LEMMA WindowElements ==
  ASSUME NEW size \in Nat \ {0}, NEW buff, NEW first \in 0 .. size - 1, NEW n \in 0 .. size
  PROVE  /\ Len(RingWindow(size, buff, first, n)) = n
         /\ \A k \in 1 .. n : RingWindow(size, buff, first, n)[k] = buff[RingCell(size, first, k)]
<1> DEFINE q == RingWindow(size, buff, first, n)
           S == {buff[j] : j \in 0 .. size - 1}
<1>1. q = [k \in 1 .. n |-> buff[RingCell(size, first, k)]] /\ n \in Nat
  BY DEF RingWindow
<1>2. q \in Seq(S)
  <2> HIDE DEF S
  <2>1. \A j \in 0 .. size - 1 : buff[j] \in S
    BY DEF S
  <2> QED BY <2>1, WindowType
<1>3. Len(q) = n
  BY <1>1, <1>2, LenProperties
<1> QED BY <1>1, <1>3

\* The empty window.
LEMMA WindowEmpty ==
  ASSUME NEW size \in Nat \ {0}, NEW buff, NEW first \in 0 .. size - 1, NEW n \in 0 .. size
  PROVE  RingWindow(size, buff, first, n) = <<>> <=> n = 0
<1> DEFINE q == RingWindow(size, buff, first, n)
<1>1. CASE n = 0
  <2>1. q = [k \in {} |-> buff[RingCell(size, first, k)]]
    BY <1>1 DEF RingWindow
  <2>2. q \in [{} -> {}] /\ <<>> \in [{} -> {}]
    BY <2>1
  <2> QED BY <1>1, <2>2
<1>2. CASE n # 0
  <2>1. Len(q) # Len(<<>>)
    BY <1>2, WindowElements
  <2> QED BY <1>2, <2>1
<1> QED BY <1>1, <1>2

\* Two arrays that differ at one index only.
SameBut(size, p, buff, buff2) == \A j \in 0 .. size - 1 : j # p => buff2[j] = buff[j]

\* The cell p is the next behind a window that does not fill the ring.
Behind(size, first, n, p) ==
  /\ size \in Nat \ {0} /\ first \in 0 .. size - 1 /\ n \in 0 .. size - 1 /\ p \in 0 .. size - 1
  /\ p = RingCell(size, first, n + 1)

\* A put behind a window appends to it.
LEMMA WindowPut ==
  ASSUME NEW size, NEW first, NEW n, NEW p, NEW buff, NEW buff2,
         Behind(size, first, n, p), SameBut(size, p, buff, buff2)
  PROVE  RingWindow(size, buff2, first, n + 1)
           = Append(RingWindow(size, buff, first, n), buff2[p])
<1> DEFINE e == buff2[p]
           S == {buff[j] : j \in 0 .. size - 1} \cup {buff2[j] : j \in 0 .. size - 1}
           q == RingWindow(size, buff, first, n)
           q2 == RingWindow(size, buff2, first, n + 1)
<1>0. /\ size \in Nat \ {0} /\ first \in 0 .. size - 1 /\ n \in 0 .. size - 1 /\ p \in 0 .. size - 1
      /\ p = RingCell(size, first, n + 1)
  BY DEF Behind
<1>1. n \in 0 .. size /\ n + 1 \in 0 .. size /\ n \in Nat
  BY <1>0
<1>s. size \in Nat \ {0} /\ first \in 0 .. size - 1
  BY <1>0
<1>2. /\ q \in Seq(S) /\ Len(q) = n
      /\ \A k \in 1 .. n : q[k] = buff[RingCell(size, first, k)]
  <2>1. \A j \in 0 .. size - 1 : buff[j] \in S
    OBVIOUS
  <2> HIDE DEF S
  <2>2. q \in Seq(S)
    BY <1>0, <1>1, <2>1, WindowType
  <2>3. Len(q) = n /\ \A k \in 1 .. n : q[k] = buff[RingCell(size, first, k)]
    BY <1>1, <1>s, WindowElements, ZenonT(40)
  <2> QED BY <2>2, <2>3
<1>3. /\ q2 \in Seq(S) /\ Len(q2) = n + 1
      /\ \A k \in 1 .. n + 1 : q2[k] = buff2[RingCell(size, first, k)]
  <2>1. \A j \in 0 .. size - 1 : buff2[j] \in S
    OBVIOUS
  <2> HIDE DEF S
  <2>2. q2 \in Seq(S)
    BY <1>0, <1>1, <2>1, WindowType
  <2>3. Len(q2) = n + 1 /\ \A k \in 1 .. n + 1 : q2[k] = buff2[RingCell(size, first, k)]
    BY <1>1, <1>s, WindowElements, ZenonT(40)
  <2> QED BY <2>2, <2>3
<1>4. \A k \in 1 .. n : RingCell(size, first, k) # p /\ RingCell(size, first, k) \in 0 .. size - 1
  BY <1>0 DEF RingCell
<1>5. e \in S
  BY <1>0
<1> HIDE DEF q, q2, S, e
<1>6. /\ Append(q, e) \in Seq(S) /\ Len(Append(q, e)) = n + 1
      /\ \A k \in 1 .. n : Append(q, e)[k] = q[k]
      /\ Append(q, e)[n + 1] = e
  BY <1>2, <1>5, AppendProperties
<1>7. ASSUME NEW k \in 1 .. n + 1 PROVE q2[k] = Append(q, e)[k]
  <2>1. CASE k = n + 1
    BY <1>0, <1>3, <1>6, <2>1 DEF e
  <2>2. CASE k \in 1 .. n
    BY <1>2, <1>3, <1>4, <1>6, <2>2 DEF SameBut
  <2>3. k = n + 1 \/ k \in 1 .. n
    BY <1>0
  <2> QED BY <2>1, <2>2, <2>3
<1> QED BY <1>3, <1>6, <1>7, SeqEqual DEF q, q2, e

\* A take removes the first cell of a window.
LEMMA WindowTake ==
  ASSUME NEW size \in Nat \ {0}, NEW buff, NEW first \in 0 .. size - 1, NEW n \in 1 .. size
  PROVE  /\ Head(RingWindow(size, buff, first, n)) = buff[first]
         /\ RingWindow(size, buff, RingNext(size, first), n - 1)
              = Tail(RingWindow(size, buff, first, n))
<1> DEFINE S == {buff[j] : j \in 0 .. size - 1}
           second == RingNext(size, first)
           q == RingWindow(size, buff, first, n)
           q2 == RingWindow(size, buff, second, n - 1)
<1>1. second \in 0 .. size - 1 /\ second = IF first + 1 = size THEN 0 ELSE first + 1
  BY RingNextWraps, Zenon
<1>2. n \in 0 .. size /\ n - 1 \in 0 .. size /\ n \in Nat
  OBVIOUS
<1>3. /\ q \in Seq(S) /\ Len(q) = n
      /\ \A k \in 1 .. n : q[k] = buff[RingCell(size, first, k)]
  <2>1. \A j \in 0 .. size - 1 : buff[j] \in S
    OBVIOUS
  <2> HIDE DEF S
  <2>2. q \in Seq(S)
    BY <1>2, <2>1, WindowType
  <2> QED BY <1>2, <2>2, WindowElements, ZenonT(40)
<1>4. /\ q2 \in Seq(S) /\ Len(q2) = n - 1
      /\ \A k \in 1 .. n - 1 : q2[k] = buff[RingCell(size, second, k)]
  <2>1. \A j \in 0 .. size - 1 : buff[j] \in S
    OBVIOUS
  <2> HIDE DEF S, second
  <2>2. q2 \in Seq(S)
    BY <1>1, <1>2, <2>1, WindowType
  <2>3. Len(q2) = n - 1 /\ \A k \in 1 .. n - 1 : q2[k] = buff[RingCell(size, second, k)]
    BY <1>1, <1>2, WindowElements, ZenonT(40)
  <2> QED BY <2>2, <2>3
<1>5. \A k \in 1 .. n - 1 : RingCell(size, second, k) = RingCell(size, first, k + 1)
  BY <1>1 DEF RingCell
<1>6. RingCell(size, first, 1) = first
  BY DEF RingCell
<1> HIDE DEF q, q2, S, second
<1>7. q # <<>>
  BY <1>3, EmptySeq
<1>8. /\ Tail(q) \in Seq(S) /\ Len(Tail(q)) = n - 1
      /\ \A k \in 1 .. n - 1 : Tail(q)[k] = q[k + 1]
  BY <1>3, <1>7, HeadTailProperties
<1>9. \A k \in 1 .. n - 1 : q2[k] = Tail(q)[k]
  BY <1>3, <1>4, <1>5, <1>8
<1>10. Head(q) = q[1]
  BY <1>3, <1>7
<1>11. q2 = Tail(q)
  BY <1>4, <1>8, <1>9, SeqEqual
<1> QED BY <1>3, <1>6, <1>10, <1>11 DEF q, q2, second

-------------------------------------------------------------------------------
\* The queue of a ring is the window of its waiting cells.
LEMMA RingQueueElements ==
  ASSUME NEW size \in Nat \ {0}, NEW buff, NEW p \in 0 .. size - 1, NEW c \in 0 .. size - 1
  PROVE  /\ RingQueue(size, buff, p, c) = RingWindow(size, buff, c, RingCount(size, p, c))
         /\ Len(RingQueue(size, buff, p, c)) = RingCount(size, p, c)
         /\ \A k \in 1 .. RingCount(size, p, c) :
              RingQueue(size, buff, p, c)[k] = buff[RingCell(size, c, k)]
<1> DEFINE n == RingCount(size, p, c)
<1>1. RingQueue(size, buff, p, c) = RingWindow(size, buff, c, n)
  BY DEF RingQueue, RingWindow
<1>2. n \in 0 .. size
  BY RingCountType
<1> HIDE DEF n
<1>3. /\ Len(RingWindow(size, buff, c, n)) = n
      /\ \A k \in 1 .. n : RingWindow(size, buff, c, n)[k] = buff[RingCell(size, c, k)]
  BY <1>2, WindowElements, ZenonT(40)
<1> QED BY <1>1, <1>3 DEF n

LEMMA RingQueueType ==
  ASSUME NEW S, NEW size \in Nat \ {0}, NEW buff, \A j \in 0 .. size - 1 : buff[j] \in S,
         NEW p \in 0 .. size - 1, NEW c \in 0 .. size - 1
  PROVE  RingQueue(size, buff, p, c) \in Seq(S)
<1> DEFINE n == RingCount(size, p, c)
<1>1. n \in 0 .. size
  BY RingCountType
<1>2. RingQueue(size, buff, p, c) = RingWindow(size, buff, c, n)
  BY RingQueueElements
<1> HIDE DEF n
<1>3. RingWindow(size, buff, c, n) \in Seq(S)
  BY <1>1, WindowType
<1> QED BY <1>2, <1>3

\* The ring is empty when the indices are equal.
LEMMA RingEmpty ==
  ASSUME NEW size \in Nat \ {0}, NEW buff, NEW p \in 0 .. size - 1, NEW c \in 0 .. size - 1
  PROVE  RingQueue(size, buff, p, c) = <<>> <=> p = c
<1> DEFINE n == RingCount(size, p, c)
<1>1. n \in 0 .. size /\ (n = 0 <=> p = c)
  BY RingCountType
<1>2. RingQueue(size, buff, p, c) = RingWindow(size, buff, c, n)
  BY RingQueueElements
<1> HIDE DEF n
<1>3. RingWindow(size, buff, c, n) = <<>> <=> n = 0
  BY <1>1, WindowEmpty
<1> QED BY <1>1, <1>2, <1>3

\* A put on a ring that is not full appends.
LEMMA RingPut ==
  ASSUME NEW size \in Nat \ {0}, NEW buff, NEW buff2,
         NEW p \in 0 .. size - 1, NEW c \in 0 .. size - 1,
         SameBut(size, p, buff, buff2), RingCount(size, p, c) < size - 1
  PROVE  RingQueue(size, buff2, RingNext(size, p), c)
           = Append(RingQueue(size, buff, p, c), buff2[p])
<1> DEFINE n == RingCount(size, p, c)
           p2 == RingNext(size, p)
<1>1. p2 \in 0 .. size - 1 /\ p2 = IF p + 1 = size THEN 0 ELSE p + 1
  BY RingNextWraps, Zenon
<1>2. RingCount(size, p2, c) = n + 1 /\ n \in 0 .. size - 1 /\ p = RingCell(size, c, n + 1)
  BY <1>1 DEF RingCount, RingCell
<1>3. RingWindow(size, buff2, c, n + 1) = Append(RingWindow(size, buff, c, n), buff2[p])
  <2> HIDE DEF n
  <2>1. Behind(size, c, n, p)
    BY <1>2 DEF Behind
  <2> QED BY <2>1, WindowPut
<1>4. RingQueue(size, buff2, p2, c) = RingWindow(size, buff2, c, RingCount(size, p2, c))
  <2> HIDE DEF p2
  <2> QED BY <1>1, RingQueueElements
<1>5. RingQueue(size, buff, p, c) = RingWindow(size, buff, c, n)
  BY RingQueueElements
<1> QED BY <1>2, <1>3, <1>4, <1>5

\* A put on a full ring makes the indices equal: every result is gone.
LEMMA RingPutFull ==
  ASSUME NEW size \in Nat \ {0}, NEW p \in 0 .. size - 1, NEW c \in 0 .. size - 1,
         RingCount(size, p, c) = size - 1
  PROVE  RingNext(size, p) = c
<1>1. RingNext(size, p) = IF p + 1 = size THEN 0 ELSE p + 1
  BY RingNextWraps, Zenon
<1> QED BY <1>1 DEF RingCount

\* A take removes the first.
LEMMA RingTake ==
  ASSUME NEW S, NEW size \in Nat \ {0}, NEW buff \in [0 .. size - 1 -> S],
         NEW p \in 0 .. size - 1, NEW c \in 0 .. size - 1, p # c
  PROVE  /\ Head(RingQueue(size, buff, p, c)) = buff[c]
         /\ RingQueue(size, buff, p, RingNext(size, c)) = Tail(RingQueue(size, buff, p, c))
<1> DEFINE n == RingCount(size, p, c)
           c2 == RingNext(size, c)
<1>1. c2 \in 0 .. size - 1 /\ c2 = IF c + 1 = size THEN 0 ELSE c + 1
  BY RingNextWraps, Zenon
<1>2. RingCount(size, p, c2) = n - 1 /\ n \in 1 .. size
  BY <1>1 DEF RingCount
<1>3. RingQueue(size, buff, p, c2) = RingWindow(size, buff, c2, RingCount(size, p, c2))
  <2> HIDE DEF c2
  <2> QED BY <1>1, RingQueueElements, ZenonT(40)
<1>4. RingQueue(size, buff, p, c) = RingWindow(size, buff, c, n)
  BY RingQueueElements
<1>5. Head(RingWindow(size, buff, c, n)) = buff[c]
      /\ RingWindow(size, buff, c2, n - 1) = Tail(RingWindow(size, buff, c, n))
  <2> HIDE DEF n
  <2> QED BY <1>2, WindowTake, Zenon
<1> QED BY <1>2, <1>3, <1>4, <1>5
=============================================================================

-------------------------- MODULE PkgDecoding_proofs --------------------------
(***************************************************************************)
(* What get_pkg makes of the bytes it reads, for every length and number   *)
(* of packages and every loss: it is in step again after one package, and  *)
(* it decodes the packages in the order they were sent, once, and what is  *)
(* mixed with the data of one is bounded.                                  *)
(***************************************************************************)
EXTENDS PkgReceiver_proofs

(***************************************************************************)
(* The order of the line.                                                  *)
(***************************************************************************)
\* A byte was sent before another.
Before(a, b) == a.pkg < b.pkg \/ (a.pkg = b.pkg /\ a.pos < b.pos)

\* What get_pkg may still read.
Coming == {next} \cup {Queue[i] : i \in 1 .. Len(Queue)}

\* The waiting bytes were sent in this order, the byte read last before them.
Ordered ==
  /\ \A i \in 1 .. Len(Queue) : Queue[i] \in Byte /\ Before(Queue[i], next)
  /\ \A i, j \in 1 .. Len(Queue) : i < j => Before(Queue[i], Queue[j])
  /\ c # NoByte => \A x \in Coming : Before(c, x)

\* The fields of a byte.
LEMMA Fields ==
  /\ Byte \subseteq Places /\ NoByte \notin Byte
  /\ \A b \in Places : /\ b.pkg \in 1 .. Pkgs + 1 /\ b.pkg \in Nat /\ b.pos \in 1 .. HRTO_P_COUNT
                       /\ b = [pkg |-> b.pkg, pos |-> b.pos]
  /\ \A b \in Byte : b.pkg \in 1 .. Pkgs /\ b.pos \in 1 .. HRTO_P_COUNT
  /\ HRTO_P_COUNT \in Nat /\ HRTO_P_COUNT >= 7 /\ Pkgs \in Nat
BY PkgAssumption DEF Byte, Places

LEMMA BeforeTransitive ==
  \A x, y, z \in Places : Before(x, y) /\ Before(y, z) => Before(x, z)
<1> SUFFICES ASSUME NEW x \in Places, NEW y \in Places, NEW z \in Places, Before(x, y), Before(y, z)
             PROVE  Before(x, z)
  OBVIOUS
<1>1. /\ x.pkg \in Nat /\ y.pkg \in Nat /\ z.pkg \in Nat
      /\ x.pos \in Nat /\ y.pos \in Nat /\ z.pos \in Nat
  BY Fields
<1> QED
  BY <1>1 DEF Before

\* The host's next byte is later than the one it sends.
LEMMA AfterIsLater ==
  ASSUME NEW b \in Places, b.pkg <= Pkgs
  PROVE  b \in Byte /\ After(b) \in Places /\ Before(b, After(b))
BY NextTyped, Fields DEF Before

\* The last m elements of a sequence.
LEMMA LastElements ==
  ASSUME NEW S, NEW s \in Seq(S), NEW m \in Nat, m < Len(s)
  PROVE  /\ Len(s) - m \in 0 .. Len(s) /\ m = Len(s) - (Len(s) - m)
         /\ \A i \in 1 .. m : SubSeq(s, Len(s) - m + 1, Len(s))[i] = s[i + (Len(s) - m)]
<1> PICK n \in Nat : n = Len(s)
  BY LenProperties
<1>1. m < n
  OBVIOUS
<1>4. \A i \in 1 .. n - (n - m + 1) + 1 : SubSeq(s, n - m + 1, n)[i] = s[n - m + 1 + i - 1]
  BY <1>1
<1>5. \A i \in 1 .. m : i \in 1 .. n - (n - m + 1) + 1 /\ n - m + 1 + i - 1 = i + (n - m)
  BY <1>1
<1>6. \A i \in 1 .. m : SubSeq(s, n - m + 1, n)[i] = s[i + (n - m)]
  BY <1>4, <1>5
<1> QED
  BY <1>1, <1>6

\* The queue loses its first k bytes.
Dropped(k) ==
  /\ k \in 0 .. Len(Queue) /\ Len(Queue') = Len(Queue) - k
  /\ \A i \in 1 .. Len(Queue') : Queue'[i] = Queue[i + k]

LEMMA TakenDrops ==
  ASSUME Typed, QueueTaken
  PROVE  Dropped(1) /\ c' = Queue[1] /\ 1 \in 1 .. Len(Queue)
<1>1. Queue \in Seq(Cells) /\ Len(Queue) \in Nat
  BY QueueType, LenProperties
<1>2. Queue # <<>> /\ c' = Head(Queue) /\ Queue' = Tail(Queue) /\ Len(Queue) # 0
  BY <1>1, EmptySeq DEF QueueTaken
<1>3. /\ Len(Tail(Queue)) = Len(Queue) - 1 /\ Head(Queue) = Queue[1]
      /\ \A i \in 1 .. Len(Tail(Queue)) : Tail(Queue)[i] = Queue[i + 1]
  BY <1>1, <1>2, HeadTailProperties
<1> QED
  BY <1>1, <1>2, <1>3 DEF Dropped

LEMMA Drops ==
  ASSUME Typed, Typed', QueueStays \/ QueueTaken \/ QueueLost \/ QueueReset
  PROVE  \E k \in 0 .. Len(Queue) : Dropped(k)
<1>1. Queue \in Seq(Cells) /\ Len(Queue) \in Nat
  BY QueueType, LenProperties
<1>2. CASE QueueStays
  <2>1. Dropped(0)
    BY <1>1, <1>2 DEF QueueStays, Dropped
  <2> QED
    BY <1>1, <2>1
<1>3. CASE QueueTaken
  BY <1>1, <1>3, TakenDrops
<1>4. CASE QueueLost
  <2>1. Len(Queue') \in Nat
    <3>1. (Typed => Queue \in Seq(Cells))'
      BY QueueType, PTL
    <3> QED
      BY <3>1, LenProperties
  <2> PICK n \in Nat, m \in Nat : n = Len(Queue) /\ m = Len(Queue')
    BY <1>1, <2>1
  <2>2. m < n /\ Queue' = SubSeq(Queue, n - m + 1, n)
    BY <1>4 DEF QueueLost
  <2>3. /\ n - m \in 0 .. n /\ m = n - (n - m)
        /\ \A i \in 1 .. m : SubSeq(Queue, n - m + 1, n)[i] = Queue[i + (n - m)]
    <3>1. m < Len(Queue)
      BY <2>2
    <3> QED
      BY <1>1, <3>1, LastElements
  <2>5. Dropped(n - m)
    BY <2>2, <2>3 DEF Dropped
  <2> QED
    BY <2>3, <2>5
<1>5. CASE QueueReset
  <2>1. Queue' = <<>> /\ Len(Queue') = 0
    BY <1>5, EmptySeq DEF QueueReset
  <2>2. Dropped(Len(Queue))
    BY <1>1, <2>1 DEF Dropped
  <2> QED
    BY <1>1, <2>2
<1> QED
  BY <1>2, <1>3, <1>4, <1>5

\* Nothing comes that was not coming, but the byte behind the last.
Follow(x) == \E y \in Coming : y = x \/ Before(y, x)

LEMMA ComingPlaces ==
  ASSUME Typed, Ordered
  PROVE  Coming \subseteq Places /\ next \in Coming
BY Fields DEF Coming, Ordered, Typed, PkgTyped, Places

LEMMA OrderStep ==
  ASSUME Typed, Typed', Ordered, [Next]_vars
  PROVE  Ordered' /\ \A x \in Coming' : x \in Places /\ Follow(x)
<1>1. next \in Places /\ next' \in Places /\ Queue \in Seq(Cells) /\ Len(Queue) \in Nat
  BY QueueType, LenProperties DEF Typed, PkgTyped, Places
<1>2. \/ next' = next
      \/ next \in Byte /\ next' = After(next) /\ Before(next, next')
  <2>1. CASE HostByte \/ LoseByte
    <3>1. next.pkg <= Pkgs /\ next' = After(next)
      <4>1. Lossy \subseteq 1 .. Pkgs
        BY PkgAssumption
      <4>2. LoseByte => next.pkg \in 1 .. Pkgs /\ next' = After(next)
        BY <4>1 DEF LoseByte
      <4> QED
        BY <2>1, <4>2, Fields DEF HostByte
    <3> QED
      BY <1>1, <3>1, AfterIsLater
  <2>2. CASE ~(HostByte \/ LoseByte)
    BY <2>2, Steps DEF mainVars, hostVars, DebugByte, Time, GetPkg, Reading, GotByte, Writing, Restart, Bite, vars
  <2> QED
    BY <2>1, <2>2
<1>3. \A i \in 1 .. Len(Queue) :
        /\ Queue[i] \in Byte /\ Queue[i] \in Places
        /\ Before(Queue[i], next) /\ Before(Queue[i], next')
  BY <1>1, <1>2, Fields, BeforeTransitive DEF Ordered
<1>4. Follow(next') /\ \A i \in 1 .. Len(Queue) : Follow(Queue[i])
  BY <1>2 DEF Follow, Coming
<1>5. ASSUME NEW k \in 0 .. Len(Queue), Dropped(k),
             c' = c \/ c' = NoByte \/ (k = 1 /\ c' = Queue[1] /\ 1 \in 1 .. Len(Queue))
      PROVE  Ordered' /\ \A x \in Coming' : x \in Places /\ Follow(x)
  <2>1. \A i \in 1 .. Len(Queue') : i + k \in 1 .. Len(Queue) /\ Queue'[i] = Queue[i + k]
    BY <1>1, <1>5 DEF Dropped
  <2>2. \A i, j \in 1 .. Len(Queue') : i < j => i + k < j + k
    BY <1>1, <1>5 DEF Dropped
  <2>3. \A i \in 1 .. Len(Queue') : Queue'[i] \in Byte /\ Before(Queue'[i], next')
    BY <1>3, <2>1
  <2>4. \A i, j \in 1 .. Len(Queue') : i < j => Before(Queue'[i], Queue'[j])
    BY <2>1, <2>2 DEF Ordered
  <2>5. \A x \in Coming' : x = next' \/ \E i \in 1 .. Len(Queue) : x = Queue[i] /\ i > k
    BY <1>1, <1>5, <2>1 DEF Coming
  <2>6. \A x \in Coming' : x \in Places /\ Follow(x)
    BY <1>1, <1>3, <1>4, <2>5
  <2>7. c' # NoByte => \A x \in Coming' : Before(c', x)
    <3>1. CASE c' = c
      <4> SUFFICES ASSUME c # NoByte, NEW x \in Coming' PROVE Before(c, x)
        BY <3>1
      <4>1. c \in Places
        BY Fields DEF Typed, PkgTyped, Cells
      <4>2. PICK y \in Coming : y = x \/ Before(y, x)
        BY <2>6 DEF Follow
      <4>3. Before(c, y) /\ y \in Places /\ x \in Places
        BY <2>6, ComingPlaces DEF Ordered
      <4> QED
        BY <4>1, <4>2, <4>3, BeforeTransitive
    <3>2. CASE k = 1 /\ c' = Queue[1] /\ 1 \in 1 .. Len(Queue)
      BY <1>3, <2>5, <3>2 DEF Ordered
    <3> QED
      BY <1>5, <3>1, <3>2
  <2> QED
    BY <2>3, <2>4, <2>6, <2>7 DEF Ordered
<1>6. CASE QueueArrives
  <2> DEFINE n == Len(Queue)
  <2>1. /\ next \in Byte /\ next' = After(next) /\ c' = c /\ Queue' = Append(Queue, next)
        /\ Before(next, next')
    BY <1>1, <1>2, <1>6, Fields, AfterIsLater DEF QueueArrives
  <2>2. /\ Len(Queue') = n + 1 /\ Queue'[n + 1] = next
        /\ \A i \in 1 .. n : Queue'[i] = Queue[i]
    <3>1. next \in Cells
      BY <2>1 DEF Cells
    <3> QED
      BY <1>1, <2>1, <3>1, AppendProperties
  <2>3. \A i \in 1 .. n + 1 : i = n + 1 \/ i \in 1 .. n
    BY <1>1
  <2>4. \A i \in 1 .. Len(Queue') : Queue'[i] \in Byte /\ Before(Queue'[i], next')
    BY <1>3, <2>1, <2>2, <2>3
  <2>5. \A i, j \in 1 .. Len(Queue') : i < j => Before(Queue'[i], Queue'[j])
    <3> SUFFICES ASSUME NEW i \in 1 .. n + 1, NEW j \in 1 .. n + 1, i < j
                 PROVE  Before(Queue'[i], Queue'[j])
      BY <2>2
    <3>1. i \in 1 .. n /\ (j = n + 1 \/ j \in 1 .. n)
      BY <1>1
    <3> QED
      BY <1>3, <2>2, <3>1 DEF Ordered
  <2>6. \A x \in Coming' : x = next' \/ x \in Coming
    BY <2>2, <2>3 DEF Coming
  <2>7. \A x \in Coming' : x \in Places /\ Follow(x)
    BY <1>1, <1>4, <2>6, ComingPlaces DEF Follow
  <2>8. c' # NoByte => \A x \in Coming' : Before(c', x)
    <3> SUFFICES ASSUME c # NoByte, NEW x \in Coming' PROVE Before(c, x)
      BY <2>1
    <3>1. c \in Places /\ Before(c, next)
      BY Fields, ComingPlaces DEF Typed, PkgTyped, Cells, Ordered
    <3> QED
      BY <1>1, <2>1, <2>6, <3>1, BeforeTransitive DEF Ordered
  <2> QED
    BY <2>4, <2>5, <2>7, <2>8 DEF Ordered
<1>7. CASE QueueStays \/ QueueLost \/ QueueReset
  <2>1. c' = c \/ c' = NoByte
    BY <1>7 DEF QueueStays, QueueLost, QueueReset
  <2> QED
    BY <1>5, <1>7, <2>1, Drops
<1>8. CASE QueueTaken
  <2>1. Dropped(1) /\ c' = Queue[1] /\ 1 \in 1 .. Len(Queue) /\ 1 \in 0 .. Len(Queue)
    BY <1>1, <1>8, TakenDrops
  <2> QED
    BY <1>5, <2>1
<1> QED
  BY QueueStep, <1>6, <1>7, <1>8

LEMMA OrderStart == Init => Ordered
<1> SUFFICES ASSUME Init PROVE Ordered
  OBVIOUS
<1>1. c = NoByte /\ Queue = <<>>
  BY StartQueue DEF Init, UartInit
<1> QED
  BY <1>1, EmptySeq DEF Ordered

(***************************************************************************)
(* How many bytes of each package get_pkg has read.                        *)
(***************************************************************************)
\* Nothing of b, nor of what is behind it, was read.
SeenBelow(b) ==
  \A n \in 1 .. Pkgs : (n > b.pkg => seen[n] = 0) /\ (n = b.pkg => seen[n] < b.pos)

\* s counts bytes up to b only.
Upto(b, s) ==
  \A n \in 1 .. Pkgs : (n > b.pkg => s[n] = 0) /\ (n = b.pkg => s[n] <= b.pos)

Counted ==
  /\ seen \in [1 .. Pkgs -> 0 .. HRTO_P_COUNT]
  /\ c # NoByte => Upto(c, seen)
  /\ \A x \in Coming : SeenBelow(x)

LEMMA SeenBelowLater ==
  ASSUME NEW x \in Places, NEW y \in Places, y = x \/ Before(y, x), SeenBelow(y),
         seen \in [1 .. Pkgs -> 0 .. HRTO_P_COUNT]
  PROVE  SeenBelow(x)
<1> SUFFICES ASSUME NEW n \in 1 .. Pkgs
             PROVE  (n > x.pkg => seen[n] = 0) /\ (n = x.pkg => seen[n] < x.pos)
  BY DEF SeenBelow
<1>1. /\ x.pkg \in Nat /\ y.pkg \in Nat /\ x.pos \in 1 .. HRTO_P_COUNT /\ y.pos \in 1 .. HRTO_P_COUNT
      /\ HRTO_P_COUNT \in Nat /\ Pkgs \in Nat
  BY Fields
<1>2. seen[n] \in Nat /\ (n > y.pkg => seen[n] = 0) /\ (n = y.pkg => seen[n] < y.pos)
  BY <1>1 DEF SeenBelow
<1> QED
  BY <1>1, <1>2 DEF Before

\* Only the read of a byte and the watchdog change the counts.
LEMMA SeenKept ==
  ASSUME [Next]_vars, ~(Reading /\ ReadCell), ~Restart
  PROVE  seen' = seen
BY Steps DEF HostByte, LoseByte, DebugByte, mainVars, Time, GetPkg, GotByte, Writing, vars, history

\* The step that reads a byte, and what it makes of the counts.
LEMMA ReadStep ==
  ASSUME Typed, Typed', Ordered, Counted, [Next]_vars, Reading /\ ReadCell
  PROVE  /\ c' \in Byte /\ c' \in Coming /\ (c # NoByte => Before(c, c'))
         /\ seen' = [seen EXCEPT ![c'.pkg] = @ + 1]
         /\ read = "cell" /\ read' = "next" /\ UNCHANGED <<pkgVars, decoded>>
         /\ Upto(c, seen)' /\ seen' \in [1 .. Pkgs -> 0 .. HRTO_P_COUNT]
         /\ \A x \in Coming' : SeenBelow(x)'
<1>1. QueueTaken
  <2>1. read = "cell" /\ read' = "next"
    BY DEF ReadCell
  <2>2. ~HostByte /\ ~IsrByte("uart") /\ ~Restart
    BY <2>1 DEF HostByte, Arrive, IsrByte, Restart, Bite
  <2> QED
    BY <2>2, QueueStep
<1>2. c' \in Byte /\ c' \in Coming /\ c' # NoByte /\ (c # NoByte => Before(c, c'))
  BY <1>1, TakenDrops, Fields DEF Ordered, Coming
<1>3. /\ seen' = [seen EXCEPT ![c'.pkg] = @ + 1] /\ read = "cell" /\ read' = "next"
      /\ UNCHANGED <<pkgVars, decoded>>
  BY <1>2 DEF Reading, ReadWait, ReadCell
<1>4. Ordered' /\ \A x \in Coming' : x \in Places /\ Before(c', x) /\ Follow(x)
  BY <1>2, OrderStep DEF Ordered
<1> PICK m \in 1 .. Pkgs, j \in 1 .. HRTO_P_COUNT : m = c'.pkg /\ j = c'.pos
  BY <1>2, Fields
<1>5. /\ \A n \in 1 .. Pkgs : seen[n] \in 0 .. HRTO_P_COUNT /\ (n > m => seen[n] = 0)
      /\ seen[m] < j
  BY <1>2 DEF Counted, SeenBelow
<1>6. /\ \A n \in 1 .. Pkgs : n # m => seen'[n] = seen[n]
      /\ seen'[m] = seen[m] + 1
  BY <1>3 DEF Counted
<1>7. m \in Nat /\ j \in Nat /\ j <= HRTO_P_COUNT /\ HRTO_P_COUNT \in Nat
  BY Fields
<1>8. /\ seen'[m] <= j /\ seen'[m] \in 0 .. HRTO_P_COUNT
      /\ \A n \in 1 .. Pkgs : seen'[n] \in 0 .. HRTO_P_COUNT
  BY <1>5, <1>6, <1>7
<1>9. seen' \in [1 .. Pkgs -> 0 .. HRTO_P_COUNT]
  BY <1>3, <1>8 DEF Counted
<1>10. Upto(c, seen)'
  BY <1>5, <1>6, <1>7, <1>8 DEF Upto
<1>11. ASSUME NEW x \in Coming' PROVE SeenBelow(x)'
  <2>1. x.pkg \in Nat /\ x.pos \in Nat /\ x.pos >= 1 /\ (m < x.pkg \/ (m = x.pkg /\ j < x.pos))
    BY <1>4, <1>11, Fields DEF Before
  <2> SUFFICES ASSUME NEW n \in 1 .. Pkgs
               PROVE  (n > x.pkg => seen'[n] = 0) /\ (n = x.pkg => seen'[n] < x.pos)
    BY DEF SeenBelow
  <2>2. n \in Nat /\ (n # m => seen'[n] = seen[n]) /\ (n > m => seen[n] = 0)
    BY <1>5, <1>6
  <2> QED
    BY <1>7, <1>8, <2>1, <2>2
<1> QED
  BY <1>2, <1>3, <1>9, <1>10, <1>11

LEMMA CountedStep ==
  ASSUME Typed, Typed', Ordered, Counted, [Next]_vars
  PROVE  Counted'
<1>1. \A x \in Coming' : x \in Places /\ Follow(x)
  BY OrderStep
<1>2. ASSUME seen' = seen PROVE \A x \in Coming' : SeenBelow(x)'
  <2> SUFFICES ASSUME NEW x \in Coming' PROVE SeenBelow(x)
    BY <1>2 DEF SeenBelow
  <2>1. PICK y \in Coming : y = x \/ Before(y, x)
    BY <1>1 DEF Follow
  <2>2. SeenBelow(y) /\ y \in Places /\ x \in Places
    BY <1>1, ComingPlaces DEF Counted
  <2> QED
    BY <2>1, <2>2, SeenBelowLater DEF Counted
<1>3. CASE Reading /\ ReadCell
  BY <1>3, ReadStep DEF Counted
<1>4. CASE Restart
  <2>1. seen' = [n \in 1 .. Pkgs |-> IF seen[n] = HRTO_P_COUNT THEN seen[n] ELSE 0]
    BY <1>4 DEF Restart, Bite
  <2>2. c' = NoByte
    BY <1>4, RestartQueue
  <2>3. /\ seen' \in [1 .. Pkgs -> 0 .. HRTO_P_COUNT]
        /\ \A n \in 1 .. Pkgs : seen'[n] = seen[n] \/ seen'[n] = 0
    BY <2>1, Fields DEF Counted
  <2>4. ASSUME NEW x \in Coming' PROVE SeenBelow(x)'
    <3>1. PICK y \in Coming : y = x \/ Before(y, x)
      BY <1>1, <2>4 DEF Follow
    <3>2. SeenBelow(y) /\ y \in Places /\ x \in Places
      BY <1>1, <2>4, ComingPlaces DEF Counted
    <3>3. SeenBelow(x)
      BY <3>1, <3>2, SeenBelowLater DEF Counted
    <3>4. x.pos \in Nat /\ x.pos >= 1
      BY <3>2, Fields
    <3> QED
      BY <2>3, <3>3, <3>4 DEF SeenBelow
  <2> QED
    BY <2>2, <2>3, <2>4 DEF Counted
<1>5. CASE ~(Reading /\ ReadCell) /\ ~Restart
  <2>1. seen' = seen /\ c' = c
    BY <1>5, SeenKept, QueueStep DEF QueueStays, QueueArrives, QueueLost
  <2>2. c' # NoByte => Upto(c, seen)'
    BY <2>1 DEF Counted, Upto
  <2> QED
    BY <1>2, <2>1, <2>2 DEF Counted
<1> QED
  BY <1>3, <1>4, <1>5

LEMMA CountedStart == Init => Counted
<1> SUFFICES ASSUME Init PROVE Counted
  OBVIOUS
<1>1. /\ c = NoByte /\ Queue = <<>> /\ next = [pkg |-> 1, pos |-> 1]
      /\ seen = [n \in 1 .. Pkgs |-> 0]
  BY StartQueue DEF Init
<1>2. Coming = {next}
  BY <1>1, EmptySeq DEF Coming
<1> QED
  BY <1>1, <1>2, Fields DEF Counted, SeenBelow

\* The line, as it is in every state.
LineInv == Typed /\ Ordered /\ Counted

LEMMA LineInvariant == Spec => []LineInv
<1>1. Init => LineInv
  BY TypedStart, OrderStart, CountedStart DEF LineInv
<1>2. LineInv /\ [Next]_vars => LineInv'
  BY TypedStep, OrderStep, CountedStep DEF LineInv
<1> QED
  BY <1>1, <1>2, PTL DEF Spec

(***************************************************************************)
(* The variables have their types and the indices stay within the rings    *)
(* (uart.c:18-23).                                                         *)
(***************************************************************************)
THEOREM TypeCorrect == Spec => []TypeOK
<1>1. LineInv => TypeOK
  <2> SUFFICES ASSUME LineInv PROVE TypeOK
    OBVIOUS
  <2>1. /\ \A p \in Ports : /\ fifo[p] \in Seq(Cells) /\ txq[p] \in 0 .. TX_DEPTH
                            /\ rx_produce[p] \in 0 .. RingSize[p] - 1
                            /\ rx_consume[p] \in 0 .. RingSize[p] - 1
                            /\ rx_buf[p] \in [0 .. RingSize[p] - 1 -> Cells]
        /\ ready \subseteq Ports
    BY DEF LineInv, Typed, HwTyped, RingTyped
  <2>2. /\ ip \subseteq Ports /\ im \in {{}, Ports} /\ irqs \subseteq Ports
        /\ isr \in {"off", "serve", "ack"} /\ write \in {"out", "wait"}
    BY DEF LineInv, Typed, IrqTyped
  <2>3. /\ read \in {"out", "wait", "cell", "next"} /\ pc \in {"get", "reading", "writing"}
        /\ count \in 2 .. HRTO_P_COUNT - 1 /\ start \in BOOLEAN
        /\ g_pkg \in [1 .. HRTO_P_COUNT -> Cells]
    BY DEF LineInv, Typed, PkgTyped
  <2>4. \A n \in 1 .. Pkgs : seen[n] \in 0 .. HRTO_P_COUNT
    BY DEF LineInv, Counted
  <2> QED
    BY <2>1, <2>2, <2>3, <2>4 DEF TypeOK, Cells
<1> QED
  BY <1>1, LineInvariant, PTL

-------------------------------------------------------------------------------
(***************************************************************************)
(* The state of get_pkg, by the byte b it handled last and the counts s of *)
(* the bytes it handled.                                                   *)
(***************************************************************************)
At(n, j) == [pkg |-> n, pos |-> j]

\* The bytes 1 .. j of package n are where they belong.
Aligned(n, j) ==
  IF j = 1 THEN ~start /\ last = At(n, 1)
  ELSE IF j < HRTO_P_COUNT
  THEN start /\ count = j /\ \A k \in 1 .. j : g_pkg[k] = At(n, k)
  ELSE ~start /\ Decoded(n)

\* Package n is not collected: its head was missed or was taken for data; the head in its data
\* may have been found.
Swallowed(n, j) ==
  \/ ~start /\ last # At(n, 1)
  \/ start /\ count >= j + 2
  \/ n \in Tricky /\ start /\ count + 5 = j /\ ~Decoded(n)

\* The package before n is no obstacle.
Clear(s, n) == (n = 1 \/ s[n - 1] = HRTO_P_COUNT) /\ (n - 1 \in Tricky => Decoded(n - 1))

\* When all of b's package so far was handled, it is collected or swallowed.
InPlace(b, s) ==
  b # NoByte /\ s[b.pkg] = b.pos =>
    /\ Aligned(b.pkg, b.pos) \/ Swallowed(b.pkg, b.pos)
    /\ Clear(s, b.pkg) => Aligned(b.pkg, b.pos)

InStep(s) == \A n \in 1 .. Pkgs : s[n] = HRTO_P_COUNT /\ Clear(s, n) => Decoded(n)

Collecting(b) ==
  /\ b = NoByte => ~start /\ last = NoByte
  /\ last \in {NoByte, b}
  /\ start => g_pkg[count] = b

\* The n bytes in g: they begin with a head and are in the order they were sent.  Of a package q
\* no more was handled than was up to the head and than is in g.
UpToHead(g, q) == IF g[2].pkg = q THEN g[2].pos ELSE 0
Collected(g, n, s) ==
  /\ \A k \in 1 .. n : g[k] \in Byte
  /\ IsH2(g[2]) /\ \A k, l \in 1 .. n : k < l => Before(g[k], g[l])
  /\ \A q \in 1 .. Pkgs, k \in 2 .. n :
       g[2].pkg <= q /\ (\A l \in k + 1 .. n : g[l].pkg # q) => s[q] <= UpToHead(g, q) + k - 2
  /\ \A q \in 1 .. Pkgs, k \in 2 .. n : g[k].pkg < q => s[q] <= n - k
Mixing(s) == start => Collected(g_pkg, count, s)

\* The packages that were decoded, and what the CRC lets pass.
Done == [type : Byte, idx : Byte, cnt : Byte, data : 1 .. Pkgs]
Mixed(p, s) ==
  /\ p.type.pkg <= p.idx.pkg /\ p.idx.pkg <= p.cnt.pkg /\ p.cnt.pkg <= p.data
  /\ s[p.data] <= HRTO_P_COUNT - 2
  /\ p.type.pkg # p.data => /\ s[p.type.pkg] <= HeaderLen(p.type.pkg)
                            /\ s[p.data] <= HRTO_P_COUNT - 3
DoneMixed(s) ==
  /\ decoded \in Seq(Done)
  /\ \A i, j \in DOMAIN decoded : i < j => decoded[i].data < decoded[j].data
  /\ \A i \in DOMAIN decoded : decoded[i] # AsSent(decoded[i].data) => Mixed(decoded[i], s)

Handled(b, s) ==
  /\ b # NoByte => Upto(b, s)
  /\ b = NoByte => \A n \in 1 .. Pkgs : s[n] \in {0, HRTO_P_COUNT}
  /\ Collecting(b) /\ InPlace(b, s) /\ InStep(s) /\ Mixing(s) /\ DoneMixed(s)

\* b's package was not decoded, nor any behind it.
DoneBelow(b) == \A i \in DOMAIN decoded : decoded[i].data < b.pkg

\* get_pkg is about to handle c, after b.
Handling(b, s) ==
  /\ c \in Byte /\ b \in Cells /\ (b # NoByte => Before(b, c))
  /\ s \in [1 .. Pkgs -> 0 .. HRTO_P_COUNT] /\ seen = [s EXCEPT ![c.pkg] = @ + 1]
  /\ Upto(c, seen) /\ DoneBelow(c) /\ Handled(b, s)

LEMMA Fields2 ==
  \A n, j : At(n, j).pkg = n /\ At(n, j).pos = j
BY DEF At

\* What is known of the two bytes and of the counts.
LEMMA Counts ==
  ASSUME NEW b, NEW s, Handling(b, s)
  PROVE  /\ c.pkg \in 1 .. Pkgs /\ c.pos \in 1 .. HRTO_P_COUNT /\ c # NoByte
         /\ c = At(c.pkg, c.pos)
         /\ \A n \in 1 .. Pkgs : /\ s[n] \in 0 .. HRTO_P_COUNT /\ seen[n] \in Nat
                                 /\ n # c.pkg => seen[n] = s[n]
                                 /\ n > c.pkg => seen[n] = 0
         /\ seen[c.pkg] = s[c.pkg] + 1 /\ seen[c.pkg] <= c.pos
         /\ b # NoByte => /\ b \in Byte /\ b.pkg \in 1 .. Pkgs /\ b.pos \in 1 .. HRTO_P_COUNT
                          /\ b = At(b.pkg, b.pos)
                          /\ b.pkg < c.pkg \/ (b.pkg = c.pkg /\ b.pos < c.pos)
                          /\ s[b.pkg] <= b.pos
         /\ (b = NoByte \/ b.pkg < c.pkg) => s[c.pkg] = 0
<1>1. /\ c \in Byte /\ s \in [1 .. Pkgs -> 0 .. HRTO_P_COUNT] /\ seen = [s EXCEPT ![c.pkg] = @ + 1]
      /\ Upto(c, seen) /\ HRTO_P_COUNT \in Nat /\ Pkgs \in Nat /\ b \in Cells
  BY Fields DEF Handling
<1>2. /\ c.pkg \in 1 .. Pkgs /\ c.pos \in 1 .. HRTO_P_COUNT /\ c # NoByte /\ c = At(c.pkg, c.pos)
  BY <1>1, Fields DEF At
<1> PICK m \in 1 .. Pkgs, j \in 1 .. HRTO_P_COUNT : m = c.pkg /\ j = c.pos
  BY <1>2
<1>3. /\ \A n \in 1 .. Pkgs : s[n] \in 0 .. HRTO_P_COUNT /\ (n # m => seen[n] = s[n])
      /\ seen[m] = s[m] + 1
  BY <1>1
<1>4. seen[m] <= j /\ \A n \in 1 .. Pkgs : n > m => seen[n] = 0
  BY <1>1 DEF Upto
<1>5. \A n \in 1 .. Pkgs : seen[n] \in Nat
  BY <1>1, <1>3
<1>6. b # NoByte => /\ b \in Byte /\ b.pkg \in 1 .. Pkgs /\ b.pos \in 1 .. HRTO_P_COUNT
                    /\ b = At(b.pkg, b.pos)
                    /\ b.pkg < m \/ (b.pkg = m /\ b.pos < j)
  BY <1>1, Fields DEF Handling, Cells, Before, At
<1>7. b # NoByte => s[b.pkg] <= b.pos /\ \A n \in 1 .. Pkgs : n > b.pkg => s[n] = 0
  BY <1>6 DEF Handling, Handled, Upto
<1>8. b = NoByte => s[m] = 0
  <2>1. b = NoByte => s[m] \in {0, HRTO_P_COUNT}
    BY DEF Handling, Handled
  <2> QED
    BY <1>1, <1>3, <1>4, <2>1
<1>9. b # NoByte /\ b.pkg < m => s[m] = 0
  BY <1>6, <1>7
<1> QED
  BY <1>1, <1>2, <1>3, <1>4, <1>5, <1>6, <1>7, <1>8, <1>9

\* All of the package so far was handled: then the byte before is the one handled last.
LEMMA NoGap ==
  ASSUME NEW b, NEW s, Handling(b, s), seen[c.pkg] = c.pos, c.pos # 1
  PROVE  b # NoByte /\ b.pkg = c.pkg /\ b.pos = c.pos - 1 /\ s[b.pkg] = b.pos
<1> PICK m \in 1 .. Pkgs, j \in 1 .. HRTO_P_COUNT : m = c.pkg /\ j = c.pos
  BY Counts
<1>1. s[m] \in Nat /\ s[m] + 1 = j /\ j # 1 /\ j \in Nat
  BY Counts, Fields
<1>2. b # NoByte /\ ~(b.pkg < m)
  BY <1>1, Counts
<1>3. b.pkg = m /\ b.pos < j /\ b.pos \in Nat /\ s[m] <= b.pos
  BY <1>2, Counts, Fields
<1> QED
  BY <1>1, <1>2, <1>3

\* A head begins a package.
LEMMA HeadIsCollected ==
  ASSUME NEW b, NEW s, Handling(b, s), Typed, ~start, IsH1(last), IsH2(c)
  PROVE  Collected([g_pkg EXCEPT ![1] = last, ![2] = c], 2, seen)
<1> DEFINE g == [g_pkg EXCEPT ![1] = last, ![2] = c]
<1>1. g[1] = last /\ g[2] = c
  <2>1. 1 \in 1 .. HRTO_P_COUNT /\ 2 \in 1 .. HRTO_P_COUNT
    BY Fields
  <2>2. g_pkg \in [1 .. HRTO_P_COUNT -> Cells]
    BY DEF Typed, PkgTyped
  <2> QED
    BY <2>1, <2>2
<1>2. last = b /\ last \in Byte /\ c \in Byte /\ Before(last, c)
  <2>1. last # NoByte /\ last \in Cells
    BY DEF IsH1, Typed, PkgTyped
  <2>2. last = b
    BY <2>1 DEF Handling, Handled, Collecting
  <2> QED
    BY <2>1, <2>2 DEF Handling, Cells
<1> HIDE DEF g
<1>3. \A k \in 1 .. 2 : k = 1 \/ k = 2
  OBVIOUS
<1>4. \A k \in 1 .. 2 : g[k] \in Byte
  BY <1>1, <1>2, <1>3
<1>5. \A k, l \in 1 .. 2 : k < l => Before(g[k], g[l])
  BY <1>1, <1>2, <1>3
<1>6. ASSUME NEW q \in 1 .. Pkgs, c.pkg <= q PROVE seen[q] <= UpToHead(g, q)
  <2>1. c.pkg \in Nat /\ seen[q] \in Nat /\ (q > c.pkg => seen[q] = 0)
        /\ (q = c.pkg => seen[q] <= c.pos)
    BY Counts, Fields
  <2> QED
    BY <1>1, <1>6, <2>1 DEF UpToHead
<1>7. ASSUME NEW q \in 1 .. Pkgs, c.pkg < q PROVE seen[q] <= 0
  BY <1>7, Counts
<1>8. \A k \in 2 .. 2 : k = 2
  OBVIOUS
<1>9. \A q \in 1 .. Pkgs : UpToHead(g, q) \in Nat
  BY <1>1, Counts, Fields DEF UpToHead
<1>10. \A q \in 1 .. Pkgs, k \in 2 .. 2 : g[2].pkg <= q => seen[q] <= UpToHead(g, q) + k - 2
  BY <1>1, <1>6, <1>8, <1>9
<1> QED
  <2>1. \A q \in 1 .. Pkgs, k \in 2 .. 2 : g[k].pkg < q => seen[q] <= 2 - k
    BY <1>1, <1>7, <1>8
  <2>2. IsH2(g[2])
    BY <1>1
  <2>3. Collected(g, 2, seen)
    BY <1>4, <1>5, <1>10, <2>1, <2>2 DEF Collected
  <2> QED
    BY <2>3 DEF g

\* The next byte of the package.
LEMMA CollectedStep ==
  ASSUME NEW b, NEW s, Handling(b, s), Typed, start
  PROVE  Collected(Grown, count + 1, seen)
<1> PICK n \in Nat : n = count
  BY Fields DEF Typed, PkgTyped
<1>1. n \in 2 .. HRTO_P_COUNT - 1 /\ HRTO_P_COUNT \in Nat /\ g_pkg \in [1 .. HRTO_P_COUNT -> Cells]
  BY Fields DEF Typed, PkgTyped
<1>2. Collected(g_pkg, n, s) /\ g_pkg[n] = b /\ c \in Byte /\ (b # NoByte => Before(b, c))
  BY DEF Handling, Handled, Collecting, Mixing
<1>3. Grown[n + 1] = c /\ \A k \in 1 .. n : Grown[k] = g_pkg[k]
  <2>1. n + 1 \in 1 .. HRTO_P_COUNT /\ \A k \in 1 .. n : k # n + 1 /\ k \in 1 .. HRTO_P_COUNT
    BY <1>1
  <2> QED
    BY <1>1, <2>1 DEF Grown
<1>4. \A k \in 1 .. n + 1 : k = n + 1 \/ k \in 1 .. n
  OBVIOUS
<1>5. \A k \in 1 .. n + 1 : Grown[k] \in Byte
  BY <1>2, <1>3, <1>4 DEF Collected
<1>6. IsH2(Grown[2]) /\ Grown[2] = g_pkg[2]
  <2>1. 2 \in 1 .. n
    BY <1>1
  <2> QED
    BY <1>2, <1>3, <2>1 DEF Collected
<1>7. \A k \in 1 .. n : Before(Grown[k], c)
  <2> SUFFICES ASSUME NEW k \in 1 .. n PROVE Before(g_pkg[k], c)
    BY <1>3
  <2>1. n \in 1 .. n /\ b \in Byte /\ b # NoByte
    BY <1>1, <1>2, Fields DEF Collected
  <2>2. k = n \/ Before(g_pkg[k], b)
    BY <1>2, <2>1 DEF Collected
  <2>3. g_pkg[k] \in Byte /\ Before(b, c)
    BY <1>2, <2>1 DEF Collected
  <2> QED
    BY <1>2, <2>1, <2>2, <2>3, Fields, BeforeTransitive
<1>8. \A k, l \in 1 .. n + 1 : k < l => Before(Grown[k], Grown[l])
  <2> SUFFICES ASSUME NEW k \in 1 .. n + 1, NEW l \in 1 .. n + 1, k < l
               PROVE  Before(Grown[k], Grown[l])
    OBVIOUS
  <2>1. k \in 1 .. n
    OBVIOUS
  <2>2. CASE l = n + 1
    BY <1>3, <1>7, <2>1, <2>2
  <2>3. CASE l \in 1 .. n
    BY <1>2, <1>3, <2>1, <2>3 DEF Collected
  <2> QED
    BY <1>4, <2>2, <2>3
<1>9. \A q \in 1 .. Pkgs : /\ s[q] \in Nat /\ seen[q] \in Nat /\ q \in Nat
                            /\ seen[q] <= s[q] + 1 /\ (q # c.pkg => seen[q] = s[q])
                            /\ UpToHead(Grown, q) = UpToHead(g_pkg, q) /\ UpToHead(g_pkg, q) \in Nat
  <2> SUFFICES ASSUME NEW q \in 1 .. Pkgs
               PROVE  /\ s[q] \in Nat /\ seen[q] \in Nat /\ q \in Nat
                      /\ seen[q] <= s[q] + 1 /\ (q # c.pkg => seen[q] = s[q])
                      /\ UpToHead(Grown, q) = UpToHead(g_pkg, q) /\ UpToHead(g_pkg, q) \in Nat
    OBVIOUS
  <2>1. s[q] \in 0 .. HRTO_P_COUNT /\ seen[q] \in Nat /\ (q # c.pkg => seen[q] = s[q])
        /\ seen[c.pkg] = s[c.pkg] + 1
    BY Counts
  <2>2. Grown[2] \in Byte
    BY <1>1, <1>5
  <2>3. Grown[2].pos \in Nat
    BY <2>2, Fields
  <2> QED
    BY <1>6, <2>1, <2>3 DEF UpToHead
<1>10. ASSUME NEW q \in 1 .. Pkgs, NEW k \in 2 .. n + 1, Grown[2].pkg <= q,
              \A l \in k + 1 .. n + 1 : Grown[l].pkg # q
       PROVE  seen[q] <= UpToHead(Grown, q) + k - 2
  <2>1. CASE k = n + 1
    <3>1. n \in 2 .. n /\ \A l \in n + 1 .. n : g_pkg[l].pkg # q
      BY <1>1
    <3>2. s[q] <= UpToHead(g_pkg, q) + n - 2
      BY <1>2, <1>6, <1>10, <3>1 DEF Collected
    <3> QED
      BY <1>9, <2>1, <3>2
  <2>2. CASE k # n + 1
    <3>1. k \in 2 .. n /\ n + 1 \in k + 1 .. n + 1
      BY <2>2
    <3>2. c.pkg # q
      BY <1>3, <1>10, <3>1
    <3>3. \A l \in k + 1 .. n : l \in k + 1 .. n + 1 /\ l \in 1 .. n
      OBVIOUS
    <3>4. \A l \in k + 1 .. n : g_pkg[l].pkg # q
      BY <1>3, <1>10, <3>3
    <3>5. s[q] <= UpToHead(g_pkg, q) + k - 2
      BY <1>2, <1>6, <1>10, <3>1, <3>4 DEF Collected
    <3> QED
      BY <1>9, <3>2, <3>5
  <2> QED
    BY <2>1, <2>2
<1>11. ASSUME NEW q \in 1 .. Pkgs, NEW k \in 2 .. n + 1, Grown[k].pkg < q
       PROVE  seen[q] <= n + 1 - k
  <2>1. CASE k = n + 1
    BY <1>3, <1>11, <2>1, Counts
  <2>2. CASE k # n + 1
    <3>1. k \in 2 .. n /\ k \in 1 .. n
      BY <2>2
    <3>2. s[q] <= n - k
      BY <1>2, <1>3, <1>11, <3>1 DEF Collected
    <3> QED
      BY <1>9, <3>1, <3>2
  <2> QED
    BY <2>1, <2>2
<1> QED
  BY <1>5, <1>6, <1>8, <1>10, <1>11 DEF Collected

\* A complete package is made of bytes, and what is mixed with its data is bounded.
LEMMA CompleteIsBytes ==
  ASSUME NEW b, NEW s, Handling(b, s), Typed, Completes
  PROVE  Collected(Grown, HRTO_P_COUNT, seen) /\ \A k \in 1 .. HRTO_P_COUNT : Grown[k] \in Byte
<1>1. start /\ count + 1 = HRTO_P_COUNT
  BY DEF Completes
<1>2. Collected(Grown, count + 1, seen)
  BY <1>1, CollectedStep
<1> QED
  BY <1>1, <1>2 DEF Collected

\* What is decoded when c is handled: nothing, or c is the last of its package.
LEMMA NewlyDone ==
  ASSUME NEW b, NEW s, Handling(b, s), Typed, GotByte
  PROVE  \/ decoded' = decoded
         \/ /\ Completes /\ c.pos = HRTO_P_COUNT
            /\ \A k \in 6 .. HRTO_P_COUNT : Grown[k] = At(c.pkg, k)
            /\ decoded' = Append(decoded, Parsed(Grown)) /\ Parsed(Grown).data = c.pkg
<1>1. CASE GoesOn \/ HeadFound \/ Skips
  BY <1>1 DEF GoesOn, HeadFound, Skips
<1>2. CASE Completes /\ ~CrcRight(Grown)
  BY <1>2 DEF Completes, Finish, Decode
<1>3. CASE Completes /\ CrcRight(Grown)
  <2>1. PICK n \in 1 .. Pkgs : \A k \in 6 .. HRTO_P_COUNT : Grown[k] = At(n, k)
    BY <1>3 DEF CrcRight, At
  <2>2. /\ count + 1 = HRTO_P_COUNT /\ HRTO_P_COUNT \in 6 .. HRTO_P_COUNT
        /\ 6 \in 6 .. HRTO_P_COUNT /\ HRTO_P_COUNT \in 1 .. HRTO_P_COUNT
    BY <1>3, Fields DEF Completes
  <2>3. Grown[HRTO_P_COUNT] = c
    BY <2>2 DEF Grown, Typed, PkgTyped
  <2>4. c = At(n, HRTO_P_COUNT) /\ Grown[6] = At(n, 6)
    BY <2>1, <2>2, <2>3
  <2>5. c.pkg = n /\ c.pos = HRTO_P_COUNT /\ Grown[6].pkg = n
    BY <2>4, Fields2
  <2>6. decoded' = Append(decoded, Parsed(Grown)) /\ Parsed(Grown).data = Grown[6].pkg
    BY <1>3 DEF Completes, Finish, Decode, Parsed
  <2> QED
    BY <1>3, <2>1, <2>5, <2>6
<1> QED
  BY <1>1, <1>2, <1>3, GotByteCases DEF Typed

\* The bytes of a header are those of its package, or some of that package were not read.
LEMMA MixtureBounds ==
  ASSUME NEW g, NEW s, NEW d \in 1 .. Pkgs, \A q \in 1 .. Pkgs : s[q] \in Nat,
         Collected(g, HRTO_P_COUNT, s), \A k \in 6 .. HRTO_P_COUNT : g[k] = At(d, k),
         Parsed(g) # AsSent(d)
  PROVE  Mixed(Parsed(g), s)
<1> DEFINE C == HRTO_P_COUNT
<1>1. /\ C \in Nat /\ C >= 7 /\ d \in Nat /\ 2 \in 1 .. C /\ 3 \in 1 .. C /\ 4 \in 1 .. C
      /\ 5 \in 1 .. C /\ 6 \in 1 .. C /\ 6 \in 6 .. C
  BY Fields
<1>2. Parsed(g) = [type |-> g[3], idx |-> g[4], cnt |-> g[5], data |-> d]
  BY <1>1, Fields2 DEF Parsed
<1>3. /\ \A k \in 1 .. C : g[k] \in Byte
      /\ Before(g[2], g[3]) /\ Before(g[3], g[4]) /\ Before(g[4], g[5]) /\ Before(g[5], g[6])
      /\ IsH2(g[2])
  BY <1>1 DEF Collected
<1> HIDE DEF C
<1>0. \A x \in Byte : \E q \in 1 .. Pkgs, k \in 1 .. C : x = At(q, k)
  BY Fields DEF At, C
<1> PICK h \in 1 .. Pkgs, ph \in 1 .. C : g[2] = At(h, ph)
  BY <1>0, <1>1, <1>3
<1> PICK t \in 1 .. Pkgs, pt \in 1 .. C : g[3] = At(t, pt)
  BY <1>0, <1>1, <1>3
<1> PICK i \in 1 .. Pkgs, pi \in 1 .. C : g[4] = At(i, pi)
  BY <1>0, <1>1, <1>3
<1> PICK n \in 1 .. Pkgs, pn \in 1 .. C : g[5] = At(n, pn)
  BY <1>0, <1>1, <1>3
<1> USE DEF C
<1>4. /\ h < t \/ (h = t /\ ph < pt)
      /\ t < i \/ (t = i /\ pt < pi)
      /\ i < n \/ (i = n /\ pi < pn)
      /\ n < d \/ (n = d /\ pn < 6)
      /\ ph = 2 \/ (h \in Tricky /\ ph = 7)
  <2>1. g[6] = At(d, 6)
    BY <1>1
  <2>2. ph # 1 => ph = 2 \/ (h \in Tricky /\ ph = 7)
    BY <1>3, Fields2 DEF IsH2
  <2>3. IsH2(At(h, ph))
    BY <1>3
  <2>4. ph = 2 \/ (h \in Tricky /\ ph = 7)
    BY <2>3, Fields2 DEF IsH2
  <2> QED
    BY <1>3, <2>1, <2>4, Fields2 DEF Before
<1>5. h \in Nat /\ t \in Nat /\ i \in Nat /\ n \in Nat /\ ph \in Nat /\ pt \in Nat /\ pi \in Nat /\ pn \in Nat
  BY Fields
<1>6. t <= i /\ i <= n /\ n <= d /\ h <= t
  BY <1>1, <1>4, <1>5
<1>7. h # d
  <2> SUFFICES ASSUME h = d PROVE FALSE
    OBVIOUS
  <2>1. t = d /\ i = d /\ n = d /\ ph < pt /\ pt < pi /\ pi < pn /\ pn < 6
    BY <1>1, <1>4, <1>5, <1>6
  <2>2. ph = 2 /\ pt = 3 /\ pi = 4 /\ pn = 5
    BY <1>4, <1>5, <2>1
  <2> QED
    BY <1>2, <2>1, <2>2 DEF AsSent, At
<1>8. s[d] <= C - 2
  <2>1. g[2].pkg < d /\ 2 \in 2 .. C
    BY <1>1, <1>5, <1>6, <1>7, Fields2
  <2> QED
    BY <2>1 DEF Collected
<1>9. ASSUME t # d PROVE s[d] <= C - 3
  <2>1. g[3].pkg < d /\ 3 \in 2 .. C
    BY <1>1, <1>5, <1>6, <1>9, Fields2
  <2> QED
    BY <2>1 DEF Collected
<1>10. ASSUME t # d PROVE s[t] <= HeaderLen(t)
  <2>1. g[2].pkg = h /\ h <= t /\ 5 \in 2 .. C
    BY <1>1, <1>6, Fields2
  <2>2. \A l \in 6 .. C : g[l].pkg # t
    BY <1>10, Fields2
  <2>3. s[t] <= UpToHead(g, t) + 5 - 2
    <3>1. 5 + 1 = 6
      OBVIOUS
    <3>2. \A l \in 5 + 1 .. C : g[l].pkg # t
      BY <2>2, <3>1
    <3> QED
      BY <2>1, <3>2 DEF Collected
  <2>4. UpToHead(g, t) = IF h = t THEN ph ELSE 0
    BY Fields2 DEF UpToHead
  <2>5. s[t] \in Nat
    OBVIOUS
  <2> QED
    BY <1>4, <1>5, <2>3, <2>4, <2>5 DEF HeaderLen
<1>11. g[3].pkg = t /\ g[4].pkg = i /\ g[5].pkg = n
  BY Fields2
<1>12. /\ Parsed(g).type.pkg = t /\ Parsed(g).idx.pkg = i /\ Parsed(g).cnt.pkg = n
       /\ Parsed(g).data = d
  BY <1>2, <1>11
<1> QED
  BY <1>6, <1>8, <1>9, <1>10, <1>12 DEF Mixed

\* Before c is handled its package was not decoded; a package that is decoded stays so, and
\* only c's package is new.
LEMMA DoneStep ==
  ASSUME NEW b, NEW s, Handling(b, s), Typed, GotByte
  PROVE  /\ decoded \in Seq(Done) /\ decoded' \in Seq(Done) /\ ~Decoded(c.pkg)
         /\ \/ decoded' = decoded
            \/ /\ Len(decoded') = Len(decoded) + 1
               /\ \A i \in 1 .. Len(decoded) : decoded'[i] = decoded[i]
               /\ decoded'[Len(decoded) + 1] = Parsed(Grown) /\ Parsed(Grown).data = c.pkg
               /\ Completes /\ \A k \in 6 .. HRTO_P_COUNT : Grown[k] = At(c.pkg, k)
         /\ \A n : Decoded(n) => Decoded(n)'
         /\ \A n : n # c.pkg /\ Decoded(n)' => Decoded(n)
<1>1. decoded \in Seq(Done) /\ Len(decoded) \in Nat /\ DOMAIN decoded = 1 .. Len(decoded)
  BY LenProperties DEF Handling, Handled, DoneMixed
<1>2. ~Decoded(c.pkg)
  <2> SUFFICES ASSUME NEW i \in DOMAIN decoded, decoded[i] = AsSent(c.pkg)
               PROVE  FALSE
    BY DEF Decoded
  <2>1. decoded[i].data = c.pkg
    BY DEF AsSent
  <2>2. decoded[i].data < c.pkg
    BY DEF Handling, DoneBelow
  <2>3. c.pkg \in 1 .. Pkgs
    BY Counts
  <2> QED
    BY <2>1, <2>2, <2>3
<1>3. CASE decoded' = decoded
  BY <1>1, <1>2, <1>3 DEF Decoded
<1> DEFINE p == Parsed(Grown)
<1>4. ASSUME Completes, decoded' = Append(decoded, p), p.data = c.pkg
      PROVE  /\ decoded' \in Seq(Done)
             /\ Len(decoded') = Len(decoded) + 1
             /\ \A i \in 1 .. Len(decoded) : decoded'[i] = decoded[i]
             /\ decoded'[Len(decoded) + 1] = p
             /\ DOMAIN decoded' = 1 .. Len(decoded) + 1
  <2>1. \A k \in 1 .. HRTO_P_COUNT : Grown[k] \in Byte
    BY <1>4, CompleteIsBytes
  <2>2. 3 \in 1 .. HRTO_P_COUNT /\ 4 \in 1 .. HRTO_P_COUNT /\ 5 \in 1 .. HRTO_P_COUNT
    BY Fields
  <2>3. p = [type |-> Grown[3], idx |-> Grown[4], cnt |-> Grown[5], data |-> Grown[6].pkg]
    BY DEF Parsed
  <2>4. p \in Done
    <3>1. Grown[6].pkg \in 1 .. Pkgs
      BY <1>4, <2>3, Counts
    <3> QED
      BY <2>1, <2>2, <2>3, <3>1 DEF Done
  <2> HIDE DEF p
  <2>6. /\ decoded' \in Seq(Done) /\ Len(decoded') = Len(decoded) + 1
        /\ \A i \in 1 .. Len(decoded) : decoded'[i] = decoded[i]
        /\ decoded'[Len(decoded) + 1] = p
    BY <1>1, <1>4, <2>4, AppendProperties
  <2>7. DOMAIN decoded' = 1 .. Len(decoded) + 1
    BY <2>6, LenProperties
  <2> QED
    BY <2>6, <2>7
<1> HIDE DEF p
<1>5. ASSUME Completes, decoded' = Append(decoded, p), p.data = c.pkg
      PROVE  /\ \A n : Decoded(n) => Decoded(n)'
             /\ \A n : n # c.pkg /\ Decoded(n)' => Decoded(n)
  <2>1. \A i \in 1 .. Len(decoded) + 1 : i \in 1 .. Len(decoded) \/ i = Len(decoded) + 1
    BY <1>1
  <2>2. \A i \in 1 .. Len(decoded) : i \in 1 .. Len(decoded) + 1
    BY <1>1
  <2>3. decoded'[Len(decoded) + 1].data = c.pkg
    BY <1>4, <1>5
  <2>4. ASSUME NEW n, Decoded(n) PROVE Decoded(n)'
    <3>1. PICK i \in 1 .. Len(decoded) : decoded[i] = AsSent(n)
      BY <1>1, <2>4 DEF Decoded
    <3> QED
      BY <1>4, <1>5, <2>2, <3>1 DEF Decoded
  <2>5. ASSUME NEW n, n # c.pkg, Decoded(n)' PROVE Decoded(n)
    <3>1. PICK i \in DOMAIN decoded' : decoded'[i] = AsSent(n)
      BY <2>5 DEF Decoded
    <3>2. i # Len(decoded) + 1
      BY <2>3, <2>5, <3>1 DEF AsSent
    <3>3. i \in 1 .. Len(decoded)
      BY <1>4, <1>5, <2>1, <3>1, <3>2
    <3> QED
      BY <1>1, <1>4, <1>5, <3>1, <3>3 DEF Decoded
  <2> QED
    BY <2>4, <2>5
<1>6. CASE Completes /\ decoded' = Append(decoded, p) /\ p.data = c.pkg /\ \A k \in 6 .. HRTO_P_COUNT : Grown[k] = At(c.pkg, k)
  BY <1>1, <1>2, <1>4, <1>5, <1>6 DEF p
<1> QED
  BY <1>3, <1>6, NewlyDone DEF p

\* A package all of whose bytes are in place is decoded with its last byte.
LEMMA WholeIsDone ==
  ASSUME NEW b, NEW s, Handling(b, s), Typed, GotByte, Completes,
         \A k \in 1 .. HRTO_P_COUNT : Grown[k] = At(c.pkg, k)
  PROVE  Decoded(c.pkg)'
<1> DEFINE d == AsSent(c.pkg)
<1>1. /\ c.pkg \in 1 .. Pkgs /\ 3 \in 1 .. HRTO_P_COUNT /\ 4 \in 1 .. HRTO_P_COUNT
      /\ 5 \in 1 .. HRTO_P_COUNT /\ 6 \in 1 .. HRTO_P_COUNT
  BY Counts, Fields
<1>2. Parsed(Grown) = d
  <2>1. /\ Grown[3] = At(c.pkg, 3) /\ Grown[4] = At(c.pkg, 4) /\ Grown[5] = At(c.pkg, 5)
        /\ Grown[6].pkg = c.pkg
    BY <1>1, Fields2
  <2> QED
    BY <2>1 DEF Parsed, AsSent, At
<1>3. CrcRight(Grown)
  <2>1. \A k \in 6 .. HRTO_P_COUNT : k \in 1 .. HRTO_P_COUNT
    BY Fields
  <2> QED
    BY <1>1, <2>1 DEF CrcRight, At
<1>4. decoded' = Append(decoded, d)
  BY <1>2, <1>3 DEF Completes, Finish, Decode
<1>5. decoded \in Seq(Done) /\ d \in Done
  BY <1>1 DEF Done, AsSent, Byte, Handling, Handled, DoneMixed
<1> HIDE DEF d
<1>6. /\ decoded' \in Seq(Done) /\ Len(decoded') = Len(decoded) + 1 /\ Len(decoded) \in Nat
      /\ decoded'[Len(decoded) + 1] = d
  BY <1>4, <1>5, AppendProperties, LenProperties
<1>7. Len(decoded) + 1 \in DOMAIN decoded'
  BY <1>6, LenProperties
<1>8. c' = c
  BY DEF GotByte, ReadNext
<1> QED
  BY <1>6, <1>7, <1>8 DEF Decoded, d

(***************************************************************************)
(* What one byte does to each part of the state.                           *)
(***************************************************************************)
LEMMA CollectingStep ==
  ASSUME NEW b, NEW s, Handling(b, s), Typed, GotByte
  PROVE  Collecting(c)'
<1>1. /\ c' = c /\ c # NoByte /\ c \in Byte /\ count \in Nat /\ count >= 2
      /\ count + 1 \in 1 .. HRTO_P_COUNT /\ 1 \in 1 .. HRTO_P_COUNT /\ 2 \in 1 .. HRTO_P_COUNT
      /\ g_pkg \in [1 .. HRTO_P_COUNT -> Cells] /\ HRTO_P_COUNT \in Nat
  BY Counts, Fields, SMTT(40) DEF GotByte, ReadNext, Typed, PkgTyped, Handling
<1>2. CASE GoesOn
  <2>1. last' = c /\ start' = TRUE /\ count' = count + 1 /\ g_pkg' = Grown
    BY <1>2 DEF GoesOn
  <2>2. Grown[count + 1] = c
    BY <1>1 DEF Grown
  <2> QED
    BY <1>1, <2>1, <2>2 DEF Collecting
<1>3. CASE HeadFound
  <2>1. last' = c /\ start' = TRUE /\ count' = 2 /\ g_pkg' = [g_pkg EXCEPT ![1] = last, ![2] = c]
    BY <1>3 DEF HeadFound
  <2>2. g_pkg'[2] = c
    BY <1>1, <2>1
  <2> QED
    BY <1>1, <2>1, <2>2 DEF Collecting
<1>4. CASE Skips
  BY <1>1, <1>4 DEF Skips, Collecting
<1>5. CASE Completes
  BY <1>1, <1>5 DEF Completes, Finish, Collecting
<1> QED
  BY <1>2, <1>3, <1>4, <1>5, GotByteCases DEF Typed

\* The bytes and the counter that these lemmas are about.
LEMMA Counters ==
  ASSUME NEW b, NEW s, Handling(b, s), Typed, GotByte
  PROVE  /\ c' = c /\ seen' = seen /\ count \in 2 .. HRTO_P_COUNT - 1 /\ count \in Nat
         /\ HRTO_P_COUNT \in Nat /\ HRTO_P_COUNT >= 7 /\ c.pos \in Nat /\ c.pkg \in Nat
         /\ start \in BOOLEAN
         /\ g_pkg \in [1 .. HRTO_P_COUNT -> Cells]
         /\ GoesOn \/ Completes \/ HeadFound \/ Skips
<1>1. c' = c /\ seen' = seen
  BY DEF GotByte, ReadNext
<1>2. /\ count \in 2 .. HRTO_P_COUNT - 1 /\ start \in BOOLEAN
      /\ g_pkg \in [1 .. HRTO_P_COUNT -> Cells]
  BY DEF Typed, PkgTyped
<1>3. GoesOn \/ Completes \/ HeadFound \/ Skips
  BY GotByteCases DEF Typed
<1>4. c.pkg \in 1 .. Pkgs /\ c.pos \in 1 .. HRTO_P_COUNT
  BY Counts
<1>5. HRTO_P_COUNT \in Nat /\ HRTO_P_COUNT >= 7 /\ Pkgs \in Nat
  BY Fields
<1>6. count \in Nat /\ c.pos \in Nat /\ c.pkg \in Nat
  BY <1>2, <1>4, <1>5
<1> QED
  BY <1>1, <1>2, <1>3, <1>5, <1>6

\* The first byte of a package is skipped or taken for data.
LEMMA FirstByte ==
  ASSUME NEW b, NEW s, Handling(b, s), Typed, GotByte, c.pos = 1
  PROVE  /\ ~start => Aligned(c.pkg, c.pos)'
         /\ start => Swallowed(c.pkg, c.pos)'
<1>1. c' = c /\ c = At(c.pkg, 1) /\ c # NoByte /\ ~IsH2(c) /\ c \in Byte
  <2>1. c' = c /\ c = At(c.pkg, c.pos) /\ c # NoByte
    BY Counts, Counters
  <2>2. c \in Byte /\ ~IsH2(c)
    BY DEF IsH2, Handling
  <2> QED
    BY <2>1, <2>2
<1>2. CASE Skips
  BY <1>1, <1>2 DEF Skips, Aligned
<1>3. CASE HeadFound
  BY <1>1, <1>3 DEF HeadFound
<1>4. CASE GoesOn
  <2>1. count' >= 3 /\ start' = TRUE /\ start
    BY <1>4, Counters DEF GoesOn
  <2> QED
    BY <1>1, <2>1 DEF Swallowed
<1>5. CASE Completes
  <2>1. start /\ start' = FALSE /\ last' = NoByte
    BY <1>5 DEF Completes, Finish
  <2> QED
    BY <1>1, <2>1, Fields DEF Swallowed
<1> QED
  BY <1>2, <1>3, <1>4, <1>5, Counters

LEMMA FirstNotEmpty == \A n \in 1 .. Pkgs : At(n, 1) \in Byte /\ At(n, 1) # NoByte
BY Fields DEF At, Byte

\* The next byte of a package whose bytes so far are in place.
LEMMA AlignedStep ==
  ASSUME NEW b, NEW s, Handling(b, s), Typed, GotByte, NEW i \in 1 .. HRTO_P_COUNT, c.pos = i + 1,
         b = At(c.pkg, i), Aligned(c.pkg, i)
  PROVE  Aligned(c.pkg, c.pos)'
<1> PICK m \in 1 .. Pkgs : m = c.pkg
  BY Counts
<1>1. /\ c' = c /\ c = At(m, i + 1) /\ c # NoByte /\ i \in Nat /\ HRTO_P_COUNT \in Nat
      /\ HRTO_P_COUNT >= 7 /\ i + 1 <= HRTO_P_COUNT
      /\ GoesOn \/ Completes \/ HeadFound \/ Skips
  BY Counts, Counters
<1>2. CASE i = 1
  <2>1. ~start /\ last = At(m, 1)
    BY <1>2 DEF Aligned
  <2>2. IsH1(last) /\ IsH2(c)
    <3>1. b # NoByte /\ b = last
      BY <1>2, <2>1, Counts, FirstNotEmpty
    <3> QED
      BY <1>1, <1>2, <2>1, <3>1, Fields2 DEF IsH1, IsH2
  <2>3. HeadFound
    BY <1>1, <2>1, <2>2 DEF GoesOn, Completes, Skips
  <2>4. /\ start' = TRUE /\ count' = 2 /\ g_pkg' = [g_pkg EXCEPT ![1] = last, ![2] = c]
        /\ 1 \in 1 .. HRTO_P_COUNT /\ 2 \in 1 .. HRTO_P_COUNT
    BY <1>1, <2>3 DEF HeadFound
  <2>5. g_pkg'[1] = At(m, 1) /\ g_pkg'[2] = At(m, 2)
    <3>1. c = At(m, 2)
      BY <1>1, <1>2
    <3>2. g_pkg \in [1 .. HRTO_P_COUNT -> Cells]
      BY Counters
    <3> QED
      BY <2>1, <2>4, <3>1, <3>2
  <2>6. \A k \in 1 .. 2 : g_pkg'[k] = At(m, k)
    BY <2>5
  <2> QED
    BY <1>1, <1>2, <2>4, <2>6 DEF Aligned
<1>3. CASE i # 1
  <2>1. start /\ count = i /\ \A k \in 1 .. i : g_pkg[k] = At(m, k)
    BY <1>1, <1>3 DEF Aligned
  <2>2. \A k \in 1 .. i + 1 : Grown[k] = At(m, k)
    <3>1. g_pkg \in [1 .. HRTO_P_COUNT -> Cells] /\ i + 1 \in 1 .. HRTO_P_COUNT
      BY <1>1, Counters
    <3>2. \A k \in 1 .. i + 1 : k = i + 1 \/ (k \in 1 .. i /\ k # i + 1)
      BY <1>1
    <3> QED
      BY <1>1, <2>1, <3>1, <3>2 DEF Grown
  <2>3. CASE i + 1 < HRTO_P_COUNT
    <3>1. GoesOn
      BY <1>1, <2>1, <2>3 DEF Completes, HeadFound, Skips
    <3>2. start' = TRUE /\ count' = i + 1 /\ g_pkg' = Grown
      BY <2>1, <3>1 DEF GoesOn
    <3> QED
      BY <1>1, <1>3, <2>2, <2>3, <3>2 DEF Aligned
  <2>4. CASE i + 1 = HRTO_P_COUNT
    <3>1. Completes
      BY <1>1, <2>1, <2>4 DEF GoesOn, HeadFound, Skips
    <3>2. Decoded(c.pkg)'
      BY <2>2, <2>4, <3>1, WholeIsDone
    <3>3. start' = FALSE
      BY <3>1 DEF Completes, Finish
    <3> QED
      BY <1>1, <1>3, <2>4, <3>2, <3>3 DEF Aligned
  <2> QED
    BY <1>1, <2>3, <2>4
<1> QED
  BY <1>2, <1>3

\* The next byte of a package that is swallowed.
LEMMA SwallowedStep ==
  ASSUME NEW b, NEW s, Handling(b, s), Typed, GotByte, NEW i \in 1 .. HRTO_P_COUNT, c.pos = i + 1,
         b = At(c.pkg, i), Swallowed(c.pkg, i)
  PROVE  Swallowed(c.pkg, c.pos)'
<1> PICK m \in 1 .. Pkgs : m = c.pkg
  BY Counts
<1>1. /\ c' = c /\ c = At(m, i + 1) /\ c # NoByte /\ i \in Nat /\ HRTO_P_COUNT \in Nat
      /\ HRTO_P_COUNT >= 7 /\ i + 1 <= HRTO_P_COUNT /\ count \in Nat /\ count <= HRTO_P_COUNT - 1
      /\ (GoesOn \/ Completes \/ HeadFound \/ Skips) /\ start \in BOOLEAN
  BY Counts, Counters
<1>2. At(m, 1) # NoByte /\ c # At(m, 1)
  BY <1>1, FirstNotEmpty, Fields2
<1>3. CASE Completes
  <2>1. start' = FALSE /\ last' = NoByte
    BY <1>3 DEF Completes, Finish
  <2> QED
    BY <1>1, <1>2, <2>1 DEF Swallowed
<1>4. CASE Skips
  <2>1. start' = FALSE /\ last' = c
    BY <1>4 DEF Skips
  <2> QED
    BY <1>1, <1>2, <2>1 DEF Swallowed
<1>5. CASE GoesOn
  <2>1. start /\ start' = TRUE /\ count' = count + 1 /\ decoded' = decoded
    BY <1>5 DEF GoesOn
  <2>2. CASE count >= i + 2
    BY <1>1, <2>1, <2>2 DEF Swallowed
  <2>3. CASE m \in Tricky /\ count + 5 = i /\ ~Decoded(m)
    <3>1. ~Decoded(m)'
      BY <2>1, <2>3 DEF Decoded
    <3> QED
      BY <1>1, <2>1, <2>3, <3>1 DEF Swallowed
  <2> QED
    BY <2>1, <2>2, <2>3 DEF Swallowed
<1>6. CASE HeadFound
  <2>1. ~start /\ IsH1(last) /\ IsH2(c) /\ start' = TRUE /\ count' = 2
    BY <1>6 DEF HeadFound
  <2>2. last # At(m, 1) /\ last = b
    BY <2>1 DEF Swallowed, Handling, Handled, Collecting, IsH1
  <2>3. i = 6 /\ m \in Tricky
    <3>1. b.pos = i /\ b.pkg = m
      BY Fields2
    <3>2. i # 1
      BY <2>2
    <3> QED
      BY <2>1, <2>2, <3>1, <3>2 DEF IsH1
  <2>4. ~Decoded(m)'
    <3>1. decoded' = decoded /\ ~Decoded(m)
      BY <1>6, DoneStep DEF HeadFound
    <3> QED
      BY <3>1 DEF Decoded
  <2> QED
    BY <1>1, <2>1, <2>3, <2>4 DEF Swallowed
<1> QED
  BY <1>1, <1>3, <1>4, <1>5, <1>6

\* A package whose way is clear finds get_pkg out of any other.
LEMMA OutOfStep ==
  ASSUME NEW b, NEW s, Handling(b, s), Typed, GotByte, c.pos = 1, Clear(seen, c.pkg)'
  PROVE  ~start
<1> SUFFICES ASSUME start PROVE FALSE
  OBVIOUS
<1> PICK m \in 1 .. Pkgs : m = c.pkg
  BY Counts
<1>1. /\ b # NoByte /\ b.pkg \in 1 .. Pkgs /\ b.pos \in 1 .. HRTO_P_COUNT /\ b.pkg < m
      /\ m \in Nat /\ HRTO_P_COUNT \in Nat /\ HRTO_P_COUNT >= 7
      /\ count \in Nat /\ count <= HRTO_P_COUNT - 1
  <2>1. b # NoByte
    BY DEF Handling, Handled, Collecting
  <2>2. ~(b.pkg = m /\ b.pos < 1)
    BY <2>1, Counts, Fields
  <2> QED
    BY <2>1, <2>2, Counts, Counters
<1>2. m - 1 \in 1 .. Pkgs /\ m # 1 /\ m - 1 # m
  BY <1>1, Fields
<1>3. seen[m - 1] = HRTO_P_COUNT /\ (m - 1 \in Tricky => Decoded(m - 1)')
  BY <1>2, Counters DEF Clear
<1>4. s[m - 1] = HRTO_P_COUNT
  BY <1>2, <1>3, Counts
<1>5. b.pkg = m - 1 /\ b.pos = HRTO_P_COUNT
  <2>1. ~(m - 1 > b.pkg)
    BY <1>1, <1>2, <1>4 DEF Handling, Handled, Upto
  <2>2. b.pkg = m - 1
    BY <1>1, <1>2, <2>1
  <2>3. s[m - 1] <= b.pos
    BY <1>1, <2>2, Counts
  <2> QED
    BY <1>1, <1>4, <2>2, <2>3
<1>6. Aligned(m - 1, HRTO_P_COUNT) \/ Swallowed(m - 1, HRTO_P_COUNT)
  BY <1>1, <1>4, <1>5 DEF Handling, Handled, InPlace
<1>7. ~Aligned(m - 1, HRTO_P_COUNT)
  BY <1>1 DEF Aligned
<1>8. m - 1 \in Tricky /\ count + 5 = HRTO_P_COUNT /\ ~Decoded(m - 1)
  BY <1>1, <1>6, <1>7 DEF Swallowed
<1>9. Decoded(m - 1)'
  BY <1>3, <1>8
<1> QED
  BY <1>2, <1>8, <1>9, DoneStep

\* Clear is about the package before c's, which nothing more is read of.
LEMMA ClearBefore ==
  ASSUME NEW b, NEW s, Handling(b, s), Typed, GotByte,
         NEW n \in 1 .. Pkgs, n <= c.pkg, Clear(seen, n)'
  PROVE  Clear(s, n)
<1> PICK m \in 1 .. Pkgs : m = c.pkg
  BY Counts
<1>1. m \in Nat /\ n \in Nat /\ n - 1 # m /\ (n # 1 => n - 1 \in 1 .. Pkgs)
  BY Fields
<1>2. (n = 1 \/ seen[n - 1] = HRTO_P_COUNT) /\ (n - 1 \in Tricky => Decoded(n - 1)')
  BY Counters DEF Clear
<1>3. n - 1 \in Tricky => Decoded(n - 1)
  BY <1>1, <1>2, DoneStep
<1>4. n # 1 => s[n - 1] = HRTO_P_COUNT
  BY <1>1, <1>2, Counts
<1> QED
  BY <1>3, <1>4 DEF Clear

LEMMA InPlaceStep ==
  ASSUME NEW b, NEW s, Handling(b, s), Typed, GotByte
  PROVE  InPlace(c, seen)'
<1> SUFFICES ASSUME seen[c.pkg] = c.pos
             PROVE  /\ Aligned(c.pkg, c.pos)' \/ Swallowed(c.pkg, c.pos)'
                    /\ Clear(seen, c.pkg)' => Aligned(c.pkg, c.pos)'
  BY Counters DEF InPlace
<1>1. CASE c.pos = 1
  BY <1>1, FirstByte, OutOfStep
<1>2. CASE c.pos # 1
  <2>1. b # NoByte /\ b.pkg = c.pkg /\ b.pos = c.pos - 1 /\ s[b.pkg] = b.pos
    BY <1>2, NoGap
  <2> PICK i \in 1 .. HRTO_P_COUNT : i = b.pos
    BY <2>1, Counts
  <2>2. c.pos = i + 1 /\ b = At(c.pkg, i) /\ s[b.pkg] = i
    BY <2>1, Counts, Fields
  <2>3. /\ Aligned(c.pkg, i) \/ Swallowed(c.pkg, i)
        /\ Clear(s, c.pkg) => Aligned(c.pkg, i)
    BY <2>1, <2>2 DEF Handling, Handled, InPlace
  <2>4. Clear(seen, c.pkg)' => Clear(s, c.pkg)
    <3> PICK m \in 1 .. Pkgs : m = c.pkg
      BY Counts
    <3>1. m <= c.pkg
      BY Fields
    <3>2. Clear(seen, c.pkg)' => Clear(seen, m)'
      BY Counters DEF Clear
    <3> QED
      BY <3>1, <3>2, ClearBefore
  <2> QED
    BY <2>2, <2>3, <2>4, AlignedStep, SwallowedStep
<1> QED
  BY <1>1, <1>2

\* A package that was read whole, with nothing in its way, is decoded.
LEMMA InStepStep ==
  ASSUME NEW b, NEW s, Handling(b, s), Typed, GotByte
  PROVE  InStep(seen)'
<1> PICK m \in 1 .. Pkgs, j \in 1 .. HRTO_P_COUNT : m = c.pkg /\ j = c.pos
  BY Counts
<1> SUFFICES ASSUME NEW n \in 1 .. Pkgs, seen[n] = HRTO_P_COUNT, Clear(seen, n)'
             PROVE  Decoded(n)'
  BY Counters DEF InStep
<1>1. HRTO_P_COUNT \in Nat /\ HRTO_P_COUNT >= 7 /\ n \in Nat /\ m \in Nat
  BY Fields
<1>2. n <= m
  BY <1>1, Counts
<1>3. CASE n = m
  <2>1. j = HRTO_P_COUNT /\ seen[m] = j
    BY <1>1, <1>3, Counts
  <2>2. c' = c /\ seen' = seen /\ c # NoByte
    BY Counters, Counts
  <2>3. InPlace(c, seen)'
    BY InPlaceStep
  <2>4. Clear(seen, c.pkg)'
    BY <1>3, <2>2 DEF Clear
  <2>5. Aligned(c.pkg, c.pos)'
    BY <2>1, <2>2, <2>3, <2>4 DEF InPlace
  <2>6. Decoded(c.pkg)'
    <3>0. c'.pos = HRTO_P_COUNT
      BY <2>1, <2>2, Zenon
    <3>1. c'.pos # 1 /\ ~(c'.pos < HRTO_P_COUNT)
      BY <1>1, <3>0
    <3> QED
      BY <2>5, <3>1, Zenon DEF Aligned
  <2> QED
    BY <1>3, <2>2, <2>6 DEF Decoded
<1>4. CASE n # m
  <2>1. Clear(s, n) /\ s[n] = HRTO_P_COUNT
    BY <1>2, <1>4, ClearBefore, Counts
  <2>2. Decoded(n)
    BY <2>1 DEF Handling, Handled, InStep
  <2> QED
    BY <2>2, DoneStep
<1> QED
  BY <1>3, <1>4

LEMMA MixingStep ==
  ASSUME NEW b, NEW s, Handling(b, s), Typed, GotByte
  PROVE  Mixing(seen)'
<1>1. CASE Completes \/ Skips
  BY <1>1 DEF Completes, Finish, Skips, Mixing
<1>2. CASE HeadFound
  <2>1. Collected([g_pkg EXCEPT ![1] = last, ![2] = c], 2, seen)
    BY <1>2, HeadIsCollected DEF HeadFound
  <2> QED
    BY <1>2, <2>1, Counters DEF HeadFound, Mixing, Collected, UpToHead, IsH2, Before
<1>3. CASE GoesOn
  <2>1. Collected(Grown, count + 1, seen)
    BY <1>3, CollectedStep DEF GoesOn
  <2> QED
    BY <1>3, <2>1, Counters DEF GoesOn, Mixing, Collected, UpToHead, IsH2, Before
<1> QED
  BY <1>1, <1>2, <1>3, Counters

\* The counts of the packages a mixture is made of change no more.
LEMMA MixedKept ==
  ASSUME NEW p \in Done, NEW s, NEW r, Mixed(p, s),
         \A q \in 1 .. Pkgs : q <= p.data => r[q] = s[q]
  PROVE  Mixed(p, r)
<1>1. p.type \in Byte /\ p.idx \in Byte /\ p.cnt \in Byte /\ p.data \in 1 .. Pkgs
  BY DEF Done
<1> PICK t \in 1 .. Pkgs, d \in 1 .. Pkgs : t = p.type.pkg /\ d = p.data
  BY <1>1, Fields
<1>2. p.idx.pkg \in 1 .. Pkgs /\ p.cnt.pkg \in 1 .. Pkgs
  BY <1>1, Fields
<1>3. t <= d /\ d <= d
  BY <1>2, Fields DEF Mixed
<1>4. r[t] = s[t] /\ r[d] = s[d]
  BY <1>3
<1> QED
  BY <1>4 DEF Mixed

LEMMA DoneMixedStep ==
  ASSUME NEW b, NEW s, Handling(b, s), Typed, GotByte
  PROVE  DoneMixed(seen)'
<1> PICK m \in 1 .. Pkgs, n \in Nat : m = c.pkg /\ n = Len(decoded)
  BY Counts, DoneStep, LenProperties
<1>1. /\ decoded \in Seq(Done) /\ decoded' \in Seq(Done) /\ seen' = seen /\ m \in Nat
      /\ DOMAIN decoded = 1 .. n
  BY DoneStep, LenProperties, Counters, Counts, Fields
<1>2. \A i \in 1 .. n : decoded[i] \in Done /\ decoded[i].data \in 1 .. Pkgs /\ decoded[i].data < m
  <2> SUFFICES ASSUME NEW i \in 1 .. n
               PROVE  decoded[i] \in Done /\ decoded[i].data \in 1 .. Pkgs /\ decoded[i].data < m
    OBVIOUS
  <2>1. decoded[i] \in Done
    BY <1>1, ElementOfSeq
  <2> QED
    BY <1>1, <2>1 DEF Done, Handling, DoneBelow
<1>3. ASSUME NEW i \in 1 .. n, decoded[i] # AsSent(decoded[i].data)
      PROVE  Mixed(decoded[i], seen)
  <2>1. Mixed(decoded[i], s)
    BY <1>1, <1>3 DEF Handling, Handled, DoneMixed
  <2>2. \A q \in 1 .. Pkgs : q <= decoded[i].data => seen[q] = s[q]
    <3>1. decoded[i].data \in Nat /\ decoded[i].data < m /\ \A q \in 1 .. Pkgs : q \in Nat
      BY <1>2, Fields
    <3>2. \A q \in 1 .. Pkgs : q <= decoded[i].data => q # m
      BY <1>1, <3>1
    <3> QED
      BY <3>2, Counts
  <2> QED
    BY <1>1, <1>2, <2>1, <2>2, MixedKept
<1>4. CASE decoded' = decoded
  <2>1. \A i, j \in DOMAIN decoded : i < j => decoded[i].data < decoded[j].data
    BY DEF Handling, Handled, DoneMixed
  <2> QED
    BY <1>1, <1>3, <1>4, <2>1 DEF DoneMixed, Mixed, AsSent, HeaderLen
<1>5. CASE /\ Len(decoded') = Len(decoded) + 1
           /\ \A i \in 1 .. Len(decoded) : decoded'[i] = decoded[i]
           /\ decoded'[Len(decoded) + 1] = Parsed(Grown) /\ Parsed(Grown).data = c.pkg
           /\ Completes /\ \A k \in 6 .. HRTO_P_COUNT : Grown[k] = At(c.pkg, k)
  <2>1. DOMAIN decoded' = 1 .. n + 1 /\ \A i \in 1 .. n + 1 : i \in 1 .. n \/ i = n + 1
    BY <1>1, <1>5, LenProperties
  <2>2. \A i, j \in 1 .. n + 1 : i < j => decoded'[i].data < decoded'[j].data
    <3> SUFFICES ASSUME NEW i \in 1 .. n + 1, NEW j \in 1 .. n + 1, i < j
                 PROVE  decoded'[i].data < decoded'[j].data
      OBVIOUS
    <3>1. i \in 1 .. n
      OBVIOUS
    <3>2. CASE j \in 1 .. n
      BY <1>1, <1>5, <3>1, <3>2 DEF Handling, Handled, DoneMixed
    <3>3. CASE j = n + 1
      BY <1>2, <1>5, <3>1, <3>3
    <3> QED
      BY <2>1, <3>2, <3>3
  <2>3. ASSUME Parsed(Grown) # AsSent(m) PROVE Mixed(Parsed(Grown), seen)
    <3>1. Collected(Grown, HRTO_P_COUNT, seen)
      BY <1>5, CompleteIsBytes
    <3>2. \A q \in 1 .. Pkgs : seen[q] \in Nat
      BY Counts
    <3> QED
      BY <1>5, <2>3, <3>1, <3>2, MixtureBounds
  <2>4. ASSUME NEW i \in 1 .. n + 1, decoded'[i] # AsSent(decoded'[i].data)
        PROVE  Mixed(decoded'[i], seen)
    <3>1. CASE i \in 1 .. n
      BY <1>3, <1>5, <2>4, <3>1
    <3>2. CASE i = n + 1
      BY <1>5, <2>3, <2>4, <3>2
    <3> QED
      BY <2>1, <3>1, <3>2
  <2>5. (\A i \in DOMAIN decoded : decoded[i] # AsSent(decoded[i].data) => Mixed(decoded[i], seen))'
    BY <1>1, <2>1, <2>4 DEF Mixed, AsSent, HeaderLen
  <2> QED
    BY <1>1, <2>1, <2>2, <2>5 DEF DoneMixed
<1> QED
  BY <1>4, <1>5, DoneStep

\* All together: get_pkg has handled c.
LEMMA HandledStep ==
  ASSUME NEW b, NEW s, Handling(b, s), Typed, GotByte
  PROVE  Handled(c, seen)'
<1>1. c' = c /\ seen' = seen /\ c # NoByte
  BY Counters, Counts
<1>2. Upto(c, seen)'
  BY <1>1 DEF Upto, Handling
<1> QED
  BY <1>1, <1>2, CollectingStep, InPlaceStep, InStepStep, MixingStep, DoneMixedStep DEF Handled

(***************************************************************************)
(* The invariant: get_pkg has handled every byte it read, but one that it  *)
(* has just read; and no package is still to come that was decoded.        *)
(***************************************************************************)
Decoding ==
  /\ \A x \in Coming : DoneBelow(x)
  /\ read # "next" => Handled(c, seen)
  /\ read = "next" => \E b \in Cells, s \in [1 .. Pkgs -> 0 .. HRTO_P_COUNT] : Handling(b, s)

LEMMA HandledKept ==
  ASSUME NEW b, NEW s, UNCHANGED <<pkgVars, decoded>>, Handled(b, s)
  PROVE  Handled(b, s)'
<1> USE DEF pkgVars
<1>1. Collecting(b)'
  BY DEF Handled, Collecting
<1>2. InPlace(b, s)' /\ InStep(s)'
  <2>1. \A n : Decoded(n)' <=> Decoded(n)
    BY DEF Decoded
  <2>2. \A n : Clear(s, n)' <=> Clear(s, n)
    BY <2>1 DEF Clear
  <2>3. \A n, j : (Aligned(n, j)' <=> Aligned(n, j)) /\ (Swallowed(n, j)' <=> Swallowed(n, j))
    BY <2>1 DEF Aligned, Swallowed
  <2> QED
    BY <2>1, <2>2, <2>3 DEF Handled, InPlace, InStep
<1>3. Mixing(s)' /\ DoneMixed(s)'
  BY DEF Handled, Mixing, Collected, DoneMixed, Mixed, AsSent, HeaderLen, IsH2, UpToHead, Before
<1> QED
  BY <1>1, <1>2, <1>3 DEF Handled, Upto

\* Nothing is decoded but by get_pkg, when it handles a byte; nothing is coming but what was.
LEMMA StillBelow ==
  ASSUME Typed, Typed', Ordered, Decoding, [Next]_vars, decoded' = decoded
  PROVE  \A x \in Coming' : DoneBelow(x)'
<1> SUFFICES ASSUME NEW x \in Coming', NEW i \in DOMAIN decoded PROVE decoded[i].data < x.pkg
  BY DEF DoneBelow
<1>1. PICK y \in Coming : x \in Places /\ (y = x \/ Before(y, x))
  BY OrderStep DEF Follow
<1>2. y.pkg \in Nat /\ x.pkg \in Nat /\ y.pkg <= x.pkg
  BY <1>1, ComingPlaces, Fields DEF Before
<1>3. decoded[i].data < y.pkg
  BY <1>1 DEF Decoding, DoneBelow
<1>4. decoded[i].data \in Nat
  <2>1. decoded \in Seq(Done)
    BY DEF Decoding, Handling, Handled, DoneMixed
  <2>2. decoded[i] \in Done
    BY <2>1, LenProperties, ElementOfSeq
  <2> QED
    BY <2>2, Fields DEF Done
<1> QED
  BY <1>2, <1>3, <1>4

LEMMA OthersKeep ==
  ASSUME Typed, [Next]_vars, ~(Reading /\ ReadCell), ~Restart, ~GotByte
  PROVE  UNCHANGED <<c, seen, pkgVars, decoded>> /\ (read' = "next" <=> read = "next")
<1>1. CASE HostByte \/ LoseByte \/ DebugByte \/ Time \/ UNCHANGED vars
  BY <1>1 DEF HostByte, LoseByte, DebugByte, Time, CharTime, Arrive, vars, uartVars, history
<1>2. CASE GetPkg
  BY <1>2 DEF GetPkg, history, Typed, PkgTyped
<1>3. CASE Writing
  BY <1>3 DEF Writing, WriteMask, WriteChar, history
<1>4. CASE IsrEnter /\ UNCHANGED mainVars
  BY <1>4 DEF IsrEnter, mainVars, history
<1>5. CASE ReadWait /\ UNCHANGED mainVars
  BY <1>5 DEF ReadWait, mainVars, history
<1>6. ASSUME NEW p \in Ports, IsrByte(p) \/ IsrDrained(p) \/ IsrAck(p), UNCHANGED mainVars
      PROVE  UNCHANGED <<c, seen, pkgVars, decoded>> /\ (read' = "next" <=> read = "next")
  BY <1>6 DEF IsrByte, IsrDrained, IsrAck, mainVars, history
<1> QED
  BY Steps, <1>1, <1>2, <1>3, <1>4, <1>5, <1>6

LEMMA RestartDecoding ==
  ASSUME Counted, Decoding, Restart
  PROVE  Handled(c, seen)'
<1>1. /\ read = "wait" /\ last' = NoByte /\ start' = FALSE /\ decoded' = decoded
      /\ seen' = [n \in 1 .. Pkgs |-> IF seen[n] = HRTO_P_COUNT THEN seen[n] ELSE 0]
  BY DEF Restart, Bite
<1>2. c' = NoByte
  BY RestartQueue
<1>3. Handled(c, seen)
  BY <1>1 DEF Decoding
<1>4. /\ \A n \in 1 .. Pkgs : /\ seen'[n] = (IF seen[n] = HRTO_P_COUNT THEN seen[n] ELSE 0)
                              /\ seen[n] \in Nat
      /\ HRTO_P_COUNT \in Nat /\ HRTO_P_COUNT >= 7
  BY <1>1, Fields DEF Counted
<1>5. \A n \in 1 .. Pkgs : seen'[n] \in {0, HRTO_P_COUNT} /\ (seen'[n] = HRTO_P_COUNT => seen[n] = HRTO_P_COUNT)
  BY <1>4
<1>6. Collecting(c)' /\ InPlace(c, seen)' /\ Mixing(seen)'
  BY <1>1, <1>2 DEF Collecting, InPlace, Mixing
<1>7. InStep(seen)'
  <2> SUFFICES ASSUME NEW n \in 1 .. Pkgs, seen'[n] = HRTO_P_COUNT, Clear(seen, n)'
               PROVE  Decoded(n)'
    BY DEF InStep
  <2>1. \A m : Decoded(m)' <=> Decoded(m)
    BY <1>1 DEF Decoded
  <2>2. seen[n] = HRTO_P_COUNT /\ (n # 1 => n - 1 \in 1 .. Pkgs)
    BY <1>5, Fields
  <2>3. Clear(seen, n)
    BY <1>5, <2>1, <2>2 DEF Clear
  <2> QED
    BY <1>3, <2>1, <2>2, <2>3 DEF Handled, InStep
<1>8. DoneMixed(seen)'
  <2>1. DoneMixed(seen) /\ decoded \in Seq(Done)
    BY <1>3 DEF Handled, DoneMixed
  <2>2. ASSUME NEW i \in DOMAIN decoded, decoded[i] # AsSent(decoded[i].data)
        PROVE  Mixed(decoded[i], seen')
    <3>1. decoded[i] \in Done
      BY <2>1, LenProperties, ElementOfSeq
    <3> PICK t \in 1 .. Pkgs, d \in 1 .. Pkgs : t = decoded[i].type.pkg /\ d = decoded[i].data
      BY <3>1, Fields DEF Done
    <3>2. Mixed(decoded[i], seen)
      BY <2>1, <2>2 DEF DoneMixed
    <3>3. HeaderLen(t) \in Nat /\ seen'[t] <= seen[t] /\ seen'[d] <= seen[d]
          /\ seen'[t] \in Nat /\ seen'[d] \in Nat /\ seen[t] \in Nat /\ seen[d] \in Nat
      BY <1>4, Fields DEF HeaderLen
    <3>4. seen[d] <= HRTO_P_COUNT - 2 => seen'[d] <= HRTO_P_COUNT - 2
      BY <1>4, <3>3
    <3>5. seen[d] <= HRTO_P_COUNT - 3 => seen'[d] <= HRTO_P_COUNT - 3
      BY <1>4, <3>3
    <3>6. seen[t] <= HeaderLen(t) => seen'[t] <= HeaderLen(t)
      BY <3>3
    <3> QED
      BY <3>2, <3>4, <3>5, <3>6 DEF Mixed
  <2>3. (\A i \in DOMAIN decoded : decoded[i] # AsSent(decoded[i].data) => Mixed(decoded[i], seen))'
    BY <1>1, <2>2 DEF Mixed, AsSent, HeaderLen
  <2> QED
    BY <1>1, <2>1, <2>3 DEF DoneMixed
<1> QED
  BY <1>2, <1>5, <1>6, <1>7, <1>8 DEF Handled

LEMMA DecodingStep ==
  ASSUME Typed, Typed', Ordered, Counted, Decoding, [Next]_vars
  PROVE  Decoding'
<1>1. CASE Reading /\ ReadCell
  <2>1. /\ c' \in Byte /\ c' \in Coming /\ (c # NoByte => Before(c, c'))
        /\ seen' = [seen EXCEPT ![c'.pkg] = @ + 1]
        /\ read = "cell" /\ read' = "next" /\ UNCHANGED <<pkgVars, decoded>>
        /\ Upto(c, seen)'
    BY <1>1, ReadStep
  <2> PICK b \in Cells, s \in [1 .. Pkgs -> 0 .. HRTO_P_COUNT] : b = c /\ s = seen
    BY DEF Typed, PkgTyped, Counted
  <2>2. Handled(b, s)'
    <3>1. Handled(b, s)
      BY <2>1 DEF Decoding
    <3> QED
      BY <2>1, <3>1, HandledKept
  <2>3. DoneBelow(c)'
    BY <2>1 DEF Decoding, DoneBelow
  <2>4. Handling(b, s)'
    BY <2>1, <2>2, <2>3 DEF Handling
  <2> QED
    BY <2>1, <2>4, StillBelow DEF Decoding
<1>2. CASE GotByte
  <2>1. read = "next" /\ read' = "out" /\ c' = c
    BY <1>2 DEF GotByte, ReadNext
  <2> PICK b \in Cells, s \in [1 .. Pkgs -> 0 .. HRTO_P_COUNT] : Handling(b, s)
    BY <2>1 DEF Decoding
  <2>2. Handled(c, seen)'
    BY <1>2, HandledStep
  <2>3. CASE decoded' = decoded
    BY <2>1, <2>2, <2>3, StillBelow DEF Decoding
  <2>4. CASE decoded' # decoded
    <3>1. c.pos = HRTO_P_COUNT /\ c \in Byte
      BY <1>2, <2>4, NewlyDone DEF Handling
    <3>2. /\ decoded \in Seq(Done) /\ decoded' \in Seq(Done) /\ Len(decoded') = Len(decoded) + 1
          /\ \A i \in 1 .. Len(decoded) : decoded'[i] = decoded[i]
          /\ decoded'[Len(decoded) + 1].data = c.pkg
      BY <1>2, <2>4, DoneStep
    <3>3. ASSUME NEW x \in Coming' PROVE DoneBelow(x)'
      <4>1. c.pkg < x.pkg /\ x.pkg \in Nat /\ c.pkg \in Nat
        <5>1. c # NoByte /\ x \in Places
          BY <3>1, OrderStep, Fields
        <5>2. Before(c, x)
          BY <2>1, <5>1, OrderStep DEF Ordered
        <5> QED
          BY <3>1, <5>1, <5>2, Fields DEF Before
      <4>2. DOMAIN decoded' = 1 .. Len(decoded) + 1 /\ DOMAIN decoded = 1 .. Len(decoded)
            /\ Len(decoded) \in Nat
        BY <3>2, LenProperties
      <4>3. ASSUME NEW i \in 1 .. Len(decoded) PROVE decoded'[i].data < x.pkg
        <5>1. decoded[i].data < c.pkg
          BY <4>2 DEF Handling, DoneBelow
        <5>2. decoded[i] \in Done
          BY <3>2, ElementOfSeq
        <5>3. decoded[i].data \in Nat
          BY <5>2, Fields DEF Done
        <5>4. decoded'[i].data = decoded[i].data
          BY <3>2
        <5> QED
          BY <4>1, <5>1, <5>3, <5>4
      <4>4. \A i \in 1 .. Len(decoded) + 1 : i \in 1 .. Len(decoded) \/ i = Len(decoded) + 1
        BY <4>2
      <4> QED
        BY <3>2, <4>1, <4>2, <4>3, <4>4 DEF DoneBelow
    <3> QED
      BY <2>1, <2>2, <3>3 DEF Decoding
  <2> QED
    BY <2>3, <2>4
<1>3. CASE Restart
  <2>1. read' = "out" /\ decoded' = decoded
    BY <1>3 DEF Restart, Bite, UartReset
  <2> QED
    BY <1>3, <2>1, RestartDecoding, StillBelow DEF Decoding
<1>4. CASE ~(Reading /\ ReadCell) /\ ~Restart /\ ~GotByte
  <2>1. UNCHANGED <<c, seen, pkgVars, decoded>> /\ (read' = "next" <=> read = "next")
    BY <1>4, OthersKeep
  <2>2. CASE read # "next"
    <3>1. Handled(c, seen)
      BY <2>2 DEF Decoding
    <3> PICK b, s : b = c /\ s = seen
      OBVIOUS
    <3>2. Handled(b, s)'
      BY <2>1, <3>1, HandledKept
    <3>3. Handled(c, seen)'
      BY <2>1, <3>2
    <3> QED
      BY <2>1, <2>2, <3>3, StillBelow DEF Decoding
  <2>3. CASE read = "next"
    <3> PICK b \in Cells, s \in [1 .. Pkgs -> 0 .. HRTO_P_COUNT] : Handling(b, s)
      BY <2>3 DEF Decoding
    <3>1. Handled(b, s)'
      BY <2>1, HandledKept DEF Handling
    <3>2. Handling(b, s)'
      BY <2>1, <3>1 DEF Handling, DoneBelow, Upto
    <3> QED
      BY <2>1, <2>3, <3>2, StillBelow DEF Decoding
  <2> QED
    BY <2>2, <2>3
<1> QED
  BY <1>1, <1>2, <1>3, <1>4

LEMMA DecodingStart == Init => Decoding
<1> SUFFICES ASSUME Init PROVE Decoding
  OBVIOUS
<1>1. /\ c = NoByte /\ decoded = <<>> /\ seen = [n \in 1 .. Pkgs |-> 0] /\ read = "out"
      /\ start = FALSE /\ last = NoByte
  BY StartQueue DEF Init, GetPkgInit, UartInit
<1>2. DOMAIN decoded = {} /\ decoded \in Seq(Done)
  BY <1>1
<1>3. InStep(seen)
  BY <1>1, Fields DEF InStep
<1>4. Collecting(c) /\ InPlace(c, seen) /\ Mixing(seen) /\ DoneMixed(seen)
  BY <1>1, <1>2 DEF Collecting, InPlace, Mixing, DoneMixed
<1>5. \A x \in Coming : DoneBelow(x)
  BY <1>2 DEF DoneBelow
<1> QED
  BY <1>1, <1>3, <1>4, <1>5 DEF Decoding, Handled

LEMMA DecodingInvariant == Spec => []Decoding
<1>1. Init => Decoding
  BY DecodingStart
<1>2. LineInv /\ LineInv' /\ Decoding /\ [Next]_vars => Decoding'
  BY DecodingStep DEF LineInv
<1> QED
  BY <1>1, <1>2, LineInvariant, PTL DEF Spec

(***************************************************************************)
(* After a loss get_pkg is in step again after one package at most         *)
(* (main.c:506-543).                                                       *)
(***************************************************************************)
THEOREM InStepAgainAlways == Spec => []InStepAgain
<1>1. Decoding => InStepAgain
  <2> SUFFICES ASSUME Decoding, read = "out", NEW n \in 1 .. Pkgs,
                      Whole(n), Whole(n - 1), n - 1 \in Tricky => Decoded(n - 1)
               PROVE  Decoded(n)
    BY DEF InStepAgain
  <2>1. n # 0 /\ (n - 1 = 0 => n = 1)
    OBVIOUS
  <2>2. seen[n] = HRTO_P_COUNT /\ Clear(seen, n)
    BY <2>1 DEF Whole, Clear
  <2> QED
    BY <2>2 DEF Decoding, Handled, InStep
<1> QED
  BY <1>1, DecodingInvariant, PTL

(***************************************************************************)
(* The packages are decoded in the order they were sent and once.  The CRC *)
(* covers the data alone, so type, idx and cnt of others may come with     *)
(* them: then no more was read of the one than a header takes, and of the  *)
(* other two bytes at least were not (main.c:181-191, 506-543).            *)
(***************************************************************************)
THEOREM DecodedAsSentAlways == Spec => []DecodedAsSent
<1>1. Decoding => DecodedAsSent
  <2> SUFFICES ASSUME Decoding PROVE DecodedAsSent
    OBVIOUS
  <2>1. ASSUME DoneMixed(seen) PROVE DecodedAsSent
    BY <2>1 DEF DecodedAsSent, DoneMixed, Mixed
  <2>2. CASE read # "next"
    BY <2>1, <2>2 DEF Decoding, Handled
  <2>3. CASE read = "next"
    <3> PICK b \in Cells, s \in [1 .. Pkgs -> 0 .. HRTO_P_COUNT] : Handling(b, s)
      BY <2>3 DEF Decoding
    <3>1. DoneMixed(s)
      BY DEF Handling, Handled
    <3>2. ASSUME NEW i \in DOMAIN decoded, decoded[i] # AsSent(decoded[i].data)
          PROVE  Mixed(decoded[i], seen)
      <4>1. decoded[i] \in Done
        BY <3>1, LenProperties, ElementOfSeq DEF DoneMixed
      <4>2. decoded[i].data < c.pkg /\ decoded[i].data \in 1 .. Pkgs
        BY <4>1 DEF Handling, DoneBelow, Done
      <4>3. \A q \in 1 .. Pkgs : q <= decoded[i].data => seen[q] = s[q]
        BY <4>2, Counts, Fields
      <4>4. Mixed(decoded[i], s)
        BY <3>1, <3>2 DEF DoneMixed
      <4> QED
        BY <4>1, <4>3, <4>4, MixedKept
    <3> QED
      BY <2>1, <3>1, <3>2 DEF DoneMixed
  <2> QED
    BY <2>2, <2>3
<1> QED
  BY <1>1, DecodingInvariant, PTL
===============================================================================

-------------------------- MODULE PkgReceiver_proofs --------------------------
(***************************************************************************)
(* The receiver of packages, for every size of the rings and of the UART   *)
(* cores, every length and number of packages and every loss: the indices  *)
(* stay within the rings, get_pkg reads the bytes in the order they        *)
(* arrived, and the UART core's FIFO suffices.                              *)
(***************************************************************************)
EXTENDS PkgReceiver, Ring_proofs

Cells == Byte \cup {NoByte}

\* Types of the variables of the UART cores, of the interrupts, of the rings and of get_pkg.
HwTyped ==
  /\ fifo \in [Ports -> Seq(Cells)] /\ txq \in [Ports -> 0 .. TX_DEPTH] /\ ready \subseteq Ports
IrqTyped ==
  /\ ip \subseteq Ports /\ irqs \subseteq Ports /\ isr \in {"off", "serve", "ack"}
  /\ write \in {"out", "wait"} /\ im = IF write = "out" THEN Ports ELSE {}
RingTyped ==
  /\ rx_produce \in [Ports -> Nat] /\ rx_consume \in [Ports -> Nat] /\ DOMAIN rx_buf = Ports
  /\ rx_buf = [p \in Ports |-> rx_buf[p]]
  /\ \A p \in Ports : /\ rx_produce[p] \in 0 .. RingSize[p] - 1
                      /\ rx_consume[p] \in 0 .. RingSize[p] - 1
                      /\ rx_buf[p] \in [0 .. RingSize[p] - 1 -> Cells]
PkgTyped ==
  /\ next \in [pkg : 1 .. Pkgs + 1, pos : 1 .. HRTO_P_COUNT] /\ c \in Cells
  /\ pc \in {"get", "reading", "writing"} /\ read \in {"out", "wait", "cell", "next"}
  /\ (pc = "reading" <=> read # "out") /\ (write = "wait" => pc = "writing")
  /\ last \in Cells /\ start \in BOOLEAN /\ count \in 2 .. HRTO_P_COUNT - 1
  /\ g_pkg \in [1 .. HRTO_P_COUNT -> Cells]
  /\ out \in Seq([port : Ports, chars : {1, 2}]) /\ (pc = "writing" <=> out # <<>>)

\* What the interrupts and the cores leave alone.
mainVars == <<hostVars, pc, pkgVars, out, history>>

\* The steps of the receiver, those of the two handlers together.
LEMMA Steps ==
  ASSUME [Next]_vars
  PROVE  \/ HostByte \/ LoseByte \/ DebugByte
         \/ IsrEnter /\ UNCHANGED mainVars
         \/ \E p \in Ports : IsrByte(p) /\ UNCHANGED mainVars
         \/ \E p \in Ports : (IsrDrained(p) \/ IsrAck(p)) /\ UNCHANGED mainVars
         \/ Time \/ GetPkg
         \/ ReadWait /\ UNCHANGED mainVars
         \/ Reading /\ ReadCell
         \/ GotByte \/ Writing \/ Restart \/ UNCHANGED vars
BY DEF Next, Line, Main, Interrupt, UartIsr, Uart1Isr, Ports, mainVars, Reading, history, hostVars, pkgVars

LEMMA Sizes ==
  /\ \A p \in Ports : RingSize[p] \in Nat \ {0}
  /\ RingSize["uart"] = UART_RINGBUFFER_SIZE_RX /\ "uart" \in Ports /\ "uart1" \in Ports
BY SizeAssumption DEF RingSize, Ports

LEMMA RingStep == RingTyped /\ HwTyped /\ [Next]_vars => RingTyped'
<1> SUFFICES ASSUME RingTyped, HwTyped, [Next]_vars PROVE RingTyped'
  OBVIOUS
<1>1. CASE UNCHANGED ringVars
  BY <1>1 DEF ringVars, RingTyped
<1>2. ASSUME NEW p \in Ports, IsrByte(p) PROVE RingTyped'
  <2> DEFINE i == rx_produce[p]
             b == Head(fifo[p])
  <2>1. /\ rx_buf' = [rx_buf EXCEPT ![p][i] = b] /\ rx_consume' = rx_consume
        /\ rx_produce' = [rx_produce EXCEPT ![p] = RingNext(RingSize[p], i)]
    BY <1>2 DEF IsrByte
  <2>2. b \in Cells
    BY <1>2 DEF IsrByte, HwTyped
  <2>3. i \in 0 .. RingSize[p] - 1 /\ rx_buf[p] \in [0 .. RingSize[p] - 1 -> Cells]
    BY DEF RingTyped
  <2>4. RingNext(RingSize[p], i) \in 0 .. RingSize[p] - 1
    BY <2>3, Sizes, RingNextWraps
  <2>5. [rx_buf[p] EXCEPT ![i] = b] \in [0 .. RingSize[p] - 1 -> Cells]
    BY <2>2, <2>3
  <2>6. rx_buf' = [q \in Ports |-> IF q = p THEN [rx_buf[p] EXCEPT ![i] = b] ELSE rx_buf[q]]
    BY <2>1, Zenon DEF RingTyped
  <2>7. RingNext(RingSize[p], i) \in Nat
    BY <2>4, Sizes
  <2> HIDE DEF i, b
  <2> QED
    BY <2>1, <2>4, <2>5, <2>6, <2>7 DEF RingTyped
<1>3. CASE ReadNext
  <2> DEFINE j == rx_consume["uart"]
             k == RingNext(UART_RINGBUFFER_SIZE_RX, j)
  <2>1. j \in 0 .. UART_RINGBUFFER_SIZE_RX - 1
    BY Sizes DEF RingTyped
  <2>2. k \in 0 .. UART_RINGBUFFER_SIZE_RX - 1 /\ k \in Nat
    BY <2>1, SizeAssumption, RingNextWraps
  <2>3. rx_consume' = [rx_consume EXCEPT !["uart"] = k] /\ UNCHANGED <<rx_buf, rx_produce>>
    BY <1>3 DEF ReadNext
  <2> HIDE DEF k
  <2> QED
    BY <2>2, <2>3, Sizes DEF RingTyped
<1>4. CASE Restart
  <2>1. /\ rx_buf' = [p \in Ports |-> Opened(p)]
        /\ rx_produce' = [p \in Ports |-> 0] /\ rx_consume' = [p \in Ports |-> 0]
    BY <1>4 DEF Restart, Bite, UartReset
  <2>2. \A p \in Ports : Opened(p) \in [0 .. RingSize[p] - 1 -> Cells] /\ 0 \in 0 .. RingSize[p] - 1
    BY Sizes DEF Opened, Cells
  <2> QED
    BY <2>1, <2>2 DEF RingTyped
<1>5. CASE HostByte \/ LoseByte \/ DebugByte \/ IsrEnter \/ Time \/ GetPkg \/ ReadWait \/ ReadCell
  BY <1>1, <1>5 DEF HostByte, LoseByte, DebugByte, IsrEnter, Time, CharTime, GetPkg, ReadWait, ReadCell, Arrive, uartVars
<1>6. CASE Writing \/ UNCHANGED vars
  BY <1>1, <1>6 DEF Writing, WriteMask, WriteChar, vars, uartVars
<1>7. ASSUME NEW p \in Ports, IsrDrained(p) \/ IsrAck(p) PROVE RingTyped'
  BY <1>1, <1>7 DEF IsrDrained, IsrAck
<1> QED
  BY Steps, <1>2, <1>3, <1>4, <1>5, <1>6, <1>7 DEF GotByte
\* A masked stretch still to be written is of a port.
LEMMA Stretch ==
  ASSUME PkgTyped, pc = "writing"
  PROVE  /\ Head(out).port \in Ports /\ Head(out).chars \in {1, 2}
         /\ out # <<>> /\ Tail(out) \in Seq([port : Ports, chars : {1, 2}])
<1>1. out # <<>> /\ out \in Seq([port : Ports, chars : {1, 2}])
  BY DEF PkgTyped
<1>2. Head(out) \in [port : Ports, chars : {1, 2}] /\ Tail(out) \in Seq([port : Ports, chars : {1, 2}])
  BY <1>1, HeadTailProperties, Zenon
<1> QED
  BY <1>1, <1>2

LEMMA HwStep == HwTyped /\ PkgTyped /\ [Next]_vars => HwTyped'
<1> SUFFICES ASSUME HwTyped, PkgTyped, [Next]_vars PROVE HwTyped'
  OBVIOUS
<1>1. CASE UNCHANGED hwVars
  BY <1>1 DEF hwVars, HwTyped
<1>2. ASSUME NEW p \in Ports, NEW b \in Cells, Arrive(p, b) PROVE HwTyped'
  <2>1. fifo[p] \in Seq(Cells) /\ Append(fifo[p], b) \in Seq(Cells)
    BY AppendProperties DEF HwTyped
  <2> QED
    BY <1>2, <2>1 DEF Arrive, HwTyped
<1>3. CASE HostByte
  <2>1. next \in Cells
    BY <1>3, PkgAssumption DEF HostByte, PkgTyped, Cells, Byte
  <2> QED
    BY <1>2, <1>3, <2>1, Sizes DEF HostByte
<1>4. CASE DebugByte
  BY <1>2, <1>4, Sizes DEF DebugByte, Cells
<1>5. ASSUME NEW p \in Ports, IsrByte(p) PROVE HwTyped'
  <2>1. fifo[p] \in Seq(Cells) /\ Tail(fifo[p]) \in Seq(Cells)
    BY <1>5, HeadTailProperties DEF IsrByte, HwTyped
  <2> QED
    BY <1>5, <2>1 DEF IsrByte, HwTyped
<1>6. CASE Time
  BY <1>6, SizeAssumption DEF Time, CharTime, HwTyped
<1>7. CASE Writing
  <2>1. CASE WriteMask
    BY <1>1, <2>1 DEF WriteMask
  <2>2. ASSUME WriteChar(Head(out).port, Head(out).chars = 1) PROVE HwTyped'
    <3>1. pc = "writing"
      BY <1>7 DEF Writing
    <3> PICK p \in Ports : p = Head(out).port
      BY <3>1, Stretch
    <3>2. txq[p] < TX_DEPTH /\ txq' = [txq EXCEPT ![p] = @ + 1] /\ UNCHANGED <<fifo, ready>>
      BY <2>2 DEF WriteChar, TxFree
    <3> QED
      BY <3>2, SizeAssumption DEF HwTyped
  <2> QED
    BY <1>7, <2>1, <2>2 DEF Writing
<1>8. CASE Restart
  <2>1. <<>> \in Seq(Cells)
    OBVIOUS
  <2> QED
    BY <1>8, <2>1, SizeAssumption DEF Restart, Bite, UartReset, HwTyped
<1>9. CASE LoseByte \/ IsrEnter \/ GetPkg \/ ReadWait \/ ReadCell \/ GotByte \/ UNCHANGED vars
  BY <1>1, <1>9 DEF LoseByte, IsrEnter, GetPkg, ReadWait, ReadCell, GotByte, ReadNext, vars, uartVars
<1>10. ASSUME NEW p \in Ports, IsrDrained(p) \/ IsrAck(p) PROVE HwTyped'
  BY <1>1, <1>10 DEF IsrDrained, IsrAck
<1> QED
  BY Steps, <1>3, <1>4, <1>5, <1>6, <1>7, <1>8, <1>9, <1>10

LEMMA IrqStep == IrqTyped /\ PkgTyped /\ [Next]_vars => IrqTyped'
<1> SUFFICES ASSUME IrqTyped, PkgTyped, [Next]_vars PROVE IrqTyped'
  OBVIOUS
<1> USE DEF IrqTyped
<1>1. CASE UNCHANGED <<irqVars, write>>
  BY <1>1 DEF irqVars
<1>2. CASE HostByte \/ DebugByte
  BY <1>2, Sizes DEF HostByte, DebugByte, Arrive
<1>3. CASE IsrEnter
  BY <1>3 DEF IsrEnter
<1>4. ASSUME NEW p \in Ports, IsrByte(p) PROVE IrqTyped'
  BY <1>1, <1>4 DEF IsrByte
<1>5. ASSUME NEW p \in Ports, IsrDrained(p) \/ IsrAck(p) PROVE IrqTyped'
  BY <1>5 DEF IsrDrained, IsrAck
<1>6. CASE Writing
  BY <1>6 DEF Writing, WriteMask, WriteChar
<1>7. CASE Restart
  BY <1>7 DEF Restart, Bite, UartReset
<1>8. CASE LoseByte \/ Time \/ GetPkg \/ ReadWait \/ ReadCell \/ GotByte \/ UNCHANGED vars
  BY <1>1, <1>8 DEF LoseByte, Time, CharTime, GetPkg, ReadWait, ReadCell, GotByte, ReadNext, vars, uartVars
<1> QED
  BY Steps, <1>2, <1>3, <1>4, <1>5, <1>6, <1>7, <1>8

-------------------------------------------------------------------------------
\* The host's next byte.
Places == [pkg : 1 .. Pkgs + 1, pos : 1 .. HRTO_P_COUNT]

LEMMA NextTyped ==
  ASSUME NEW b \in Places, b.pkg <= Pkgs
  PROVE  /\ b \in Byte /\ After(b) \in Places
         /\ IF b.pos = HRTO_P_COUNT THEN After(b).pkg = b.pkg + 1 /\ After(b).pos = 1
                                    ELSE After(b).pkg = b.pkg /\ After(b).pos = b.pos + 1
<1>1. b.pkg \in 1 .. Pkgs /\ b.pos \in 1 .. HRTO_P_COUNT /\ b = [pkg |-> b.pkg, pos |-> b.pos]
  BY PkgAssumption DEF Places
<1>2. b \in Byte
  BY <1>1 DEF Byte
<1>3. CASE b.pos = HRTO_P_COUNT
  BY <1>1, <1>2, <1>3, PkgAssumption DEF After, Places
<1>4. CASE b.pos # HRTO_P_COUNT
  <2>1. After(b) = [pkg |-> b.pkg, pos |-> b.pos + 1]
    BY <1>1, <1>4 DEF After
  <2> QED
    BY <1>1, <1>2, <1>4, <2>1, PkgAssumption DEF Places
<1> QED
  BY <1>3, <1>4

\* What get_pkg does with a byte: the package goes on or is complete, a head is found, or the
\* byte is skipped.
Grown == [g_pkg EXCEPT ![count + 1] = c]
GoesOn ==
  /\ start /\ count + 1 < HRTO_P_COUNT
  /\ last' = c /\ start' = TRUE /\ count' = count + 1 /\ g_pkg' = Grown
  /\ UNCHANGED <<decoded, out>> /\ pc' = "get"
Completes == start /\ count + 1 = HRTO_P_COUNT /\ Finish(Grown)
HeadFound ==
  /\ ~start /\ IsH1(last) /\ IsH2(c)
  /\ last' = c /\ start' = TRUE /\ count' = 2 /\ g_pkg' = [g_pkg EXCEPT ![1] = last, ![2] = c]
  /\ UNCHANGED <<decoded, out>> /\ pc' = "get"
Skips ==
  /\ ~start /\ ~(IsH1(last) /\ IsH2(c))
  /\ last' = c /\ start' = FALSE /\ UNCHANGED <<count, g_pkg, decoded, out>> /\ pc' = "get"

LEMMA GotByteCases ==
  ASSUME PkgTyped, GotByte
  PROVE  /\ ReadNext /\ pc = "reading" /\ UNCHANGED <<hostVars, seen>>
         /\ GoesOn \/ Completes \/ HeadFound \/ Skips
<1>1. /\ count \in Nat /\ count >= 2 /\ count + 1 <= HRTO_P_COUNT /\ count # HRTO_P_COUNT
      /\ start \in BOOLEAN /\ HRTO_P_COUNT \in Nat
  BY PkgAssumption DEF PkgTyped
<1>2. CASE start
  <2>1. Collect(count + 1, Grown)
    BY <1>2 DEF GotByte, Grown
  <2>2. CASE count + 1 = HRTO_P_COUNT
    BY <1>2, <2>1, <2>2 DEF Collect, Completes, GotByte
  <2>3. CASE count + 1 # HRTO_P_COUNT
    BY <1>1, <1>2, <2>1, <2>3 DEF Collect, GoesOn, GotByte
  <2> QED
    BY <2>2, <2>3
<1>3. CASE ~start
  <2>1. Collect(count, g_pkg)
    BY <1>3 DEF GotByte
  <2> QED
    BY <1>1, <1>3, <2>1 DEF Collect, HeadFound, Skips, GotByte
<1> QED
  BY <1>1, <1>2, <1>3

\* The replies.
LEMMA DecodeOut ==
  ASSUME NEW g, Decode(g)
  PROVE  out' \in Seq([port : Ports, chars : {1, 2}]) /\ out' # <<>>
<1>1. DebugLine \in Seq([port : Ports, chars : {1, 2}]) /\ DebugLine # <<>>
  BY DEF DebugLine, Ports
<1>2. Reply \in Seq([port : Ports, chars : {1, 2}]) /\ Reply # <<>>
  <2> DEFINE S == [port : Ports, chars : {1, 2}]
  <2>1. Reply \in [1 .. ReplyLen -> S] /\ ReplyLen \in Nat /\ 1 \in 1 .. ReplyLen
    BY PkgAssumption DEF Reply, Ports
  <2> HIDE DEF S
  <2>2. Reply \in Seq(S)
    BY <2>1, SeqDef
  <2>3. Reply # <<>>
    BY <2>1, <2>2, LenProperties
  <2> QED
    BY <2>2, <2>3 DEF S
<1> QED
  BY <1>1, <1>2 DEF Decode, Answers

LEMMA GotByteTyped == PkgTyped /\ IrqTyped /\ GotByte => PkgTyped'
<1> SUFFICES ASSUME PkgTyped, IrqTyped, GotByte PROVE PkgTyped'
  OBVIOUS
<1>1. /\ read' = "out" /\ write' = write /\ c' = c /\ next' = next /\ write = "out"
      /\ c \in Cells /\ last \in Cells /\ NoByte \in Cells
  BY GotByteCases DEF ReadNext, hostVars, PkgTyped, IrqTyped, Cells
<1>2. /\ count \in Nat /\ count >= 2 /\ count + 1 <= HRTO_P_COUNT /\ count + 1 \in 1 .. HRTO_P_COUNT
      /\ HRTO_P_COUNT \in Nat /\ HRTO_P_COUNT >= 7
  BY PkgAssumption DEF PkgTyped
<1>3. Grown \in [1 .. HRTO_P_COUNT -> Cells]
  BY <1>1, <1>2 DEF Grown, PkgTyped
<1>4. CASE GoesOn
  BY <1>1, <1>2, <1>3, <1>4, GotByteCases DEF GoesOn, PkgTyped
<1>5. CASE Completes
  <2>1. out' \in Seq([port : Ports, chars : {1, 2}]) /\ out' # <<>>
    BY <1>5, DecodeOut DEF Completes, Finish
  <2>2. last' = NoByte /\ count' = 2 /\ g_pkg' = Grown /\ start' = FALSE /\ pc' = "writing"
    BY <1>5 DEF Completes, Finish
  <2>3. 2 \in 2 .. HRTO_P_COUNT - 1
    BY <1>2
  <2> QED
    BY <1>1, <1>3, <2>1, <2>2, <2>3 DEF PkgTyped
<1>6. CASE HeadFound
  <2>1. [g_pkg EXCEPT ![1] = last, ![2] = c] \in [1 .. HRTO_P_COUNT -> Cells]
    BY <1>1, <1>2 DEF PkgTyped
  <2> QED
    BY <1>1, <1>2, <1>6, <2>1, GotByteCases DEF HeadFound, PkgTyped
<1>7. CASE Skips
  BY <1>1, <1>2, <1>7, GotByteCases DEF Skips, PkgTyped
<1> QED
  BY <1>4, <1>5, <1>6, <1>7, GotByteCases

LEMMA PkgStep == RingTyped /\ IrqTyped /\ PkgTyped /\ [Next]_vars => PkgTyped'
<1> SUFFICES ASSUME RingTyped, IrqTyped, PkgTyped, [Next]_vars PROVE PkgTyped'
  OBVIOUS
<1>1. CASE UNCHANGED <<next, c, read, write, pc, pkgVars, out>>
  BY <1>1 DEF pkgVars, PkgTyped
<1>2. CASE HostByte \/ LoseByte
  <2>1. next' = After(next) /\ After(next) \in Places
    BY <1>2, NextTyped, PkgAssumption DEF HostByte, LoseByte, PkgTyped, Places
  <2>2. UNCHANGED <<c, read, write, pc, pkgVars, out>>
    BY <1>2 DEF HostByte, LoseByte, Arrive, uartVars
  <2> QED
    BY <2>1, <2>2 DEF PkgTyped, pkgVars, Places
<1>3. CASE DebugByte \/ Time
  BY <1>1, <1>3 DEF DebugByte, Arrive, Time, CharTime, hostVars
<1>4. CASE IsrEnter /\ UNCHANGED mainVars
  BY <1>1, <1>4 DEF IsrEnter, mainVars, hostVars
<1>5. ASSUME NEW p \in Ports, IsrByte(p) \/ IsrDrained(p) \/ IsrAck(p), UNCHANGED mainVars PROVE PkgTyped'
  BY <1>1, <1>5 DEF IsrByte, IsrDrained, IsrAck, mainVars, hostVars
<1>6. CASE GetPkg
  BY <1>6 DEF GetPkg, hostVars, pkgVars, PkgTyped
<1>7. CASE ReadWait /\ UNCHANGED mainVars
  BY <1>7 DEF ReadWait, mainVars, hostVars, pkgVars, PkgTyped
<1>8. CASE Reading /\ ReadCell
  <2>1. c' \in Cells
    BY <1>8, Sizes DEF ReadCell, RingTyped
  <2> QED
    BY <1>8, <2>1 DEF Reading, ReadCell, hostVars, pkgVars, PkgTyped
<1>9. CASE GotByte
  BY <1>9, GotByteTyped
<1>10. CASE Writing
  <2>1. pc = "writing" /\ UNCHANGED <<next, pkgVars>>
    BY <1>10 DEF Writing, hostVars
  <2>2. CASE WriteMask /\ UNCHANGED <<pc, out>>
    BY <2>1, <2>2 DEF WriteMask, pkgVars, PkgTyped
  <2>3. ASSUME WriteChar(Head(out).port, Head(out).chars = 1),
               out' = IF Head(out).chars = 1 THEN Tail(out)
                      ELSE <<[Head(out) EXCEPT !.chars = @ - 1]>> \o Tail(out),
               pc' = IF out' # <<>> THEN "writing" ELSE "get"
        PROVE  PkgTyped'
    <3> DEFINE S == [port : Ports, chars : {1, 2}]
    <3>1. Head(out) \in S /\ Tail(out) \in Seq(S)
      <4>1. out # <<>> /\ out \in Seq(S)
        BY <2>1 DEF PkgTyped
      <4> HIDE DEF S
      <4> QED
        BY <4>1, HeadTailProperties
    <3>2. out' \in Seq(S) /\ (Head(out).chars # 1 => out' # <<>>)
      <4>1. CASE Head(out).chars = 1
        BY <2>3, <3>1, <4>1
      <4>2. CASE Head(out).chars # 1
        <5> DEFINE w == [Head(out) EXCEPT !.chars = @ - 1]
        <5>1. w \in S
          BY <3>1, <4>2
        <5> HIDE DEF S, w
        <5>2. <<w>> \in Seq(S) /\ Len(<<w>>) = 1
          BY <5>1
        <5>3. <<w>> \o Tail(out) \in Seq(S) /\ Len(<<w>> \o Tail(out)) = 1 + Len(Tail(out))
              /\ Len(Tail(out)) \in Nat
          BY <3>1, <5>2, ConcatProperties, LenProperties
        <5>4. out' = <<w>> \o Tail(out)
          BY <2>3, <4>2 DEF w
        <5> QED
          BY <5>3, <5>4, <4>2, EmptySeq
      <4> QED
        BY <4>1, <4>2
    <3>3. UNCHANGED <<c, read>> /\ write' = IF Head(out).chars = 1 THEN "out" ELSE "wait"
      BY <2>3 DEF WriteChar
    <3> HIDE DEF S
    <3> QED
      BY <2>1, <2>3, <3>2, <3>3 DEF pkgVars, PkgTyped, S
  <2> QED
    BY <1>10, <2>2, <2>3 DEF Writing
<1>11. CASE Restart
  BY <1>11, PkgAssumption DEF Restart, Bite, UartReset, NoPkg, hostVars, PkgTyped, Cells
<1>12. CASE UNCHANGED vars
  BY <1>1, <1>12 DEF vars, uartVars, hostVars
<1> QED
  BY Steps, <1>2, <1>3, <1>4, <1>5, <1>6, <1>7, <1>8, <1>9, <1>10, <1>11, <1>12
-------------------------------------------------------------------------------
Typed == RingTyped /\ HwTyped /\ IrqTyped /\ PkgTyped

LEMMA TypedStart == Init => Typed
<1> SUFFICES ASSUME Init PROVE Typed
  OBVIOUS
<1>1. RingTyped
  <2>1. \A p \in Ports : Opened(p) \in [0 .. RingSize[p] - 1 -> Cells] /\ 0 \in 0 .. RingSize[p] - 1
    BY Sizes DEF Opened, Cells
  <2> QED
    BY <2>1 DEF Init, UartInit, RingTyped
<1>2. HwTyped /\ IrqTyped
  BY SizeAssumption DEF Init, UartInit, HwTyped, IrqTyped
<1>3. PkgTyped
  <2>1. [pkg |-> 1, pos |-> 1] \in [pkg : 1 .. Pkgs + 1, pos : 1 .. HRTO_P_COUNT]
    BY PkgAssumption
  <2>2. <<>> \in Seq([port : Ports, chars : {1, 2}])
    OBVIOUS
  <2>3. 2 \in 2 .. HRTO_P_COUNT - 1 /\ NoByte \in Cells /\ NoPkg \in [1 .. HRTO_P_COUNT -> Cells]
    BY PkgAssumption DEF NoPkg, Cells
  <2> QED
    BY <2>1, <2>2, <2>3 DEF Init, UartInit, GetPkgInit, PkgTyped
<1> QED
  BY <1>1, <1>2, <1>3 DEF Typed

LEMMA TypedStep == Typed /\ [Next]_vars => Typed'
BY RingStep, HwStep, IrqStep, PkgStep DEF Typed

-------------------------------------------------------------------------------
(***************************************************************************)
(* The UART core's FIFO suffices.  Bytes gather only while the processor   *)
(* waits with the interrupts masked: when a masked stretch begins the      *)
(* FIFOs are empty, a stretch writes at most two characters, and for each  *)
(* it waits at most the time of one.                                       *)
(***************************************************************************)
\* The bytes in the core of p, with the one that may still come in this time of a character.
Due(p) == Len(fifo[p]) + IF p \in ready THEN 1 ELSE 0

\* The pending bit of a core that holds bytes is set.
Raised == \A p \in Ports : fifo[p] # <<>> => p \in ip

\* What may have gathered when chars characters of the stretch are left and its transmitter
\* has room for one, or has not.
Gathered(chars, free) == (IF chars = 1 THEN 2 ELSE 1) + IF free THEN 1 ELSE 0

Room ==
  /\ Raised
  /\ write = "out" => \A p \in Ports : Due(p) <= 3
  /\ write = "wait" =>
       \A p \in Ports : Due(p) <= Gathered(Head(out).chars, TxFree(Head(out).port))

DueTyped ==
  \A p \in Ports : /\ Due(p) \in Nat /\ Len(fifo[p]) \in Nat
                   /\ Len(fifo[p]) <= Due(p) /\ Due(p) <= Len(fifo[p]) + 1
                   /\ fifo[p] = <<>> <=> Len(fifo[p]) = 0
LEMMA DueType == HwTyped => DueTyped
<1> SUFFICES ASSUME HwTyped, NEW p \in Ports
             PROVE  /\ Due(p) \in Nat /\ Len(fifo[p]) \in Nat
                    /\ Len(fifo[p]) <= Due(p) /\ Due(p) <= Len(fifo[p]) + 1
                    /\ fifo[p] = <<>> <=> Len(fifo[p]) = 0
  BY DEF DueTyped
<1>1. fifo[p] \in Seq(Cells)
  BY DEF HwTyped
<1>2. Len(fifo[p]) \in Nat /\ (fifo[p] = <<>> <=> Len(fifo[p]) = 0)
  BY <1>1, LenProperties, EmptySeq
<1>3. PICK n \in Nat : n = Len(fifo[p])
  BY <1>2
<1>4. Due(p) = n + 1 \/ Due(p) = n
  <2>1. CASE p \in ready
    BY <1>3, <2>1 DEF Due
  <2>2. CASE p \notin ready
    BY <1>3, <2>2 DEF Due
  <2> QED
    BY <2>1, <2>2
<1> QED
  BY <1>2, <1>3, <1>4

\* No more than three bytes gather.
LEMMA RoomBound ==
  ASSUME Typed, Room
  PROVE  \A p \in Ports : Due(p) <= 3
<1> SUFFICES ASSUME NEW p \in Ports PROVE Due(p) <= 3
  OBVIOUS
<1>1. Due(p) \in Nat
  BY DueType DEF Typed, DueTyped
<1>2. Gathered(Head(out).chars, TxFree(Head(out).port)) \in 1 .. 3
  BY DEF Gathered
<1> QED
  BY <1>1, <1>2 DEF Room, Typed, IrqTyped

\* A byte that comes was due.
LEMMA ArriveDue ==
  ASSUME Typed, Raised, NEW p \in Ports, NEW b \in Cells, Arrive(p, b)
  PROVE  Raised' /\ \A q \in Ports : Due(q)' <= Due(q)
<1>1. Raised'
  BY DEF Raised, Arrive, Typed, HwTyped
<1>2. ASSUME NEW q \in Ports PROVE Due(q)' <= Due(q)
  <2>1. fifo[q] \in Seq(Cells) /\ Len(fifo[q]) \in Nat /\ DOMAIN fifo = Ports
    BY LenProperties DEF Typed, HwTyped
  <2>2. Len(Append(fifo[q], b)) = Len(fifo[q]) + 1
    BY <2>1, AppendProperties
  <2>3. CASE q = p
    <3>1. fifo'[q] = fifo[q] \/ fifo'[q] = Append(fifo[q], b)
      BY <2>1, <2>3 DEF Arrive
    <3>2. q \in ready /\ q \notin ready'
      BY <2>3 DEF Arrive
    <3> QED
      BY <2>1, <2>2, <3>1, <3>2 DEF Due
  <2>4. CASE q # p
    BY <2>1, <2>4 DEF Arrive, Due
  <2> QED
    BY <2>3, <2>4
<1> QED
  BY <1>1, <1>2

\* What is due does not grow: nothing to show for the rest.
LEMMA RoomKept ==
  ASSUME Typed, Room, Raised', \A p \in Ports : Due(p)' <= Due(p), Typed', UNCHANGED <<write, out, txq>>
  PROVE  Room'
<1>0. HwTyped' => DueTyped'
  BY DueType, PTL
<1>1. \A p \in Ports : Due(p) \in Nat /\ Due(p)' \in Nat
  BY <1>0, DueType DEF Typed, DueTyped
<1>2. Gathered(Head(out).chars, TxFree(Head(out).port)) \in Nat
  BY DEF Gathered
<1>3. TxFree(Head(out).port)' <=> TxFree(Head(out).port)
  BY DEF TxFree
<1> QED
  BY <1>1, <1>2, <1>3 DEF Room, Gathered

\* The time of a character passes: unmasked, only when the cores are empty; masked, only when
\* the transmitter is full, which then has room.
LEMMA TimeRoom ==
  ASSUME Typed, Room, Time
  PROVE  Room'
<1>1. PICK wp \in Ports, wc \in {1, 2} :
        write = "wait" => wp = Head(out).port /\ wc = Head(out).chars
  BY Stretch DEF Typed, PkgTyped, Ports
<1>2. /\ UNCHANGED <<fifo, ip, write, out>> /\ ready' = Ports
      /\ txq' = [q \in Ports |-> IF txq[q] > 0 THEN txq[q] - 1 ELSE 0]
  BY DEF Time, CharTime, irqVars
<1>3. Raised'
  BY <1>2 DEF Room, Raised
<1>4. \A p \in Ports : Due(p)' = Len(fifo[p]) + 1 /\ Len(fifo[p]) \in Nat /\ Len(fifo[p]) <= Due(p)
  BY <1>2, DueType DEF Due, DueTyped, Typed
<1>5. CASE write = "out"
  <2>1. ip \cap Ports = {}
    BY <1>5 DEF Time, CharTime, WriteWaits, Interrupted, Typed, IrqTyped
  <2>2. \A p \in Ports : Len(fifo[p]) = 0
    BY <2>1, DueType DEF Room, Raised, DueTyped, Typed
  <2> QED
    BY <1>2, <1>3, <1>4, <1>5, <2>2 DEF Room
<1>6. CASE write = "wait"
  <2>1. ~TxFree(wp)
    BY <1>1, <1>6 DEF Time, CharTime, WriteWaits
  <2>2. TxFree(wp)'
    BY <1>2, <2>1, SizeAssumption DEF TxFree, Typed, HwTyped
  <2>3. \A p \in Ports : Due(p) <= IF wc = 1 THEN 2 ELSE 1
    <3>1. Gathered(Head(out).chars, TxFree(Head(out).port)) = IF wc = 1 THEN 2 ELSE 1
      BY <1>1, <1>6, <2>1 DEF Gathered
    <3> QED
      BY <1>6, <3>1 DEF Room
  <2>4. \A p \in Ports : Due(p)' <= IF wc = 1 THEN 3 ELSE 2
    BY <1>4, <2>3, DueType DEF DueTyped, Typed
  <2>5. (Gathered(Head(out).chars, TxFree(Head(out).port)))' = IF wc = 1 THEN 3 ELSE 2
    BY <1>1, <1>2, <1>6, <2>2 DEF Gathered
  <2> QED
    BY <1>2, <1>3, <1>6, <2>4, <2>5 DEF Room
<1> QED
  BY <1>5, <1>6 DEF Typed, IrqTyped

\* A masked stretch begins, goes on or ends.
LEMMA WritingRoom ==
  ASSUME Typed, Room, Writing
  PROVE  Room'
<1>1. /\ UNCHANGED <<fifo, ip, ready>>
      /\ Head(out).port \in Ports /\ Head(out).chars \in {1, 2} /\ out # <<>>
  BY Stretch DEF Writing, WriteMask, WriteChar, hwVars, Typed
<1>2. Raised' /\ \A p \in Ports : Due(p)' = Due(p) /\ Due(p) \in Nat /\ Due(p) <= 3
  BY <1>1, RoomBound, DueType DEF Room, Raised, Due, DueTyped, Typed
<1>3. CASE WriteMask /\ UNCHANGED <<pc, out>>
  <2>1. ip = {} /\ write' = "wait"
    BY <1>3 DEF WriteMask, Interrupted, Typed, IrqTyped
  <2>2. \A p \in Ports : Due(p) <= 1
    <3>1. \A p \in Ports : Len(fifo[p]) = 0
      BY <2>1, DueType DEF Room, Raised, DueTyped, Typed
    <3> QED
      BY <3>1, DueType DEF DueTyped, Typed
  <2>3. (Gathered(Head(out).chars, TxFree(Head(out).port)))' \in {1, 2, 3}
    BY DEF Gathered
  <2> QED
    BY <1>2, <2>1, <2>2, <2>3 DEF Room
<1>4. ASSUME WriteChar(Head(out).port, Head(out).chars = 1), Head(out).chars = 1 PROVE Room'
  <2>1. write' = "out"
    BY <1>4 DEF WriteChar
  <2> QED
    BY <1>2, <2>1 DEF Room
<1>5. ASSUME WriteChar(Head(out).port, Head(out).chars = 1), Head(out).chars = 2,
             out' = <<[Head(out) EXCEPT !.chars = @ - 1]>> \o Tail(out)
      PROVE  Room'
  <2>1. write = "wait" /\ write' = "wait" /\ TxFree(Head(out).port)
    BY <1>5 DEF WriteChar
  <2>2. \A p \in Ports : Due(p) <= 2
    BY <1>5, <2>1 DEF Room, Gathered
  <2>3. Head(out)'.chars = 1
    <3> DEFINE S == [port : Ports, chars : {1, 2}]
               w == [Head(out) EXCEPT !.chars = @ - 1]
    <3>1. Tail(out) \in Seq(S) /\ Head(out) \in S
      <4>1. out # <<>> /\ out \in Seq(S)
        BY <1>1 DEF Typed, PkgTyped
      <4> HIDE DEF S
      <4> QED
        BY <4>1, HeadTailProperties
    <3>2. w \in S /\ w.chars = 1
      BY <1>5, <3>1
    <3> HIDE DEF S, w
    <3>3. <<w>> \in Seq(S) /\ <<w>> # <<>> /\ Len(<<w>>) = 1 /\ <<w>>[1] = w
      BY <3>2
    <3>4. Head(<<w>> \o Tail(out)) = w
      <4> DEFINE t == <<w>> \o Tail(out)
      <4>1. Len(Tail(out)) \in Nat
        BY <3>1, LenProperties
      <4>2. t \in Seq(S) /\ Len(t) = 1 + Len(Tail(out)) /\ t[1] = w
        BY <3>1, <3>3, <4>1, ConcatProperties
      <4> HIDE DEF t
      <4> QED
        BY <4>1, <4>2 DEF t
    <3>5. out' = <<w>> \o Tail(out)
      BY <1>5 DEF w
    <3> QED
      BY <3>2, <3>4, <3>5
  <2>4. (Gathered(Head(out).chars, TxFree(Head(out).port)))' \in {2, 3}
    BY <2>3 DEF Gathered
  <2> QED
    BY <1>2, <2>1, <2>2, <2>4 DEF Room
<1> QED
  BY <1>1, <1>3, <1>4, <1>5 DEF Writing

LEMMA RoomStep == Typed /\ Typed' /\ Room /\ [Next]_vars => Room'
<1> SUFFICES ASSUME Typed, Typed', Room, [Next]_vars PROVE Room'
  OBVIOUS
<1>0. \A p \in Ports : Due(p) \in Nat
  BY DueType DEF Typed, DueTyped
<1>1. CASE UNCHANGED <<fifo, ready, ip, write, out, txq>>
  <2>1. Raised' /\ \A p \in Ports : Due(p)' = Due(p)
    BY <1>1 DEF Room, Raised, Due
  <2> QED
    BY <1>0, <1>1, <2>1, RoomKept
<1>2. ASSUME NEW p \in Ports, NEW b \in Cells, Arrive(p, b), out' = out PROVE Room'
  <2>1. UNCHANGED <<write, txq>> /\ Raised
    BY <1>2 DEF Arrive, Room
  <2>2. Raised' /\ \A q \in Ports : Due(q)' <= Due(q)
    BY <1>2, <2>1, ArriveDue
  <2> QED
    BY <1>2, <2>1, <2>2, RoomKept
<1>3. CASE HostByte
  <2>1. next \in Cells
    BY <1>3, NextTyped DEF HostByte, Typed, PkgTyped, Places, Cells
  <2> QED
    BY <1>2, <1>3, <2>1, Sizes DEF HostByte
<1>4. CASE DebugByte
  BY <1>2, <1>4, Sizes DEF DebugByte, Cells
<1>5. ASSUME NEW p \in Ports, IsrByte(p), out' = out PROVE Room'
  <2>1. /\ fifo' = [fifo EXCEPT ![p] = Tail(fifo[p])] /\ fifo[p] # <<>> /\ fifo[p] \in Seq(Cells)
        /\ UNCHANGED <<ready, ip, write, txq>> /\ DOMAIN fifo = Ports
    BY <1>5 DEF IsrByte, irqVars, Typed, HwTyped
  <2>2. Len(Tail(fifo[p])) = Len(fifo[p]) - 1 /\ Len(fifo[p]) \in Nat
    BY <2>1, HeadTailProperties, LenProperties
  <2>3. Raised'
    BY <2>1 DEF Room, Raised
  <2>4. ASSUME NEW q \in Ports PROVE Due(q)' <= Due(q)
    <3>1. CASE q = p
      <4>1. Len(fifo'[q]) = Len(fifo[q]) - 1
        BY <2>1, <2>2, <3>1
      <4> QED
        BY <2>1, <2>2, <3>1, <4>1 DEF Due
    <3>2. CASE q # p
      BY <1>0, <2>1, <3>2 DEF Due
    <3> QED
      BY <3>1, <3>2
  <2> QED
    BY <1>5, <2>1, <2>3, <2>4, RoomKept
<1>6. ASSUME NEW p \in Ports, IsrAck(p), out' = out PROVE Room'
  <2>1. UNCHANGED <<fifo, ready, write, txq>> /\ ip' = IF fifo[p] = <<>> THEN ip \ {p} ELSE ip
    BY <1>6 DEF IsrAck, hwVars
  <2>2. Raised' /\ \A q \in Ports : Due(q)' = Due(q)
    BY <2>1 DEF Room, Raised, Due
  <2> QED
    BY <1>0, <1>6, <2>1, <2>2, RoomKept
<1>7. ASSUME NEW p \in Ports, IsrDrained(p), out' = out PROVE Room'
  BY <1>1, <1>7 DEF IsrDrained, hwVars
<1>8. CASE Restart
  <2>1. fifo' = [p \in Ports |-> <<>>] /\ ready' = Ports /\ write' = "out"
    BY <1>8 DEF Restart, Bite, UartReset
  <2>2. Raised'
    BY <2>1 DEF Raised
  <2>3. \A p \in Ports : Due(p)' = 1
    BY <2>1 DEF Due
  <2> QED
    BY <2>1, <2>2, <2>3 DEF Room
<1>9. CASE GotByte
  <2>1. UNCHANGED <<fifo, ready, ip, txq, write>> /\ write = "out"
    BY <1>9, GotByteCases DEF ReadNext, hwVars, irqVars, Typed, PkgTyped, IrqTyped
  <2>2. Raised' /\ \A p \in Ports : Due(p)' = Due(p)
    BY <2>1 DEF Room, Raised, Due
  <2> QED
    BY <1>0, <2>1, <2>2, RoomBound DEF Room
<1>10. CASE LoseByte \/ GetPkg
  BY <1>1, <1>10 DEF LoseByte, GetPkg, uartVars, hwVars, irqVars
<1>11. CASE (IsrEnter \/ ReadWait) /\ UNCHANGED mainVars
  BY <1>1, <1>11 DEF IsrEnter, ReadWait, mainVars, hwVars, irqVars
<1>12. CASE (Reading /\ ReadCell) \/ UNCHANGED vars
  BY <1>1, <1>12 DEF Reading, ReadCell, vars, uartVars, hwVars, irqVars
<1> QED
  BY Steps, TimeRoom, WritingRoom, <1>3, <1>4, <1>5, <1>6, <1>7, <1>8, <1>9, <1>10, <1>11, <1>12
  DEF mainVars

LEMMA RoomStart == Init => Room
<1> SUFFICES ASSUME Init PROVE Room
  OBVIOUS
<1>1. fifo = [p \in Ports |-> <<>>] /\ ready = Ports /\ write = "out"
  BY DEF Init, UartInit
<1>2. \A p \in Ports : Due(p) = 1
  BY <1>1 DEF Due
<1> QED
  BY <1>1, <1>2 DEF Room, Raised

LEMMA TypedInvariant == Spec => []Typed
BY TypedStart, TypedStep, PTL DEF Spec

(***************************************************************************)
(* No masked stretch is so long that the UART core's FIFO fills up         *)
(* (uart.c:75-87, 175-189).                                                *)
(***************************************************************************)
THEOREM FifoIsLongEnough == Spec => []FifoSuffices
<1>1. Typed /\ Room => FifoSuffices
  <2> SUFFICES ASSUME Typed, Room, NEW p \in Ports PROVE Len(fifo[p]) < RX_DEPTH
    BY DEF FifoSuffices
  <2>1. Len(fifo[p]) \in Nat /\ Len(fifo[p]) <= Due(p) /\ Due(p) \in Nat
    BY DueType DEF Typed, DueTyped
  <2>2. Due(p) <= 3
    BY RoomBound
  <2> QED
    BY <2>1, <2>2, SizeAssumption, DepthAssumption
<1> QED
  BY <1>1, RoomStart, RoomStep, TypedInvariant, PTL DEF Spec

-------------------------------------------------------------------------------
(***************************************************************************)
(* The order of the bytes.  The waiting bytes of the host port are a       *)
(* window of the ring from where uart_read is, followed by what the core   *)
(* keeps.                                                                  *)
(***************************************************************************)
Size  == UART_RINGBUFFER_SIZE_RX
Buff  == rx_buf["uart"]
First == IF read = "next" THEN RingNext(Size, rx_consume["uart"]) ELSE rx_consume["uart"]
Full  == read = "cell" /\ rx_produce["uart"] = First
Waiting == IF Full THEN Size ELSE RingCount(Size, rx_produce["uart"], First)

\* The bytes that arrived and are neither read nor lost.
Queue == RingBytes \o fifo["uart"]

LEMMA RingBytesWindow == RingBytes = RingWindow(Size, Buff, First, Waiting)
BY DEF RingBytes, RingWindow, Size, Buff, First, Full, Waiting

\* Where the window is.
Placed ==
  /\ Size \in Nat \ {0} /\ First \in 0 .. Size - 1 /\ rx_produce["uart"] \in 0 .. Size - 1
  /\ Buff \in [0 .. Size - 1 -> Cells]
  /\ Waiting \in 0 .. Size /\ (Waiting = Size <=> Full)
  /\ rx_produce["uart"] = IF Full THEN First ELSE RingCell(Size, First, Waiting + 1)

LEMMA WindowPlaced == RingTyped => Placed
<1> SUFFICES ASSUME RingTyped PROVE Placed
  OBVIOUS
<1>1. /\ Size \in Nat \ {0} /\ rx_produce["uart"] \in 0 .. Size - 1
      /\ rx_consume["uart"] \in 0 .. Size - 1 /\ Buff \in [0 .. Size - 1 -> Cells]
  BY Sizes, SizeAssumption DEF RingTyped, Size, Buff
<1>2. First \in 0 .. Size - 1
  BY <1>1, RingNextWraps DEF First
<1> PICK p \in 0 .. Size - 1, f \in 0 .. Size - 1 : p = rx_produce["uart"] /\ f = First
  BY <1>1, <1>2
<1>3. RingCount(Size, p, f) \in 0 .. Size - 1 /\ p = RingCell(Size, f, RingCount(Size, p, f) + 1)
  BY <1>1 DEF RingCount, RingCell
<1> QED
  BY <1>1, <1>2, <1>3 DEF Placed, Waiting, Full
\* Moving the first element of one sequence to the end of another leaves their concatenation.
LEMMA MoveFirst ==
  ASSUME NEW S, NEW s \in Seq(S), NEW t \in Seq(S), t # <<>>
  PROVE  Append(s, Head(t)) \o Tail(t) = s \o t
<1>1. Head(t) \in S /\ Tail(t) \in Seq(S) /\ <<Head(t)>> \in Seq(S)
  BY HeadTailProperties
<1>2. Append(s, Head(t)) = s \o <<Head(t)>>
  BY <1>1, AppendIsConcat
<1>3. (s \o <<Head(t)>>) \o Tail(t) = s \o (<<Head(t)>> \o Tail(t))
  BY <1>1, ConcatAssociative
<1>4. <<Head(t)>> \o Tail(t) = t
  <2> DEFINE u == <<Head(t)>> \o Tail(t)
  <2>1. /\ Len(t) \in Nat \ {0} /\ Len(Tail(t)) = Len(t) - 1 /\ Head(t) = t[1]
        /\ \A i \in 1 .. Len(Tail(t)) : Tail(t)[i] = t[i + 1]
    BY HeadTailProperties, EmptySeq
  <2>2. Len(<<Head(t)>>) = 1 /\ <<Head(t)>>[1] = Head(t)
    OBVIOUS
  <2>3. /\ u \in Seq(S) /\ Len(u) = Len(t)
        /\ \A i \in 1 .. Len(t) : u[i] = IF i <= 1 THEN <<Head(t)>>[i] ELSE Tail(t)[i - 1]
    BY <1>1, <2>1, <2>2, ConcatProperties
  <2> HIDE DEF u
  <2>4. ASSUME NEW i \in 1 .. Len(t) PROVE u[i] = t[i]
    <3>1. CASE i = 1
      BY <2>1, <2>2, <2>3, <3>1
    <3>2. CASE i # 1
      <4>1. i - 1 \in 1 .. Len(Tail(t)) /\ u[i] = Tail(t)[i - 1] /\ (i - 1) + 1 = i
        BY <2>1, <2>3, <3>2
      <4> QED
        BY <2>1, <4>1
    <3> QED
      BY <3>1, <3>2
  <2> QED
    BY <2>3, <2>4, SeqEqual DEF u
<1> QED
  BY <1>2, <1>3, <1>4

\* The second of two sequences is the end of their concatenation.
LEMMA LastPart ==
  ASSUME NEW S, NEW s \in Seq(S), NEW t \in Seq(S)
  PROVE  t = SubSeq(s \o t, Len(s \o t) - Len(t) + 1, Len(s \o t))
<1> DEFINE u == s \o t
           v == SubSeq(u, Len(s) + 1, Len(s) + Len(t))
<1>1. Len(s) \in Nat /\ Len(t) \in Nat
  BY LenProperties
<1>2. /\ u \in Seq(S) /\ Len(u) = Len(s) + Len(t)
      /\ \A i \in 1 .. Len(s) + Len(t) : u[i] = IF i <= Len(s) THEN s[i] ELSE t[i - Len(s)]
  BY ConcatProperties
<1> HIDE DEF u
<1>3. \A i \in 1 .. Len(s) + Len(t) : u[i] \in S
  BY <1>1, <1>2, ElementOfSeq
<1>4. /\ v \in Seq(S) /\ Len(v) = Len(t)
      /\ \A i \in 1 .. Len(t) : v[i] = u[Len(s) + i]
  <2>1. \A i \in Len(s) + 1 .. Len(s) + Len(t) : u[i] \in S
    BY <1>1, <1>3
  <2>2. /\ v \in Seq(S)
        /\ Len(v) = IF Len(s) + 1 <= Len(s) + Len(t) THEN Len(s) + Len(t) - (Len(s) + 1) + 1 ELSE 0
        /\ \A i \in 1 .. Len(s) + Len(t) - (Len(s) + 1) + 1 : v[i] = u[Len(s) + 1 + i - 1]
    BY <1>1, <2>1, SubSeqProperties
  <2> HIDE DEF v
  <2> QED
    BY <1>1, <2>2
<1> HIDE DEF v
<1>5. \A i \in 1 .. Len(t) : v[i] = t[i]
  <2> SUFFICES ASSUME NEW i \in 1 .. Len(t) PROVE v[i] = t[i]
    OBVIOUS
  <2>1. Len(s) + i \in 1 .. Len(s) + Len(t) /\ ~(Len(s) + i <= Len(s)) /\ Len(s) + i - Len(s) = i
    BY <1>1
  <2>2. u[Len(s) + i] = t[Len(s) + i - Len(s)]
    BY <1>2, <2>1
  <2>3. v[i] = u[Len(s) + i]
    BY <1>4
  <2> QED
    BY <2>1, <2>2, <2>3
<1>6. v = t
  BY <1>4, <1>5, SeqEqual
<1>7. Len(u) - Len(t) + 1 = Len(s) + 1
  BY <1>1, <1>2
<1> QED
  BY <1>2, <1>6, <1>7 DEF u, v

\* What becomes of a concatenation when the first part loses its head, and the second gets one more.
LEMMA FirstPart ==
  ASSUME NEW S, NEW s \in Seq(S), NEW t \in Seq(S), s # <<>>
  PROVE  s \o t # <<>> /\ Head(s \o t) = Head(s) /\ Tail(s \o t) = Tail(s) \o t
<1>1. /\ Head(s) \in S /\ Tail(s) \in Seq(S) /\ <<Head(s)>> \in Seq(S) /\ <<>> \in Seq(S)
  BY HeadTailProperties
<1>2. Append(<<>>, Head(s)) \o Tail(s) = <<>> \o s /\ <<>> \o s = s
  BY <1>1, MoveFirst, ConcatEmptySeq
<1>3. s = <<Head(s)>> \o Tail(s)
  BY <1>1, <1>2, AppendIsConcat, ConcatEmptySeq
<1>4. s \o t = <<Head(s)>> \o (Tail(s) \o t) /\ Tail(s) \o t \in Seq(S)
  BY <1>1, <1>3, ConcatAssociative, ConcatProperties
<1> DEFINE h == Head(s)
           r == Tail(s) \o t
<1> HIDE DEF h, r
<1>5. /\ Head(<<h>> \o r) = h /\ Tail(<<h>> \o r) = r /\ <<h>> \o r # <<>>
  <2> DEFINE u == <<h>> \o r
  <2>1. h \in S /\ r \in Seq(S) /\ Len(r) \in Nat /\ <<h>> \in Seq(S) /\ Len(<<h>>) = 1 /\ <<h>>[1] = h
    BY <1>1, <1>4, LenProperties DEF h, r
  <2>2. /\ u \in Seq(S) /\ Len(u) = 1 + Len(r)
        /\ \A i \in 1 .. 1 + Len(r) : u[i] = IF i <= 1 THEN <<h>>[i] ELSE r[i - 1]
    BY <2>1, ConcatProperties
  <2> HIDE DEF u
  <2>3. u # <<>> /\ u[1] = h
    BY <2>1, <2>2, EmptySeq
  <2>4. Head(u) = u[1] /\ Tail(u) \in Seq(S) /\ Len(Tail(u)) = Len(r)
        /\ \A i \in 1 .. Len(r) : Tail(u)[i] = u[i + 1]
    BY <2>1, <2>2, <2>3, HeadTailProperties
  <2>5. \A i \in 1 .. Len(r) : Tail(u)[i] = r[i]
    <3> SUFFICES ASSUME NEW i \in 1 .. Len(r) PROVE Tail(u)[i] = r[i]
      OBVIOUS
    <3>1. i + 1 \in 1 .. 1 + Len(r) /\ ~(i + 1 <= 1) /\ i + 1 - 1 = i
      BY <2>1
    <3> QED
      BY <2>2, <2>4, <3>1
  <2>6. Tail(u) = r
    BY <2>1, <2>4, <2>5, SeqEqual
  <2> QED
    BY <2>3, <2>4, <2>6 DEF u
<1> QED
  BY <1>4, <1>5 DEF h, r
LEMMA QueueType ==
  ASSUME Typed
  PROVE  RingBytes \in Seq(Cells) /\ fifo["uart"] \in Seq(Cells) /\ Queue \in Seq(Cells)
<1>1. RingWindow(Size, Buff, First, Waiting) \in Seq(Cells)
  BY WindowPlaced, WindowType DEF Typed, Placed
<1>2. RingBytes \in Seq(Cells) /\ fifo["uart"] \in Seq(Cells)
  BY <1>1, RingBytesWindow, Sizes DEF Typed, HwTyped
<1> QED
  BY <1>2, ConcatProperties DEF Queue

\* Only these steps move the window.
LEMMA WindowKept ==
  ASSUME UNCHANGED <<rx_buf, rx_produce, rx_consume, read>>
  PROVE  RingBytes' = RingBytes
BY DEF RingBytes

\* A byte goes from the core to the ring: the queue stays, or on a full ring what the ring
\* holds is lost.
LEMMA IsrByteQueue ==
  ASSUME Typed, Typed', IsrByte("uart")
  PROVE  \/ Queue' = Queue
         \/ Len(Queue') < Len(Queue)
            /\ Queue' = SubSeq(Queue, Len(Queue) - Len(Queue') + 1, Len(Queue))
<1> DEFINE f == fifo["uart"]
           b == Head(f)
           W == RingBytes
           p == rx_produce["uart"]
<1>1. /\ f # <<>> /\ f \in Seq(Cells) /\ W \in Seq(Cells) /\ Queue = W \o f
      /\ b \in Cells /\ Tail(f) \in Seq(Cells) /\ Len(f) \in Nat \ {0} /\ Len(Tail(f)) = Len(f) - 1
  BY QueueType, HeadTailProperties, EmptySeq DEF IsrByte, Queue
<1>2. Placed /\ Placed'
  <2>1. RingTyped' => Placed'
    BY WindowPlaced, PTL
  <2> QED
    BY <2>1, WindowPlaced DEF Typed
<1>3. /\ First' = First /\ Size' = Size /\ read' = read /\ fifo'["uart"] = Tail(f)
      /\ rx_produce'["uart"] = RingNext(Size, p)
      /\ Buff' = [Buff EXCEPT ![p] = b] /\ Buff'[p] = b /\ SameBut(Size, p, Buff, Buff')
  <2>1. /\ rx_buf' = [rx_buf EXCEPT !["uart"][p] = b] /\ rx_consume' = rx_consume /\ read' = read
        /\ rx_produce' = [rx_produce EXCEPT !["uart"] = RingNext(RingSize["uart"], p)]
        /\ fifo' = [fifo EXCEPT !["uart"] = Tail(f)]
    BY DEF IsrByte
  <2>2. Buff' = [Buff EXCEPT ![p] = b]
    BY <2>1, Sizes, Zenon DEF Buff, Typed, RingTyped
  <2>3. fifo'["uart"] = Tail(f) /\ rx_produce'["uart"] = RingNext(Size, p)
    BY <2>1, Sizes, Zenon DEF Size, Typed, RingTyped, HwTyped
  <2>4. Buff'[p] = b /\ SameBut(Size, p, Buff, Buff')
    BY <1>2, <2>2 DEF Placed, SameBut
  <2> QED
    BY <2>1, <2>2, <2>3, <2>4 DEF First, Size
<1>4. Queue' = RingWindow(Size, Buff', First, Waiting') \o Tail(f)
  <2>1. RingBytes' = RingWindow(Size, Buff', First, Waiting')
    <3>1. (RingBytes = RingWindow(Size, Buff, First, Waiting))'
      BY RingBytesWindow, PTL
    <3> QED
      BY <1>3, <3>1 DEF Size
  <2> QED
    BY <1>3, <2>1 DEF Queue
<1>5. /\ Full => Waiting' = 1 /\ Waiting = Size /\ p = RingCell(Size, First, 1)
      /\ ~Full => /\ p = RingCell(Size, First, Waiting + 1) /\ Waiting \in 0 .. Size - 1
                  /\ Waiting' = 0 \/ Waiting' = Waiting + 1
  <2> PICK z \in Nat \ {0} : z = Size
    BY <1>2 DEF Placed
  <2> PICK i \in 0 .. z - 1, j \in 0 .. z - 1 : i = p /\ j = First
    BY <1>2 DEF Placed
  <2>1. RingNext(z, i) = IF i + 1 = z THEN 0 ELSE i + 1
    BY RingNextWraps, Zenon
  <2>2. Waiting = (IF read = "cell" /\ i = j THEN z ELSE RingCount(z, i, j))
    BY DEF Waiting, Full
  <2>3. Waiting' = IF read = "cell" /\ RingNext(z, i) = j THEN z ELSE RingCount(z, RingNext(z, i), j)
    BY <1>3 DEF Waiting, Full, Size
  <2>4. Full <=> read = "cell" /\ i = j
    BY DEF Full
  <2> QED
    BY <2>1, <2>2, <2>3, <2>4 DEF RingCount, RingCell
<1>6. \A n \in 0 .. Size - 1 :
        p = RingCell(Size, First, n + 1) =>
          RingWindow(Size, Buff', First, n + 1) = Append(RingWindow(Size, Buff, First, n), b)
  <2>1. /\ Size \in Nat \ {0} /\ First \in 0 .. Size - 1 /\ p \in 0 .. Size - 1
        /\ SameBut(Size, p, Buff, Buff') /\ Buff'[p] = b
    BY <1>2, <1>3 DEF Placed
  <2> SUFFICES ASSUME NEW n \in 0 .. Size - 1, p = RingCell(Size, First, n + 1)
               PROVE  RingWindow(Size, Buff', First, n + 1) = Append(RingWindow(Size, Buff, First, n), b)
    OBVIOUS
  <2>2. Behind(Size, First, n, p)
    BY <2>1 DEF Behind
  <2>3. RingWindow(Size, Buff', First, n + 1) = Append(RingWindow(Size, Buff, First, n), Buff'[p])
    BY <2>1, <2>2, WindowPut
  <2> QED
    BY <2>1, <2>3
<1>7. \A B : RingWindow(Size, B, First, 0) = <<>>
  <2>1. Size \in Nat \ {0} /\ First \in 0 .. Size - 1 /\ 0 \in 0 .. Size
    BY <1>2 DEF Placed
  <2> QED
    BY <2>1, WindowEmpty
<1>8. ASSUME NEW s \in Seq(Cells), NEW t \in Seq(Cells), Queue = s \o t, s # <<>>, Queue' = t
      PROVE  /\ Len(Queue') < Len(Queue)
             /\ Queue' = SubSeq(Queue, Len(Queue) - Len(Queue') + 1, Len(Queue))
  <2>1. Len(s) \in Nat \ {0} /\ Len(t) \in Nat /\ Len(s \o t) = Len(s) + Len(t)
    BY <1>8, EmptySeq, LenProperties, ConcatProperties
  <2>2. t = SubSeq(s \o t, Len(s \o t) - Len(t) + 1, Len(s \o t))
    BY LastPart
  <2> QED
    BY <1>8, <2>1, <2>2
<1>9. CASE Full
  <2>1. RingWindow(Size, Buff', First, 1) = Append(<<>>, b)
    <3>1. 0 \in 0 .. Size - 1 /\ 0 + 1 = 1 /\ p = RingCell(Size, First, 0 + 1)
      BY <1>2, <1>5, <1>9 DEF Placed
    <3>2. RingWindow(Size, Buff', First, 0 + 1) = Append(RingWindow(Size, Buff, First, 0), b)
      BY <1>6, <3>1
    <3> QED
      BY <1>7, <3>1, <3>2
  <2>2. Queue' = f
    <3>1. Append(<<>>, b) \o Tail(f) = <<>> \o f /\ <<>> \o f = f
      <4> HIDE DEF f
      <4>1. <<>> \in Seq(Cells)
        OBVIOUS
      <4> QED
        BY <1>1, <4>1, MoveFirst, ConcatEmptySeq
    <3> QED
      BY <1>4, <1>5, <1>9, <2>1, <3>1
  <2>3. W # <<>>
    BY <1>2, <1>5, <1>9, RingBytesWindow, WindowEmpty DEF Placed
  <2> QED
    BY <1>1, <1>8, <2>2, <2>3
<1>10. CASE ~Full /\ Waiting' = 0
  <2>1. Queue' = Tail(f)
    BY <1>1, <1>4, <1>7, <1>10, ConcatEmptySeq
  <2>2. Queue = Append(W, b) \o Tail(f) /\ Append(W, b) \in Seq(Cells) /\ Append(W, b) # <<>>
    BY <1>1, MoveFirst, AppendProperties, ZenonT(40)
  <2> QED
    BY <1>1, <1>8, <2>1, <2>2
<1>11. CASE ~Full /\ Waiting' = Waiting + 1
  <2>1. RingWindow(Size, Buff', First, Waiting + 1) = Append(W, b)
    BY <1>5, <1>6, <1>11, RingBytesWindow
  <2>2. Queue' = Queue
    BY <1>1, <1>4, <1>11, <2>1, MoveFirst
  <2> QED
    BY <2>2
<1> QED
  BY <1>5, <1>9, <1>10, <1>11
\* A byte arrives and takes its place at the end, or the core is full.
LEMMA HostByteQueue ==
  ASSUME Typed, HostByte
  PROVE  /\ next \in Byte /\ c' = c /\ next' = After(next) /\ next' \in Places
         /\ Queue' = Queue \/ Queue' = Append(Queue, next)
<1>1. next \in Byte /\ next \in Cells /\ next' = After(next) /\ After(next) \in Places
  BY NextTyped DEF HostByte, Typed, PkgTyped, Places, Cells
<1>2. UNCHANGED <<rx_buf, rx_produce, rx_consume, read, c>>
  BY DEF HostByte, Arrive, ringVars
<1>3. RingBytes' = RingBytes
  BY <1>2, WindowKept
<1>4. fifo'["uart"] = fifo["uart"] \/ fifo'["uart"] = Append(fifo["uart"], next)
  BY Sizes DEF HostByte, Arrive, Typed, HwTyped
<1>5. RingBytes \o Append(fifo["uart"], next) = Append(RingBytes \o fifo["uart"], next)
  <2> DEFINE s == RingBytes
             t == fifo["uart"]
  <2>1. s \in Seq(Cells) /\ t \in Seq(Cells) /\ <<next>> \in Seq(Cells) /\ s \o t \in Seq(Cells)
    BY <1>1, QueueType DEF Queue
  <2> HIDE DEF s, t
  <2>2. Append(t, next) = t \o <<next>> /\ Append(s \o t, next) = (s \o t) \o <<next>>
    BY <1>1, <2>1, AppendIsConcat
  <2>3. (s \o t) \o <<next>> = s \o (t \o <<next>>)
    BY <2>1, ConcatAssociative
  <2>4. s \o Append(t, next) = Append(s \o t, next)
    BY <2>2, <2>3
  <2> QED
    BY <2>4 DEF s, t
<1> QED
  BY <1>1, <1>2, <1>3, <1>4, <1>5 DEF Queue

\* uart_read takes the first byte that waits.
LEMMA ReadCellQueue ==
  ASSUME Typed, ReadCell
  PROVE  Queue # <<>> /\ c' = Head(Queue) /\ Queue' = Tail(Queue)
<1>1. Placed /\ Size \in Nat \ {0} /\ First \in 0 .. Size - 1
  BY WindowPlaced DEF Typed, Placed
<1>2. /\ read = "cell" /\ read' = "next" /\ UNCHANGED <<rx_buf, rx_produce, rx_consume, fifo>>
      /\ First = rx_consume["uart"] /\ c' = Buff[First]
  BY DEF ReadCell, ringVars, hwVars, First, Buff
<1>3. First' = RingNext(Size, First) /\ Buff' = Buff /\ Size' = Size /\ ~Full'
  BY <1>2 DEF First, Buff, Size, Full
<1>4. Waiting \in 1 .. Size /\ Waiting' = Waiting - 1
  <2> PICK z \in Nat \ {0} : z = Size
    BY <1>1
  <2> PICK i \in 0 .. z - 1, j \in 0 .. z - 1 : i = rx_produce["uart"] /\ j = First
    BY <1>1 DEF Placed
  <2>1. RingNext(z, j) = IF j + 1 = z THEN 0 ELSE j + 1
    BY RingNextWraps, Zenon
  <2>2. Waiting = (IF i = j THEN z ELSE RingCount(z, i, j))
    BY <1>2 DEF Waiting, Full
  <2>3. Waiting' = RingCount(z, i, RingNext(z, j))
    BY <1>2, <1>3 DEF Waiting, Size
  <2> QED
    BY <2>1, <2>2, <2>3 DEF RingCount
<1>5. RingBytes = RingWindow(Size, Buff, First, Waiting)
  BY RingBytesWindow
<1>6. RingBytes' = RingWindow(Size, Buff, RingNext(Size, First), Waiting - 1)
  <2>1. (RingBytes = RingWindow(Size, Buff, First, Waiting))'
    BY RingBytesWindow, PTL
  <2> QED
    BY <1>3, <1>4, <2>1
<1>7. RingBytes # <<>> /\ Head(RingBytes) = Buff[First] /\ RingBytes' = Tail(RingBytes)
  <2>1. Waiting \in 0 .. Size /\ Waiting # 0
    BY <1>1, <1>4
  <2>2. RingWindow(Size, Buff, First, Waiting) # <<>>
    BY <1>1, <2>1, WindowEmpty
  <2> QED
    BY <1>1, <1>4, <1>5, <1>6, <2>2, WindowTake
<1>8. RingBytes \in Seq(Cells) /\ fifo["uart"] \in Seq(Cells)
  BY QueueType
<1> QED
  BY <1>2, <1>7, <1>8, FirstPart DEF Queue

\* The other steps of uart_read, and those of get_pkg, leave the window.
LEMMA WindowStays ==
  ASSUME Typed, ReadWait \/ GetPkg \/ ReadNext
  PROVE  RingBytes' = RingBytes /\ fifo' = fifo
<1>1. UNCHANGED <<rx_buf, rx_produce, fifo>> /\ Size' = Size /\ Buff' = Buff
  BY DEF ReadWait, GetPkg, ReadNext, ringVars, hwVars, Size, Buff
<1>2. First' = First /\ Full' = Full
  <2>1. CASE ReadWait
    BY <2>1 DEF ReadWait, RingHas, ringVars, First, Full, Size
  <2>2. CASE GetPkg
    <3>1. read' = "wait" /\ UNCHANGED <<rx_produce, rx_consume>> /\ read = "out"
      BY <2>2 DEF GetPkg, Typed, PkgTyped, ringVars
    <3> QED
      BY <3>1 DEF First, Full, Size
  <2>3. CASE ReadNext
    <3>1. read = "next" /\ read' = "out" /\ rx_consume'["uart"] = RingNext(Size, rx_consume["uart"])
      BY <2>3, Sizes DEF ReadNext, Typed, RingTyped, Size
    <3> QED
      BY <3>1 DEF First, Full, Size
  <2> QED
    BY <2>1, <2>2, <2>3
<1>3. Waiting' = Waiting
  BY <1>1, <1>2 DEF Waiting
<1>4. (RingBytes = RingWindow(Size, Buff, First, Waiting))'
  BY RingBytesWindow, PTL
<1> QED
  BY <1>1, <1>2, <1>3, <1>4, RingBytesWindow

\* The debug port has a ring of its own.
LEMMA OtherPort ==
  ASSUME Typed, IsrByte("uart1")
  PROVE  Queue' = Queue /\ c' = c
<1>1. /\ rx_buf' = [rx_buf EXCEPT !["uart1"][rx_produce["uart1"]] = Head(fifo["uart1"])]
      /\ rx_produce' = [rx_produce EXCEPT !["uart1"] = RingNext(RingSize["uart1"], @)]
      /\ fifo' = [fifo EXCEPT !["uart1"] = Tail(@)] /\ UNCHANGED <<rx_consume, read, c>>
  BY DEF IsrByte
<1>2. rx_buf'["uart"] = rx_buf["uart"]
  BY <1>1, Sizes, Zenon DEF Typed, RingTyped
<1>3. rx_produce'["uart"] = rx_produce["uart"] /\ fifo'["uart"] = fifo["uart"]
  BY <1>1, Sizes DEF Typed, RingTyped, HwTyped
<1>4. Size' = Size /\ Buff' = Buff /\ First' = First /\ Waiting' = Waiting
  BY <1>1, <1>2, <1>3 DEF Size, Buff, First, Waiting, Full
<1>5. (RingBytes = RingWindow(Size, Buff, First, Waiting))'
  BY RingBytesWindow, PTL
<1>6. RingBytes' = RingBytes
  BY <1>4, <1>5, RingBytesWindow
<1> QED
  BY <1>1, <1>3, <1>6 DEF Queue

\* At a restart nothing waits and nothing was read.
LEMMA RestartQueue ==
  ASSUME Restart
  PROVE  Queue' = <<>> /\ c' = NoByte /\ read' = "out"
<1>1. /\ rx_produce' = [p \in Ports |-> 0] /\ rx_consume' = [p \in Ports |-> 0]
      /\ fifo' = [p \in Ports |-> <<>>] /\ read' = "out" /\ c' = NoByte
  BY DEF Restart, Bite, UartReset
<1>2. Size \in Nat \ {0} /\ First' = 0 /\ Waiting' = 0 /\ Size' = Size /\ fifo'["uart"] = <<>>
  BY <1>1, SizeAssumption, Sizes DEF First, Waiting, Full, RingCount, Size
<1>3. (RingBytes = RingWindow(Size, Buff, First, Waiting))'
  BY RingBytesWindow, PTL
<1>4. 0 \in 0 .. Size - 1 /\ 0 \in 0 .. Size
  BY <1>2
<1>5. RingWindow(Size, Buff', 0, 0) = <<>>
  BY <1>2, <1>4, WindowEmpty
<1>6. <<>> \in Seq(Cells)
  OBVIOUS
<1> QED
  BY <1>1, <1>2, <1>3, <1>5, <1>6, ConcatEmptySeq DEF Queue

\* What becomes of the waiting bytes and of the byte read last, step by step.
QueueStays == Queue' = Queue /\ c' = c
QueueArrives == next \in Byte /\ next' = After(next) /\ c' = c /\ Queue' = Append(Queue, next)
QueueTaken == Queue # <<>> /\ c' = Head(Queue) /\ Queue' = Tail(Queue)
QueueLost ==
  /\ Len(Queue') < Len(Queue) /\ c' = c
  /\ Queue' = SubSeq(Queue, Len(Queue) - Len(Queue') + 1, Len(Queue))
QueueReset == Queue' = <<>> /\ c' = NoByte

LEMMA QueueStep ==
  ASSUME Typed, Typed', [Next]_vars
  PROVE  \/ QueueStays /\ ~(Reading /\ ReadCell) /\ ~Restart
         \/ QueueArrives /\ HostByte
         \/ QueueLost /\ IsrByte("uart") /\ UNCHANGED mainVars
         \/ QueueTaken /\ Reading /\ ReadCell
         \/ QueueReset /\ Restart
<1> DEFINE Silent == ~(Reading /\ ReadCell) /\ ~Restart
<1>1. ASSUME UNCHANGED <<rx_buf, rx_produce, rx_consume, read, c, fifo>> PROVE QueueStays /\ Silent
  <2>1. QueueStays
    BY <1>1, WindowKept DEF QueueStays, Queue
  <2>2. ~ReadCell
    BY <1>1 DEF ReadCell
  <2>3. ~Restart
    BY <1>1 DEF Restart, Bite, UartReset
  <2> QED
    BY <2>1, <2>2, <2>3
<1>2. CASE HostByte
  <2>1. read' = read /\ pc' = pc
    BY <1>2 DEF HostByte, Arrive
  <2>2. ~ReadCell /\ ~Restart
    BY <2>1 DEF ReadCell, Restart, Bite, UartReset
  <2> QED
    BY <1>2, <2>2, HostByteQueue DEF QueueArrives, QueueStays
<1>3. CASE IsrByte("uart") /\ UNCHANGED mainVars
  <2>1. read' = read /\ c' = c
    BY <1>3 DEF IsrByte
  <2>2. ~ReadCell /\ ~Restart
    BY <2>1 DEF ReadCell, Restart, Bite, UartReset
  <2> QED
    BY <1>3, <2>1, <2>2, IsrByteQueue DEF QueueLost, QueueStays
<1>4. CASE IsrByte("uart1")
  <2>1. read' = read
    BY <1>4 DEF IsrByte
  <2>2. ~ReadCell /\ ~Restart
    BY <2>1 DEF ReadCell, Restart, Bite, UartReset
  <2> QED
    BY <1>4, <2>2, OtherPort DEF QueueStays
<1>5. CASE Reading /\ ReadCell
  BY <1>5, ReadCellQueue DEF QueueTaken
<1>6. CASE Restart
  BY <1>6, RestartQueue DEF QueueReset
<1>7. CASE ReadWait \/ GetPkg \/ GotByte
  <2>1. ReadWait \/ GetPkg \/ ReadNext
    BY <1>7 DEF GotByte
  <2>2. ~ReadCell /\ ~Restart
    BY <1>7, <2>1 DEF ReadWait, GetPkg, GotByte, ReadNext, ReadCell, Restart, Bite, UartReset
  <2>3. c' = c
    BY <2>1 DEF ReadWait, GetPkg, ReadNext
  <2> QED
    BY <2>1, <2>2, <2>3, WindowStays DEF QueueStays, Queue
<1>8. CASE LoseByte \/ DebugByte \/ Time \/ UNCHANGED vars
  <2>1. CASE DebugByte
    <3>1. /\ UNCHANGED <<rx_buf, rx_produce, rx_consume, read, c>> /\ fifo'["uart"] = fifo["uart"]
      BY <2>1, Sizes DEF DebugByte, Arrive, ringVars, Typed, HwTyped
    <3>2. ~ReadCell /\ ~Restart
      BY <2>1 DEF DebugByte, Arrive, ReadCell, Restart, Bite, UartReset
    <3> QED
      BY <3>1, <3>2, WindowKept DEF QueueStays, Queue
  <2> QED
    BY <1>1, <1>8, <2>1 DEF LoseByte, Time, CharTime, vars, uartVars, hwVars, ringVars
<1>9. CASE IsrEnter \/ Writing
  BY <1>1, <1>9 DEF IsrEnter, Writing, WriteMask, WriteChar, hwVars, ringVars
<1>10. ASSUME NEW p \in Ports, IsrDrained(p) \/ IsrAck(p) PROVE QueueStays /\ Silent
  BY <1>1, <1>10 DEF IsrDrained, IsrAck, hwVars, ringVars
<1> QED
  BY Steps, <1>2, <1>3, <1>4, <1>5, <1>6, <1>7, <1>8, <1>9, <1>10 DEF Ports

\* At the start nothing waits and nothing was read.
LEMMA StartQueue == Init => Queue = <<>> /\ c = NoByte
<1> SUFFICES ASSUME Init PROVE Queue = <<>> /\ c = NoByte
  OBVIOUS
<1>1. Size \in Nat \ {0} /\ First = 0 /\ Waiting = 0 /\ fifo["uart"] = <<>> /\ c = NoByte
  BY SizeAssumption, Sizes DEF Init, UartInit, First, Waiting, Full, RingCount, Size
<1>2. RingBytes = <<>>
  <2>1. 0 \in 0 .. Size - 1 /\ 0 \in 0 .. Size
    BY <1>1
  <2> QED
    BY <1>1, <2>1, WindowEmpty, RingBytesWindow
<1>3. <<>> \in Seq(Cells)
  OBVIOUS
<1> QED
  BY <1>1, <1>2, <1>3, ConcatEmptySeq DEF Queue

(***************************************************************************)
(* Whatever the interleaving of uart_isr and uart_read, get_pkg reads the  *)
(* bytes in the order they arrived and none twice: the receiver implements *)
(* the line (uart.c:51-68).                                                *)
(***************************************************************************)
THEOREM BytesAreInOrder == Spec => BytesInOrder
<1>1. Init => Serial!ByteLineInit
  BY StartQueue DEF Serial!ByteLineInit, Queue
<1>2. Typed /\ Typed' /\ [Next]_vars => [Serial!ByteLineNext]_<<RingBytes \o fifo["uart"], c>>
  <2> SUFFICES ASSUME Typed, Typed', [Next]_vars
               PROVE  [Serial!ByteLineNext]_<<RingBytes \o fifo["uart"], c>>
    OBVIOUS
  <2>1. CASE QueueStays
    BY <2>1 DEF QueueStays, Queue
  <2>2. CASE QueueArrives
    <3>1. Len(Queue) \in Nat /\ Len(Append(Queue, next)) = Len(Queue) + 1
      <4>1. Queue \in Seq(Cells) /\ next \in Cells
        BY <2>2, QueueType DEF QueueArrives, Cells
      <4> QED
        BY <4>1, AppendProperties, LenProperties
    <3> QED
      BY <2>2, <3>1 DEF QueueArrives, Queue, Serial!ByteLineNext, Serial!Arrives
  <2>3. CASE QueueTaken
    BY <2>3 DEF QueueTaken, Queue, Serial!ByteLineNext, Serial!Take
  <2>4. CASE QueueLost
    BY <2>4 DEF QueueLost, Queue, Serial!ByteLineNext, Serial!Lose
  <2>5. CASE QueueReset
    BY <2>5 DEF QueueReset, Queue, Serial!ByteLineNext, Serial!Reset
  <2> QED
    BY QueueStep, <2>1, <2>2, <2>3, <2>4, <2>5
<1> QED
  BY <1>1, <1>2, TypedInvariant, PTL DEF Spec, BytesInOrder, Serial!ByteLineSpec
===============================================================================

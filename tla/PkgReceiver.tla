----------------------------- MODULE PkgReceiver -----------------------------
(***************************************************************************)
(* The receiver of packages: get_pkg (main.c) over the UART driver, with   *)
(* the bytes of the packages, a line that loses some of them, the replies  *)
(* and the debug output that mask the interrupts, and the watchdog, which  *)
(* is the only way out when get_pkg waits for the rest of a package that   *)
(* does not come.                                                          *)
(*                                                                         *)
(* A byte is the package and the position it was sent at: the values only  *)
(* matter where get_pkg compares them with the head.                       *)
(***************************************************************************)
EXTENDS UartRx

CONSTANTS
  HRTO_P_COUNT,     \* bytes of a package (39): head, type, idx, cnt, then data and CRC
  Pkgs,             \* the bound on the packages the host sends: 1 .. Pkgs
  Answered,         \* the packages that get a reply (P_POLLING, P_REQUIRE, P_DETECT)
  Tricky,           \* the packages whose data look like a head
  ReplyLen,         \* characters of a reply (39)
  MaxLost,          \* bound on the bytes lost on the line
  Lossy,            \* bound: the packages of which bytes may be lost there
  Quiet             \* bound: the packages during which nothing comes on the debug port

Byte == [pkg : 1 .. Pkgs, pos : 1 .. HRTO_P_COUNT]

ASSUME PkgAssumption ==
  /\ HRTO_P_COUNT \in Nat /\ HRTO_P_COUNT >= 7 /\ NoByte \notin Byte
  /\ Pkgs \in Nat /\ Answered \subseteq 1 .. Pkgs /\ Tricky \subseteq 1 .. Pkgs
  /\ Quiet \subseteq 1 .. Pkgs /\ Lossy \subseteq 1 .. Pkgs
  /\ ReplyLen \in Nat \ {0} /\ MaxLost \in Nat

\* The core keeps the bytes of the longest masked stretch, two characters (it keeps 16).
ASSUME DepthAssumption == RX_DEPTH >= 4

VARIABLES
  next,               \* the host's next byte
  lost,               \* how many bytes were lost on the line
  pc,                 \* "get" (at the head of get_pkg's loop), "reading" or "writing"
  last, start, count, g_pkg,   \* get_pkg: pre_last is last before a byte is read
  out,                \* the masked stretches still to be written: port and characters
  seen,               \* history: how many bytes of a package get_pkg has read
  decoded             \* history: the packages decoded: type, idx and cnt, and whose data

hostVars == <<next, lost>>
pkgVars  == <<last, start, count, g_pkg>>
history  == <<seen, decoded>>
vars     == <<uartVars, hostVars, pc, pkgVars, out, history>>

\* The data begin with HRTO_H1, HRTO_H2 in a tricky package.
IsH1(b) == b # NoByte /\ (b.pos = 1 \/ (b.pkg \in Tricky /\ b.pos = 6))
IsH2(b) == b # NoByte /\ (b.pos = 2 \/ (b.pkg \in Tricky /\ b.pos = 7))

NoPkg == [k \in 1 .. HRTO_P_COUNT |-> NoByte]

GetPkgInit ==
  /\ last = NoByte /\ start = FALSE /\ g_pkg = NoPkg

Init ==
  /\ UartInit /\ GetPkgInit /\ count = 2
  /\ next = [pkg |-> 1, pos |-> 1] /\ lost = 0
  /\ pc = "get" /\ out = <<>>
  /\ seen = [n \in 1 .. Pkgs |-> 0] /\ decoded = <<>>

(***************************************************************************)
(* The line.                                                               *)
(***************************************************************************)
After(b) == IF b.pos = HRTO_P_COUNT THEN [pkg |-> b.pkg + 1, pos |-> 1]
                                    ELSE [b EXCEPT !.pos = @ + 1]

HostByte ==
  /\ next.pkg <= Pkgs
  /\ Arrive("uart", next)
  /\ next' = After(next)
  /\ UNCHANGED <<lost, pc, pkgVars, out, history>>

LoseByte ==
  /\ next.pkg \in Lossy /\ lost < MaxLost
  /\ next' = After(next) /\ lost' = lost + 1
  /\ UNCHANGED <<uartVars, pc, pkgVars, out, history>>

DebugByte ==
  /\ next.pkg \notin Quiet
  /\ Arrive("uart1", NoByte)
  /\ UNCHANGED <<hostVars, pc, pkgVars, out, history>>

Interrupt ==
  /\ IsrEnter \/ UartIsr \/ Uart1Isr
  /\ UNCHANGED <<hostVars, pc, pkgVars, out, history>>

Time ==
  /\ CharTime(out # <<>> /\ WriteWaits(Head(out).port))
  /\ UNCHANGED <<hostVars, pc, pkgVars, out, history>>

(***************************************************************************)
(* get_pkg.  It returns when the ring is empty, but never within a         *)
(* package; it also returns after a wrong CRC.  The rest of main's loop    *)
(* changes nothing here and calls it again.                                *)
(***************************************************************************)
GetPkg ==
  /\ pc = "get" /\ ~Interrupted /\ (RingHas \/ start)
  /\ pc' = "reading" /\ read' = "wait"
  /\ UNCHANGED <<hwVars, irqVars, ringVars, c, write, hostVars, pkgVars, out, history>>

Reading ==
  /\ pc = "reading"
  /\ \/ ReadWait /\ UNCHANGED history
     \/ /\ ReadCell
        /\ seen' = IF c' = NoByte THEN seen ELSE [seen EXCEPT ![c'.pkg] = @ + 1]
        /\ decoded' = decoded
  /\ UNCHANGED <<hostVars, pc, pkgVars, out>>

\* The CRC covers the data alone, not head, type, idx and cnt; it is taken to tell the data
\* of one package, in place, from any mixture.
CrcRight(g) == \E n \in 1 .. Pkgs : \A k \in 6 .. HRTO_P_COUNT : g[k] = [pkg |-> n, pos |-> k]

\* Type, idx and cnt are bytes of any package, the data those of one.
Parsed(g) == [type |-> g[3], idx |-> g[4], cnt |-> g[5], data |-> g[6].pkg]

DebugLine == <<[port |-> "uart1", chars |-> 2]>>     \* a line of debug output ends in '\n'
Reply == [k \in 1 .. ReplyLen |-> [port |-> "uart", chars |-> 1]]

\* What is written for a package of this type byte; from another place it may be any type's.
Answers(b) ==
  IF b.pos # 3 THEN {Reply, DebugLine} ELSE IF b.pkg \in Answered THEN {Reply} ELSE {DebugLine}

\* decode_pkg and the replies of get_pkg, for the package in g; a mutant that takes it whatever
\* its CRC.
DecodeAny(g) == decoded' = Append(decoded, Parsed(g)) /\ out' \in Answers(g[3])
Decode(g) ==
  IF CrcRight(g)
  THEN decoded' = Append(decoded, Parsed(g)) /\ out' \in Answers(g[3])
  ELSE decoded' = decoded /\ out' = DebugLine

\* The package in g is complete; a mutant that goes on as if it were not.
FinishStarted(g) ==
  /\ last' = NoByte /\ count' = 2 /\ g_pkg' = g /\ start' = start
  /\ Decode(g) /\ pc' = "writing"
Finish(g) ==
  /\ last' = NoByte /\ count' = 2 /\ g_pkg' = g /\ start' = FALSE
  /\ Decode(g) /\ pc' = "writing"

\* The body of get_pkg's loop for the byte c: n bytes of the package are in g.
Collect(n, g) ==
  IF n = HRTO_P_COUNT
  THEN Finish(g)
  ELSE /\ last' = c /\ UNCHANGED <<decoded, out>> /\ pc' = "get"
       /\ IF ~start /\ IsH1(last) /\ IsH2(c)
          THEN start' = TRUE /\ count' = 2 /\ g_pkg' = [g EXCEPT ![1] = last, ![2] = c]
          ELSE start' = start /\ count' = n /\ g_pkg' = g

GotByte ==
  /\ pc = "reading" /\ ReadNext
  /\ IF start THEN Collect(count + 1, [g_pkg EXCEPT ![count + 1] = c])
              ELSE Collect(count, g_pkg)
  /\ UNCHANGED <<hostVars, seen>>

\* send_pkg and debug32: one masked stretch after the other.
Writing ==
  /\ pc = "writing"
  /\ \/ WriteMask /\ UNCHANGED <<pc, out>>
     \/ LET w == Head(out) IN
        /\ WriteChar(w.port, w.chars = 1)
        /\ out' = IF w.chars = 1 THEN Tail(out) ELSE <<[w EXCEPT !.chars = @ - 1]>> \o Tail(out)
        /\ pc' = IF out' # <<>> THEN "writing" ELSE "get"
  /\ UNCHANGED <<hostVars, pkgVars, history>>

\* get_pkg does not return, since the rest of a package does not come or since the bytes do not
\* end, and the watchdog bites: .bss is cleared, count (in .data) stays.  A mutant with all of
\* get_pkg's statics in .data.
Bite ==
  /\ pc = "reading" /\ read = "wait"
  /\ UartReset /\ pc' = "get" /\ out' = <<>>
  /\ seen' = [n \in 1 .. Pkgs |-> IF seen[n] = HRTO_P_COUNT THEN seen[n] ELSE 0]
  /\ UNCHANGED <<hostVars, decoded>>
RestartKept == Bite /\ UNCHANGED pkgVars
Restart == Bite /\ last' = NoByte /\ start' = FALSE /\ g_pkg' = NoPkg /\ count' = count

Line == HostByte \/ LoseByte \/ DebugByte
Main == GetPkg \/ Reading \/ GotByte \/ Writing

Next == Line \/ Interrupt \/ Time \/ Main \/ Restart

Spec == Init /\ [][Next]_vars

(***************************************************************************)
(* The processor serves its interrupts and runs main between them (SF: a   *)
(* handler ends long before the next byte), time passes, and the watchdog  *)
(* bites; the host need not send, and debug bytes may come for ever.       *)
(***************************************************************************)
Fairness == WF_vars(Interrupt) /\ WF_vars(Time) /\ SF_vars(Main) /\ WF_vars(Restart)
FairSpec == Spec /\ Fairness

-------------------------------------------------------------------------------
\* The variables have their types and the indices stay within the rings (uart.c:18-23).
TypeOK ==
  /\ \A p \in Ports : /\ fifo[p] \in Seq(Byte \cup {NoByte}) /\ txq[p] \in 0 .. TX_DEPTH
                      /\ rx_produce[p] \in 0 .. RingSize[p] - 1
                      /\ rx_consume[p] \in 0 .. RingSize[p] - 1
                      /\ rx_buf[p] \in [0 .. RingSize[p] - 1 -> Byte \cup {NoByte}]
  /\ ready \subseteq Ports /\ ip \subseteq Ports /\ im \in {{}, Ports} /\ irqs \subseteq Ports
  /\ isr \in {"off", "serve", "ack"} /\ read \in {"out", "wait", "cell", "next"}
  /\ write \in {"out", "wait"} /\ pc \in {"get", "reading", "writing"}
  /\ count \in 2 .. HRTO_P_COUNT - 1 /\ start \in BOOLEAN
  /\ g_pkg \in [1 .. HRTO_P_COUNT -> Byte \cup {NoByte}]
  /\ \A n \in 1 .. Pkgs : seen[n] \in 0 .. HRTO_P_COUNT

\* The waiting bytes of the host port: those in the ring and those in the core.  Once
\* uart_read has seen that the ring is not empty its next byte is sure, even on a ring that
\* then fills up; once it has read the byte the cell is free.
RingBytes ==
  LET size == UART_RINGBUFFER_SIZE_RX
      from == IF read = "next" THEN RingNext(size, rx_consume["uart"]) ELSE rx_consume["uart"]
      n    == IF read = "cell" /\ rx_produce["uart"] = from THEN size
              ELSE RingCount(size, rx_produce["uart"], from)
  IN [k \in 1 .. n |-> rx_buf["uart"][RingCell(size, from, k)]]

Serial == INSTANCE ByteLine WITH Byte <- Byte, q <- RingBytes \o fifo["uart"], taken <- c

\* Whatever the interleaving of uart_isr and uart_read, and although nothing looks for a full
\* ring, get_pkg reads the bytes in the order they arrived and none twice (uart.c:51-68).
BytesInOrder == Serial!ByteLineSpec

\* No masked stretch is so long that the UART core's FIFO fills up (uart.c:75-87, 175-189).
FifoSuffices == \A p \in Ports : Len(fifo[p]) < RX_DEPTH

\* After a loss get_pkg is in step again after one package at most: a package is decoded if
\* all its bytes were read, and those of the one before, unless that one was swallowed and its
\* data look like a head (main.c:506-543).
Whole(n) == n = 0 \/ seen[n] = HRTO_P_COUNT
AsSent(n) == [type |-> [pkg |-> n, pos |-> 3], idx |-> [pkg |-> n, pos |-> 4],
              cnt |-> [pkg |-> n, pos |-> 5], data |-> n]
Decoded(n) == \E i \in DOMAIN decoded : decoded[i] = AsSent(n)
InStepAgain ==
  read = "out" =>
    \A n \in 1 .. Pkgs :
      Whole(n) /\ Whole(n - 1) /\ (n - 1 \in Tricky => Decoded(n - 1)) => Decoded(n)

\* Packages are decoded in the order they were sent and once.  The CRC lets type, idx and cnt
\* of others pass with the data of one, but only of others of which no more was read than a
\* header takes, and of one of which the head is missing (main.c:181-191).
HeaderLen(n) == IF n \in Tricky THEN 10 ELSE 5
DecodedAsSent ==
  /\ \A i, j \in DOMAIN decoded : i < j => decoded[i].data < decoded[j].data
  /\ \A i \in DOMAIN decoded :
       LET p == decoded[i] t == p.type.pkg d == p.data IN
       p # AsSent(d) => /\ t <= p.idx.pkg /\ p.idx.pkg <= p.cnt.pkg /\ p.cnt.pkg <= d
                        /\ seen[d] <= HRTO_P_COUNT - 2
                        /\ t # d => seen[t] <= HeaderLen(t) /\ seen[d] <= HRTO_P_COUNT - 3

\* When the host is silent get_pkg is eventually out of any package, by its end or by the
\* watchdog, and the loop goes on (main.c:499-544).
Listens == <>[](~start)
===============================================================================

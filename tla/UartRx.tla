-------------------------------- MODULE UartRx --------------------------------
(***************************************************************************)
(* The UART driver (uart.c) under the interrupt dispatch (sdk/intr.c): a   *)
(* receive ring filled by uart_isr and emptied by uart_read, for the host  *)
(* port and for the debug port, and uart_write, which masks the interrupts *)
(* while it waits for the transmitter.  The UART core keeps what arrives   *)
(* in a FIFO of its own and holds its interrupt line up while the FIFO is  *)
(* not empty.                                                              *)
(*                                                                         *)
(* Time: on each port at most one byte arrives and one leaves in the time  *)
(* of a character (CharTime), and in that time the processor gets through  *)
(* its interrupts unless it waits with the interrupts masked.              *)
(***************************************************************************)
EXTENDS Ring, FiniteSets

CONSTANTS
  UART_RINGBUFFER_SIZE_RX,   \* cells of the host port's ring (1024)
  UART1_RINGBUFFER_SIZE_RX,  \* cells of the debug port's ring (512)
  RX_DEPTH, TX_DEPTH,        \* bytes the UART core keeps in each direction (16)
  NoByte                     \* what a cell holds after the start

ASSUME SizeAssumption ==
  /\ UART_RINGBUFFER_SIZE_RX \in Nat \ {0}
  /\ UART1_RINGBUFFER_SIZE_RX \in Nat \ {0}
  /\ RX_DEPTH \in Nat \ {0} /\ TX_DEPTH \in Nat \ {0}

Ports == {"uart", "uart1"}
RingSize == [p \in Ports |-> IF p = "uart" THEN UART_RINGBUFFER_SIZE_RX
                                           ELSE UART1_RINGBUFFER_SIZE_RX]

VARIABLES
  fifo,     \* the bytes each UART core keeps
  txq,      \* how many characters each transmitter still holds
  ready,    \* the ports on which the time of a character has passed
  ip, im,   \* the processor's interrupt registers: pending, unmasked
  irqs,     \* isr: the interrupts still to be served
  isr,      \* isr: "off", "serve" or "ack"
  rx_buf, rx_produce, rx_consume,
  read,     \* uart_read: "out", "wait", "cell" or "next"
  c,        \* uart_read: the byte read last
  write     \* uart_write: "out" or "wait", with the interrupts masked

hwVars   == <<fifo, txq, ready>>
irqVars  == <<ip, im, irqs, isr>>
ringVars == <<rx_buf, rx_produce, rx_consume>>
uartVars == <<hwVars, irqVars, ringVars, read, c, write>>

(***************************************************************************)
(* uart_init and uart1_init: indices, acknowledge, mask.  At a reset the   *)
(* cores are empty and the buffers, in .bss, are cleared.                  *)
(***************************************************************************)
Opened(p) == [j \in 0 .. RingSize[p] - 1 |-> NoByte]

UartInit ==
  /\ fifo = [p \in Ports |-> <<>>] /\ txq = [p \in Ports |-> 0] /\ ready = Ports
  /\ ip = {} /\ im = Ports /\ irqs = {} /\ isr = "off"
  /\ rx_buf = [p \in Ports |-> Opened(p)]
  /\ rx_produce = [p \in Ports |-> 0] /\ rx_consume = [p \in Ports |-> 0]
  /\ read = "out" /\ c = NoByte /\ write = "out"

UartReset ==
  /\ fifo' = [p \in Ports |-> <<>>] /\ txq' = [p \in Ports |-> 0] /\ ready' = Ports
  /\ ip' = {} /\ im' = Ports /\ irqs' = {} /\ isr' = "off"
  /\ rx_buf' = [p \in Ports |-> Opened(p)]
  /\ rx_produce' = [p \in Ports |-> 0] /\ rx_consume' = [p \in Ports |-> 0]
  /\ read' = "out" /\ c' = NoByte /\ write' = "out"

(***************************************************************************)
(* The UART cores.                                                         *)
(***************************************************************************)
\* A byte comes in; a full FIFO drops it.  The interrupt line sets the pending bit.
Arrive(p, b) ==
  /\ p \in ready
  /\ ready' = ready \ {p}
  /\ fifo' = IF Len(fifo[p]) < RX_DEPTH THEN [fifo EXCEPT ![p] = Append(@, b)] ELSE fifo
  /\ ip' = ip \cup {p}
  /\ UNCHANGED <<txq, im, irqs, isr, ringVars, read, c, write>>

\* The processor has an interrupt to take, or is taking it.
Interrupted == isr # "off" \/ ip \cap im # {}

TxFree(p) == txq[p] < TX_DEPTH

\* The time of a character passes.
CharTime(waiting) ==
  /\ waiting \/ (write = "out" /\ ~Interrupted)
  /\ ready # Ports \/ \E p \in Ports : txq[p] > 0
  /\ ready' = Ports
  /\ txq' = [p \in Ports |-> IF txq[p] > 0 THEN txq[p] - 1 ELSE 0]
  /\ UNCHANGED <<fifo, irqVars, ringVars, read, c, write>>

(***************************************************************************)
(* isr: reads the pending and unmasked interrupts once, then serves the    *)
(* host port and the debug port.                                           *)
(***************************************************************************)
IsrEnter ==
  /\ isr = "off" /\ ip \cap im # {}
  /\ irqs' = ip \cap im /\ isr' = "serve"
  /\ UNCHANGED <<hwVars, ip, im, ringVars, read, c, write>>

Serving(p) == p \in irqs /\ (p = "uart1" => "uart" \notin irqs)

\* One byte from the core to the ring.
IsrByte(p) ==
  /\ isr = "serve" /\ Serving(p) /\ fifo[p] # <<>>
  /\ rx_buf' = [rx_buf EXCEPT ![p][rx_produce[p]] = Head(fifo[p])]
  /\ rx_produce' = [rx_produce EXCEPT ![p] = RingNext(RingSize[p], @)]
  /\ fifo' = [fifo EXCEPT ![p] = Tail(@)]
  /\ UNCHANGED <<txq, ready, irqVars, rx_consume, read, c, write>>

\* The core is empty; a byte may still arrive before the acknowledge.
IsrDrained(p) ==
  /\ isr = "serve" /\ Serving(p) /\ fifo[p] = <<>>
  /\ isr' = "ack"
  /\ UNCHANGED <<hwVars, ip, im, irqs, ringVars, read, c, write>>

\* irq_ack: the pending bit goes, and is set again while the line is up.
IsrAck(p) ==
  /\ isr = "ack" /\ Serving(p)
  /\ ip' = IF fifo[p] = <<>> THEN ip \ {p} ELSE ip
  /\ irqs' = irqs \ {p}
  /\ isr' = IF irqs = {p} THEN "off" ELSE "serve"
  /\ UNCHANGED <<hwVars, im, ringVars, read, c, write>>

UartIsr  == IsrByte("uart") \/ IsrDrained("uart") \/ IsrAck("uart")
Uart1Isr == IsrByte("uart1") \/ IsrDrained("uart1") \/ IsrAck("uart1")

(***************************************************************************)
(* uart_read, between whose steps the interrupt may come.                  *)
(***************************************************************************)
RingHas == rx_consume["uart"] # rx_produce["uart"]    \* uart_read_nonblock

ReadWait ==
  /\ read = "wait" /\ RingHas /\ ~Interrupted
  /\ read' = "cell"
  /\ UNCHANGED <<hwVars, irqVars, ringVars, c, write>>

\* A mutant that moves the index before it reads the cell.
ReadMovedCell ==
  /\ read = "cell" /\ ~Interrupted
  /\ c' = rx_buf["uart"][RingNext(UART_RINGBUFFER_SIZE_RX, rx_consume["uart"])]
  /\ read' = "next"
  /\ UNCHANGED <<hwVars, irqVars, ringVars, write>>
ReadCell ==
  /\ read = "cell" /\ ~Interrupted
  /\ c' = rx_buf["uart"][rx_consume["uart"]]
  /\ read' = "next"
  /\ UNCHANGED <<hwVars, irqVars, ringVars, write>>

ReadNext ==
  /\ read = "next" /\ ~Interrupted
  /\ rx_consume' = [rx_consume EXCEPT !["uart"] = RingNext(UART_RINGBUFFER_SIZE_RX, @)]
  /\ read' = "out"
  /\ UNCHANGED <<hwVars, irqVars, rx_buf, rx_produce, c, write>>

(***************************************************************************)
(* uart_write and uart1_write: mask, wait for the transmitter, write,      *)
(* restore.  uart1_write of a newline calls itself for the carriage return *)
(* within its own masked stretch, so that two characters are written.      *)
(***************************************************************************)
WriteMask ==
  /\ write = "out" /\ ~Interrupted
  /\ im' = {} /\ write' = "wait"
  /\ UNCHANGED <<hwVars, ip, irqs, isr, ringVars, read, c>>

\* One character of the masked stretch; the last one restores the mask.
\* A mutant that does not restore it.
WriteCharMasked(p, last) ==
  /\ write = "wait" /\ TxFree(p)
  /\ txq' = [txq EXCEPT ![p] = @ + 1]
  /\ write' = IF last THEN "out" ELSE "wait"
  /\ UNCHANGED <<fifo, ready, ip, im, irqs, isr, ringVars, read, c>>
WriteChar(p, last) ==
  /\ write = "wait" /\ TxFree(p)
  /\ txq' = [txq EXCEPT ![p] = @ + 1]
  /\ write' = IF last THEN "out" ELSE "wait"
  /\ im' = IF last THEN Ports ELSE im
  /\ UNCHANGED <<fifo, ready, ip, irqs, isr, ringVars, read, c>>

\* uart_write waits and the transmitter is full: only time helps.
WriteWaits(p) == write = "wait" /\ ~TxFree(p)
===============================================================================

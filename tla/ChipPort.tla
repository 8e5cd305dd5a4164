------------------------------- MODULE ChipPort -------------------------------
(***************************************************************************)
(* What the firmware relies on of a chip behind its driver: a task is put  *)
(* on it in one step, after its old nonces were dropped in another; of the *)
(* nonces it has found one is taken, with what the driver makes of its     *)
(* registers, and the others are dropped in the same step.                 *)
(***************************************************************************)
EXTENDS Integers

CONSTANTS Chips, BYTE, NoTask, Unset
VARIABLES
  running,      \* the task of each chip
  found,        \* its nonces: the task and the value of the registers
  asked,        \* the task last given to the driver, and the chip
  taken         \* the variable the nonce is returned in: a local, Unset before the first

\* The registers hold the nonce minus one.  When their lowest byte is full and the next one
\* is odd the carry is lost.
CarryLost(v) == v % BYTE = BYTE - 1 /\ (v \div BYTE) % 2 = 1
Returned(v)  == IF CarryLost(v) THEN v + 1 - BYTE ELSE v + 1

\* The first registers are those of the task, the others those of the task before.
Begins(new, old, t) ==
  new = t \/ \E n \in DOMAIN t : \A r \in DOMAIN t : new[r] = IF r < n THEN t[r] ELSE old[r]

PortInit ==
  /\ running = [c \in Chips |-> NoTask] /\ found = [c \in Chips |-> {}] /\ taken = 0

PortLoad(c) ==
  /\ running' = [running EXCEPT ![c] = running'[c]]
  /\ asked.chip = c /\ Begins(running'[c], running[c], asked.task)
  /\ UNCHANGED <<found, taken>>

PortFind(c) ==
  /\ found[c] \subseteq found'[c]
  /\ \A nonce \in found'[c] \ found[c] : nonce.task = running[c]
  /\ found' = [found EXCEPT ![c] = found'[c]]
  /\ UNCHANGED <<running, taken>>

\* The caller may forget the nonce it took.
PortClear(c) ==
  found' = [found EXCEPT ![c] = {}] /\ taken' \in {taken, 0} /\ UNCHANGED running

PortForget == taken' \in Unset /\ UNCHANGED <<running, found>>

PortTake(c) ==
  /\ \E nonce \in found[c] : taken' = Returned(nonce.value)
  /\ found' = [found EXCEPT ![c] = {}]
  /\ UNCHANGED running

PortNext ==
  PortForget \/ \E c \in Chips : PortLoad(c) \/ PortFind(c) \/ PortClear(c) \/ PortTake(c)

PortSpec == PortInit /\ [][PortNext]_<<running, found, taken>>
===============================================================================

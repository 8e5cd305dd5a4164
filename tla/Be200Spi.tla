------------------------------- MODULE Be200Spi -------------------------------
(***************************************************************************)
(* The chip driver (be200.c) on the SPI driver (spi.c), one action per     *)
(* transfer, and the chips it talks to, which go on hashing in between.    *)
(* spi_transfer selects chip idx % 8 of board idx \div 8 and exchanges the *)
(* bytes one by one; a transfer of which the caller uses nothing but its   *)
(* effect on the chip or one byte of the answer is one step here.          *)
(*                                                                         *)
(* A byte of a task is a token; a nonce is NONCE_BYTES bytes, the lowest   *)
(* in the lowest register.                                                 *)
(***************************************************************************)
EXTENDS Integers, FiniteSets, Functions

CONSTANTS
  CHIP_NUMBER,      \* chips (80)
  TASK_REGS,        \* registers of a task (44)
  NONCE_SLOTS,      \* nonces a chip keeps (4)
  NONCE_BYTES,      \* registers of a nonce (4)
  BYTE,             \* values of a byte (256)
  NoByte, NoNonce,
  MaxShown,         \* bound on the nonces that all chips show at a time
  MaxFaults         \* bound on the writes a register does not take, on the chips that are ready
                    \*   without a nonce bit, and on lost packages

ASSUME ChipAssumption ==
  /\ CHIP_NUMBER \in Nat \ {0} /\ TASK_REGS \in Nat \ {0} /\ NONCE_SLOTS \in Nat \ {0}
  /\ NONCE_BYTES \in Nat \ {0, 1} /\ BYTE \in Nat \ {0, 1} /\ BYTE % 2 = 0
  /\ MaxShown \in Nat /\ MaxFaults \in Nat

\* The places of the digits of a nonce: a law of arithmetic, for the provers.
ASSUME PlaceAssumption ==
  /\ BYTE^0 = 1
  /\ \A n \in 0 .. NONCE_BYTES - 1 : BYTE^n \in Nat \ {0} /\ BYTE^(n + 1) = BYTE * BYTE^n

Chips == 0 .. CHIP_NUMBER - 1
Regs  == 0 .. TASK_REGS - 1
Slots == 1 .. NONCE_SLOTS
Value == 0 .. BYTE^NONCE_BYTES - 1      \* of the registers of a nonce

VARIABLES
  reg,                    \* the task registers of each chip
  run,                    \* the task each chip was started on
  allow,                  \* BE200_STAT_W_ALLOW: the chip is not hashing
  slot,                   \* the nonces a chip shows, with their bits in the status:
                          \*   the task that was hashed and the value of the registers
  bare,                   \* the chips of which the ready bit is set by nothing they show
  op, idx, pos, task,       \* the driver: transfer to come, chip, register or byte, task
  ready, mask,            \* the ready bit and the nonce bits read
  word, result,           \* the nonce so far, and the variable the nonce is returned in
  faults

chipVars == <<reg, run, allow, slot, bare>>
callVars == <<op, idx, pos, task>>
readVars == <<ready, mask, word, result>>
spiVars  == <<chipVars, callVars, readVars, faults>>

NoTask  == [r \in Regs |-> NoByte]
Empty   == [s \in Slots |-> NoNonce]
Shown(c) == {s \in Slots : slot[c][s] # NoNonce}
Ready(c) == Shown(c) # {} \/ c \in bare

SpiInit ==
  /\ reg = [c \in Chips |-> NoTask] /\ run = [c \in Chips |-> NoTask]
  /\ allow = [c \in Chips |-> TRUE] /\ slot = [c \in Chips |-> Empty] /\ bare = {}
  /\ op = "none" /\ idx = 0 /\ pos = 0 /\ task = NoTask
  /\ ready = FALSE /\ mask = {} /\ word = 0 /\ result = 0 /\ faults = 0

-------------------------------------------------------------------------------
(***************************************************************************)
(* The chips.  A nonce goes to the first free slot and sets its bit and    *)
(* the ready bit; the driver does not count on a nonce bit where the ready *)
(* bit is set.                                                             *)
(***************************************************************************)
ChipFind(c, value) ==
  /\ ~allow[c] /\ Shown(c) # Slots
  /\ Cardinality({p \in Chips \X Slots : slot[p[1]][p[2]] # NoNonce}) < MaxShown
  /\ \A s \in Shown(c) : slot[c][s] # [task |-> run[c], value |-> value]
  /\ LET free == CHOOSE s \in Slots \ Shown(c) : \A t \in Slots \ Shown(c) : s <= t IN
     slot' = [slot EXCEPT ![c][free] = [task |-> run[c], value |-> value]]
  /\ bare' = bare \ {c}
  /\ UNCHANGED <<reg, run, allow, callVars, readVars, faults>>

ChipReady(c) ==
  /\ ~Ready(c) /\ faults < MaxFaults /\ faults' = faults + 1
  /\ bare' = bare \cup {c}
  /\ UNCHANGED <<reg, run, allow, slot, callVars, readVars>>

ChipDone(c) ==
  /\ ~allow[c]
  /\ allow' = [allow EXCEPT ![c] = TRUE]
  /\ UNCHANGED <<reg, run, slot, bare, callVars, readVars, faults>>

-------------------------------------------------------------------------------
(***************************************************************************)
(* Clear, be200_input_task and be200_start, as be200_send_work and the     *)
(* factory test call them: nobody looks whether the task was taken.        *)
(***************************************************************************)
LoadTask(c, t) == op' = "clear" /\ idx' = c /\ pos' = 0 /\ task' = t

\* A mutant that leaves the old nonces on the chip, and the code.
ClearNothing ==
  /\ op = "clear" /\ op' = "write"
  /\ UNCHANGED <<chipVars, idx, pos, task, readVars, faults>>
Clear ==
  /\ op = "clear" /\ op' = "write"
  /\ slot' = [slot EXCEPT ![idx] = Empty] /\ bare' = bare \ {idx}
  /\ UNCHANGED <<reg, run, allow, idx, pos, task, readVars, faults>>

\* A register is written and read back; the first that is wrong ends be200_input_task.
TaskReg ==
  /\ op = "write"
  /\ \/ reg' = [reg EXCEPT ![idx][pos] = task[pos]] /\ faults' = faults
     \/ reg[idx][pos] # task[pos] /\ faults < MaxFaults /\ faults' = faults + 1 /\ reg' = reg
  /\ IF reg'[idx][pos] = task[pos] /\ pos < TASK_REGS - 1
     THEN pos' = pos + 1 /\ op' = op
     ELSE pos' = pos /\ op' = "start"
  /\ UNCHANGED <<run, allow, slot, bare, idx, task, readVars>>

Start ==
  /\ op = "start" /\ op' = "none" /\ pos' = 0
  /\ run' = [run EXCEPT ![idx] = reg[idx]]
  /\ allow' = [allow EXCEPT ![idx] = FALSE]
  /\ UNCHANGED <<reg, slot, bare, idx, task, readVars, faults>>

-------------------------------------------------------------------------------
(***************************************************************************)
(* be200_get_done and be200_get_result.  The chip may find another nonce   *)
(* after the status was read; the CLEAR drops it, and every other one.     *)
(***************************************************************************)
AskDone(c) == op' = "status" /\ idx' = c

\* Without a nonce bit be200_get_result returns at once, without a CLEAR, and leaves the
\* caller's variable as it is; nobody looks at what it returns.

GetDone ==
  /\ op = "status"
  /\ ready' = Ready(idx) /\ mask' = Shown(idx)
  /\ IF mask' = {} THEN op' = "none" /\ pos' = pos ELSE op' = "byte" /\ pos' = NONCE_BYTES - 1
  /\ UNCHANGED <<chipVars, idx, task, word, result, faults>>

Lowest(S) == CHOOSE s \in S : \A t \in S : s <= t

\* Register n of the nonce: its n-th digit to the base BYTE.
NonceReg(c, s, n) == (slot[c][s].value \div BYTE^n) % BYTE

\* One is added to the lowest byte before the bytes are OR-ed: a carry is lost when the
\* bit it goes to is set.
OrLowest(w, b) ==
  IF b + 1 = BYTE /\ (w \div BYTE) % 2 = 1 THEN w ELSE w + b + 1

NonceByte ==
  LET b == NonceReg(idx, Lowest(mask), pos) IN
  /\ op = "byte"
  /\ word' = IF pos = 0 THEN OrLowest(word, b) ELSE word + b * BYTE^pos
  /\ IF pos = 0 THEN op' = "drop" /\ pos' = pos ELSE pos' = pos - 1 /\ op' = op
  /\ UNCHANGED <<chipVars, idx, task, ready, mask, result, faults>>

\* A mutant without the CLEAR, and the code.
DropKept ==
  /\ op = "drop" /\ op' = "none"
  /\ result' = word /\ word' = 0 /\ mask' = {}
  /\ UNCHANGED <<chipVars, idx, pos, task, ready, faults>>
Drop ==
  /\ op = "drop" /\ op' = "none"
  /\ slot' = [slot EXCEPT ![idx] = Empty] /\ bare' = bare \ {idx}
  /\ result' = word /\ word' = 0 /\ mask' = {}
  /\ UNCHANGED <<reg, run, allow, idx, pos, task, ready, faults>>

Transfer == Clear \/ TaskReg \/ Start \/ GetDone \/ NonceByte \/ Drop
===============================================================================

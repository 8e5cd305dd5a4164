-------------------------------- MODULE Sha256 --------------------------------
(***************************************************************************)
(* The SHA-256 driver (sha256.c) on the SHA core (sha.v, sha_core.v): the  *)
(* driver cuts and pads the message into blocks, writes them word by word, *)
(* polls the done flag after each block and reads the hash.  The core has  *)
(* no FIFO: a word that comes while it works on a block is lost, and INIT  *)
(* does not bring it back to the first word of a block.                    *)
(*                                                                         *)
(* A byte of the message is its position, offset by 256; the other bytes   *)
(* are what they are.  The compression itself is left out.                 *)
(***************************************************************************)
EXTENDS Integers, Sequences

SHA256_BLOCK_SIZE == 64
Rounds == 16                \* words the core takes before it works on a block

VARIABLES
  calls,                    \* the messages still to be hashed
  sha_pc, blk, i, state,    \* the driver: where it is, block and byte, words read
  absorbed, round,          \* the core: bytes since INIT, words of the block
  done, doubled, hash_cnt   \*   its done flag, whether DBL was given, next hash word

driverVars == <<sha_pc, blk, i, state>>
coreVars   == <<absorbed, round, done, doubled, hash_cnt>>
shaVars    == <<calls, driverVars, coreVars>>

\* sha256, dsha256, and the init, update and final of calc_midstate, which does not pad.
Sha(count)      == [count |-> count, pad |-> TRUE, dbl |-> FALSE]
Dsha(count)     == [count |-> count, pad |-> TRUE, dbl |-> TRUE]
Midstate(count) == [count |-> count, pad |-> FALSE, dbl |-> FALSE]

Msg(k) == 256 + k           \* byte k of the message, from 0

-------------------------------------------------------------------------------
(***************************************************************************)
(* sha256_update and sha256_padding, as the blocks they write.  A block is *)
(* indexed from 0.                                                         *)
(***************************************************************************)
UpdateBlocks(count) ==
  [b \in 1 .. count \div SHA256_BLOCK_SIZE |->
    [k \in 0 .. SHA256_BLOCK_SIZE - 1 |-> Msg((b - 1) * SHA256_BLOCK_SIZE + k)]]

\* The bytes 60 to 63 of the last block: the bits of the message in 32 bits.
LengthByte(count, k) == ((count * 8) \div 256^(63 - k)) % 256

\* Whether the padding takes two blocks; a mutant that is off by one.
TwoBlocksLate(count) == SHA256_BLOCK_SIZE - 8 < count % SHA256_BLOCK_SIZE
TwoBlocks(count) == SHA256_BLOCK_SIZE - 9 < count % SHA256_BLOCK_SIZE

PaddingBlocks(count) ==
  LET rem == count % SHA256_BLOCK_SIZE
      End(k) == IF k >= 60 THEN LengthByte(count, k) ELSE 0
      Rest(k, after) == IF k < rem THEN Msg(count - rem + k) ELSE IF k = rem THEN 128 ELSE after
      Bytes == 0 .. SHA256_BLOCK_SIZE - 1
  IN IF TwoBlocks(count)
     THEN <<[k \in Bytes |-> Rest(k, 0)], [k \in Bytes |-> End(k)]>>
     ELSE <<[k \in Bytes |-> Rest(k, End(k))]>>

Blocks(call) == UpdateBlocks(call.count) \o IF call.pad THEN PaddingBlocks(call.count) ELSE <<>>

-------------------------------------------------------------------------------
ShaInit ==
  /\ calls = <<>> /\ sha_pc = "idle" /\ blk = 1 /\ i = 0 /\ state = <<>>
  /\ absorbed = <<>> /\ round = 0 /\ done = FALSE /\ doubled = FALSE /\ hash_cnt = 0

\* sha256_init: RST and INIT.  The round of the core stays what it is.
Sha256Init ==
  /\ sha_pc = "idle" /\ calls # <<>>
  /\ sha_pc' = "block" /\ blk' = 1 /\ i' = 0 /\ state' = <<>>
  /\ absorbed' = <<>> /\ doubled' = FALSE /\ hash_cnt' = 0
  /\ UNCHANGED <<calls, round, done>>

\* write_block waits when byte b = 0 follows, at the end of a block; a mutant waits halfway.
HalfBlockEnd(b) == b % 32 = 0
BlockEnd(b) == b = 0

\* write_block: a word to din, which lowers the done flag; the core takes it if it can.
WriteWord ==
  LET block == Blocks(Head(calls))[blk] IN
  /\ sha_pc = "block"
  /\ done' = FALSE
  /\ IF round < Rounds
     THEN /\ absorbed' = absorbed \o [k \in 1 .. 4 |-> block[i + k - 1]]
          /\ round' = round + 1
     ELSE UNCHANGED <<absorbed, round>>
  /\ i' = (i + 4) % SHA256_BLOCK_SIZE
  /\ sha_pc' = IF BlockEnd(i') THEN "wait" ELSE "block"
  /\ UNCHANGED <<calls, blk, state, doubled, hash_cnt>>

\* The end of a block: the next one, or what follows the last.  write_block comes here when
\* the done flag is up; LeaveBlock alone is a mutant that does not wait.
LeaveBlock ==
  LET more == blk < Len(Blocks(Head(calls))) IN
  /\ sha_pc = "wait"
  /\ blk' = IF more THEN blk + 1 ELSE blk
  /\ sha_pc' = IF more THEN "block" ELSE IF Head(calls).dbl THEN "double" ELSE "final"
  /\ UNCHANGED <<calls, i, state, coreVars>>
AfterBlock == done /\ LeaveBlock

\* sha256_double: the core hashes its own hash; DBL lowers the done flag and starts the
\* hash words again.
Sha256Double ==
  /\ sha_pc = "double"
  /\ sha_pc' = "waitdouble" /\ done' = FALSE /\ doubled' = TRUE /\ round' = Rounds /\ hash_cnt' = 0
  /\ UNCHANGED <<calls, blk, i, state, absorbed>>

DoubleDone ==
  /\ sha_pc = "waitdouble" /\ done
  /\ sha_pc' = "final"
  /\ UNCHANGED <<calls, blk, i, state, coreVars>>

\* sha256_final: eight reads of the hash register; after the last one the call returns and
\* what was absorbed no longer matters.
Sha256Final ==
  /\ sha_pc = "final"
  /\ hash_cnt' = (hash_cnt + 1) % 8
  /\ IF Len(state) < 7
     THEN state' = Append(state, hash_cnt) /\ UNCHANGED <<sha_pc, calls, blk, absorbed>>
     ELSE sha_pc' = "idle" /\ calls' = Tail(calls) /\ blk' = 1 /\ state' = <<>> /\ absorbed' = <<>>
  /\ UNCHANGED <<i, round, done, doubled>>

\* The core comes to the end of a block.
CoreDone ==
  /\ round = Rounds
  /\ round' = 0 /\ done' = TRUE
  /\ UNCHANGED <<calls, driverVars, absorbed, doubled, hash_cnt>>

Sha256Driver ==
  Sha256Init \/ WriteWord \/ AfterBlock \/ Sha256Double \/ DoubleDone \/ Sha256Final

-------------------------------------------------------------------------------
\* The padding of the standard (FIPS 180-4, 5.1.1): a one bit, zeros, 64 bits of length, of
\* which the upper 32 are 0 for the messages of the firmware, all below 2^29 bytes.
Padded(count) ==
  LET zeros == CHOOSE z \in 0 .. 63 : (count + 1 + z + 8) % 64 = 0 IN
  [k \in 1 .. count |-> Msg(k - 1)] \o <<128>> \o [k \in 1 .. zeros |-> 0]
    \o [k \in 1 .. 8 |-> IF k < 5 THEN 0 ELSE ((count * 8) \div 256^(8 - k)) % 256]

\* When the hash is read the core is at rest, it has taken the padded message (or, for a
\* midstate, the message) whole and in order, it was doubled if it should be, and the words
\* are read from the first (sha256.c:26-131).
DigestRight ==
  sha_pc = "final" =>
    LET call == Head(calls) IN
    /\ round = 0 /\ doubled = call.dbl
    /\ absorbed = IF call.pad THEN Padded(call.count)
                              ELSE [k \in 1 .. call.count |-> Msg(k - 1)]
    /\ \A k \in DOMAIN state : state[k] = k - 1
===============================================================================

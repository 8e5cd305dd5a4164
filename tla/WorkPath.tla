------------------------------- MODULE WorkPath -------------------------------
(***************************************************************************)
(* The way of a work: it is made with the SHA core (miner.c), put on a     *)
(* chip that takes it, hashed there, and the nonce is read and tested with *)
(* the SHA core again; or a test bench does the factory test.  main does   *)
(* one thing at a time; the chips and the core go on meanwhile.            *)
(***************************************************************************)
EXTENDS FactoryTest, Sha256

CONSTANTS
  CoinbaseLens,     \* coinbase_len of the jobs
  HRTO_P_COINBASE_SIZE, \* bytes of the coinbase of a slot (2 * 1024)
  MaxMerkles,       \* bound on nmerkles
  Work              \* a work: the token of its bytes

ASSUME WorkAssumption ==
  /\ HRTO_P_COINBASE_SIZE \in 0 .. 2^29 - 1 /\ CoinbaseLens \subseteq 0 .. HRTO_P_COINBASE_SIZE
  /\ MaxMerkles \in Nat
  /\ Work \in Nat \ Tests

VARIABLES
  use,              \* what the board is used for: "mining" or "bench"
  m_pc, m_idx       \* main's loop: "dispatch", "load", "ask" or "test", and the chip

mineVars == <<use, m_pc, m_idx>>
vars     == <<spiVars, itpVars, shaVars, mineVars>>

Init ==
  /\ SpiInit /\ ItpInit /\ ShaInit
  /\ use \in {"mining", "bench"} /\ m_pc = "dispatch" /\ m_idx = 0
  /\ use = "mining" => bench.chips = CHIP_NUMBER

\* miner_gen_nonce2_work: the coinbase, the merkle branches and calc_midstate.
GenWork(len, nmerkles) ==
  <<Dsha(len)>> \o [n \in 1 .. nmerkles |-> Dsha(64)] \o <<Midstate(64)>>

\* test_nonce: the work is made again, then the header of 80 bytes is hashed.
TestNonce(len, nmerkles) == GenWork(len, nmerkles) \o <<Dsha(80)>>

Free == use = "mining" /\ op = "none" /\ calls = <<>>

\* The dispatch loop asks be200_is_idle and makes a work for a chip that takes one.
Dispatch ==
  /\ Free /\ m_pc = "dispatch"
  /\ IF m_idx = CHIP_NUMBER THEN m_pc' = "ask" /\ m_idx' = 0 /\ calls' = calls
     ELSE IF allow[m_idx]
     THEN /\ \E len \in CoinbaseLens, nmerkles \in 0 .. MaxMerkles : calls' = GenWork(len, nmerkles)
          /\ m_pc' = "load" /\ m_idx' = m_idx
     ELSE m_pc' = m_pc /\ m_idx' = m_idx + 1 /\ calls' = calls
  /\ UNCHANGED <<spiVars, itpVars, driverVars, coreVars, use>>

\* be200_send_work.
SendWork ==
  /\ Free /\ m_pc = "load"
  /\ LoadTask(m_idx, Whole(Work))
  /\ m_pc' = "dispatch" /\ m_idx' = m_idx + 1
  /\ UNCHANGED <<chipVars, readVars, faults, itpVars, shaVars, use>>

\* be200_read_result: the next chip; test_nonce for what it returned, up to nine times.
ReadResult ==
  /\ Free /\ m_pc = "ask"
  /\ IF m_idx = CHIP_NUMBER THEN m_pc' = "dispatch" /\ m_idx' = 0 /\ UNCHANGED callVars
     ELSE AskDone(m_idx) /\ m_pc' = "test" /\ m_idx' = m_idx /\ UNCHANGED <<pos, task>>
  /\ UNCHANGED <<chipVars, readVars, faults, itpVars, shaVars, use>>

Test ==
  /\ Free /\ m_pc = "test"
  /\ m_pc' = "ask" /\ m_idx' = m_idx + 1
  /\ IF ~ready THEN calls' = calls
     ELSE \E len \in CoinbaseLens, nmerkles \in 0 .. MaxMerkles : calls' = TestNonce(len, nmerkles)
  /\ ready' = FALSE /\ UNCHANGED <<chipVars, callVars, mask, word, result, faults, itpVars, driverVars, coreVars, use>>

Mine == Dispatch \/ SendWork \/ ReadResult \/ Test

-------------------------------------------------------------------------------
Package == use = "bench" /\ Bench /\ UNCHANGED <<shaVars, mineVars>>
ItpStep == FactoryTest /\ UNCHANGED <<shaVars, mineVars>>

TransferStep ==
  /\ Transfer
  /\ seen' = IF op = "status" /\ use = "bench" THEN {slot[idx][s] : s \in Shown(idx)} ELSE seen
  /\ UNCHANGED <<bench, itp_pc, itp_idx, limit, itp_data, itp_result, idle, shaVars, mineVars>>

HashStep == Sha256Driver /\ UNCHANGED <<spiVars, itpVars, mineVars>>
Core     == CoreDone /\ UNCHANGED <<spiVars, itpVars, mineVars>>

Chip ==
  /\ \E c \in Chips : ChipDone(c) \/ ChipReady(c) \/ \E value \in Nonces(run[c]) : ChipFind(c, value)
  /\ UNCHANGED <<itpVars, shaVars, mineVars>>

Firmware == Mine \/ ItpStep \/ TransferStep \/ HashStep

Next == Package \/ Firmware \/ Core \/ Chip

\* The processor runs and the core finishes its blocks; the chips need not find anything.
Spec == Init /\ [][Next]_vars /\ WF_vars(Firmware) /\ WF_vars(Core)

-------------------------------------------------------------------------------
\* The variables have their types (be200.c, main.c:270-388, sha256.c).
TypeOK ==
  /\ op \in {"none", "clear", "write", "start", "status", "byte", "drop"}
  /\ idx \in Chips /\ pos \in 0 .. TASK_REGS + NONCE_BYTES /\ bare \subseteq Chips
  /\ ready \in BOOLEAN /\ mask \subseteq Slots
  /\ word \in Value /\ result \in Value
  /\ faults \in 0 .. MaxFaults
  /\ itp_pc \in {"loop", "tasks", "results", "verdict"} /\ itp_idx \in 0 .. limit
  /\ itp_result \in Seq({"N", "R", "E"})
  /\ round \in 0 .. Rounds /\ hash_cnt \in 0 .. 7
  /\ i \in 0 .. SHA256_BLOCK_SIZE - 4
  /\ blk \in 1 .. IF sha_pc = "idle" THEN 1 ELSE Len(Blocks(Head(calls)))
  /\ m_pc \in {"dispatch", "load", "ask", "test"} /\ m_idx \in 0 .. CHIP_NUMBER

Port == INSTANCE ChipPort WITH
  running <- run, found <- [c \in Chips |-> {slot[c][s] : s \in Shown(c)}],
  asked <- [chip |-> idx, task |-> task], taken <- result

\* Although a chip goes on hashing between the transfers, it is started on the task that was
\* sent or on a beginning of it, and the nonce returned is one it showed, but for a lost carry
\* (be200.c:64-127).
PortsAtomic == Port!PortSpec

Good(value, expected) == Near(value + 1, expected) /\ ~Port!CarryLost(value)
Judged == itp_pc = "verdict" /\ itp_pc' = "results"

JudgedRight ==
  Judged =>
    LET shown == {nonce.value : nonce \in seen}
        v     == itp_result'[itp_idx + 1]
        first == \A k \in DOMAIN itp_result : itp_result[k] = "N"
    IN /\ (v = "N") <=> (shown = {} /\ ~ready)
       /\ shown = {} /\ v = "R" => first \/ Near(0, itp_data[2])
       /\ (shown # {} /\ \A value \in shown : Good(value, itp_data[2])) => v = "R"
       /\ (shown # {} /\ \A value \in shown : ~Near(value + 1, itp_data[2]) /\ ~Port!CarryLost(value))
            => v # "R"

GoodPasses ==
  Judged =>
    LET t   == Whole(itp_data[2])
        own == {nonce \in seen : nonce.task = t}
    IN itp_idx \in idle /\ run[itp_idx] = t /\ own # {}
         /\ (\A nonce \in own : Good(nonce.value, itp_data[2]))
       => itp_result'[itp_idx + 1] = "R"

\* The verdict on a chip is about what it showed when its status was read: none, or a nonce
\* that is right or wrong.  A chip that is ready without a nonce may pass only where the local
\* has no value yet or 0 would pass; no nonce of one chip speaks for another
\* (main.c:301-330, 359-388).
VerdictRight == [][JudgedRight]_vars

\* A chip that was not hashing when it was loaded, took all of one test and found only the
\* nonce of that test passes (main.c:273-330).
GoodChipPasses == [][GoodPasses]_vars

\* Nothing waits for the core or the chips for ever (sha256.c:34, 117; main.c:273-388).
Busy     == calls # <<>> \/ itp_pc # "loop"
WaitsEnd == Busy ~> ~Busy
===============================================================================

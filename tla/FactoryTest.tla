----------------------------- MODULE FactoryTest -----------------------------
(***************************************************************************)
(* The factory test packages of decode_pkg (main.c): a test bench sends a  *)
(* task in two halves, the second with the nonce it should give, which     *)
(* starts all chips on it, or the first ones only, and asks for the        *)
(* verdicts.  Packages may be lost (MaxFaults bounds these faults too).    *)
(*                                                                         *)
(* A test is named by the nonce of its task.                               *)
(***************************************************************************)
EXTENDS Be200Spi, Sequences

CONSTANTS
  Tests,            \* the tests: their nonces
  HALF_REGS,        \* registers in the first half of a task (24)
  SINGLE_CHIPS,     \* chips of a single test (16)
  Errors,           \* how far the chips' registers may be from the nonce, less one
  Noise,            \* values of other nonces
  Unset,            \* what an uninitialised local may hold
  MaxTests          \* bound on the tests the bench makes

ASSUME TestAssumption ==
  /\ Tests \subseteq Value /\ Tests # {} /\ Noise \subseteq Value /\ Unset \subseteq Value
  /\ Errors \subseteq Int /\ \A test \in Tests, e \in Errors : test - 1 + e \in Value
  /\ HALF_REGS \in Regs /\ SINGLE_CHIPS \in 1 .. CHIP_NUMBER /\ MaxTests \in Nat

VARIABLES
  bench,            \* the bench: its next package, test and chips, and what it did before
  itp_pc,           \* "loop", "tasks", "results" or "verdict"
  itp_idx, limit,   \* the loop over the chips
  itp_data,         \* the two halves received last
  itp_result,       \* the verdicts so far: "R" right, "E" wrong, "N" none
  seen,             \* history: the nonces the chip showed when its status was read
  idle              \* history: the chips that were not hashing when they were loaded

itpVars == <<bench, itp_pc, itp_idx, limit, itp_data, itp_result, seen, idle>>

TaskOf(data) == [r \in Regs |-> IF r < HALF_REGS THEN data[1] ELSE data[2]]
Whole(t)     == [r \in Regs |-> t]

\* What a chip can find: near the nonce of a whole task, and anything else.
Nonces(t) == {test - 1 + e : test \in {u \in Tests : t = Whole(u)}, e \in Errors} \cup Noise

ItpInit ==
  /\ \E chips \in {SINGLE_CHIPS, CHIP_NUMBER} :
       bench = [next |-> 1, test |-> Lowest(Tests), chips |-> chips, tests |-> 0]
  /\ itp_pc = "loop" /\ itp_idx = 0 /\ limit = 0
  /\ itp_data = <<NoByte, NoByte>> /\ itp_result = <<>>
  /\ seen = {} /\ idle = {}

-------------------------------------------------------------------------------
\* The bench: the packages 1 and 2 of a task, 3 the result; then the next test.
BenchGoesOn ==
  /\ bench.tests < MaxTests
  /\ IF bench.next < 3 THEN bench' = [bench EXCEPT !.next = @ + 1]
     ELSE \E test \in Tests : bench' = [bench EXCEPT !.next = 1, !.test = test, !.tests = @ + 1]

\* Half of a task is lost.
LosePkg ==
  /\ bench.next < 3 /\ BenchGoesOn
  /\ faults < MaxFaults /\ faults' = faults + 1
  /\ UNCHANGED <<chipVars, callVars, readVars, itp_pc, itp_idx, limit, itp_data, itp_result,
                 seen, idle>>

\* P_ITP_TASK and P_ITP_SINGLE_TASK: a half is kept; the second one starts the chips, at
\* the default frequency, whatever the first one was.
ItpTask ==
  /\ itp_pc = "loop" /\ bench.next < 3 /\ BenchGoesOn
  /\ itp_data' = [itp_data EXCEPT ![bench.next] = bench.test]
  /\ IF bench.next = 2 THEN itp_pc' = "tasks" /\ limit' = bench.chips
                       ELSE UNCHANGED <<itp_pc, limit>>
  /\ UNCHANGED <<spiVars, itp_idx, itp_result, seen, idle>>

ItpLoad ==
  /\ itp_pc = "tasks" /\ op = "none" /\ itp_idx < limit
  /\ LoadTask(itp_idx, TaskOf(itp_data))
  /\ idle' = IF allow[itp_idx] THEN idle \cup {itp_idx} ELSE idle \ {itp_idx}
  /\ itp_idx' = itp_idx + 1
  /\ UNCHANGED <<chipVars, readVars, faults, bench, itp_pc, limit, itp_data, itp_result, seen>>

\* P_ITP_RESULT and P_ITP_SINGLE_RESULT: actual_nonce is a local without a value.
ItpResult ==
  /\ itp_pc = "loop" /\ bench.next = 3 /\ BenchGoesOn
  /\ itp_pc' = "results" /\ limit' = bench.chips /\ result' \in Unset
  /\ UNCHANGED <<chipVars, callVars, ready, mask, word, faults, itp_idx, itp_data, itp_result,
                 seen, idle>>

ItpAsk ==
  /\ itp_pc = "results" /\ op = "none" /\ itp_idx < limit
  /\ AskDone(itp_idx) /\ itp_pc' = "verdict"
  /\ UNCHANGED <<chipVars, pos, task, readVars, faults, bench, itp_idx, limit, itp_data,
                 itp_result, seen, idle>>

\* actual_nonce is within 4 of expected_nonce, modulo the width of a nonce.
Near(actual, expected) ==
  LET width == BYTE^NONCE_BYTES
      diff  == (actual - expected) % width
  IN diff <= 4 \/ diff >= width - 4

\* The verdict on a chip that is ready, a second CLEAR, and actual_nonce = 0.  Without a nonce
\* bit actual_nonce is what it was.  The first form is a mutant that leaves it.
VerdictKept ==
  /\ itp_pc = "verdict" /\ op = "none"
  /\ itp_result' = Append(itp_result,
       IF ~ready THEN "N" ELSE IF Near(result, itp_data[2]) THEN "R" ELSE "E")
  /\ IF ~ready THEN UNCHANGED <<slot, bare, result>>
     ELSE slot' = [slot EXCEPT ![itp_idx] = Empty] /\ bare' = bare \ {itp_idx} /\ result' = result
  /\ itp_idx' = itp_idx + 1 /\ itp_pc' = "results" /\ seen' = {} /\ ready' = FALSE
  /\ UNCHANGED <<reg, run, allow, callVars, mask, word, faults, bench, limit, itp_data, idle>>
Verdict ==
  /\ itp_pc = "verdict" /\ op = "none"
  /\ itp_result' = Append(itp_result,
       IF ~ready THEN "N" ELSE IF Near(result, itp_data[2]) THEN "R" ELSE "E")
  /\ IF ~ready THEN UNCHANGED <<slot, bare, result>>
     ELSE slot' = [slot EXCEPT ![itp_idx] = Empty] /\ bare' = bare \ {itp_idx} /\ result' = 0
  /\ itp_idx' = itp_idx + 1 /\ itp_pc' = "results" /\ seen' = {} /\ ready' = FALSE
  /\ UNCHANGED <<reg, run, allow, callVars, mask, word, faults, bench, limit, itp_data, idle>>

\* The loop over the chips ends; the verdicts are written to the bench.  The first form is a
\* mutant that leaves chip_idx.
ItpEndKept ==
  /\ itp_pc \in {"tasks", "results"} /\ op = "none" /\ itp_idx = limit
  /\ itp_pc' = "loop" /\ itp_idx' = itp_idx /\ limit' = 0 /\ itp_result' = <<>>
  /\ UNCHANGED <<spiVars, bench, itp_data, seen, idle>>
ItpEnd ==
  /\ itp_pc \in {"tasks", "results"} /\ op = "none" /\ itp_idx = limit
  /\ itp_pc' = "loop" /\ itp_idx' = 0 /\ limit' = 0 /\ itp_result' = <<>>
  /\ UNCHANGED <<spiVars, bench, itp_data, seen, idle>>

Bench       == LosePkg \/ ItpTask \/ ItpResult
FactoryTest == ItpLoad \/ ItpAsk \/ Verdict \/ ItpEnd
===============================================================================

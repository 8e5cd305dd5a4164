---------------------------- MODULE MinerManager ----------------------------
(***************************************************************************)
(* The Miner Manager firmware (firmware/main.c): one main loop that takes  *)
(* packages from the host, hands work to the BE200 chips, collects their   *)
(* nonces in a ring and gives them to the host when it polls.  The host is *)
(* arbitrary here: any package of the mining protocol may arrive whenever  *)
(* get_pkg looks for one (the packages of the factory test are left out).  *)
(***************************************************************************)
EXTENDS Ring, FiniteSets

CONSTANTS
  CHIP_NUMBER,   \* the chips are 0..CHIP_NUMBER-1
  MM_BUF_NUM,    \* number of job slots
  RING_SIZE,     \* BE200_RET_RINGBUFFER_SIZE_RX
  NONCE2_SIZE,   \* nonce2 counts modulo this, 2^32 in the code
  RESET_LIMIT,   \* bad nonces before all chips are reset
  Jobs, NoJob,   \* the stratum jobs, and the zeroes of a slot never written
  CoinbasePkts, MerklesPkts, HeaderPkts,  \* packages one job takes of each type
  Pwms, Freqs, Nonce2Offsets, Nonce2Ranges,  \* what a P_SET may carry
  Readiness,     \* what a chip may show with its ready bit, see ChipFind
  MaxSets,       \* bound: P_SETs handled after each start
  MaxFinds,      \* bound: nonces the chips ever find
  MaxReads,      \* bound: reads before a ready bit without a nonce bit goes away
  MaxRestarts    \* bound: watchdog resets

ASSUME SizeAssumption ==
  /\ CHIP_NUMBER \in Nat \ {0} /\ MM_BUF_NUM \in Nat \ {0, 1}
  /\ RING_SIZE \in Nat \ {0, 1} /\ NONCE2_SIZE \in Nat \ {0} /\ RESET_LIMIT \in Nat \ {0}
  /\ CoinbasePkts \in Nat /\ MerklesPkts \in Nat /\ HeaderPkts \in Nat
ASSUME InputAssumption ==
  /\ NoJob \notin Jobs
  /\ Pwms \subseteq Int /\ Freqs \subseteq Nat
  /\ Nonce2Offsets \subseteq Nat /\ Nonce2Ranges \subseteq Nat
  /\ Readiness \subseteq {"nonce", "bad", "nomask"}
ASSUME BoundAssumption == MaxSets \in Nat /\ MaxFinds \in Nat /\ MaxReads \in Nat /\ MaxRestarts \in Nat

Chips == 0 .. CHIP_NUMBER - 1
Slots == 0 .. MM_BUF_NUM - 1
Nonce2 == 0 .. NONCE2_SIZE - 1

\* What a job package fills: the package's type and its number within the type.
STATIC == <<"STATIC", 1>>
JOB_ID == <<"JOB_ID", 1>>
TARGET == <<"TARGET", 1>>
Coinbase == {"COINBASE"} \X (1 .. CoinbasePkts)
WorkFields == Coinbase \cup ({"MERKLES"} \X (1 .. MerklesPkts)) \cup ({"HEADER"} \X (1 .. HeaderPkts))
Fields == {STATIC, JOB_ID, TARGET} \cup WorkFields

\* A slot's content names, for every field, the job whose package filled it last.
Work == [Fields -> Jobs \cup {NoJob}]
EmptyWork == [f \in Fields |-> NoJob]

(***************************************************************************)
(* What a chip hashes: the work's fields, its nonce2 and the number of the *)
(* P_SET it was made under.                                                *)
(***************************************************************************)
Task == [set : Nat, nonce2 : Nonce2, work : Work]
NoTask == [set |-> 0, nonce2 |-> 0, work |-> EmptyWork]

\* A nonce as an event: the task it is a nonce of, and its number among all found.
Find == [task : Task, id : Nat]
NoFind == [task |-> NoTask, id |-> 0]

\* What miner_status notes of a chip's task, and an element of the result ring;
\* "of" is not in the code: the find the element stands for.
Tag == [nonce2 : Nonce2, mm_idx : Slots]
Result == [idx : Chips, nonce2 : Nonce2, mm_idx : Slots, of : Find]
NoResult == [idx |-> 0, nonce2 |-> 0, mm_idx |-> 0, of |-> NoFind]

NONCE_HW == 0      \* the hash does not start with 32 zero bits
NONCE_VALID == 1   \* it does, and is not below the pool's target
NONCE_DIFF == 2    \* it is below the target

BE200_DEFAULT_FREQ == 280
Mult(freq) == freq \div 10 - 1     \* the PLL setting for a frequency

VARIABLES
  pc,             \* where the main loop is
  idx,            \* its chip counter
  found,          \* be200_read_result's local of that name
  g_new_stratum, g_cur_mm_idx,
  g_mm_works,     \* slot -> Work
  mm_nonce2,      \* slot -> the slot's nonce2
  miner_status,   \* chip -> Tag
  be200_result_buff, be200_ret_produce, be200_ret_consume,
  g_local_work, g_hw_work, reset_flag,
  timer0,         \* does the idle timer still run
  fan,            \* adjust_fan's static value, and the PWM register
  g_asic_freq,
  pll,            \* chip -> its PLL setting
  chip,           \* the BE200 chips
  reply,          \* the package this step sends to the host, if any
  activated,      \* history: the work each P_SET since the start made current
  finds, restarts \* counters for the bounds

loopVars == <<pc, idx, found>>
jobVars == <<g_new_stratum, g_cur_mm_idx, g_mm_works, mm_nonce2, activated>>
ringVars == <<be200_result_buff, be200_ret_produce, be200_ret_consume>>
countVars == <<g_local_work, g_hw_work, reset_flag>>
boardVars == <<timer0, fan, g_asic_freq, pll>>
chipVars == <<chip, miner_status, finds>>
vars == <<loopVars, jobVars, ringVars, countVars, boardVars, chipVars, reply, restarts>>

-----------------------------------------------------------------------------
\* adjust_fan: nothing when the value did not change, else clamp and write.
Clamp(pwm) == IF pwm < 0 THEN 0 ELSE IF pwm > 1023 THEN 1023 ELSE pwm
\* A mutant: the value is remembered before it is clamped.
AdjustFanUnclamped(f, pwm) ==
  IF f.value = pwm THEN f ELSE [value |-> pwm, reg |-> Clamp(pwm)]
AdjustFan(f, pwm) ==
  IF f.value = pwm THEN f ELSE [value |-> Clamp(pwm), reg |-> Clamp(pwm)]

\* The loops over freq_write.  A mutant of them writes to the first chip only.
SetFirstPll(freq) == [i \in Chips |-> Mult(IF i = 0 THEN freq ELSE BE200_DEFAULT_FREQ)]
SetPll(freq) == [i \in Chips |-> Mult(freq)]

ChipReset == [allow |-> TRUE, ready |-> "no", task |-> NoTask, src |-> NoFind]
IdleChips == [i \in Chips |-> ChipReset]

\* The packages of a job go to the slot after the current one (a mutant: to the current).
SameSlot == g_cur_mm_idx
NextSlot == (g_cur_mm_idx + 1) % MM_BUF_NUM

\* The slot that became current d P_SETs ago, d < MM_BUF_NUM.
SlotAt(d) == IF d <= g_cur_mm_idx THEN g_cur_mm_idx - d ELSE g_cur_mm_idx - d + MM_BUF_NUM

Queue == RingQueue(RING_SIZE, be200_result_buff, be200_ret_produce, be200_ret_consume)

Init ==
  /\ pc = "pkg" /\ idx = 0 /\ found = FALSE
  /\ g_new_stratum = 0 /\ g_cur_mm_idx = 0
  /\ g_mm_works = [s \in Slots |-> EmptyWork]
  /\ mm_nonce2 = [s \in Slots |-> 0]
  /\ miner_status = [i \in Chips |-> [nonce2 |-> 0, mm_idx |-> 0]]
  /\ be200_result_buff = [c \in 0 .. RING_SIZE - 1 |-> NoResult]
  /\ be200_ret_produce = 0 /\ be200_ret_consume = 0
  /\ g_local_work = 0 /\ g_hw_work = 0 /\ reset_flag = 0
  /\ timer0 = FALSE
  /\ fan = AdjustFan([value |-> 1023, reg |-> 0], 200)
  /\ g_asic_freq = BE200_DEFAULT_FREQ /\ pll = SetPll(BE200_DEFAULT_FREQ)
  /\ chip = IdleChips
  /\ reply = [type |-> "none"]
  /\ activated = <<>> /\ finds = 0 /\ restarts = 0

\* A step sends one package to the host, or none.
Send(pkg) == reply' = pkg /\ restarts' = restarts
Quiet == Send([type |-> "none"])

-----------------------------------------------------------------------------
(***************************************************************************)
(* get_pkg, at the top of the main loop and after every dispatch: it       *)
(* handles packages for as long as bytes are waiting.                      *)
(***************************************************************************)
InGetPkg == pc \in {"pkg", "pkg_send"}

\* P_DETECT stops the mining and is answered with the version.
Detect ==
  /\ InGetPkg
  /\ g_new_stratum' = 0
  /\ Send([type |-> "ACKDETECT"])
  /\ UNCHANGED <<g_cur_mm_idx, g_mm_works, mm_nonce2, activated, loopVars, ringVars, countVars,
                 boardVars, chipVars>>

(***************************************************************************)
(* P_STATIC, P_JOB_ID, P_TARGET, P_COINBASE, P_MERKLES, P_HEADER: copy the *)
(* package's data to the next slot.  The first coinbase package clears the *)
(* whole coinbase before.                                                  *)
(***************************************************************************)
Filled(w, f, job) ==
  [g \in Fields |-> IF g = f THEN job
                    ELSE IF f = <<"COINBASE", 1>> /\ g \in Coinbase THEN NoJob
                    ELSE w[g]]

Store(f, job) ==
  /\ InGetPkg
  /\ g_mm_works' = [g_mm_works EXCEPT ![NextSlot] = Filled(@, f, job)]
  /\ Quiet
  /\ UNCHANGED <<g_new_stratum, g_cur_mm_idx, mm_nonce2, activated, loopVars, ringVars,
                 countVars, boardVars, chipVars>>

(***************************************************************************)
(* P_SET: start the idle timer, set the fan and, if it changed, the        *)
(* frequency of every chip, and make the next slot the current one.        *)
(***************************************************************************)
Set(pwm, freq, offset, range) ==
  /\ InGetPkg /\ Len(activated) < MaxSets
  /\ timer0' = TRUE
  /\ fan' = AdjustFan(fan, pwm)
  /\ IF freq > 100 /\ freq <= 750 /\ freq # g_asic_freq
       THEN pll' = SetPll(freq) /\ g_asic_freq' = freq
       ELSE UNCHANGED <<pll, g_asic_freq>>
  /\ mm_nonce2' = [mm_nonce2 EXCEPT ![NextSlot] = (offset + range) % NONCE2_SIZE]
  /\ g_cur_mm_idx' = NextSlot
  /\ g_new_stratum' = 1
  /\ activated' = Append(activated, g_mm_works[NextSlot])
  /\ Quiet
  /\ UNCHANGED <<g_mm_works, loopVars, ringVars, countVars, chipVars>>

\* P_POLLING with nothing to report: send the status and start the counts anew.
PollStatus ==
  /\ InGetPkg /\ be200_ret_consume = be200_ret_produce
  /\ Send([type |-> "STATUS"])
  /\ g_local_work' = 0 /\ g_hw_work' = 0
  /\ UNCHANGED <<reset_flag, loopVars, jobVars, ringVars, boardVars, chipVars>>

(***************************************************************************)
(* P_POLLING with a result waiting: send it, with the pool number and the  *)
(* job id its slot holds now.  "result" and "age" are not in the package:  *)
(* the ring's element and the number of P_SETs handled since its work's.   *)
(***************************************************************************)
NonceReply(e) ==
  [type |-> "NONCE", pool_no |-> g_mm_works[e.mm_idx][STATIC],
   job_id |-> g_mm_works[e.mm_idx][JOB_ID], result |-> e,
   age |-> Len(activated) - e.of.task.set]

\* The oldest result; a mutant advances the index before it reads.
RetAfterHead == be200_result_buff[RingNext(RING_SIZE, be200_ret_consume)]
RetHead == be200_result_buff[be200_ret_consume]

\* A mutant of PollNonce: the result stays in the ring.
PollNonceKept ==
  /\ InGetPkg /\ be200_ret_consume # be200_ret_produce
  /\ Send(NonceReply(RetHead))
  /\ UNCHANGED <<ringVars, loopVars, jobVars, countVars, boardVars, chipVars>>

PollNonce ==
  /\ InGetPkg /\ be200_ret_consume # be200_ret_produce
  /\ be200_ret_consume' = RingNext(RING_SIZE, be200_ret_consume)
  /\ Send(NonceReply(RetHead))
  /\ UNCHANGED <<be200_result_buff, be200_ret_produce, loopVars, jobVars, countVars, boardVars,
                 chipVars>>

\* P_REQUIRE: the status, whatever waits, and the counts go on.
Require ==
  /\ InGetPkg
  /\ Send([type |-> "STATUS"])
  /\ UNCHANGED <<loopVars, jobVars, ringVars, countVars, boardVars, chipVars>>

Receive ==
  \/ Detect \/ Require \/ PollStatus \/ PollNonce
  \/ \E f \in Fields, job \in Jobs : Store(f, job)
  \/ \E pwm \in Pwms, freq \in Freqs, offset \in Nonce2Offsets, range \in Nonce2Ranges :
       Set(pwm, freq, offset, range)

\* The for loops over the chips: on to the next chip, or to what follows (a mutant
\* stops before the last).
NextButLast(again, after) ==
  IF idx + 2 < CHIP_NUMBER THEN pc' = again /\ idx' = idx + 1
                           ELSE pc' = after /\ idx' = 0
NextChip(again, after) ==
  IF idx + 1 < CHIP_NUMBER THEN pc' = again /\ idx' = idx + 1
                           ELSE pc' = after /\ idx' = 0

\* No more bytes, or a package whose CRC is wrong: get_pkg returns.
GetPkgReturn ==
  /\ \/ pc = "pkg" /\ pc' = "main" /\ UNCHANGED idx
     \/ pc = "pkg_send" /\ NextChip("send", "read")
  /\ Quiet
  /\ UNCHANGED <<found, jobVars, ringVars, countVars, boardVars, chipVars>>

-----------------------------------------------------------------------------
(***************************************************************************)
(* The rest of the main loop.                                              *)
(***************************************************************************)
\* No P_SET for IDLE_TIME seconds (a mutant: looked for only when nothing is mined).
IdleWhenStopped == ~timer0 /\ g_new_stratum = 0
Idle == ~timer0 /\ g_new_stratum = 1

\* Then stop, and forget the results not yet polled.
IdleTimeout ==
  /\ pc = "main" /\ Idle
  /\ g_new_stratum' = 0
  /\ be200_ret_produce' = 0 /\ be200_ret_consume' = 0
  /\ fan' = AdjustFan(fan, 200)
  /\ pc' = "pkg"
  /\ Quiet
  /\ UNCHANGED <<idx, found, g_cur_mm_idx, g_mm_works, mm_nonce2, activated,
                 be200_result_buff, countVars, timer0, g_asic_freq, pll, chipVars>>

MainLoop ==
  /\ pc = "main" /\ ~Idle
  /\ pc' = IF g_new_stratum = 1 THEN "send" ELSE "pkg"
  /\ Quiet
  /\ UNCHANGED <<idx, found, jobVars, ringVars, countVars, boardVars, chipVars>>

\* be200_send_work: clear what the chip holds, write the task, start, note the tag.
\* A mutant leaves the clearing out.
SendWorkUncleared(i, task, slot) ==
  /\ chip' = [chip EXCEPT ![i].allow = FALSE, ![i].task = task]
  /\ miner_status' = [miner_status EXCEPT ![i] = [nonce2 |-> task.nonce2, mm_idx |-> slot]]
SendWork(i, task, slot) ==
  /\ chip' = [chip EXCEPT ![i] = [allow |-> FALSE, ready |-> "no", task |-> task, src |-> NoFind]]
  /\ miner_status' = [miner_status EXCEPT ![i] = [nonce2 |-> task.nonce2, mm_idx |-> slot]]

\* An idle chip gets the current slot's work with the next nonce2.
Dispatch ==
  /\ pc = "send" /\ chip[idx].allow
  /\ LET n == (mm_nonce2[g_cur_mm_idx] + 1) % NONCE2_SIZE
     IN  /\ mm_nonce2' = [mm_nonce2 EXCEPT ![g_cur_mm_idx] = n]
         /\ SendWork(idx, [set |-> Len(activated), nonce2 |-> n,
                           work |-> g_mm_works[g_cur_mm_idx]], g_cur_mm_idx)
  /\ pc' = "pkg_send"
  /\ Quiet
  /\ UNCHANGED <<idx, found, g_new_stratum, g_cur_mm_idx, g_mm_works, activated,
                 ringVars, countVars, boardVars, finds>>

SkipBusy ==
  /\ pc = "send" /\ ~chip[idx].allow
  /\ NextChip("send", "read")
  /\ Quiet
  /\ UNCHANGED <<found, jobVars, ringVars, countVars, boardVars, chipVars>>

-----------------------------------------------------------------------------
(***************************************************************************)
(* be200_read_result, one chip at a time.                                  *)
(***************************************************************************)
(***************************************************************************)
(* What test_nonce may answer for chip i.  It tests the tag's nonce2       *)
(* against what the tag's slot holds now, so a nonce passes only if the    *)
(* chip hashed the same data.  Without a nonce bit be200_get_result leaves *)
(* the local "nonce" as it was, uninitialised or the nonce read before.    *)
(***************************************************************************)
SameWork(w1, w2) == \A f \in WorkFields : w1[f] = w2[f]
Hashed(i) ==
  /\ chip[i].src.task.nonce2 = miner_status[i].nonce2
  /\ SameWork(chip[i].src.task.work, g_mm_works[miner_status[i].mm_idx])
TestNonce(i) ==
  IF chip[i].ready = "nomask" THEN {NONCE_HW, NONCE_VALID, NONCE_DIFF}
  ELSE IF chip[i].ready = "nonce" /\ Hashed(i) THEN {NONCE_VALID, NONCE_DIFF}
  ELSE {NONCE_HW}

\* be200_get_result: the CLEAR that follows the read, and is left out without a nonce bit:
\* the bit then stays for the next pass, up to MaxReads (a mutant: always left out).
GetUncleared(c) == c
GetResult(c) ==
  IF c.ready = "nomask" /\ g_local_work < MaxReads
    THEN c ELSE [c EXCEPT !.ready = "no", !.src = NoFind]

AfterRead ==
  /\ NextChip("read", "pkg")
  /\ Quiet
  /\ UNCHANGED <<jobVars, timer0, fan, g_asic_freq, miner_status, finds>>

\* A mutant of ReadNothing: break instead of continue.
ReadNothingBreaks ==
  /\ pc = "read" /\ chip[idx].ready = "no"
  /\ pc' = "pkg" /\ idx' = 0 /\ found' = FALSE
  /\ Quiet
  /\ UNCHANGED <<jobVars, ringVars, countVars, boardVars, chipVars>>

ReadNothing ==
  /\ pc = "read" /\ chip[idx].ready = "no"
  /\ found' = (found /\ idx + 1 < CHIP_NUMBER)
  /\ AfterRead /\ UNCHANGED <<ringVars, countVars, pll, chip>>

\* A nonce below the target goes into the ring; nothing looks whether it is full.
ReadValid ==
  /\ pc = "read" /\ chip[idx].ready # "no" /\ NONCE_DIFF \in TestNonce(idx)
  /\ be200_result_buff' = [be200_result_buff EXCEPT ![be200_ret_produce] =
                             [idx |-> idx, nonce2 |-> miner_status[idx].nonce2,
                              mm_idx |-> miner_status[idx].mm_idx, of |-> chip[idx].src]]
  /\ be200_ret_produce' = RingNext(RING_SIZE, be200_ret_produce)
  /\ g_local_work' = g_local_work + 1
  /\ chip' = [chip EXCEPT ![idx] = GetResult(@)]
  /\ found' = (idx + 1 < CHIP_NUMBER)
  /\ AfterRead /\ UNCHANGED <<be200_ret_consume, g_hw_work, reset_flag, pll>>

(***************************************************************************)
(* Any other nonce is a hardware error, unless an earlier chip of the pass *)
(* had a good one ("found" is never cleared within a pass); RESET_LIMIT of *)
(* them reset every chip and its frequency.                                *)
(***************************************************************************)
ReadBad(check) ==
  /\ pc = "read" /\ chip[idx].ready # "no" /\ check \in TestNonce(idx) \ {NONCE_DIFF}
  /\ g_local_work' = g_local_work + 1
  /\ g_hw_work' = IF found THEN g_hw_work ELSE g_hw_work + 1
  /\ LET reset == ~found /\ reset_flag + 1 >= RESET_LIMIT
     IN  /\ reset_flag' = IF reset THEN 0 ELSE IF found THEN reset_flag ELSE reset_flag + 1
         /\ chip' = IF reset THEN IdleChips ELSE [chip EXCEPT ![idx] = GetResult(@)]
         /\ pll' = IF reset THEN SetPll(BE200_DEFAULT_FREQ) ELSE pll
  /\ found' = (found /\ idx + 1 < CHIP_NUMBER)
  /\ AfterRead /\ UNCHANGED ringVars

-----------------------------------------------------------------------------
(***************************************************************************)
(* Around the firmware: the chips, the idle timer and the watchdog.        *)
(***************************************************************************)
(***************************************************************************)
(* A chip at work shows a nonce of its task, or a bad one (it miscounted,  *)
(* or a register did not take what be200_input_task wrote: the result of   *)
(* that call is not looked at), or the ready bit without a nonce bit; src  *)
(* then stands for whatever nonce be200_read_result takes it for.          *)
(***************************************************************************)
ChipFind(i, ready) ==
  /\ ~chip[i].allow /\ chip[i].ready = "no" /\ finds < MaxFinds
  /\ chip' = [chip EXCEPT ![i].ready = ready, ![i].src = [task |-> chip[i].task, id |-> finds + 1]]
  /\ finds' = finds + 1
  /\ Quiet
  /\ UNCHANGED <<miner_status, loopVars, jobVars, ringVars, countVars, boardVars>>

\* It has tried every nonce, or would take the next task for another reason.
ChipDone(i) ==
  /\ ~chip[i].allow
  /\ chip' = [chip EXCEPT ![i].allow = TRUE, ![i].task = NoTask]
  /\ Quiet
  /\ UNCHANGED <<miner_status, finds, loopVars, jobVars, ringVars, countVars, boardVars>>

TimerExpires ==
  /\ timer0 /\ timer0' = FALSE
  /\ Quiet
  /\ UNCHANGED <<fan, g_asic_freq, pll, loopVars, jobVars, ringVars, countVars, chipVars>>

(***************************************************************************)
(* The watchdog bites while get_pkg waits for the rest of a package: the   *)
(* CPU and the peripherals are reset, .bss is cleared, .data is not loaded *)
(* again (so g_asic_freq and adjust_fan's value stay) and main starts.     *)
(***************************************************************************)
Restart ==
  /\ InGetPkg /\ restarts < MaxRestarts
  /\ restarts' = restarts + 1
  /\ pc' = "pkg" /\ idx' = 0 /\ found' = FALSE
  /\ g_new_stratum' = 0 /\ g_cur_mm_idx' = 0 /\ activated' = <<>>
  /\ g_mm_works' = [s \in Slots |-> EmptyWork]
  /\ mm_nonce2' = [s \in Slots |-> 0]
  /\ miner_status' = [i \in Chips |-> [nonce2 |-> 0, mm_idx |-> 0]]
  /\ be200_result_buff' = [c \in 0 .. RING_SIZE - 1 |-> NoResult]
  /\ be200_ret_produce' = 0 /\ be200_ret_consume' = 0
  /\ g_local_work' = 0 /\ g_hw_work' = 0 /\ reset_flag' = 0
  /\ timer0' = FALSE
  /\ fan' = AdjustFan([fan EXCEPT !.reg = 0], 200)
  /\ g_asic_freq' = g_asic_freq /\ pll' = SetPll(BE200_DEFAULT_FREQ)
  /\ chip' = IdleChips /\ finds' = finds
  /\ reply' = [type |-> "none"]

Firmware ==
  \/ GetPkgReturn \/ IdleTimeout \/ MainLoop \/ Dispatch \/ SkipBusy
  \/ ReadNothing \/ ReadValid \/ \E check \in {NONCE_HW, NONCE_VALID} : ReadBad(check)

Environment ==
  \/ \E i \in Chips : ChipDone(i) \/ \E ready \in Readiness : ChipFind(i, ready)
  \/ TimerExpires \/ Restart

Next == Receive \/ Firmware \/ Environment

Spec == Init /\ [][Next]_vars

-----------------------------------------------------------------------------
(***************************************************************************)
(* Properties.                                                             *)
(***************************************************************************)
Chip == [allow : BOOLEAN, ready : Readiness \cup {"no"}, task : Task, src : Find]
Reply ==
  [type : {"none", "ACKDETECT", "STATUS"}]
    \cup [type : {"NONCE"}, pool_no : Jobs \cup {NoJob}, job_id : Jobs \cup {NoJob},
          result : Result, age : Int]

Fan == [value : 0 .. 1023, reg : 0 .. 1023]
Cells == 0 .. RING_SIZE - 1

LoopType == pc \in {"pkg", "main", "send", "pkg_send", "read"} /\ idx \in Chips /\ found \in BOOLEAN
JobType ==
  /\ g_new_stratum \in {0, 1} /\ g_cur_mm_idx \in Slots
  /\ g_mm_works \in [Slots -> Work] /\ mm_nonce2 \in [Slots -> Nonce2]
  /\ activated \in Seq(Work)
RingType ==
  /\ be200_result_buff \in [Cells -> Result]
  /\ be200_ret_produce \in Cells /\ be200_ret_consume \in Cells
CountType == g_local_work \in Nat /\ g_hw_work \in Nat /\ reset_flag \in 0 .. RESET_LIMIT - 1
BoardType == timer0 \in BOOLEAN /\ fan \in Fan /\ g_asic_freq \in Nat /\ pll \in [Chips -> Int]
ChipType == chip \in [Chips -> Chip] /\ miner_status \in [Chips -> Tag] /\ finds \in Nat

\* Every variable has its type, the static variables of main.c their ranges.
TypeOK ==
  /\ LoopType /\ JobType /\ RingType /\ CountType /\ BoardType /\ ChipType
  /\ reply \in Reply /\ restarts \in Nat

\* How many P_SETs were handled since the one a task was made under.
Age(task) == Len(activated) - task.set

(***************************************************************************)
(* A task is in the window when its slot has not been opened to new        *)
(* packages since: fewer than MM_BUF_NUM - 1 P_SETs after its own.         *)
(***************************************************************************)
InWindow(task) == task.set > 0 /\ Age(task) < MM_BUF_NUM - 1

(***************************************************************************)
(* The slots of the last MM_BUF_NUM - 1 P_SETs hold what those P_SETs made *)
(* current: whatever the host sends, decode_pkg writes to none of them.    *)
(***************************************************************************)
SlotsKept ==
  \A d \in 0 .. MM_BUF_NUM - 2 :
    d < Len(activated) => g_mm_works[SlotAt(d)] = activated[Len(activated) - d]

(***************************************************************************)
(* A nonce a chip shows comes from the task miner_status describes: the    *)
(* CLEAR of be200_send_work leaves no nonce of the task before, and the    *)
(* tag names the nonce2 and, in the window, the slot of the task's work.   *)
(***************************************************************************)
Describes(tag, task) ==
  InWindow(task) =>
    /\ tag.nonce2 = task.nonce2 /\ tag.mm_idx = SlotAt(Age(task))
    /\ task.work = g_mm_works[tag.mm_idx]

NonceTagged ==
  \A i \in Chips : chip[i].ready = "nonce" => Describes(miner_status[i], chip[i].src.task)

\* The results that wait in the ring are as well described by their own tags.
ResultsTagged ==
  \A k \in 1 .. Len(Queue) :
    Describes([nonce2 |-> Queue[k].nonce2, mm_idx |-> Queue[k].mm_idx], Queue[k].of.task)

(***************************************************************************)
(* What be200_polling reports of a result in the window is the pool, the   *)
(* job and the nonce2 of the work the nonce was found for, although it     *)
(* reads the pool and the job from the slot only now.                      *)
(***************************************************************************)
ReplyRight ==
  reply.type = "NONCE" /\ reply.age < MM_BUF_NUM - 1 =>
    LET task == reply.result.of.task
    IN  /\ reply.pool_no = task.work[STATIC] /\ reply.job_id = task.work[JOB_ID]
        /\ reply.result.nonce2 = task.nonce2

(***************************************************************************)
(* A nonce is given to the host at most once: it is on a chip, in the ring *)
(* or sent, never in two places and never twice in the ring.  Only the     *)
(* CLEAR in be200_get_result keeps the next pass from reading it again, so *)
(* this needs chips that never show the ready bit without a nonce bit.     *)
(***************************************************************************)
OncePerNonce ==
  /\ \A j, k \in 1 .. Len(Queue) : Queue[j].of.id = Queue[k].of.id => j = k
  /\ \A i \in Chips, k \in 1 .. Len(Queue) :
       chip[i].ready = "nonce" => chip[i].src.id # Queue[k].of.id
  /\ reply.type = "NONCE" =>
       /\ \A k \in 1 .. Len(Queue) : Queue[k].of.id # reply.result.of.id
       /\ \A i \in Chips : chip[i].ready = "nonce" => chip[i].src.id # reply.result.of.id

(***************************************************************************)
(* All chips run at one frequency: the one the firmware thinks it set, or, *)
(* after a reset of the chips, the default.                                *)
(***************************************************************************)
OneFrequency ==
  \E freq \in {g_asic_freq, BE200_DEFAULT_FREQ} : \A i \in Chips : pll[i] = Mult(freq)

(***************************************************************************)
(* The PWM register holds the value adjust_fan remembers, but after a      *)
(* restart that found 200 remembered: then it stays zero.                  *)
(***************************************************************************)
FanRemembered == fan.reg = fan.value \/ (restarts > 0 /\ fan = [value |-> 200, reg |-> 0])

(***************************************************************************)
(* The ring and the polls are the FIFO of ResultFifo: results come out in  *)
(* order and once, and are only dropped when RING_SIZE - 1 wait or by the  *)
(* idle timeout and a restart.                                             *)
(***************************************************************************)
Fifo ==
  INSTANCE ResultFifo WITH
    Capacity <- RING_SIZE - 1, queue <- Queue,
    out <- IF reply.type = "NONCE" THEN reply.result ELSE NoResult

ResultsInOrder == Fifo!Spec
=============================================================================

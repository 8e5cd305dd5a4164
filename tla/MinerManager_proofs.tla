------------------------- MODULE MinerManager_proofs -------------------------
(***************************************************************************)
(* The firmware against an arbitrary host, for every number of chips,      *)
(* slots and ring cells: its types, the job slots, the attribution of the  *)
(* nonces, and the ring as a FIFO.                                         *)
(***************************************************************************)
EXTENDS MinerManager, Ring_proofs

-----------------------------------------------------------------------------
(***************************************************************************)
(* The operators of the model.                                             *)
(***************************************************************************)
LEMMA AdjustFanType ==
  ASSUME NEW f \in Fan, NEW pwm \in Int
  PROVE  AdjustFan(f, pwm) \in Fan
<1>1. Clamp(pwm) \in 0 .. 1023
  BY DEF Clamp
<1>2. [value |-> Clamp(pwm), reg |-> Clamp(pwm)] \in Fan
  BY <1>1 DEF Fan
<1> QED BY <1>2 DEF AdjustFan

LEMMA SetPllType ==
  ASSUME NEW freq \in Nat
  PROVE  SetPll(freq) \in [Chips -> Int]
BY DEF SetPll, Mult

LEMMA EmptyTypes ==
  /\ EmptyWork \in Work /\ NoTask \in Task /\ NoFind \in Find /\ NoResult \in Result
  /\ ChipReset \in Chip /\ IdleChips \in [Chips -> Chip]
<1>1. 0 \in Chips /\ 0 \in Slots /\ 0 \in Nonce2
  BY SizeAssumption DEF Chips, Slots, Nonce2
<1>2. EmptyWork \in Work
  BY DEF EmptyWork, Work
<1>3. NoTask \in Task
  BY <1>1, <1>2 DEF NoTask, Task
<1>4. NoFind \in Find
  BY <1>3 DEF NoFind, Find
<1>5. NoResult \in Result
  BY <1>1, <1>4 DEF NoResult, Result
<1>6. ChipReset \in Chip
  BY <1>3, <1>4 DEF ChipReset, Chip
<1> QED BY <1>2, <1>3, <1>4, <1>5, <1>6 DEF IdleChips

\* The next slot is a slot, and a store fills one with a job's data.
LEMMA NextSlotType ==
  ASSUME g_cur_mm_idx \in Slots
  PROVE  /\ NextSlot \in Slots
         /\ NextSlot = IF g_cur_mm_idx + 1 = MM_BUF_NUM THEN 0 ELSE g_cur_mm_idx + 1
<1>1. MM_BUF_NUM \in Nat \ {0} /\ g_cur_mm_idx \in 0 .. MM_BUF_NUM - 1
  BY SizeAssumption DEF Slots
<1> DEFINE c == g_cur_mm_idx
<1>2. RingNext(MM_BUF_NUM, c) = NextSlot
  BY DEF RingNext, NextSlot
<1> HIDE DEF c
<1>3. c \in 0 .. MM_BUF_NUM - 1
  BY <1>1 DEF c
<1>4. /\ RingNext(MM_BUF_NUM, c) = IF c + 1 = MM_BUF_NUM THEN 0 ELSE c + 1
      /\ RingNext(MM_BUF_NUM, c) \in 0 .. MM_BUF_NUM - 1
  BY <1>1, <1>3, RingNextWraps
<1> QED BY <1>2, <1>4 DEF Slots, c

LEMMA FilledType ==
  ASSUME NEW w \in Work, NEW f \in Fields, NEW job \in Jobs
  PROVE  Filled(w, f, job) \in Work
BY DEF Filled, Work

\* Nonce2 modulo its size.
LEMMA Nonce2Type ==
  ASSUME NEW n \in Nat
  PROVE  n % NONCE2_SIZE \in Nonce2
BY SizeAssumption, Z3 DEF Nonce2

-----------------------------------------------------------------------------
(***************************************************************************)
(* Type correctness.                                                       *)
(***************************************************************************)
LEMMA NextChipType ==
  ASSUME idx \in Chips, NEW again, NEW after, NextChip(again, after)
  PROVE  idx' \in Chips /\ pc' \in {again, after}
BY SizeAssumption DEF NextChip, Chips

LEMMA InitType == Init => TypeOK
<1> SUFFICES ASSUME Init PROVE TypeOK
  OBVIOUS
<1> USE SizeAssumption DEF Init
<1>1. 0 \in Chips /\ 0 \in Slots /\ 0 \in Nonce2 /\ 0 \in Cells
  BY DEF Chips, Slots, Nonce2, Cells
<1>2. LoopType
  BY <1>1 DEF LoopType
<1>3. JobType
  <2>1. activated \in Seq(Work)
    BY EmptySeq
  <2> QED BY <1>1, <2>1, EmptyTypes DEF JobType
<1>4. RingType
  BY <1>1, EmptyTypes DEF RingType, Cells
<1>5. CountType
  BY DEF CountType
<1>6. BoardType
  <2>1. [value |-> 1023, reg |-> 0] \in Fan
    BY DEF Fan
  <2>2. fan \in Fan
    BY <2>1, AdjustFanType
  <2>3. BE200_DEFAULT_FREQ \in Nat
    BY DEF BE200_DEFAULT_FREQ
  <2>4. pll \in [Chips -> Int]
    BY <2>3, SetPllType
  <2> QED BY <2>2, <2>3, <2>4 DEF BoardType
<1>7. ChipType
  BY <1>1, EmptyTypes DEF ChipType, Tag
<1>8. reply \in Reply /\ restarts \in Nat
  BY DEF Reply
<1> QED BY <1>2, <1>3, <1>4, <1>5, <1>6, <1>7, <1>8 DEF TypeOK

\* What a step leaves alone keeps its type.
LEMMA Kept ==
  /\ LoopType /\ UNCHANGED loopVars => LoopType'
  /\ JobType /\ UNCHANGED jobVars => JobType'
  /\ RingType /\ UNCHANGED ringVars => RingType'
  /\ CountType /\ UNCHANGED countVars => CountType'
  /\ BoardType /\ UNCHANGED boardVars => BoardType'
  /\ ChipType /\ UNCHANGED chipVars => ChipType'
  /\ TypeOK /\ Quiet => reply' \in Reply /\ restarts' \in Nat
<1>1. LoopType /\ UNCHANGED loopVars => LoopType'
  BY DEF LoopType, loopVars
<1>2. JobType /\ UNCHANGED jobVars => JobType'
  BY DEF JobType, jobVars
<1>3. RingType /\ UNCHANGED ringVars => RingType'
  BY DEF RingType, ringVars
<1>4. CountType /\ UNCHANGED countVars => CountType'
  BY DEF CountType, countVars
<1>5. BoardType /\ UNCHANGED boardVars => BoardType'
  BY DEF BoardType, boardVars
<1>6. ChipType /\ UNCHANGED chipVars => ChipType'
  BY DEF ChipType, chipVars
<1>7. TypeOK /\ Quiet => reply' \in Reply /\ restarts' \in Nat
  BY DEF TypeOK, Quiet, Send, Reply
<1> QED BY <1>1, <1>2, <1>3, <1>4, <1>5, <1>6, <1>7

LEMMA NextType == TypeOK /\ [Next]_vars => TypeOK'
<1> SUFFICES ASSUME TypeOK, [Next]_vars PROVE TypeOK'
  OBVIOUS
<1> USE DEF TypeOK
<1>q. ASSUME Quiet PROVE reply' \in Reply /\ restarts' \in Nat
  BY <1>q, Kept
<1>e. NoTask \in Task /\ NoFind \in Find /\ IdleChips \in [Chips -> Chip]
  BY EmptyTypes
<1>d. SetPll(BE200_DEFAULT_FREQ) \in [Chips -> Int]
  <2>1. BE200_DEFAULT_FREQ \in Nat
    BY DEF BE200_DEFAULT_FREQ
  <2> QED BY <2>1, SetPllType
<1>1. CASE Detect
  <2>1. JobType'
    BY <1>1 DEF Detect, JobType
  <2>2. reply' \in Reply /\ restarts' \in Nat
    BY <1>1 DEF Detect, Send, Reply
  <2> QED BY <1>1, <2>1, <2>2, Kept DEF Detect
<1>2. CASE Require
  <2>1. reply' \in Reply /\ restarts' \in Nat
    BY <1>2 DEF Require, Send, Reply
  <2> QED BY <1>2, <2>1, Kept DEF Require
<1>3. CASE PollStatus
  <2>1. reply' \in Reply /\ restarts' \in Nat
    BY <1>3 DEF PollStatus, Send, Reply
  <2>2. CountType'
    BY <1>3 DEF PollStatus, CountType
  <2> QED BY <1>3, <2>1, <2>2, Kept DEF PollStatus
<1>4. CASE PollNonce
  <2>1. be200_ret_consume' \in Cells
    BY <1>4, SizeAssumption, RingNextWraps DEF PollNonce, RingType, Cells
  <2>2. RingType'
    BY <1>4, <2>1 DEF PollNonce, RingType
  <2>3. RetHead \in Result
    BY DEF RetHead, RingType
  <2>4. RetHead.mm_idx \in Slots /\ RetHead.of.task.set \in Int
    BY <2>3 DEF Result, Find, Task
  <2>5. \A f \in Fields : g_mm_works[RetHead.mm_idx][f] \in Jobs \cup {NoJob}
    BY <2>4 DEF Work, JobType
  <2>6. STATIC \in Fields /\ JOB_ID \in Fields
    BY DEF Fields
  <2>7. Len(activated) \in Nat
    BY DEF JobType
  <2>8. NonceReply(RetHead) \in Reply
    BY <2>3, <2>4, <2>5, <2>6, <2>7 DEF NonceReply, Reply
  <2>9. reply' \in Reply /\ restarts' \in Nat
    BY <1>4, <2>8 DEF PollNonce, Send
  <2> QED BY <1>4, <2>2, <2>9, Kept DEF PollNonce
<1>5. ASSUME NEW f \in Fields, NEW job \in Jobs, Store(f, job) PROVE TypeOK'
  <2>1. NextSlot \in Slots
    BY NextSlotType DEF JobType
  <2>2. Filled(g_mm_works[NextSlot], f, job) \in Work
    BY <2>1, FilledType DEF JobType
  <2>3. JobType'
    BY <1>5, <2>1, <2>2 DEF Store, JobType
  <2> QED BY <1>5, <1>q, <2>3, Kept DEF Store
<1>6. ASSUME NEW pwm \in Pwms, NEW freq \in Freqs, NEW offset \in Nonce2Offsets,
             NEW range \in Nonce2Ranges, Set(pwm, freq, offset, range)
      PROVE  TypeOK'
  <2>1. pwm \in Int /\ freq \in Nat /\ offset + range \in Nat
    BY InputAssumption
  <2>2. AdjustFan(fan, pwm) \in Fan /\ SetPll(freq) \in [Chips -> Int]
    BY <2>1, AdjustFanType, SetPllType DEF BoardType
  <2>3. BoardType'
    BY <1>6, <2>1, <2>2 DEF Set, BoardType
  <2>4. NextSlot \in Slots
    BY NextSlotType DEF JobType
  <2>5. (offset + range) % NONCE2_SIZE \in Nonce2
    BY <2>1, Nonce2Type
  <2>6. Append(activated, g_mm_works[NextSlot]) \in Seq(Work)
    BY <2>4 DEF JobType
  <2>7. JobType'
    BY <1>6, <2>4, <2>5, <2>6 DEF Set, JobType
  <2> QED BY <1>6, <1>q, <2>3, <2>7, Kept DEF Set
<1>7. CASE GetPkgReturn
  <2>1. idx' \in Chips /\ pc' \in {"main", "send", "read"}
    BY <1>7, NextChipType DEF GetPkgReturn, LoopType
  <2>2. LoopType'
    BY <1>7, <2>1 DEF GetPkgReturn, LoopType
  <2> QED BY <1>7, <1>q, <2>2, Kept DEF GetPkgReturn
<1>8. CASE IdleTimeout
  <2>1. AdjustFan(fan, 200) \in Fan
    BY AdjustFanType DEF BoardType
  <2>2. BoardType'
    BY <1>8, <2>1 DEF IdleTimeout, BoardType
  <2>3. LoopType' /\ JobType'
    BY <1>8 DEF IdleTimeout, LoopType, JobType
  <2>4. RingType'
    BY <1>8, SizeAssumption DEF IdleTimeout, RingType, Cells
  <2> QED BY <1>8, <1>q, <2>2, <2>3, <2>4, Kept DEF IdleTimeout
<1>9. CASE MainLoop
  <2>1. LoopType'
    BY <1>9 DEF MainLoop, LoopType
  <2> QED BY <1>9, <1>q, <2>1, Kept DEF MainLoop
<1>10. CASE Dispatch
  <2> DEFINE n == (mm_nonce2[g_cur_mm_idx] + 1) % NONCE2_SIZE
             task == [set |-> Len(activated), nonce2 |-> n, work |-> g_mm_works[g_cur_mm_idx]]
  <2>1. n \in Nonce2
    <3>1. mm_nonce2[g_cur_mm_idx] + 1 \in Nat
      BY DEF JobType, Nonce2
    <3> QED BY <3>1, Nonce2Type
  <2>2. task \in Task
    BY <2>1 DEF Task, JobType
  <2>3. JobType'
    BY <1>10, <2>1 DEF Dispatch, JobType
  <2>4. SendWork(idx, task, g_cur_mm_idx)
    BY <1>10 DEF Dispatch
  <2> HIDE DEF task
  <2>5. chip' \in [Chips -> Chip]
    BY <2>2, <2>4, <1>e DEF SendWork, Chip, ChipType
  <2>6. miner_status' \in [Chips -> Tag]
    BY <2>2, <2>4 DEF SendWork, Tag, Task, ChipType, JobType
  <2>7. ChipType'
    BY <1>10, <2>5, <2>6 DEF Dispatch, ChipType
  <2>8. LoopType'
    BY <1>10 DEF Dispatch, LoopType
  <2> QED BY <1>10, <1>q, <2>3, <2>7, <2>8, Kept DEF Dispatch
<1>11. CASE SkipBusy
  <2>1. idx' \in Chips /\ pc' \in {"send", "read"}
    BY <1>11, NextChipType DEF SkipBusy, LoopType
  <2>2. LoopType'
    BY <1>11, <2>1 DEF SkipBusy, LoopType
  <2> QED BY <1>11, <1>q, <2>2, Kept DEF SkipBusy
<1>r. ASSUME AfterRead
      PROVE  /\ idx' \in Chips /\ pc' \in {"read", "pkg"} /\ JobType'
             /\ reply' \in Reply /\ restarts' \in Nat
  BY <1>r, <1>q, NextChipType, Kept DEF AfterRead, LoopType
<1>g. \A i \in Chips : GetResult(chip[i]) \in Chip
  BY <1>e DEF GetResult, Chip, ChipType
<1>12. CASE ReadNothing
  <2>1. AfterRead /\ found' \in BOOLEAN
    BY <1>12 DEF ReadNothing, LoopType
  <2>2. LoopType' /\ ChipType' /\ BoardType'
    BY <1>12, <2>1, <1>r DEF ReadNothing, AfterRead, LoopType, ChipType, BoardType
  <2> QED BY <1>12, <2>1, <2>2, <1>r, Kept DEF ReadNothing
<1>13. CASE ReadValid
  <2>1. be200_ret_produce' \in Cells
    BY <1>13, SizeAssumption, RingNextWraps DEF ReadValid, RingType, Cells
  <2>2. /\ idx \in Chips /\ miner_status[idx].nonce2 \in Nonce2
        /\ miner_status[idx].mm_idx \in Slots /\ chip[idx].src \in Find
    BY DEF LoopType, ChipType, Tag, Chip
  <2>3. RingType'
    BY <1>13, <2>1, <2>2 DEF ReadValid, RingType, Result
  <2>4. AfterRead /\ found' \in BOOLEAN /\ CountType'
    BY <1>13 DEF ReadValid, LoopType, CountType
  <2>5. chip' \in [Chips -> Chip]
    BY <1>13, <1>g DEF ReadValid, ChipType
  <2>6. LoopType' /\ ChipType' /\ BoardType'
    BY <1>13, <2>4, <2>5, <1>r DEF ReadValid, AfterRead, LoopType, ChipType, BoardType
  <2> QED BY <2>3, <2>4, <2>6, <1>r
<1>14. ASSUME NEW check \in {NONCE_HW, NONCE_VALID}, ReadBad(check) PROVE TypeOK'
  <2>1. chip' \in [Chips -> Chip]
    BY <1>14, <1>g, <1>e DEF ReadBad, ChipType
  <2>2. pll' \in [Chips -> Int]
    BY <1>14, <1>d DEF ReadBad, BoardType
  <2>3. CountType'
    BY <1>14, SizeAssumption DEF ReadBad, CountType
  <2>4. AfterRead /\ found' \in BOOLEAN
    BY <1>14 DEF ReadBad, LoopType
  <2>5. LoopType' /\ ChipType' /\ BoardType'
    BY <1>14, <2>1, <2>2, <2>4, <1>r DEF AfterRead, LoopType, ChipType, BoardType
  <2> QED BY <1>14, <2>3, <2>4, <2>5, <1>r, Kept DEF ReadBad
<1>15. ASSUME NEW i \in Chips, ChipDone(i) PROVE TypeOK'
  <2>1. ChipType'
    BY <1>15, <1>e, ZenonT(40) DEF ChipDone, Chip, ChipType
  <2> QED BY <1>15, <1>q, <2>1, Kept DEF ChipDone
<1>16. ASSUME NEW i \in Chips, NEW ready \in Readiness, ChipFind(i, ready) PROVE TypeOK'
  <2> DEFINE find == [task |-> chip[i].task, id |-> finds + 1]
  <2>1. find \in Find /\ finds + 1 \in Nat
    BY DEF Find, Chip, ChipType
  <2>2. /\ chip' = [chip EXCEPT ![i].ready = ready, ![i].src = find]
        /\ finds' = finds + 1 /\ miner_status' = miner_status
    BY <1>16 DEF ChipFind
  <2> HIDE DEF find
  <2>3. chip' \in [Chips -> Chip]
    BY <2>1, <2>2 DEF Chip, ChipType
  <2>4. ChipType'
    BY <2>1, <2>2, <2>3 DEF ChipType
  <2> QED BY <1>16, <1>q, <2>4, Kept DEF ChipFind
<1>17. CASE TimerExpires
  <2>1. BoardType'
    BY <1>17 DEF TimerExpires, BoardType
  <2> QED BY <1>17, <1>q, <2>1, Kept DEF TimerExpires
<1>18. CASE Restart
  <2>1. 0 \in Chips /\ 0 \in Slots /\ 0 \in Nonce2 /\ 0 \in Cells
    BY SizeAssumption DEF Chips, Slots, Nonce2, Cells
  <2>2. [fan EXCEPT !.reg = 0] \in Fan
    BY DEF BoardType, Fan
  <2>3. AdjustFan([fan EXCEPT !.reg = 0], 200) \in Fan
    BY <2>2, AdjustFanType
  <2>4. BoardType'
    BY <1>18, <2>3, <1>d DEF Restart, BoardType
  <2>5. LoopType' /\ CountType'
    <3>1. 0 \in 0 .. RESET_LIMIT - 1
      BY SizeAssumption
    <3> QED BY <1>18, <2>1, <3>1 DEF Restart, LoopType, CountType
  <2>6. <<>> \in Seq(Work)
    BY EmptySeq
  <2>7. JobType'
    BY <1>18, <2>1, <2>6, EmptyTypes DEF Restart, JobType
  <2>8. RingType'
    BY <1>18, <2>1, EmptyTypes DEF Restart, RingType, Cells
  <2>9. ChipType'
    BY <1>18, <2>1, EmptyTypes DEF Restart, ChipType, Tag
  <2>10. reply' \in Reply /\ restarts' \in Nat
    BY <1>18 DEF Restart, Reply
  <2> QED BY <2>4, <2>5, <2>7, <2>8, <2>9, <2>10
<1>19. CASE UNCHANGED vars
  BY <1>19, Kept DEF vars
<1> QED BY <1>1, <1>2, <1>3, <1>4, <1>5, <1>6, <1>7, <1>8, <1>9, <1>10, <1>11, <1>12, <1>13,
           <1>14, <1>15, <1>16, <1>17, <1>18, <1>19 DEF Next, Receive, Firmware, Environment

(***************************************************************************)
(* Every variable keeps its type: the indices stay in their arrays and the *)
(* PWM value in its range, whatever the host sends.                        *)
(***************************************************************************)
THEOREM TypeCorrect == Spec => []TypeOK
BY InitType, NextType, PTL DEF Spec

-----------------------------------------------------------------------------
(***************************************************************************)
(* The ring as a queue: which steps change it, and how.                    *)
(***************************************************************************)
\* What ReadValid writes to the ring.
NewResult == [idx |-> idx, nonce2 |-> miner_status[idx].nonce2,
              mm_idx |-> miner_status[idx].mm_idx, of |-> chip[idx].src]

LEMMA NewResultType == TypeOK => NewResult \in Result
BY DEF TypeOK, LoopType, ChipType, Tag, Chip, NewResult, Result

LEMMA QueueType == RingType => Queue \in Seq(Result) /\ Len(Queue) \in 0 .. RING_SIZE - 1
<1> SUFFICES ASSUME RingType PROVE Queue \in Seq(Result) /\ Len(Queue) \in 0 .. RING_SIZE - 1
  OBVIOUS
<1>1. /\ be200_result_buff \in [0 .. RING_SIZE - 1 -> Result]
      /\ be200_ret_produce \in 0 .. RING_SIZE - 1 /\ be200_ret_consume \in 0 .. RING_SIZE - 1
      /\ RING_SIZE \in Nat \ {0}
  BY SizeAssumption DEF RingType, Cells
<1>2. Queue \in Seq(Result)
  BY <1>1, RingQueueType, Zenon DEF Queue
<1>3. Len(Queue) = RingCount(RING_SIZE, be200_ret_produce, be200_ret_consume)
  BY <1>1, RingQueueElements, Zenon DEF Queue
<1>4. RingCount(RING_SIZE, be200_ret_produce, be200_ret_consume) \in 0 .. RING_SIZE - 1
  BY <1>1, RingCountType, Zenon
<1> QED BY <1>2, <1>3, <1>4

LEMMA QueuePoll ==
  ASSUME TypeOK, PollNonce
  PROVE  Queue # <<>> /\ RetHead = Head(Queue) /\ Queue' = Tail(Queue)
<1>1. /\ be200_result_buff \in [0 .. RING_SIZE - 1 -> Result]
      /\ be200_ret_produce \in 0 .. RING_SIZE - 1 /\ be200_ret_consume \in 0 .. RING_SIZE - 1
      /\ RING_SIZE \in Nat \ {0}
  BY SizeAssumption DEF TypeOK, RingType, Cells
<1>2. be200_ret_produce # be200_ret_consume
  BY DEF PollNonce
<1>3. Queue # <<>>
  <2>1. Queue = <<>> <=> be200_ret_produce = be200_ret_consume
    BY <1>1, RingEmpty DEF Queue
  <2> QED BY <1>2, <2>1
<1>4. Head(Queue) = be200_result_buff[be200_ret_consume]
  BY <1>1, <1>2, RingTake, Zenon DEF Queue
<1>5. RingQueue(RING_SIZE, be200_result_buff, be200_ret_produce,
                RingNext(RING_SIZE, be200_ret_consume)) = Tail(Queue)
  BY <1>1, <1>2, RingTake, Zenon DEF Queue
<1>6. Queue' = RingQueue(RING_SIZE, be200_result_buff, be200_ret_produce,
                         RingNext(RING_SIZE, be200_ret_consume))
  BY DEF PollNonce, Queue
<1> QED BY <1>3, <1>4, <1>5, <1>6 DEF RetHead

LEMMA QueueRead ==
  ASSUME TypeOK, ReadValid
  PROVE  IF Len(Queue) < RING_SIZE - 1 THEN Queue' = Append(Queue, NewResult) ELSE Queue' = <<>>
<1> DEFINE p == be200_ret_produce
           c == be200_ret_consume
           p2 == RingNext(RING_SIZE, p)
           buff2 == [be200_result_buff EXCEPT ![p] = NewResult]
<1>1. /\ be200_result_buff \in [0 .. RING_SIZE - 1 -> Result]
      /\ p \in 0 .. RING_SIZE - 1 /\ c \in 0 .. RING_SIZE - 1
      /\ RING_SIZE \in Nat \ {0}
  BY SizeAssumption DEF TypeOK, RingType, Cells
<1>2. Len(Queue) = RingCount(RING_SIZE, p, c)
  BY <1>1, RingQueueElements, Zenon DEF Queue
<1>3. RingCount(RING_SIZE, p, c) \in 0 .. RING_SIZE - 1
  BY <1>1, RingCountType, Zenon
<1>4. Queue' = RingQueue(RING_SIZE, buff2, p2, c)
  BY DEF ReadValid, Queue, NewResult
<1>5. NewResult \in Result
  BY NewResultType
<1>6. CASE Len(Queue) < RING_SIZE - 1
  <2>1. RingCount(RING_SIZE, p, c) < RING_SIZE - 1
    BY <1>2, <1>6
  <2>2. RingQueue(RING_SIZE, buff2, p2, c) = Append(Queue, NewResult)
    <3>1. /\ buff2[p] = NewResult
          /\ SameBut(RING_SIZE, p, be200_result_buff, buff2)
      BY <1>1 DEF SameBut
    <3> HIDE DEF buff2
    <3>2. RingQueue(RING_SIZE, buff2, p2, c)
            = Append(RingQueue(RING_SIZE, be200_result_buff, p, c), buff2[p])
      BY <1>1, <2>1, <3>1, RingPut
    <3> QED BY <3>1, <3>2 DEF Queue
  <2> QED BY <1>4, <1>6, <2>2
<1>7. CASE ~(Len(Queue) < RING_SIZE - 1)
  <2>1. RingCount(RING_SIZE, p, c) = RING_SIZE - 1
    BY <1>1, <1>2, <1>3, <1>7
  <2>2. p2 = c
    BY <1>1, <2>1, RingPutFull, Zenon
  <2>3. RingQueue(RING_SIZE, buff2, c, c) = <<>> <=> c = c
    <3> HIDE DEF buff2
    <3> QED BY <1>1, RingEmpty
  <2> QED BY <1>4, <1>7, <2>2, <2>3
<1> QED BY <1>6, <1>7

\* The indices are equal after the idle timeout and a restart.
LEMMA QueueDrop ==
  ASSUME TypeOK', be200_ret_produce' = 0, be200_ret_consume' = 0
  PROVE  Queue' = <<>>
<1>1. /\ be200_result_buff' \in [0 .. RING_SIZE - 1 -> Result]
      /\ be200_ret_produce' \in 0 .. RING_SIZE - 1 /\ be200_ret_consume' \in 0 .. RING_SIZE - 1
      /\ RING_SIZE \in Nat \ {0} /\ be200_ret_produce' = be200_ret_consume'
  BY SizeAssumption DEF TypeOK, RingType, Cells
<1>2. RingQueue(RING_SIZE, be200_result_buff', be200_ret_produce', be200_ret_consume') = <<>>
        <=> be200_ret_produce' = be200_ret_consume'
  BY <1>1, RingEmpty
<1> QED BY <1>1, <1>2 DEF Queue

\* Every other step leaves the ring alone and sends no nonce.
LEMMA QueueSteps ==
  ASSUME TypeOK, [Next]_vars
  PROVE  \/ PollNonce
         \/ ReadValid
         \/ Queue' = <<>> /\ reply'.type # "NONCE"
         \/ UNCHANGED ringVars /\ (reply'.type # "NONCE" \/ UNCHANGED vars)
<1>1. TypeOK'
  BY NextType
<1>q. Quiet => reply'.type # "NONCE"
  BY DEF Quiet, Send
<1>2. CASE Detect \/ Require \/ PollStatus
  BY <1>2 DEF Detect, Require, PollStatus, Send
<1>3. ASSUME NEW f \in Fields, NEW job \in Jobs, Store(f, job)
      PROVE  UNCHANGED ringVars /\ reply'.type # "NONCE"
  BY <1>3, <1>q DEF Store
<1>4. ASSUME NEW pwm \in Pwms, NEW freq \in Freqs, NEW offset \in Nonce2Offsets,
             NEW range \in Nonce2Ranges, Set(pwm, freq, offset, range)
      PROVE  UNCHANGED ringVars /\ reply'.type # "NONCE"
  BY <1>4, <1>q DEF Set
<1>5. CASE GetPkgReturn \/ MainLoop \/ Dispatch \/ SkipBusy
  BY <1>5, <1>q DEF GetPkgReturn, MainLoop, Dispatch, SkipBusy
<1>6. CASE IdleTimeout
  BY <1>1, <1>6, <1>q, QueueDrop DEF IdleTimeout
<1>7. CASE ReadNothing
  BY <1>7, <1>q DEF ReadNothing, AfterRead
<1>8. ASSUME NEW check \in {NONCE_HW, NONCE_VALID}, ReadBad(check)
      PROVE  UNCHANGED ringVars /\ reply'.type # "NONCE"
  BY <1>8, <1>q DEF ReadBad, AfterRead
<1>9. ASSUME NEW i \in Chips, ChipDone(i) PROVE UNCHANGED ringVars /\ reply'.type # "NONCE"
  BY <1>9, <1>q DEF ChipDone
<1>10. ASSUME NEW i \in Chips, NEW ready \in Readiness, ChipFind(i, ready)
       PROVE  UNCHANGED ringVars /\ reply'.type # "NONCE"
  BY <1>10, <1>q DEF ChipFind
<1>11. CASE TimerExpires
  BY <1>11, <1>q DEF TimerExpires
<1>12. CASE Restart
  <2>1. reply'.type # "NONCE"
    BY <1>12 DEF Restart
  <2>2. Queue' = <<>>
    BY <1>1, <1>12, QueueDrop DEF Restart
  <2> QED BY <2>1, <2>2
<1>13. CASE UNCHANGED vars
  BY <1>13 DEF vars
<1> QED BY <1>2, <1>3, <1>4, <1>5, <1>6, <1>7, <1>8, <1>9, <1>10, <1>11, <1>12, <1>13
        DEF Next, Receive, Firmware, Environment

-----------------------------------------------------------------------------
(***************************************************************************)
(* The ring implements the queue of ResultFifo.                            *)
(***************************************************************************)
LEMMA FifoInit == Init => Fifo!Init
<1> SUFFICES ASSUME Init PROVE Fifo!Init
  OBVIOUS
<1>1. /\ be200_ret_produce \in 0 .. RING_SIZE - 1 /\ be200_ret_consume \in 0 .. RING_SIZE - 1
      /\ RING_SIZE \in Nat \ {0} /\ be200_ret_produce = be200_ret_consume
  BY SizeAssumption DEF Init
<1>2. Queue = <<>>
  BY <1>1, RingEmpty DEF Queue
<1> QED BY <1>2 DEF Init, Fifo!Init

LEMMA FifoNext ==
  ASSUME TypeOK, [Next]_vars
  PROVE  Fifo!Next \/ UNCHANGED <<Queue, reply>>
<1>1. CASE PollNonce
  <2>1. Queue # <<>> /\ RetHead = Head(Queue) /\ Queue' = Tail(Queue)
    BY <1>1, QueuePoll
  <2>2. reply'.type = "NONCE" /\ reply'.result = RetHead
    BY <1>1 DEF PollNonce, Send, NonceReply
  <2> QED BY <2>1, <2>2 DEF Fifo!Next, Fifo!Take
<1>2. CASE ReadValid
  <2>1. reply'.type # "NONCE"
    BY <1>2 DEF ReadValid, AfterRead, Quiet, Send
  <2>2. Queue \in Seq(Result) /\ Len(Queue) \in 0 .. RING_SIZE - 1
    BY QueueType DEF TypeOK
  <2>3. NewResult \in Result
    BY NewResultType
  <2>4. CASE Len(Queue) < RING_SIZE - 1
    <3>1. Queue' = Append(Queue, NewResult)
      BY <1>2, <2>4, QueueRead
    <3>2. Len(Queue') = Len(Queue) + 1 /\ Queue'[Len(Queue) + 1] = NewResult
      BY <2>2, <2>3, <3>1, AppendProperties
    <3> QED BY <2>1, <2>3, <2>4, <3>1, <3>2 DEF Fifo!Next, Fifo!Put
  <2>5. CASE ~(Len(Queue) < RING_SIZE - 1)
    <3>1. Queue' = <<>>
      BY <1>2, <2>5, QueueRead
    <3> QED BY <2>1, <2>5, <3>1 DEF Fifo!Next, Fifo!Put
  <2> QED BY <2>4, <2>5
<1>3. CASE Queue' = <<>> /\ reply'.type # "NONCE"
  BY <1>3 DEF Fifo!Next, Fifo!Drop
<1>4. CASE UNCHANGED ringVars /\ reply'.type # "NONCE"
  <2>1. Queue' = Queue
    BY <1>4 DEF ringVars, Queue
  <2> QED BY <1>4, <2>1 DEF Fifo!Next, Fifo!Other
<1>5. CASE UNCHANGED ringVars /\ UNCHANGED vars
  BY <1>5 DEF vars, ringVars, Queue
<1> QED BY <1>1, <1>2, <1>3, <1>4, <1>5, QueueSteps

(***************************************************************************)
(* Every poll that gets a nonce gets the oldest one not yet given out,     *)
(* each result comes out at most once, and the ring forgets only as a      *)
(* whole: when a result is put on RING_SIZE - 1 others, at the idle        *)
(* timeout and at a restart.                                               *)
(***************************************************************************)
THEOREM RingIsFifo == Spec => ResultsInOrder
<1> DEFINE out == IF reply.type = "NONCE" THEN reply.result ELSE NoResult
<1>1. TypeOK /\ [Next]_vars => [Fifo!Next]_<<Queue, out>>
  BY FifoNext
<1> QED BY <1>1, FifoInit, TypeCorrect, PTL DEF Spec, ResultsInOrder, Fifo!Spec

-----------------------------------------------------------------------------
(***************************************************************************)
(* The board: the chips' frequency and the fan.                            *)
(***************************************************************************)
FreqInv == pll = SetPll(g_asic_freq) \/ pll = SetPll(BE200_DEFAULT_FREQ)
BoardInv == TypeOK /\ FreqInv /\ FanRemembered

freqVars == <<fan, g_asic_freq, pll, restarts>>

\* A fan step from an agreeing register and value agrees again.
LEMMA AdjustFanAgrees ==
  ASSUME NEW f \in Fan, NEW pwm \in Int, f.reg = f.value \/ (f.value = 200 /\ f.reg = 0)
  PROVE  LET g == AdjustFan(f, pwm) IN g.reg = g.value \/ g = f
BY DEF AdjustFan, Fan

LEMMA BoardInit == Init => BoardInv
<1> SUFFICES ASSUME Init PROVE BoardInv
  OBVIOUS
<1>1. FreqInv
  BY DEF Init, FreqInv
<1>2. fan = [value |-> 200, reg |-> 200]
  BY DEF Init, AdjustFan, Clamp
<1>3. FanRemembered
  BY <1>2 DEF FanRemembered
<1> QED BY <1>1, <1>3, InitType DEF BoardInv

\* Every way the frequency, the fan or the count of restarts changes.
LEMMA BoardSteps ==
  ASSUME TypeOK, [Next]_vars
  PROVE  \/ \E pwm \in Pwms, freq \in Freqs, offset \in Nonce2Offsets, range \in Nonce2Ranges :
              Set(pwm, freq, offset, range)
         \/ IdleTimeout
         \/ \E check \in {NONCE_HW, NONCE_VALID} : ReadBad(check)
         \/ Restart
         \/ UNCHANGED freqVars
<1> USE DEF freqVars, boardVars, Quiet, Send
<1>1. CASE Detect \/ Require \/ PollStatus \/ PollNonce
  BY <1>1 DEF Detect, Require, PollStatus, PollNonce
<1>2. ASSUME NEW f \in Fields, NEW job \in Jobs, Store(f, job) PROVE UNCHANGED freqVars
  BY <1>2 DEF Store
<1>3. CASE GetPkgReturn \/ MainLoop \/ Dispatch \/ SkipBusy \/ TimerExpires
  BY <1>3 DEF GetPkgReturn, MainLoop, Dispatch, SkipBusy, TimerExpires
<1>4. CASE ReadNothing \/ ReadValid
  BY <1>4 DEF ReadNothing, ReadValid, AfterRead
<1>5. ASSUME NEW i \in Chips, ChipDone(i) PROVE UNCHANGED freqVars
  BY <1>5 DEF ChipDone
<1>6. ASSUME NEW i \in Chips, NEW ready \in Readiness, ChipFind(i, ready)
      PROVE  UNCHANGED freqVars
  BY <1>6 DEF ChipFind
<1>7. CASE UNCHANGED vars
  BY <1>7 DEF vars
<1> HIDE DEF freqVars, boardVars, Quiet, Send
<1> QED BY <1>1, <1>2, <1>3, <1>4, <1>5, <1>6, <1>7 DEF Next, Receive, Firmware, Environment

LEMMA BoardNext == BoardInv /\ [Next]_vars => BoardInv'
<1> SUFFICES ASSUME BoardInv, [Next]_vars PROVE BoardInv'
  OBVIOUS
<1>1. TypeOK /\ TypeOK' /\ fan \in Fan
  BY NextType DEF BoardInv, TypeOK, BoardType
<1>2. fan.reg = fan.value \/ (fan.value = 200 /\ fan.reg = 0)
  <2>1. fan.reg = fan.value \/ fan = [value |-> 200, reg |-> 0]
    BY DEF BoardInv, FanRemembered
  <2>2. fan = [value |-> 200, reg |-> 0] => fan.value = 200 /\ fan.reg = 0
    OBVIOUS
  <2> QED BY <2>1, <2>2
<1>a. ASSUME NEW pwm \in Int, fan' = AdjustFan(fan, pwm), restarts' = restarts
      PROVE  FanRemembered'
  <2>1. fan'.reg = fan'.value \/ fan' = fan
    BY <1>1, <1>2, <1>a, AdjustFanAgrees
  <2> QED BY <1>a, <2>1 DEF BoardInv, FanRemembered
<1>3. ASSUME NEW pwm \in Pwms, NEW freq \in Freqs, NEW offset \in Nonce2Offsets,
             NEW range \in Nonce2Ranges, Set(pwm, freq, offset, range)
      PROVE  FreqInv' /\ FanRemembered'
  <2>1. pwm \in Int
    BY InputAssumption
  <2>2. fan' = AdjustFan(fan, pwm) /\ restarts' = restarts
    BY <1>3 DEF Set, Quiet, Send
  <2>3. FanRemembered'
    BY <1>a, <2>1, <2>2
  <2>4. \/ pll' = SetPll(freq) /\ g_asic_freq' = freq
        \/ pll' = pll /\ g_asic_freq' = g_asic_freq
    BY <1>3 DEF Set
  <2>5. FreqInv'
    BY <2>4 DEF BoardInv, FreqInv, SetPll
  <2> QED BY <2>3, <2>5
<1>4. CASE IdleTimeout
  <2>1. fan' = AdjustFan(fan, 200) /\ restarts' = restarts /\ UNCHANGED <<g_asic_freq, pll>>
    BY <1>4 DEF IdleTimeout, Quiet, Send
  <2>2. FanRemembered'
    BY <1>a, <2>1
  <2>3. FreqInv'
    BY <2>1 DEF BoardInv, FreqInv, SetPll
  <2> QED BY <1>1, <2>2, <2>3 DEF BoardInv
<1>5. ASSUME NEW check \in {NONCE_HW, NONCE_VALID}, ReadBad(check)
      PROVE  FreqInv' /\ FanRemembered'
  <2>1. /\ pll' = SetPll(BE200_DEFAULT_FREQ) \/ pll' = pll
        /\ UNCHANGED <<fan, g_asic_freq, restarts>>
    BY <1>5 DEF ReadBad, AfterRead, Quiet, Send
  <2> QED BY <2>1 DEF BoardInv, FreqInv, SetPll, FanRemembered
<1>6. CASE Restart
  <2>1. /\ fan' = AdjustFan([fan EXCEPT !.reg = 0], 200) /\ restarts' = restarts + 1
        /\ pll' = SetPll(BE200_DEFAULT_FREQ) /\ restarts \in Nat
    BY <1>1, <1>6 DEF Restart, TypeOK
  <2>2. fan' = [value |-> 200, reg |-> 200] \/ fan' = [value |-> 200, reg |-> 0]
    BY <1>1, <2>1 DEF AdjustFan, Clamp, Fan
  <2>3. restarts' > 0
    BY <2>1
  <2>4. FanRemembered'
    BY <2>2, <2>3 DEF FanRemembered
  <2>5. FreqInv'
    BY <2>1 DEF FreqInv, SetPll
  <2> QED BY <1>1, <2>4, <2>5 DEF BoardInv
<1>7. CASE UNCHANGED freqVars
  BY <1>1, <1>7 DEF freqVars, BoardInv, FreqInv, SetPll, FanRemembered
<1> QED BY <1>1, <1>3, <1>4, <1>5, <1>6, <1>7, BoardSteps DEF BoardInv

LEMMA BoardAlways == Spec => []BoardInv
BY BoardInit, BoardNext, PTL DEF Spec

(***************************************************************************)
(* All chips run at the frequency the firmware remembers or at the         *)
(* default, whatever P_SETs and resets of the chips came before.           *)
(***************************************************************************)
THEOREM ChipsAtOneFrequency == Spec => []OneFrequency
<1>1. BoardInv => OneFrequency
  BY DEF BoardInv, FreqInv, OneFrequency, SetPll
<1> QED BY <1>1, BoardAlways, PTL

(***************************************************************************)
(* The PWM register is what adjust_fan remembers, or zero after a restart  *)
(* that found 200 remembered.                                              *)
(***************************************************************************)
THEOREM FanAsRemembered == Spec => []FanRemembered
<1>1. BoardInv => FanRemembered
  BY DEF BoardInv
<1> QED BY <1>1, BoardAlways, PTL
=============================================================================

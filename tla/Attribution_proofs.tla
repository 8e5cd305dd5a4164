------------------------- MODULE Attribution_proofs -------------------------
(***************************************************************************)
(* Which job a nonce is reported for.  The inductive invariant says what   *)
(* the firmware leaves unsaid: a tag (the slot and the nonce2 noted for a  *)
(* chip, or stored in a ring cell) describes its task for as long as the   *)
(* task's slot is one that no package writes to.                           *)
(***************************************************************************)
EXTENDS MinerManager_proofs

-----------------------------------------------------------------------------
(***************************************************************************)
(* The window of slots.                                                    *)
(***************************************************************************)
\* The slot packages are written to is none of the last MM_BUF_NUM - 1 current ones.
LEMMA NextSlotOutside ==
  ASSUME g_cur_mm_idx \in Slots, NEW d \in 0 .. MM_BUF_NUM - 2
  PROVE  SlotAt(d) \in Slots /\ SlotAt(d) # NextSlot
<1>1. NextSlot = IF g_cur_mm_idx + 1 = MM_BUF_NUM THEN 0 ELSE g_cur_mm_idx + 1
  BY NextSlotType
<1> QED BY <1>1, SizeAssumption DEF SlotAt, Slots

\* A P_SET makes every slot of the window one P_SET older.
LEMMA SlotsAge ==
  ASSUME g_cur_mm_idx \in Slots, g_cur_mm_idx' = NextSlot
  PROVE  /\ SlotAt(0)' = NextSlot
         /\ \A d \in 0 .. MM_BUF_NUM - 2 : SlotAt(d + 1)' = SlotAt(d)
<1>1. /\ NextSlot = IF g_cur_mm_idx + 1 = MM_BUF_NUM THEN 0 ELSE g_cur_mm_idx + 1
      /\ NextSlot \in Slots
  BY NextSlotType
<1> QED BY <1>1, SizeAssumption DEF SlotAt, Slots

\* What the properties say of a tag and a task, with the bound the induction needs.
Held(tag, task) == task.set <= Len(activated) /\ Describes(tag, task)

LEMMA HeldNoTask == JobType => \A tag : Held(tag, NoTask)
BY DEF Held, Describes, InWindow, NoTask, JobType

windowVars == <<g_cur_mm_idx, g_mm_works, activated>>

\* Nothing but a store, a P_SET and a restart touches the window.
LEMMA WindowSteps ==
  ASSUME TypeOK, [Next]_vars
  PROVE  \/ \E f \in Fields, job \in Jobs : Store(f, job)
         \/ \E pwm \in Pwms, freq \in Freqs, offset \in Nonce2Offsets, range \in Nonce2Ranges :
              Set(pwm, freq, offset, range)
         \/ Restart
         \/ UNCHANGED windowVars
<1> USE DEF windowVars, jobVars
<1>1. CASE Detect \/ Require \/ PollStatus \/ PollNonce
  BY <1>1 DEF Detect, Require, PollStatus, PollNonce
<1>2. CASE GetPkgReturn \/ MainLoop \/ Dispatch \/ SkipBusy \/ IdleTimeout
  BY <1>2 DEF GetPkgReturn, MainLoop, Dispatch, SkipBusy, IdleTimeout
<1>3. CASE ReadNothing \/ ReadValid
  BY <1>3 DEF ReadNothing, ReadValid, AfterRead
<1>4. ASSUME NEW check \in {NONCE_HW, NONCE_VALID}, ReadBad(check) PROVE UNCHANGED windowVars
  BY <1>4 DEF ReadBad, AfterRead
<1>5. ASSUME NEW i \in Chips, ChipDone(i) PROVE UNCHANGED windowVars
  BY <1>5 DEF ChipDone
<1>6. ASSUME NEW i \in Chips, NEW ready \in Readiness, ChipFind(i, ready)
      PROVE  UNCHANGED windowVars
  BY <1>6 DEF ChipFind
<1>7. CASE TimerExpires
  BY <1>7 DEF TimerExpires
<1>8. CASE UNCHANGED vars
  BY <1>8 DEF vars
<1> HIDE DEF windowVars, jobVars
<1> QED BY <1>1, <1>2, <1>3, <1>4, <1>5, <1>6, <1>7, <1>8
        DEF Next, Receive, Firmware, Environment

\* The slots of the window keep their content.
LEMMA SlotsKeptNext == TypeOK /\ SlotsKept /\ [Next]_vars => SlotsKept'
<1> SUFFICES ASSUME TypeOK, SlotsKept, [Next]_vars PROVE SlotsKept'
  OBVIOUS
<1>1. /\ g_cur_mm_idx \in Slots /\ g_mm_works \in [Slots -> Work] /\ activated \in Seq(Work)
  BY DEF TypeOK, JobType
<1>2. ASSUME NEW f \in Fields, NEW job \in Jobs, Store(f, job) PROVE SlotsKept'
  <2> SUFFICES ASSUME NEW d \in 0 .. MM_BUF_NUM - 2, d < Len(activated')
               PROVE  g_mm_works'[SlotAt(d)'] = activated'[Len(activated') - d]
    BY DEF SlotsKept
  <2>1. activated' = activated /\ SlotAt(d)' = SlotAt(d)
    BY <1>2 DEF Store, SlotAt
  <2>2. SlotAt(d) \in Slots /\ SlotAt(d) # NextSlot
    BY <1>1, NextSlotOutside
  <2>3. g_mm_works'[SlotAt(d)] = g_mm_works[SlotAt(d)]
    BY <1>1, <1>2, <2>2 DEF Store
  <2>4. d < Len(activated)
    BY <2>1
  <2>5. g_mm_works[SlotAt(d)] = activated[Len(activated) - d]
    BY <2>4 DEF SlotsKept
  <2> QED BY <2>1, <2>3, <2>5
<1>3. ASSUME NEW pwm \in Pwms, NEW freq \in Freqs, NEW offset \in Nonce2Offsets,
             NEW range \in Nonce2Ranges, Set(pwm, freq, offset, range)
      PROVE  SlotsKept'
  <2> DEFINE n == Len(activated)
  <2>1. /\ activated' = Append(activated, g_mm_works[NextSlot])
        /\ g_mm_works' = g_mm_works /\ g_cur_mm_idx' = NextSlot
    BY <1>3 DEF Set
  <2>2. g_mm_works[NextSlot] \in Work
    BY <1>1, NextSlotType
  <2>3. /\ n \in Nat /\ Len(activated') = n + 1
        /\ activated'[n + 1] = g_mm_works[NextSlot]
        /\ \A k \in 1 .. n : activated'[k] = activated[k]
    BY <1>1, <2>1, <2>2, AppendProperties
  <2> HIDE DEF n
  <2> SUFFICES ASSUME NEW d \in 0 .. MM_BUF_NUM - 2, d < Len(activated')
               PROVE  g_mm_works'[SlotAt(d)'] = activated'[Len(activated') - d]
    BY DEF SlotsKept
  <2>d. d < n + 1
    BY <2>3
  <2> SUFFICES g_mm_works[SlotAt(d)'] = activated'[n + 1 - d]
    BY <2>1, <2>3
  <2>4. CASE d = 0
    BY <1>1, <2>1, <2>3, <2>4, SlotsAge
  <2>5. CASE d # 0
    <3>1. d - 1 \in 0 .. MM_BUF_NUM - 2 /\ d - 1 < n /\ n - (d - 1) \in 1 .. n
          /\ n + 1 - d = n - (d - 1) /\ d = (d - 1) + 1
      BY <2>3, <2>5, <2>d, SizeAssumption
    <3>2. SlotAt(d)' = SlotAt(d - 1)
      BY <1>1, <2>1, <3>1, SlotsAge
    <3>3. g_mm_works[SlotAt(d - 1)] = activated[n - (d - 1)]
      BY <3>1 DEF SlotsKept, n
    <3> QED BY <2>3, <3>1, <3>2, <3>3
  <2> QED BY <2>4, <2>5
<1>4. CASE Restart
  <2>1. activated' = <<>>
    BY <1>4 DEF Restart
  <2>2. Len(activated') = 0
    BY <2>1
  <2> QED BY <2>2, SizeAssumption DEF SlotsKept
<1>5. CASE UNCHANGED windowVars
  BY <1>5 DEF windowVars, SlotsKept, SlotAt
<1> QED BY <1>2, <1>3, <1>4, <1>5, WindowSteps

LEMMA SlotsKeptInit == Init => SlotsKept
<1> SUFFICES ASSUME Init PROVE SlotsKept
  OBVIOUS
<1>1. Len(activated) = 0
  BY DEF Init
<1> QED BY <1>1, SizeAssumption DEF SlotsKept

(***************************************************************************)
(* Whatever the host sends, the slots of the last MM_BUF_NUM - 1 P_SETs    *)
(* hold what those P_SETs made current.                                    *)
(***************************************************************************)
THEOREM WindowKept == Spec => []SlotsKept
<1>1. Init => TypeOK /\ SlotsKept
  BY InitType, SlotsKeptInit
<1>2. TypeOK /\ SlotsKept /\ [Next]_vars => TypeOK' /\ SlotsKept'
  BY NextType, SlotsKeptNext
<1> QED BY <1>1, <1>2, PTL DEF Spec

-----------------------------------------------------------------------------
(***************************************************************************)
(* The tags.  A chip's tag describes its task and the task of the nonce it *)
(* shows, a ring cell's tag the task of its nonce, waiting or not.         *)
(***************************************************************************)
TagOf(e) == [nonce2 |-> e.nonce2, mm_idx |-> e.mm_idx]

ChipsTagged ==
  \A i \in Chips : Held(miner_status[i], chip[i].task) /\ Held(miner_status[i], chip[i].src.task)
CellsTagged ==
  \A c \in Cells : Held(TagOf(be200_result_buff[c]), be200_result_buff[c].of.task)

\* A tag that describes a task goes on doing so, until a restart.
LEMMA HeldKept ==
  ASSUME TypeOK, [Next]_vars, ~Restart,
         NEW tag \in Tag, NEW task \in Task, Held(tag, task)
  PROVE  Held(tag, task)'
<1> DEFINE n == Len(activated)
<1>1. /\ g_cur_mm_idx \in Slots /\ g_mm_works \in [Slots -> Work] /\ activated \in Seq(Work)
      /\ task.set \in Nat /\ n \in Nat
  BY DEF TypeOK, JobType, Task
<1>2. ASSUME NEW f \in Fields, NEW job \in Jobs, Store(f, job) PROVE Held(tag, task)'
  <2>1. activated' = activated /\ g_cur_mm_idx' = g_cur_mm_idx
    BY <1>2 DEF Store
  <2>2. SUFFICES ASSUME InWindow(task)
                 PROVE  task.work = g_mm_works'[tag.mm_idx]
    BY <2>1 DEF Held, Describes, InWindow, Age, SlotAt
  <2>3. Age(task) \in 0 .. MM_BUF_NUM - 2
    BY <1>1, <2>2, SizeAssumption DEF Held, InWindow, Age
  <2>4. tag.mm_idx = SlotAt(Age(task)) /\ task.work = g_mm_works[tag.mm_idx]
    BY <2>2 DEF Held, Describes
  <2>5. tag.mm_idx # NextSlot /\ tag.mm_idx \in Slots
    BY <1>1, <2>3, <2>4, NextSlotOutside
  <2> QED BY <1>1, <1>2, <2>4, <2>5 DEF Store
<1>3. ASSUME NEW pwm \in Pwms, NEW freq \in Freqs, NEW offset \in Nonce2Offsets,
             NEW range \in Nonce2Ranges, Set(pwm, freq, offset, range)
      PROVE  Held(tag, task)'
  <2>1. /\ activated' = Append(activated, g_mm_works[NextSlot])
        /\ g_mm_works' = g_mm_works /\ g_cur_mm_idx' = NextSlot
    BY <1>3 DEF Set
  <2>2. g_mm_works[NextSlot] \in Work
    BY <1>1, NextSlotType
  <2>3. Len(activated') = n + 1
    BY <1>1, <2>1, <2>2, AppendProperties
  <2>4. task.set <= n
    BY DEF Held
  <2>5. PICK age \in Nat : age = n - task.set
    BY <1>1, <2>4
  <2>6. SUFFICES ASSUME task.set > 0, age + 1 < MM_BUF_NUM - 1
                 PROVE  /\ tag.nonce2 = task.nonce2 /\ tag.mm_idx = SlotAt(age + 1)'
                        /\ task.work = g_mm_works[tag.mm_idx]
    <3>1. Len(activated') - task.set = age + 1
      BY <1>1, <2>3, <2>5
    <3>2. task.set <= Len(activated')
      BY <1>1, <2>3, <2>4
    <3> QED BY <2>1, <3>1, <3>2 DEF Held, Describes, InWindow, Age, SlotAt
  <2>7. age \in 0 .. MM_BUF_NUM - 2 /\ age < MM_BUF_NUM - 1
    BY <2>6, SizeAssumption
  <2>8. Age(task) = age /\ InWindow(task)
    BY <2>5, <2>6, <2>7 DEF Age, InWindow
  <2>9. /\ tag.nonce2 = task.nonce2 /\ tag.mm_idx = SlotAt(age)
        /\ task.work = g_mm_works[tag.mm_idx]
    BY <2>8 DEF Held, Describes
  <2>10. SlotAt(age + 1)' = SlotAt(age)
    BY <1>1, <2>1, <2>7, SlotsAge
  <2> QED BY <2>9, <2>10
<1>4. CASE UNCHANGED windowVars
  BY <1>4 DEF windowVars, Held, Describes, InWindow, Age, SlotAt
<1> QED BY <1>2, <1>3, <1>4, WindowSteps

\* What a step does to chip i: hand out a task, or let it keep, lose or show one.
LEMMA ChipSteps ==
  ASSUME TypeOK, [Next]_vars, ~Restart, NEW i \in Chips
  PROVE  \/ Dispatch /\ i = idx
         \/ /\ miner_status'[i] = miner_status[i]
            /\ chip'[i].task \in {chip[i].task, NoTask}
            /\ chip'[i].src.task \in {chip[i].src.task, chip[i].task, NoTask}
<1> DEFINE Same == /\ miner_status'[i] = miner_status[i]
                   /\ chip'[i].task \in {chip[i].task, NoTask}
                   /\ chip'[i].src.task \in {chip[i].src.task, chip[i].task, NoTask}
<1>1. chip \in [Chips -> Chip] /\ miner_status \in [Chips -> Tag] /\ idx \in Chips
  BY DEF TypeOK, ChipType, LoopType
<1>2. UNCHANGED chipVars => Same
  BY DEF chipVars
<1>3. CASE Detect \/ Require \/ PollStatus \/ PollNonce
  BY <1>2, <1>3 DEF Detect, Require, PollStatus, PollNonce
<1>4. ASSUME NEW f \in Fields, NEW job \in Jobs, Store(f, job) PROVE Same
  BY <1>2, <1>4 DEF Store
<1>5. ASSUME NEW pwm \in Pwms, NEW freq \in Freqs, NEW offset \in Nonce2Offsets,
             NEW range \in Nonce2Ranges, Set(pwm, freq, offset, range)
      PROVE  Same
  BY <1>2, <1>5 DEF Set
<1>6. CASE GetPkgReturn \/ MainLoop \/ SkipBusy \/ IdleTimeout \/ TimerExpires
  BY <1>2, <1>6 DEF GetPkgReturn, MainLoop, SkipBusy, IdleTimeout, TimerExpires
<1>7. CASE Dispatch
  <2>1. i # idx => Same
    BY <1>1, <1>7 DEF Dispatch, SendWork
  <2> QED BY <1>7, <2>1
<1>8. CASE ReadNothing
  BY <1>8 DEF ReadNothing, AfterRead
<1>g. chip' = [chip EXCEPT ![idx] = GetResult(@)] /\ miner_status' = miner_status => Same
  BY <1>1 DEF GetResult, NoFind, Chip
<1>9. CASE ReadValid
  BY <1>g, <1>9 DEF ReadValid, AfterRead
<1>10. ASSUME NEW check \in {NONCE_HW, NONCE_VALID}, ReadBad(check) PROVE Same
  <2>1. chip' = IdleChips \/ chip' = [chip EXCEPT ![idx] = GetResult(@)]
    BY <1>10 DEF ReadBad
  <2>2. miner_status' = miner_status
    BY <1>10 DEF ReadBad, AfterRead
  <2>3. IdleChips[i].task = NoTask /\ IdleChips[i].src.task = NoTask
    BY DEF IdleChips, ChipReset, NoFind
  <2>4. CASE chip' = IdleChips
    BY <2>2, <2>3, <2>4
  <2> QED BY <1>g, <2>1, <2>2, <2>4
<1>11. ASSUME NEW j \in Chips, ChipDone(j) PROVE Same
  BY <1>1, <1>11 DEF ChipDone, Chip
<1>12. ASSUME NEW j \in Chips, NEW ready \in Readiness, ChipFind(j, ready) PROVE Same
  <2>1. /\ miner_status' = miner_status
        /\ chip' = [chip EXCEPT ![j].ready = ready,
                                ![j].src = [task |-> chip[j].task, id |-> finds + 1]]
    BY <1>12 DEF ChipFind
  <2>2. CASE i = j
    BY <1>1, <2>1, <2>2 DEF Chip
  <2>3. CASE i # j
    BY <1>1, <2>1, <2>3
  <2> QED BY <2>2, <2>3
<1>13. CASE UNCHANGED vars
  BY <1>2, <1>13 DEF vars
<1> HIDE DEF Same
<1> QED BY <1>3, <1>4, <1>5, <1>6, <1>7, <1>8, <1>9, <1>10, <1>11, <1>12, <1>13
        DEF Next, Receive, Firmware, Environment, Same

LEMMA TagsInit == Init => ChipsTagged /\ CellsTagged
<1> SUFFICES ASSUME Init PROVE ChipsTagged /\ CellsTagged
  OBVIOUS
<1>1. \A tag : Held(tag, NoTask)
  BY HeldNoTask, InitType DEF TypeOK
<1>2. \A i \in Chips : chip[i].task = NoTask /\ chip[i].src.task = NoTask
  BY DEF Init, IdleChips, ChipReset, NoFind
<1>3. \A c \in Cells : be200_result_buff[c].of.task = NoTask
  BY DEF Init, Cells, NoResult, NoFind
<1> QED BY <1>1, <1>2, <1>3 DEF ChipsTagged, CellsTagged

LEMMA ChipsTaggedNext == TypeOK /\ ChipsTagged /\ [Next]_vars => ChipsTagged'
<1> SUFFICES ASSUME TypeOK, ChipsTagged, [Next]_vars, NEW i \in Chips
             PROVE  Held(miner_status[i], chip[i].task)' /\ Held(miner_status[i], chip[i].src.task)'
  BY DEF ChipsTagged
<1> USE DEF Held, Describes, InWindow, Age, SlotAt
<1>1. /\ Len(activated) \in Nat /\ Len(activated') \in Nat
      /\ chip[i].task \in Task /\ chip[i].src.task \in Task /\ miner_status[i] \in Tag
  BY NextType DEF TypeOK, JobType, ChipType, Chip, Find
<1>2. CASE Restart
  <2>1. chip'[i].task = NoTask /\ chip'[i].src.task = NoTask
    BY <1>2 DEF Restart, IdleChips, ChipReset, NoFind
  <2> QED BY <1>1, <2>1 DEF NoTask
<1>3. CASE Dispatch /\ i = idx
  <2>1. chip'[i].src.task = NoTask
    BY <1>3 DEF Dispatch, SendWork, NoFind, TypeOK, ChipType
  <2>2. /\ chip'[i].task.set = Len(activated) /\ miner_status'[i].mm_idx = g_cur_mm_idx
        /\ chip'[i].task.nonce2 = miner_status'[i].nonce2
        /\ chip'[i].task.work = g_mm_works[g_cur_mm_idx]
    BY <1>3 DEF Dispatch, SendWork, TypeOK, ChipType
  <2>3. /\ activated' = activated /\ g_cur_mm_idx' = g_cur_mm_idx
        /\ g_mm_works' = g_mm_works /\ g_cur_mm_idx \in Nat
    BY <1>3 DEF Dispatch, TypeOK, JobType, Slots
  <2>4. Held(miner_status[i], chip[i].task)'
    BY <1>1, <2>2, <2>3
  <2>5. Held(miner_status[i], chip[i].src.task)'
    BY <1>1, <2>1 DEF NoTask
  <2> QED BY <2>4, <2>5
<1>4. CASE ~Restart /\ ~(Dispatch /\ i = idx)
  <2>1. PICK tag \in Tag, t1 \in Task, t2 \in Task :
           tag = miner_status[i] /\ t1 = chip[i].task /\ t2 = chip[i].src.task
    BY <1>1
  <2>2. Held(tag, t1) /\ Held(tag, t2)
    BY <2>1 DEF ChipsTagged
  <2>3. Held(tag, t1)' /\ Held(tag, t2)'
    <3> HIDE DEF Held
    <3> QED BY <1>4, <2>2, HeldKept
  <2>4. /\ miner_status'[i] = tag
        /\ chip'[i].task \in {t1, NoTask} /\ chip'[i].src.task \in {t1, t2, NoTask}
    BY <1>4, <2>1, ChipSteps
  <2>5. NoTask.set = 0
    BY DEF NoTask
  <2>6. Held(miner_status[i], chip[i].task)'
    BY <1>1, <2>3, <2>4, <2>5
  <2>7. Held(miner_status[i], chip[i].src.task)'
    BY <1>1, <2>3, <2>4, <2>5
  <2> QED BY <2>6, <2>7
<1> QED BY <1>2, <1>3, <1>4

\* Only ReadValid writes a cell, and a restart clears them all.
LEMMA CellSteps ==
  ASSUME TypeOK, [Next]_vars, ~Restart, NEW c \in Cells
  PROVE  \/ be200_result_buff'[c] = be200_result_buff[c]
         \/ ReadValid /\ be200_result_buff'[c] = NewResult
<1>1. UNCHANGED ringVars => be200_result_buff' = be200_result_buff
  BY DEF ringVars
<1>2. CASE Detect \/ Require \/ PollStatus \/ PollNonce
  BY <1>1, <1>2 DEF Detect, Require, PollStatus, PollNonce
<1>3. ASSUME NEW f \in Fields, NEW job \in Jobs, Store(f, job)
      PROVE  be200_result_buff' = be200_result_buff
  BY <1>1, <1>3 DEF Store
<1>4. ASSUME NEW pwm \in Pwms, NEW freq \in Freqs, NEW offset \in Nonce2Offsets,
             NEW range \in Nonce2Ranges, Set(pwm, freq, offset, range)
      PROVE  be200_result_buff' = be200_result_buff
  BY <1>1, <1>4 DEF Set
<1>5. CASE GetPkgReturn \/ MainLoop \/ Dispatch \/ SkipBusy \/ IdleTimeout \/ TimerExpires
  BY <1>1, <1>5 DEF GetPkgReturn, MainLoop, Dispatch, SkipBusy, IdleTimeout, TimerExpires
<1>6. CASE ReadNothing
  BY <1>1, <1>6 DEF ReadNothing
<1>7. CASE ReadValid
  BY <1>7 DEF ReadValid, NewResult, TypeOK, RingType
<1>8. ASSUME NEW check \in {NONCE_HW, NONCE_VALID}, ReadBad(check)
      PROVE  be200_result_buff' = be200_result_buff
  BY <1>1, <1>8 DEF ReadBad
<1>9. ASSUME NEW i \in Chips, ChipDone(i) PROVE be200_result_buff' = be200_result_buff
  BY <1>1, <1>9 DEF ChipDone
<1>10. ASSUME NEW i \in Chips, NEW ready \in Readiness, ChipFind(i, ready)
       PROVE  be200_result_buff' = be200_result_buff
  BY <1>1, <1>10 DEF ChipFind
<1>11. CASE UNCHANGED vars
  BY <1>1, <1>11 DEF vars
<1> QED BY <1>2, <1>3, <1>4, <1>5, <1>6, <1>7, <1>8, <1>9, <1>10, <1>11
        DEF Next, Receive, Firmware, Environment

LEMMA CellsTaggedNext == TypeOK /\ ChipsTagged /\ CellsTagged /\ [Next]_vars => CellsTagged'
<1> SUFFICES ASSUME TypeOK, ChipsTagged, CellsTagged, [Next]_vars, NEW c \in Cells
             PROVE  Held(TagOf(be200_result_buff[c]), be200_result_buff[c].of.task)'
  BY DEF CellsTagged
<1> USE DEF Held, Describes, InWindow, Age, SlotAt
<1>1. /\ Len(activated') \in Nat /\ NewResult \in Result /\ be200_result_buff[c] \in Result
  BY NextType, NewResultType DEF TypeOK, JobType, RingType
<1>2. CASE Restart
  <2>1. be200_result_buff'[c].of.task.set = 0
    BY <1>2 DEF Restart, Cells, NoResult, NoFind, NoTask
  <2> QED BY <1>1, <2>1
<1>3. CASE ~Restart
  <2>1. ASSUME NEW e \in Result, Held(TagOf(e), e.of.task) PROVE Held(TagOf(e), e.of.task)'
    <3>1. TagOf(e) \in Tag /\ e.of.task \in Task
      BY DEF TagOf, Tag, Result, Find
    <3> HIDE DEF Held
    <3> QED BY <1>3, <2>1, <3>1, HeldKept
  <2>2. PICK e \in Result : /\ be200_result_buff'[c] = e
                            /\ e = be200_result_buff[c] \/ e = NewResult
    BY <1>1, <1>3, CellSteps
  <2>3. Held(TagOf(be200_result_buff[c]), be200_result_buff[c].of.task)
    BY DEF CellsTagged
  <2>4. Held(TagOf(NewResult), NewResult.of.task)
    <3>1. TagOf(NewResult) = miner_status[idx] /\ NewResult.of = chip[idx].src /\ idx \in Chips
      BY DEF NewResult, TagOf, TypeOK, ChipType, LoopType, Tag
    <3> HIDE DEF Held
    <3> QED BY <3>1 DEF ChipsTagged
  <2>5. Held(TagOf(e), e.of.task)
    <3> HIDE DEF Held
    <3> QED BY <2>2, <2>3, <2>4
  <2>6. Held(TagOf(e), e.of.task)'
    <3> HIDE DEF Held
    <3> QED BY <2>1, <2>5
  <2> QED BY <2>2, <2>6 DEF TagOf
<1> QED BY <1>2, <1>3

-----------------------------------------------------------------------------
(***************************************************************************)
(* Work is only handed out after a P_SET, so no nonce is one of no task.   *)
(***************************************************************************)
LoopMines == g_new_stratum = 1 \/ pc \in {"send", "pkg_send", "read"} => activated # <<>>
ChipsWork ==
  \A i \in Chips : /\ ~chip[i].allow => chip[i].task.set > 0
                   /\ chip[i].ready # "no" => chip[i].src.task.set > 0
QueueWork == \A k \in 1 .. Len(Queue) : Queue[k].of.task.set > 0
Worked == LoopMines /\ ChipsWork /\ QueueWork

LEMMA WorkedInit == Init => Worked
<1> SUFFICES ASSUME Init PROVE Worked
  OBVIOUS
<1>1. LoopMines
  BY DEF Init, LoopMines
<1>2. ChipsWork
  BY DEF Init, ChipsWork, IdleChips, ChipReset
<1>3. Queue = <<>>
  BY FifoInit DEF Fifo!Init
<1>4. Len(Queue) = 0
  BY <1>3
<1> QED BY <1>1, <1>2, <1>4 DEF Worked, QueueWork

LEMMA LoopMinesNext == TypeOK /\ LoopMines /\ [Next]_vars => LoopMines'
<1> SUFFICES ASSUME TypeOK, LoopMines, [Next]_vars PROVE LoopMines'
  OBVIOUS
<1> USE DEF LoopMines, jobVars, loopVars
<1>1. CASE Detect \/ Require \/ PollStatus \/ PollNonce
  BY <1>1 DEF Detect, Require, PollStatus, PollNonce
<1>2. ASSUME NEW f \in Fields, NEW job \in Jobs, Store(f, job) PROVE LoopMines'
  BY <1>2 DEF Store
<1>3. ASSUME NEW pwm \in Pwms, NEW freq \in Freqs, NEW offset \in Nonce2Offsets,
             NEW range \in Nonce2Ranges, Set(pwm, freq, offset, range)
      PROVE  LoopMines'
  <2>1. activated \in Seq(Work) /\ g_mm_works[NextSlot] \in Work
    BY NextSlotType DEF TypeOK, JobType
  <2>2. Append(activated, g_mm_works[NextSlot]) # <<>>
    BY <2>1
  <2> QED BY <1>3, <2>2 DEF Set
<1>4. CASE GetPkgReturn
  BY <1>4 DEF GetPkgReturn, NextChip
<1>5. CASE MainLoop \/ IdleTimeout \/ Dispatch
  BY <1>5 DEF MainLoop, IdleTimeout, Dispatch
<1>6. CASE SkipBusy
  BY <1>6 DEF SkipBusy, NextChip
<1>7. CASE ReadNothing \/ ReadValid
  BY <1>7 DEF ReadNothing, ReadValid, AfterRead, NextChip
<1>8. ASSUME NEW check \in {NONCE_HW, NONCE_VALID}, ReadBad(check) PROVE LoopMines'
  BY <1>8 DEF ReadBad, AfterRead, NextChip
<1>9. ASSUME NEW i \in Chips, ChipDone(i) PROVE LoopMines'
  BY <1>9 DEF ChipDone
<1>10. ASSUME NEW i \in Chips, NEW ready \in Readiness, ChipFind(i, ready) PROVE LoopMines'
  BY <1>10 DEF ChipFind
<1>11. CASE TimerExpires \/ Restart
  BY <1>11 DEF TimerExpires, Restart
<1>12. CASE UNCHANGED vars
  BY <1>12 DEF vars
<1> HIDE DEF LoopMines
<1> QED BY <1>1, <1>2, <1>3, <1>4, <1>5, <1>6, <1>7, <1>8, <1>9, <1>10, <1>11, <1>12
        DEF Next, Receive, Firmware, Environment

\* How a chip comes to work and to a nonce.
LEMMA ShowSteps ==
  ASSUME TypeOK, [Next]_vars, NEW i \in Chips
  PROVE  /\ \/ ~chip'[i].allow => ~chip[i].allow /\ chip'[i].task = chip[i].task
            \/ Dispatch /\ chip'[i].task.set = Len(activated)
         /\ \/ chip'[i].ready # "no" => /\ chip[i].ready = chip'[i].ready
                                        /\ chip'[i].src = chip[i].src
            \/ /\ \E ready \in Readiness : ChipFind(i, ready)
               /\ ~chip[i].allow /\ chip'[i].src = [task |-> chip[i].task, id |-> finds + 1]
<1> DEFINE Same == /\ ~chip'[i].allow => ~chip[i].allow /\ chip'[i].task = chip[i].task
                   /\ chip'[i].ready # "no" => /\ chip[i].ready = chip'[i].ready
                                               /\ chip'[i].src = chip[i].src
<1>1. chip \in [Chips -> Chip] /\ idx \in Chips
  BY DEF TypeOK, ChipType, LoopType
<1>2. UNCHANGED chipVars => Same
  BY DEF chipVars
<1>3. ASSUME Detect \/ Require \/ PollStatus \/ PollNonce PROVE Same
  BY <1>2, <1>3 DEF Detect, Require, PollStatus, PollNonce
<1>4. ASSUME NEW f \in Fields, NEW job \in Jobs, Store(f, job) PROVE Same
  BY <1>2, <1>4 DEF Store
<1>5. ASSUME NEW pwm \in Pwms, NEW freq \in Freqs, NEW offset \in Nonce2Offsets,
             NEW range \in Nonce2Ranges, Set(pwm, freq, offset, range)
      PROVE  Same
  BY <1>2, <1>5 DEF Set
<1>6. ASSUME GetPkgReturn \/ MainLoop \/ SkipBusy \/ IdleTimeout \/ TimerExpires PROVE Same
  BY <1>2, <1>6 DEF GetPkgReturn, MainLoop, SkipBusy, IdleTimeout, TimerExpires
<1>7. CASE Dispatch
  <2>1. CASE i = idx
    <3>1. chip'[i].ready = "no" /\ chip'[i].task.set = Len(activated)
      BY <1>1, <1>7, <2>1 DEF Dispatch, SendWork
    <3> QED BY <1>7, <3>1
  <2>2. CASE i # idx
    <3>1. chip'[i] = chip[i]
      BY <1>1, <1>7, <2>2 DEF Dispatch, SendWork
    <3> QED BY <3>1
  <2> QED BY <2>1, <2>2
<1>8. ASSUME ReadNothing PROVE Same
  BY <1>8 DEF ReadNothing
<1>g. chip' = [chip EXCEPT ![idx] = GetResult(@)] => Same
  BY <1>1 DEF GetResult, Chip
<1>i. chip' = IdleChips => Same
  BY DEF IdleChips, ChipReset
<1>9. ASSUME ReadValid PROVE Same
  BY <1>g, <1>9 DEF ReadValid
<1>10. ASSUME NEW check \in {NONCE_HW, NONCE_VALID}, ReadBad(check) PROVE Same
  <2>1. chip' = IdleChips \/ chip' = [chip EXCEPT ![idx] = GetResult(@)]
    BY <1>10 DEF ReadBad
  <2> HIDE DEF Same
  <2> QED BY <1>g, <1>i, <2>1
<1>11. ASSUME NEW j \in Chips, ChipDone(j) PROVE Same
  BY <1>1, <1>11 DEF ChipDone, Chip
<1>12. ASSUME NEW j \in Chips, NEW ready \in Readiness, ChipFind(j, ready)
       PROVE  \/ Same
              \/ /\ i = j /\ ~chip[i].allow /\ chip'[i].allow = chip[i].allow
                 /\ chip'[i].task = chip[i].task
                 /\ chip'[i].src = [task |-> chip[i].task, id |-> finds + 1]
  <2> DEFINE find == [task |-> chip[j].task, id |-> finds + 1]
  <2>1. chip' = [chip EXCEPT ![j].ready = ready, ![j].src = find] /\ ~chip[j].allow
    BY <1>12 DEF ChipFind
  <2> HIDE DEF find
  <2>2. CASE i = j
    <3>1. /\ chip'[i].src = find /\ chip'[i].allow = chip[i].allow
          /\ chip'[i].task = chip[i].task
      BY <1>1, <2>1, <2>2 DEF Chip
    <3> QED BY <2>1, <2>2, <3>1 DEF find
  <2>3. CASE i # j
    BY <1>1, <2>1, <2>3
  <2> QED BY <2>2, <2>3
<1>13. ASSUME Restart PROVE Same
  BY <1>i, <1>13 DEF Restart
<1>14. ASSUME UNCHANGED vars PROVE Same
  BY <1>2, <1>14 DEF vars
<1>15. Same \/ Dispatch \/ \E j \in Chips, ready \in Readiness : ChipFind(j, ready)
  <2> HIDE DEF Same
  <2> QED BY <1>3, <1>4, <1>5, <1>6, <1>8, <1>9, <1>10, <1>11, <1>13, <1>14
          DEF Next, Receive, Firmware, Environment
<1> QED BY <1>7, <1>12, <1>15

LEMMA ChipsWorkNext == TypeOK /\ LoopMines /\ ChipsWork /\ [Next]_vars => ChipsWork'
<1> SUFFICES ASSUME TypeOK, LoopMines, ChipsWork, [Next]_vars, NEW i \in Chips
             PROVE  /\ ~chip'[i].allow => chip'[i].task.set > 0
                    /\ chip'[i].ready # "no" => chip'[i].src.task.set > 0
  BY DEF ChipsWork
<1>1. Dispatch => Len(activated) > 0
  <2> SUFFICES ASSUME Dispatch PROVE Len(activated) > 0
    OBVIOUS
  <2>1. activated # <<>>
    BY DEF Dispatch, LoopMines
  <2>2. activated \in Seq(Work)
    BY DEF TypeOK, JobType
  <2> QED BY <2>1, <2>2, EmptySeq
<1>2. /\ ~chip[i].allow => chip[i].task.set > 0
      /\ chip[i].ready # "no" => chip[i].src.task.set > 0
  BY DEF ChipsWork
<1>3. ~chip'[i].allow => chip'[i].task.set > 0
  BY <1>1, <1>2, ShowSteps
<1>4. chip'[i].ready # "no" => chip'[i].src.task.set > 0
  <2>1. \/ chip'[i].ready # "no" => chip[i].ready = chip'[i].ready /\ chip'[i].src = chip[i].src
        \/ ~chip[i].allow /\ chip'[i].src = [task |-> chip[i].task, id |-> finds + 1]
    BY ShowSteps
  <2> QED BY <1>2, <2>1
<1> QED BY <1>3, <1>4

\* The ring's queue, element by element.
LEMMA QueueElements ==
  ASSUME TypeOK, [Next]_vars
  PROVE  /\ Len(Queue) \in Nat
         /\ \/ /\ PollNonce /\ Len(Queue) > 0 /\ Len(Queue') = Len(Queue) - 1
               /\ \A k \in 1 .. Len(Queue) - 1 : Queue'[k] = Queue[k + 1]
               /\ reply'.type = "NONCE" /\ reply'.result = Queue[1]
            \/ /\ ReadValid /\ Len(Queue') = Len(Queue) + 1
               /\ \A k \in 1 .. Len(Queue) : Queue'[k] = Queue[k]
               /\ Queue'[Len(Queue) + 1] = NewResult
               /\ reply'.type # "NONCE"
            \/ Len(Queue') = 0 /\ reply'.type # "NONCE"
            \/ Queue' = Queue /\ (reply'.type # "NONCE" \/ UNCHANGED vars)
<1>1. Queue \in Seq(Result) /\ Len(Queue) \in Nat /\ Len(Queue) <= RING_SIZE - 1
  BY QueueType, SizeAssumption DEF TypeOK
<1>2. Len(<<>>) = 0
  OBVIOUS
<1>3. CASE PollNonce
  <2>1. Queue # <<>> /\ RetHead = Head(Queue) /\ Queue' = Tail(Queue)
    BY <1>3, QueuePoll
  <2>2. /\ Len(Queue) > 0 /\ Len(Tail(Queue)) = Len(Queue) - 1 /\ Head(Queue) = Queue[1]
        /\ \A k \in 1 .. Len(Queue) - 1 : Tail(Queue)[k] = Queue[k + 1]
    BY <1>1, <2>1, HeadTailProperties, EmptySeq
  <2>3. reply'.type = "NONCE" /\ reply'.result = RetHead
    BY <1>3 DEF PollNonce, Send, NonceReply
  <2> QED BY <1>1, <1>3, <2>1, <2>2, <2>3
<1>4. CASE ReadValid
  <2>1. reply'.type # "NONCE"
    BY <1>4 DEF ReadValid, AfterRead, Quiet, Send
  <2>2. CASE Queue' = <<>>
    BY <1>1, <1>2, <2>1, <2>2
  <2>3. CASE Queue' = Append(Queue, NewResult)
    <3>1. NewResult \in Result
      BY NewResultType
    <3>2. /\ Len(Queue') = Len(Queue) + 1 /\ Queue'[Len(Queue) + 1] = NewResult
          /\ \A k \in 1 .. Len(Queue) : Queue'[k] = Queue[k]
      BY <1>1, <2>3, <3>1, AppendProperties
    <3> QED BY <1>1, <1>4, <2>1, <3>2
  <2> QED BY <1>4, <2>2, <2>3, QueueRead
<1>5. CASE Queue' = <<>> /\ reply'.type # "NONCE"
  BY <1>1, <1>2, <1>5
<1>6. CASE UNCHANGED ringVars /\ (reply'.type # "NONCE" \/ UNCHANGED vars)
  <2>1. Queue' = Queue
    BY <1>6 DEF ringVars, Queue
  <2> QED BY <1>1, <1>6, <2>1
<1> QED BY <1>3, <1>4, <1>5, <1>6, QueueSteps

LEMMA QueueWorkNext == TypeOK /\ ChipsWork /\ QueueWork /\ [Next]_vars => QueueWork'
<1> SUFFICES ASSUME TypeOK, ChipsWork, QueueWork, [Next]_vars, NEW k \in 1 .. Len(Queue')
             PROVE  Queue'[k].of.task.set > 0
  BY DEF QueueWork
<1>1. ReadValid => NewResult.of.task.set > 0
  BY DEF ReadValid, ChipsWork, NewResult, TypeOK, LoopType
<1>2. \A j \in 1 .. Len(Queue) : Queue[j].of.task.set > 0
  BY DEF QueueWork
<1> HIDE DEF QueueWork
<1>3. Len(Queue) \in Nat
  BY QueueElements
<1> DEFINE n == Len(Queue)
<1> HIDE DEF n
<1>4. CASE /\ n > 0 /\ Len(Queue') = n - 1 /\ \A j \in 1 .. n - 1 : Queue'[j] = Queue[j + 1]
  <2>1. k \in 1 .. n - 1 /\ k + 1 \in 1 .. n
    BY <1>3, <1>4 DEF n
  <2> QED BY <1>2, <1>4, <2>1 DEF n
<1>5. CASE /\ ReadValid /\ Len(Queue') = n + 1 /\ Queue'[n + 1] = NewResult
           /\ \A j \in 1 .. n : Queue'[j] = Queue[j]
  <2>1. k = n + 1 \/ k \in 1 .. n
    BY <1>3, <1>5 DEF n
  <2> QED BY <1>1, <1>2, <1>5, <2>1 DEF n
<1>6. CASE Len(Queue') = 0
  BY <1>6
<1>7. CASE Queue' = Queue
  BY <1>2, <1>7
<1> QED BY <1>4, <1>5, <1>6, <1>7, QueueElements DEF n

LEMMA WorkedNext == TypeOK /\ Worked /\ [Next]_vars => Worked'
BY LoopMinesNext, ChipsWorkNext, QueueWorkNext DEF Worked

-----------------------------------------------------------------------------
(***************************************************************************)
(* The theorems on attribution.                                            *)
(***************************************************************************)
AttributionInv ==
  TypeOK /\ SlotsKept /\ ChipsTagged /\ CellsTagged /\ Worked /\ ReplyRight

LEMMA ReplyRightNext ==
  TypeOK /\ CellsTagged /\ QueueWork /\ ReplyRight /\ [Next]_vars => ReplyRight'
<1> SUFFICES ASSUME TypeOK, CellsTagged, QueueWork, ReplyRight, [Next]_vars PROVE ReplyRight'
  OBVIOUS
<1>1. CASE reply'.type # "NONCE"
  BY <1>1 DEF ReplyRight
<1>2. CASE UNCHANGED vars
  BY <1>2 DEF vars, ReplyRight
<1>3. CASE PollNonce
  <2> DEFINE e == be200_result_buff[be200_ret_consume]
             task == e.of.task
  <2>1. reply' = NonceReply(e) /\ be200_ret_consume \in Cells /\ RetHead = e
    BY <1>3 DEF PollNonce, Send, RetHead, TypeOK, RingType
  <2>2. Held(TagOf(e), task)
    BY <2>1 DEF CellsTagged
  <2>3. task.set > 0
    <3>1. Len(Queue) > 0 /\ Queue[1] = Head(Queue) /\ RetHead = Head(Queue) /\ Len(Queue) \in Nat
      BY <1>3, QueuePoll, QueueType, HeadTailProperties, EmptySeq, SizeAssumption DEF TypeOK
    <3>2. 1 \in 1 .. Len(Queue)
      BY <3>1
    <3> QED BY <2>1, <3>1, <3>2 DEF QueueWork
  <2>4. /\ reply'.pool_no = g_mm_works[e.mm_idx][STATIC]
        /\ reply'.job_id = g_mm_works[e.mm_idx][JOB_ID]
        /\ reply'.result = e /\ reply'.age = Len(activated) - task.set
    BY <2>1 DEF NonceReply
  <2>5. ASSUME reply'.age < MM_BUF_NUM - 1
        PROVE  /\ reply'.pool_no = task.work[STATIC] /\ reply'.job_id = task.work[JOB_ID]
               /\ e.nonce2 = task.nonce2
    <3>1. InWindow(task)
      BY <2>3, <2>4, <2>5 DEF InWindow, Age
    <3>2. e.nonce2 = task.nonce2 /\ task.work = g_mm_works[e.mm_idx]
      BY <2>2, <3>1 DEF Held, Describes, TagOf
    <3> QED BY <2>4, <3>2
  <2> QED BY <2>4, <2>5 DEF ReplyRight
<1> QED BY <1>1, <1>2, <1>3, QueueSteps DEF ReadValid, AfterRead, Quiet, Send

LEMMA AttributionInit == Init => AttributionInv
<1>1. Init => ReplyRight
  BY DEF Init, ReplyRight
<1> QED BY <1>1, InitType, SlotsKeptInit, TagsInit, WorkedInit DEF AttributionInv

LEMMA AttributionNext == AttributionInv /\ [Next]_vars => AttributionInv'
<1> SUFFICES ASSUME AttributionInv, [Next]_vars PROVE AttributionInv'
  OBVIOUS
<1>1. TypeOK' /\ SlotsKept'
  BY NextType, SlotsKeptNext DEF AttributionInv
<1>2. ChipsTagged' /\ CellsTagged'
  BY ChipsTaggedNext, CellsTaggedNext DEF AttributionInv
<1>3. Worked' /\ ReplyRight'
  BY WorkedNext, ReplyRightNext DEF AttributionInv, Worked
<1> QED BY <1>1, <1>2, <1>3 DEF AttributionInv

LEMMA AttributionAlways == Spec => []AttributionInv
BY AttributionInit, AttributionNext, PTL DEF Spec

\* The ring's queue is made of cells, so its tags describe their tasks too.
LEMMA CellsToQueue == TypeOK /\ CellsTagged => ResultsTagged
<1> SUFFICES ASSUME TypeOK, CellsTagged, NEW k \in 1 .. Len(Queue)
             PROVE  Describes([nonce2 |-> Queue[k].nonce2, mm_idx |-> Queue[k].mm_idx],
                              Queue[k].of.task)
  BY DEF ResultsTagged
<1>1. /\ be200_ret_produce \in 0 .. RING_SIZE - 1 /\ be200_ret_consume \in 0 .. RING_SIZE - 1
      /\ RING_SIZE \in Nat \ {0}
  BY SizeAssumption DEF TypeOK, RingType, Cells
<1> DEFINE n == RingCount(RING_SIZE, be200_ret_produce, be200_ret_consume)
           c == RingCell(RING_SIZE, be200_ret_consume, k)
<1>2. Len(Queue) = n /\ \A j \in 1 .. n :
        Queue[j] = be200_result_buff[RingCell(RING_SIZE, be200_ret_consume, j)]
  BY <1>1, RingQueueElements, ZenonT(40) DEF Queue
<1>3. Queue[k] = be200_result_buff[c]
  BY <1>2
<1>4. c \in Cells
  BY <1>1, <1>2, RingCountType DEF Cells
<1>5. Held(TagOf(be200_result_buff[c]), be200_result_buff[c].of.task)
  BY <1>4 DEF CellsTagged
<1> HIDE DEF c
<1> QED BY <1>3, <1>5 DEF Held, TagOf

(***************************************************************************)
(* The nonce a chip shows is one of the task its tag describes.            *)
(***************************************************************************)
THEOREM NoncesTagged == Spec => []NonceTagged
<1>1. AttributionInv => NonceTagged
  BY DEF AttributionInv, ChipsTagged, NonceTagged, Held
<1> QED BY <1>1, AttributionAlways, PTL

(***************************************************************************)
(* So is every result that waits in the ring.                              *)
(***************************************************************************)
THEOREM RingTagged == Spec => []ResultsTagged
<1>1. AttributionInv => ResultsTagged
  BY CellsToQueue DEF AttributionInv
<1> QED BY <1>1, AttributionAlways, PTL

(***************************************************************************)
(* What be200_polling reports of a result in the window is the pool, the   *)
(* job and the nonce2 of the work the nonce was found for.                 *)
(***************************************************************************)
THEOREM RepliesRight == Spec => []ReplyRight
<1>1. AttributionInv => ReplyRight
  BY DEF AttributionInv
<1> QED BY <1>1, AttributionAlways, PTL

-----------------------------------------------------------------------------
(***************************************************************************)
(* Each nonce is reported once.  A nonce found now has a number above all  *)
(* others; from then on it is in one place.                                *)
(***************************************************************************)
Shown(i) == chip[i].ready = "nonce"

NumbersBound ==
  /\ \A i \in Chips : Shown(i) => chip[i].src.id <= finds
  /\ \A k \in 1 .. Len(Queue) : Queue[k].of.id <= finds
  /\ reply.type = "NONCE" => reply.result.of.id <= finds
ShownOnce == \A i, j \in Chips : Shown(i) /\ Shown(j) /\ chip[i].src.id = chip[j].src.id => i = j
OnceInv == TypeOK /\ NumbersBound /\ ShownOnce /\ OncePerNonce

LEMMA OnceInit == Init => OnceInv
<1> SUFFICES ASSUME Init PROVE OnceInv
  OBVIOUS
<1>1. Len(Queue) = 0
  <2>1. Queue = <<>>
    BY FifoInit DEF Fifo!Init
  <2> QED BY <2>1
<1>2. \A i \in Chips : ~Shown(i)
  BY DEF Init, IdleChips, ChipReset, Shown
<1>3. reply.type # "NONCE"
  BY DEF Init
<1>4. OncePerNonce
  <2>1. \A j, k \in 1 .. Len(Queue) : Queue[j].of.id = Queue[k].of.id => j = k
    BY <1>1
  <2> QED BY <1>1, <1>2, <1>3, <2>1 DEF OncePerNonce, Shown
<1> QED BY <1>1, <1>2, <1>3, <1>4, InitType DEF OnceInv, NumbersBound, ShownOnce

\* Only a chip's find counts.
LEMMA FindSteps ==
  ASSUME TypeOK, [Next]_vars
  PROVE  \/ \E i \in Chips, ready \in Readiness : ChipFind(i, ready)
         \/ finds' = finds
<1> USE DEF chipVars
<1>1. CASE Detect \/ Require \/ PollStatus \/ PollNonce
  BY <1>1 DEF Detect, Require, PollStatus, PollNonce
<1>2. ASSUME NEW f \in Fields, NEW job \in Jobs, Store(f, job) PROVE finds' = finds
  BY <1>2 DEF Store
<1>3. ASSUME NEW pwm \in Pwms, NEW freq \in Freqs, NEW offset \in Nonce2Offsets,
             NEW range \in Nonce2Ranges, Set(pwm, freq, offset, range)
      PROVE  finds' = finds
  BY <1>3 DEF Set
<1>4. CASE GetPkgReturn \/ MainLoop \/ Dispatch \/ SkipBusy \/ IdleTimeout
  BY <1>4 DEF GetPkgReturn, MainLoop, Dispatch, SkipBusy, IdleTimeout
<1>5. CASE ReadNothing \/ ReadValid
  BY <1>5 DEF ReadNothing, ReadValid, AfterRead
<1>6. ASSUME NEW check \in {NONCE_HW, NONCE_VALID}, ReadBad(check) PROVE finds' = finds
  BY <1>6 DEF ReadBad, AfterRead
<1>7. ASSUME NEW i \in Chips, ChipDone(i) PROVE finds' = finds
  BY <1>7 DEF ChipDone
<1>8. CASE TimerExpires \/ Restart
  BY <1>8 DEF TimerExpires, Restart
<1>9. CASE UNCHANGED vars
  BY <1>9 DEF vars
<1> QED BY <1>1, <1>2, <1>3, <1>4, <1>5, <1>6, <1>7, <1>8, <1>9
        DEF Next, Receive, Firmware, Environment

\* The step of a find.
LEMMA OnceFind ==
  ASSUME OnceInv, NEW i \in Chips, NEW ready \in Readiness, ChipFind(i, ready)
  PROVE  NumbersBound' /\ ShownOnce' /\ OncePerNonce'
<1> DEFINE find == [task |-> chip[i].task, id |-> finds + 1]
<1>1. /\ chip \in [Chips -> Chip] /\ finds \in Nat
      /\ \A j \in Chips : chip[j].src.id \in Nat
  BY DEF OnceInv, TypeOK, ChipType, Chip, Find
<1>2. /\ chip' = [chip EXCEPT ![i].ready = ready, ![i].src = find]
      /\ finds' = finds + 1 /\ reply'.type # "NONCE" /\ UNCHANGED ringVars
  BY DEF ChipFind, Quiet, Send
<1>3. find.id = finds + 1
  OBVIOUS
<1> HIDE DEF find
<1>4. chip'[i].src = find /\ \A j \in Chips \ {i} : chip'[j] = chip[j]
  BY <1>1, <1>2 DEF Chip
<1>5. Queue' = Queue
  BY <1>2 DEF ringVars, Queue
<1>6. \A k \in 1 .. Len(Queue) : Queue[k].of.id \in Nat
  <2>1. Queue \in Seq(Result)
    BY QueueType DEF OnceInv, TypeOK
  <2>2. \A k \in 1 .. Len(Queue) : Queue[k] \in Result
    BY <2>1
  <2> QED BY <2>2 DEF Result, Find
<1>7. NumbersBound'
  <2>1. \A j \in Chips : Shown(j)' => chip'[j].src.id <= finds + 1
    BY <1>1, <1>3, <1>4 DEF OnceInv, NumbersBound, Shown
  <2>2. \A k \in 1 .. Len(Queue) : Queue[k].of.id <= finds + 1
    BY <1>1, <1>6 DEF OnceInv, NumbersBound
  <2> QED BY <1>2, <1>5, <2>1, <2>2 DEF NumbersBound, Shown
<1>8. ShownOnce'
  BY <1>1, <1>3, <1>4 DEF OnceInv, NumbersBound, ShownOnce, Shown
<1>9. OncePerNonce'
  <2>1. \A j \in Chips, k \in 1 .. Len(Queue) :
          chip'[j].ready = "nonce" => chip'[j].src.id # Queue[k].of.id
    <3> SUFFICES ASSUME NEW j \in Chips, NEW k \in 1 .. Len(Queue), chip'[j].ready = "nonce"
                 PROVE  chip'[j].src.id # Queue[k].of.id
      OBVIOUS
    <3>1. CASE j = i
      BY <1>1, <1>3, <1>4, <1>6, <3>1 DEF OnceInv, NumbersBound
    <3>2. CASE j # i
      BY <1>4, <3>2 DEF OnceInv, OncePerNonce
    <3> QED BY <3>1, <3>2
  <2>2. \A j, k \in 1 .. Len(Queue) : Queue[j].of.id = Queue[k].of.id => j = k
    BY DEF OnceInv, OncePerNonce
  <2> QED BY <1>2, <1>5, <2>1, <2>2 DEF OncePerNonce
<1> QED BY <1>7, <1>8, <1>9

\* Any other step shows no nonce it did not show before.
LEMMA OnceOther ==
  ASSUME "nomask" \notin Readiness, OnceInv, [Next]_vars,
         ~ \E i \in Chips, ready \in Readiness : ChipFind(i, ready)
  PROVE  NumbersBound' /\ ShownOnce' /\ OncePerNonce'
<1>1. TypeOK /\ finds' = finds /\ idx \in Chips /\ chip \in [Chips -> Chip]
  BY FindSteps DEF OnceInv, TypeOK, LoopType, ChipType
<1>2. \A i \in Chips : Shown(i)' => Shown(i) /\ chip'[i].src = chip[i].src
  BY <1>1, ShowSteps DEF Shown
<1>3. ShownOnce' /\ \A i \in Chips : Shown(i)' => chip'[i].src.id <= finds'
  BY <1>1, <1>2 DEF OnceInv, ShownOnce, NumbersBound, Shown
<1> DEFINE n == Len(Queue)
<1> HIDE DEF n
<1>4. n \in Nat
  BY <1>1, QueueElements DEF n
<1>5. /\ \A k \in 1 .. n : Queue[k].of.id <= finds
      /\ \A j, k \in 1 .. n : Queue[j].of.id = Queue[k].of.id => j = k
      /\ \A i \in Chips, k \in 1 .. n : Shown(i) => chip[i].src.id # Queue[k].of.id
  BY DEF n, OnceInv, NumbersBound, OncePerNonce, Shown
<1>6. CASE /\ n > 0 /\ Len(Queue') = n - 1 /\ \A k \in 1 .. n - 1 : Queue'[k] = Queue[k + 1]
           /\ reply'.type = "NONCE" /\ reply'.result = Queue[1]
  <2>1. \A k \in 1 .. n - 1 : k + 1 \in 1 .. n /\ k + 1 # 1
    BY <1>4
  <2>2. 1 \in 1 .. n
    BY <1>4, <1>6
  <2>3. NumbersBound'
    BY <1>1, <1>3, <1>5, <1>6, <2>1, <2>2 DEF NumbersBound
  <2>4. \A j, k \in 1 .. n - 1 : Queue'[j].of.id = Queue'[k].of.id => j = k
    <3> SUFFICES ASSUME NEW j \in 1 .. n - 1, NEW k \in 1 .. n - 1,
                        Queue'[j].of.id = Queue'[k].of.id
                 PROVE  j = k
      OBVIOUS
    <3>1. j + 1 = k + 1
      BY <1>5, <1>6, <2>1
    <3> QED BY <1>4, <3>1
  <2>5. \A i \in Chips, k \in 1 .. n - 1 : Shown(i)' => chip'[i].src.id # Queue'[k].of.id
    BY <1>2, <1>5, <1>6, <2>1
  <2>6. \A k \in 1 .. n - 1 : Queue'[k].of.id # reply'.result.of.id
    BY <1>5, <1>6, <2>1, <2>2
  <2>7. \A i \in Chips : Shown(i)' => chip'[i].src.id # reply'.result.of.id
    BY <1>2, <1>5, <1>6, <2>2
  <2>8. OncePerNonce'
    BY <1>6, <2>4, <2>5, <2>6, <2>7 DEF OncePerNonce, Shown
  <2> QED BY <1>3, <2>3, <2>8
<1>7. CASE /\ ReadValid /\ Len(Queue') = n + 1 /\ Queue'[n + 1] = NewResult
           /\ \A k \in 1 .. n : Queue'[k] = Queue[k]
           /\ reply'.type # "NONCE"
  <2>1. \A k \in 1 .. n + 1 : k = n + 1 \/ k \in 1 .. n
    BY <1>4
  <2>2. /\ Shown(idx) /\ chip'[idx].ready # "nonce" /\ NewResult.of = chip[idx].src
        /\ chip[idx].src.id <= finds
    <3>1. Shown(idx)
      <4>1. chip[idx].ready \in Readiness \cup {"no"}
        BY <1>1 DEF Chip
      <4> QED BY <1>7, <4>1 DEF ReadValid, TestNonce, Shown, NONCE_DIFF, NONCE_HW
    <3>2. chip'[idx].ready = "no"
      BY <1>1, <1>7, <3>1 DEF ReadValid, GetResult, Shown, Chip
    <3> QED BY <1>1, <3>1, <3>2 DEF Shown, NewResult, OnceInv, NumbersBound
  <2>3. NumbersBound'
    BY <1>1, <1>3, <1>5, <1>7, <2>1, <2>2 DEF NumbersBound
  <2>4. \A j, k \in 1 .. n + 1 : Queue'[j].of.id = Queue'[k].of.id => j = k
    BY <1>1, <1>5, <1>7, <2>1, <2>2
  <2>5. \A i \in Chips, k \in 1 .. n + 1 : Shown(i)' => chip'[i].src.id # Queue'[k].of.id
    <3> SUFFICES ASSUME NEW i \in Chips, NEW k \in 1 .. n + 1, Shown(i)'
                 PROVE  chip'[i].src.id # Queue'[k].of.id
      OBVIOUS
    <3>1. Shown(i) /\ chip'[i].src = chip[i].src
      BY <1>2
    <3>2. CASE k \in 1 .. n
      BY <1>5, <1>7, <3>1, <3>2
    <3>3. CASE k = n + 1
      <4>1. i # idx
        BY <2>2 DEF Shown
      <4>2. chip[i].src.id # chip[idx].src.id
        BY <1>1, <2>2, <3>1, <4>1 DEF OnceInv, ShownOnce
      <4> QED BY <1>7, <2>2, <3>1, <3>3, <4>2
    <3> QED BY <2>1, <3>2, <3>3
  <2>6. OncePerNonce'
    BY <1>7, <2>4, <2>5 DEF OncePerNonce, Shown
  <2> QED BY <1>3, <2>3, <2>6
<1>8. CASE Len(Queue') = 0 /\ reply'.type # "NONCE"
  <2>1. \A k \in 1 .. Len(Queue') : FALSE
    BY <1>8
  <2>2. NumbersBound' /\ OncePerNonce'
    BY <1>3, <1>8, <2>1 DEF NumbersBound, OncePerNonce
  <2> QED BY <1>3, <2>2
<1>9. CASE Queue' = Queue /\ reply'.type # "NONCE"
  <2>1. NumbersBound' /\ OncePerNonce'
    BY <1>1, <1>2, <1>3, <1>5, <1>9 DEF NumbersBound, OncePerNonce, Shown, n
  <2> QED BY <1>3, <2>1
<1>10. CASE Queue' = Queue /\ UNCHANGED vars
  <2>1. chip' = chip /\ reply' = reply
    BY <1>10 DEF vars, chipVars
  <2>2. NumbersBound' /\ OncePerNonce'
    BY <1>1, <1>10, <2>1 DEF NumbersBound, OncePerNonce, Shown, OnceInv
  <2> QED BY <1>3, <2>2
<1> QED BY <1>1, <1>6, <1>7, <1>8, <1>9, <1>10, QueueElements DEF n

(***************************************************************************)
(* A nonce is on a chip, in the ring or given to the host, never in two    *)
(* places and never twice in the ring: only the CLEAR in be200_get_result  *)
(* keeps the next pass from reading it again.  Without a nonce bit that    *)
(* function clears nothing, hence the assumption.                          *)
(***************************************************************************)
THEOREM NoncesOnce == "nomask" \notin Readiness => (Spec => []OncePerNonce)
<1> SUFFICES ASSUME "nomask" \notin Readiness PROVE Spec => []OncePerNonce
  OBVIOUS
<1>1. OnceInv /\ [Next]_vars => OnceInv'
  <2> SUFFICES ASSUME OnceInv, [Next]_vars PROVE OnceInv'
    OBVIOUS
  <2>1. TypeOK'
    BY NextType DEF OnceInv
  <2>2. NumbersBound' /\ ShownOnce' /\ OncePerNonce'
    BY OnceFind, OnceOther
  <2> QED BY <2>1, <2>2 DEF OnceInv
<1>2. OnceInv => OncePerNonce
  BY DEF OnceInv
<1> QED BY <1>1, <1>2, OnceInit, PTL DEF Spec
=============================================================================

---------------------------- MODULE Timers_proofs ----------------------------
(***************************************************************************)
(* The watchdog and the idle timeout, for every speed of the clock and     *)
(* every IDLE_TIME: what bites, what hangs and when the mining stops.      *)
(***************************************************************************)
EXTENDS Timers, TLAPS

\* The types of the variables that count.
Counters == sec_cnt \in [Timer -> 0 .. 63]
Typed ==
  /\ wdg_cnt \in Nat
  /\ caller \in {"temp?", "work"}
  /\ wait \in {0, 1} /\ i \in 0 .. 10 /\ g_new_stratum \in {0, 1}
  /\ pass \in Nat /\ inpkg \in Nat /\ busy \in 0 .. MaxWork /\ since \in Nat

\* Where the ticks of a pass went: half blinks and the reset before the loop, get_pkg and
\* other code in it.
Blinks(n) == IF n < 2 THEN 0 ELSE IF n < 4 THEN 1 ELSE IF n < 6 THEN 2
                ELSE IF n < 8 THEN 3 ELSE IF n < 10 THEN 4 ELSE 5
SpentAt(at, n, w, p, b, k) ==
  /\ at = "main"  => w = 0 /\ n = 0 /\ p = b
  /\ at = "blink" => p + w = b + Blinks(n)
  /\ at = "reset" => p + w <= b + 6
  /\ at = "loop"  => p = b + k \/ p <= b + 6
  /\ at \notin {"main", "blink", "reset", "loop"} => p = b + k
  /\ at \notin {"blink", "reset", "lamp"} => w = 0
Spent == SpentAt(pc, i, wait, pass, busy, inpkg)

\* What the watchdog has left.
Watched ==
  /\ pc = "main" => ~wdg_en
  /\ pc # "main" => /\ wdg_en /\ wdg_cnt >= 2
                    /\ Fed <= wdg_cnt + pass /\ wdg_cnt + pass <= Fed + MaxWork

FeedInv == Typed /\ Spent /\ Watched

\* What timer 0 has left, and how late a pass may be that has looked at it.
IdleAt(at, cl, g, s, c, p) ==
  /\ at = "main" \/ at = "blink" \/ at = "reset" => g = 0
  /\ g = 1 => s + c >= IDLE_TIME
  /\ g = 1 /\ c > 0 => s + c = IDLE_TIME
  /\ g = 1 /\ (cl = "work" \/ at = "work" \/ at = "loop") => s <= IDLE_TIME + p
IdleInv == IdleAt(pc, caller, g_new_stratum, since, sec_cnt[0], pass)

-------------------------------------------------------------------------------
LEMMA FedIsNat == Fed \in Nat /\ Fed \in 0 .. WDG_COUNTS - 1
<1>1. CPU_FREQUENCY * WDG_SECONDS \in Int
  BY TimeAssumption
<1> DEFINE clocks == CPU_FREQUENCY * WDG_SECONDS
<1> HIDE DEF clocks
<1>2. clocks \in Int
  BY <1>1 DEF clocks
<1>3. clocks % WORD \in Nat
  BY <1>2, TimeAssumption
<1> DEFINE word == clocks % WORD
<1> HIDE DEF word
<1>4. word \in Nat
  BY <1>3 DEF word
<1>5. word % WDG_COUNTS \in 0 .. WDG_COUNTS - 1
  BY <1>4, TimeAssumption
<1>6. word % WDG_COUNTS \in Nat
  BY <1>5, TimeAssumption
<1> QED
  BY <1>5, <1>6 DEF Fed, clocks, word

LEMMA FeedFed == Feed(WDG_SECONDS) <=> wdg_en' = TRUE /\ wdg_cnt' = Fed
BY DEF Feed, Fed

LEMMA FeedInvInit == Init => FeedInv
<1> SUFFICES ASSUME Init PROVE FeedInv
  OBVIOUS
<1>1. Typed
  BY TimeAssumption DEF Init, Typed
<1>2. Spent /\ Watched
  BY DEF Init, Spent, SpentAt, Watched
<1> QED
  BY <1>1, <1>2 DEF FeedInv

LEMMA BlinksOne ==
  ASSUME NEW n \in Int, NEW r \in Int, 0 <= n, n <= 10,
         r = (IF n = 0 \/ n = 2 \/ n = 4 \/ n = 6 \/ n = 8 \/ n = 10 THEN 0 ELSE 1)
  PROVE  Blinks(n + 1) = Blinks(n) + r /\ r \in {0, 1}
BY DEF Blinks

LEMMA BlinksStep ==
  /\ Blinks(0) = 0 /\ Blinks(10) = 5
  /\ \A n \in 0 .. 10 : Blinks(n) \in 0 .. 5
  /\ \A n \in 0 .. 10 : Blinks(n + 1) = Blinks(n) + (n % 2) /\ n % 2 \in {0, 1}
<1>1. Blinks(0) = 0 /\ Blinks(10) = 5
  BY DEF Blinks
<1>2. \A n \in 0 .. 10 : Blinks(n) \in 0 .. 5
  BY DEF Blinks
<1>3. ASSUME NEW n \in 0 .. 10 PROVE Blinks(n + 1) = Blinks(n) + (n % 2) /\ n % 2 \in {0, 1}
  <2>1. n % 2 = (IF n = 0 \/ n = 2 \/ n = 4 \/ n = 6 \/ n = 8 \/ n = 10 THEN 0 ELSE 1)
    OBVIOUS
  <2> QED
    BY <2>1, BlinksOne
<1> QED
  BY <1>1, <1>2, <1>3

\* Where a tick goes: to get_pkg, or to a delay or other code.
LEMMA TickSpent ==
  ASSUME Typed, Tick
  PROVE  /\ pass' = pass + 1 /\ pc' = pc /\ i' = i
         /\ wait' \in {0, 1} /\ wait' = IF wait = 0 THEN 0 ELSE wait - 1
         /\ inpkg' \in Nat /\ busy' \in 0 .. MaxWork
         /\ IF InGetPkg THEN inpkg' = inpkg + 1 /\ busy' = busy
                        ELSE inpkg' = inpkg /\ busy' = IF wait = 0 THEN busy + 1 ELSE busy
BY TimeAssumption DEF Tick, Typed

\* A tick keeps the account.
LEMMA SpentInGetPkg ==
  ASSUME NEW at, at # "main", at # "blink", at # "reset", at # "loop", NEW n \in Int, NEW w \in Int,
         NEW v \in Int, NEW p \in Int, NEW b \in Int, NEW k \in Int,
         SpentAt(at, n, w, p, b, k), w = 0 => v = 0
  PROVE  SpentAt(at, n, v, p + 1, b, k + 1)
BY DEF SpentAt

LEMMA SpentElsewhere ==
  ASSUME NEW at, at # "lamp",
         NEW n \in 0 .. 10, NEW w \in {0, 1}, NEW p \in Int, NEW b \in Int, NEW k \in Int,
         SpentAt(at, n, w, p, b, k)
  PROVE  /\ w = 0 => SpentAt(at, n, 0, p + 1, b + 1, k)
         /\ w # 0 => SpentAt(at, n, 0, p + 1, b, k)
<1>1. Blinks(n) \in 0 .. 5
  BY BlinksStep
<1>2. ASSUME w = 0 PROVE SpentAt(at, n, 0, p + 1, b + 1, k)
  BY <1>1, <1>2 DEF SpentAt
<1>3. ASSUME w = 1 PROVE SpentAt(at, n, 0, p + 1, b, k)
  <2>1. at = "blink" \/ at = "reset"
    BY <1>3 DEF SpentAt
  <2> QED
    BY <1>1, <1>3, <2>1 DEF SpentAt
<1> QED
  BY <1>2, <1>3

LEMMA TickWatched ==
  ASSUME Typed, Tick, wdg_en, wdg_cnt >= 2
  PROVE  wdg_en' /\ wdg_cnt' = wdg_cnt - 1 /\ wdg_cnt' >= 2
BY DEF Tick, Typed, Bites

LEMMA TypedStep == Typed /\ [Next]_vars => Typed'
<1> SUFFICES ASSUME Typed, [Next]_vars PROVE Typed'
  OBVIOUS
<1> USE FedIsNat, TimeAssumption DEF Typed, Short, restVars, localVars, timeVars, passVars, readVars
<1>1. CASE Main
  BY <1>1, FeedFed, BlinksStep DEF Main, Go
<1>2. CASE Blink
  BY <1>2 DEF Blink, Go
<1>3. CASE HardReset
  BY <1>3 DEF HardReset, Go
<1>4. CASE Started
  BY <1>4 DEF Started, Go, TimerSet
<1>5. CASE Loop
  BY <1>5, FeedFed DEF Loop, Go, NewPass
<1>6. CASE Set
  BY <1>6 DEF Set, Go, TimerSet
<1>7. CASE LampBack
  BY <1>7 DEF LampBack, Go
<1>8. CASE Detect \/ IdleTimeout
  BY <1>8 DEF Detect, IdleTimeout, Stop, Go
<1>9. CASE Status \/ StatusAgain \/ StatusSent \/ CutOff \/ Completed
  <2>1. CASE Status \/ StatusAgain
    BY <2>1 DEF Status, StatusAgain, Look, Go
  <2>2. CASE StatusSent
    BY <2>2 DEF StatusSent, Look, Go
  <2>3. CASE CutOff
    BY <2>3 DEF CutOff, Look, Go
  <2>4. CASE Completed
    BY <2>4 DEF Completed, Look, Go
  <2> QED
    BY <1>9, <2>1, <2>2, <2>3, <2>4
<1>10. CASE TempRead
  BY <1>10 DEF TempRead, Go
<1>11. CASE HotLamp \/ NextWork
  BY <1>11 DEF HotLamp, NextWork, Go
<1>12. CASE CarryOut
  BY <1>12 DEF CarryOut
<1>13. CASE Tick
  <2>1. wdg_cnt' \in Nat /\ since' \in Nat /\ caller' = caller /\ g_new_stratum' = g_new_stratum
    BY <1>13 DEF Tick
  <2> QED
    BY <1>13, <2>1, TickSpent
<1>14. CASE Bite
  <2>1. wdg_cnt' = 0 /\ pc' = "main" /\ caller' = "temp?" /\ wait' = 0 /\ i' = 0
        /\ g_new_stratum' = 0 /\ pass' = 0 /\ inpkg' = 0 /\ busy' = 0 /\ since' = 0
    BY <1>14 DEF Bite
  <2> QED
    BY <2>1
<1>15. CASE UNCHANGED vars
  BY <1>15 DEF vars
<1>16. CASE GetPkgReturn \/ GoOn \/ TempDue \/ TempNotDue
  BY <1>16 DEF GetPkgReturn, GoOn, TempDue, TempNotDue, Look, Go
<1>17. CASE WorkDone \/ NextStep
  <2>1. CASE WorkDone
    BY <2>1 DEF WorkDone, Look, Go
  <2>2. CASE NextStep
    BY <2>2 DEF NextStep, Look, Go
  <2> QED
    BY <1>17, <2>1, <2>2
<1> QED
  BY <1>1, <1>2, <1>3, <1>4, <1>5, <1>6, <1>7, <1>8, <1>9, <1>10, <1>11, <1>12, <1>13, <1>14,
     <1>15, <1>16, <1>17
  DEF Next, Firmware, GetPkg

LEMMA SpentStep == Typed /\ Spent /\ [Next]_vars => Spent'
<1>0. SUFFICES ASSUME Typed, Spent, [Next]_vars PROVE Spent'
  OBVIOUS
<1>a. /\ pass \in Int /\ busy \in Int /\ inpkg \in Int /\ wait \in Int /\ i \in 0 .. 10
      /\ wait \in {0, 1} /\ caller \in {"temp?", "work"}
  BY <1>0, TimeAssumption DEF Typed
<1> USE <1>a DEF restVars, localVars, timeVars, passVars, readVars, Short
<1>1. CASE Main
  BY <1>1, <1>0, BlinksStep DEF Main, Go, Spent, SpentAt
<1>2. CASE Blink
  BY <1>2, <1>0, BlinksStep DEF Blink, Go, Spent, SpentAt
<1>3. CASE HardReset
  <2>1. pass = busy + 5
    BY <1>3, <1>0, BlinksStep DEF HardReset, Go, Spent, SpentAt
  <2>2. pc' = "reset" /\ pass' = pass /\ busy' = busy /\ wait' \in {0, 1}
    BY <1>3 DEF HardReset, Go
  <2>3. \A w \in {0, 1} : pass + w <= busy + 6
    BY <2>1
  <2>4. pass' + wait' <= busy' + 6
    BY <2>2, <2>3
  <2> QED
    BY <2>2, <2>4 DEF Spent, SpentAt
<1>4. CASE Started
  BY <1>4, <1>0 DEF Started, Go, TimerSet, Spent, SpentAt
<1>5. CASE Loop
  BY <1>5, <1>0 DEF Loop, Go, NewPass, Spent, SpentAt
<1>6. CASE Set
  BY <1>6, <1>0 DEF Set, Go, TimerSet, Spent, SpentAt
<1>7. CASE LampBack
  BY <1>7, <1>0 DEF LampBack, Go, Spent, SpentAt
<1>8. CASE Detect \/ IdleTimeout
  BY <1>8, <1>0 DEF Detect, IdleTimeout, Stop, Go, Spent, SpentAt
<1>9. CASE \/ Status \/ StatusAgain \/ StatusSent \/ CutOff \/ Completed \/ GetPkgReturn
           \/ TempDue \/ TempNotDue \/ GoOn \/ WorkDone
  BY <1>9, <1>0 DEF Status, StatusAgain, StatusSent, CutOff, Completed, GetPkgReturn, TempDue,
              TempNotDue, GoOn, WorkDone, Look, Go, Spent, SpentAt
<1>10. CASE TempRead
  BY <1>10, <1>0 DEF TempRead, Go, Spent, SpentAt
<1>11. CASE HotLamp \/ NextWork
  BY <1>11, <1>0 DEF HotLamp, NextWork, Go, Spent, SpentAt
<1>12. CASE CarryOut \/ NextStep
  BY <1>12, <1>0 DEF CarryOut, NextStep, Look, Go, Spent, SpentAt
<1>13. CASE Tick
  <2>1. pc' = pc /\ i' = i /\ wait' \in {0, 1} /\ pass' \in Int /\ busy' \in Int /\ inpkg' \in Int
    BY <1>13, <1>0, TickSpent DEF Typed
  <2> PICK w \in {0, 1}, p \in Int, b \in Int, n \in Int :
             w = wait' /\ p = pass' /\ b = busy' /\ n = inpkg'
    BY <2>1
  <2>2. CASE InGetPkg
    <3>0. pc # "main" /\ pc # "blink" /\ pc # "reset" /\ pc # "loop"
      BY <2>2 DEF InGetPkg
    <3>1. p = pass + 1 /\ n = inpkg + 1 /\ b = busy /\ w = IF wait = 0 THEN 0 ELSE wait - 1
      BY <1>13, <1>0, <2>2, TickSpent
    <3>2. SpentAt(pc, i, w, p, b, n)
      <4>1. SpentAt(pc, i, wait, pass, busy, inpkg) /\ i \in Int /\ (wait = 0 => w = 0)
        BY <1>0, <3>1 DEF Spent
      <4>2. SpentAt(pc, i, w, pass + 1, busy, inpkg + 1)
        BY <3>0, <4>1, SpentInGetPkg
      <4> QED
        BY <3>1, <4>2
    <3> QED
      BY <2>1, <3>2 DEF Spent
  <2>3. CASE ~InGetPkg
    <3>0. pc # "lamp"
      BY <2>3 DEF InGetPkg
    <3>1. /\ p = pass + 1 /\ n = inpkg /\ w = (IF wait = 0 THEN 0 ELSE wait - 1)
          /\ b = IF wait = 0 THEN busy + 1 ELSE busy
      BY <1>13, <1>0, <2>3, TickSpent
    <3>2. SpentAt(pc, i, w, p, b, n)
      BY <1>0, <3>0, <3>1, SpentElsewhere DEF Spent
    <3> QED
      BY <2>1, <3>2 DEF Spent
  <2> QED
    BY <2>2, <2>3
<1>14. CASE Bite
  BY <1>14 DEF Bite, Spent, SpentAt
<1>15. CASE UNCHANGED vars
  BY <1>15, <1>0 DEF vars, Spent, SpentAt
<1> QED
  BY <1>0, <1>1, <1>2, <1>3, <1>4, <1>5, <1>6, <1>7, <1>8, <1>9, <1>10, <1>11, <1>12, <1>13,
     <1>14, <1>15
  DEF Next, Firmware, GetPkg

LEMMA WatchedStep == Typed /\ Spent /\ Watched /\ [Next]_vars => Watched'
<1> SUFFICES ASSUME Typed /\ Spent /\ Watched, [Next]_vars PROVE Watched'
  OBVIOUS
<1> USE FedIsNat, FedAssumption, TimeAssumption DEF Typed, Spent, SpentAt, Watched, Short, restVars, localVars, timeVars, passVars, readVars
<1>1. CASE Main
  BY <1>1, FeedFed, BlinksStep DEF Main, Go
<1>2. CASE Blink
  BY <1>2 DEF Blink, Go
<1>3. CASE HardReset
  BY <1>3 DEF HardReset, Go
<1>4. CASE Started
  BY <1>4 DEF Started, Go, TimerSet
<1>5. CASE Loop
  BY <1>5, FeedFed DEF Loop, Go, NewPass
<1>6. CASE Set
  BY <1>6 DEF Set, Go, TimerSet
<1>7. CASE LampBack
  BY <1>7 DEF LampBack, Go
<1>8. CASE Detect \/ IdleTimeout
  BY <1>8 DEF Detect, IdleTimeout, Stop, Go
<1>9. CASE Status \/ StatusAgain \/ StatusSent \/ CutOff \/ Completed
  BY <1>9 DEF Status, StatusAgain, StatusSent, CutOff, Completed, Look, Go
<1>10. CASE TempRead
  BY <1>10 DEF TempRead, Go
<1>11. CASE HotLamp \/ NextWork
  BY <1>11 DEF HotLamp, NextWork, Go
<1>12. CASE CarryOut
  BY <1>12 DEF CarryOut
<1>13. CASE Tick
  <2>1. pass' = pass + 1 /\ pc' = pc /\ pass \in Int /\ wdg_cnt \in Int
    BY <1>13, TickSpent
  <2>2. CASE pc = "main"
    BY <1>13, <2>1, <2>2 DEF Tick
  <2>3. CASE pc # "main"
    <3>1. wdg_en' /\ wdg_cnt' = wdg_cnt - 1 /\ wdg_cnt' >= 2
      BY <1>13, <2>3, TickWatched
    <3> QED
      BY <2>1, <2>3, <3>1
  <2> QED
    BY <2>2, <2>3
<1>14. CASE Bite
  BY <1>14 DEF Bite
<1>15. CASE UNCHANGED vars
  BY <1>15 DEF vars
<1>16. CASE GetPkgReturn \/ GoOn \/ TempDue \/ TempNotDue
  BY <1>16 DEF GetPkgReturn, GoOn, TempDue, TempNotDue, Look, Go
<1>17. CASE WorkDone \/ NextStep
  BY <1>17, SMTT(40) DEF WorkDone, NextStep, Look, Go
<1> QED
  BY <1>1, <1>2, <1>3, <1>4, <1>5, <1>6, <1>7, <1>8, <1>9, <1>10, <1>11, <1>12, <1>13, <1>14,
     <1>15, <1>16, <1>17
  DEF Next, Firmware, GetPkg

LEMMA FeedInvStep == FeedInv /\ [Next]_vars => FeedInv'
BY TypedStep, SpentStep, WatchedStep DEF FeedInv

LEMMA FeedInvariant == Spec => []FeedInv
BY FeedInvInit, FeedInvStep, PTL DEF Spec

(***************************************************************************)
(* The watchdog resets the firmware only if get_pkg kept it for Stay       *)
(* ticks (main.c:574, 601).                                                *)
(***************************************************************************)
THEOREM WatchdogBitesHung == Spec => BitesHung
<1>1. ASSUME FeedInv, [Next]_vars PROVE [Bite => inpkg >= Stay]_vars
  <2> SUFFICES ASSUME Bite PROVE inpkg >= Stay
    OBVIOUS
  <2>1. wdg_en /\ (wdg_cnt = 1 \/ wdg_cnt = 2)
    BY DEF Bite, Bites
  <2>2. /\ pass \in Int /\ busy \in Int /\ inpkg \in Int /\ wdg_cnt \in Int
        /\ busy <= MaxWork /\ busy >= 0 /\ wait \in {0, 1} /\ i \in 0 .. 10
    BY <1>1, TimeAssumption DEF FeedInv, Typed
  <2>3. SpentAt(pc, i, wait, pass, busy, inpkg)
    BY <1>1 DEF FeedInv, Spent
  <2>4. Blinks(i) \in 0 .. 5
    BY <2>2, BlinksStep
  <2>5. pass <= busy + 6 \/ pass = busy + inpkg
    BY <2>2, <2>3, <2>4 DEF SpentAt
  <2>6. CASE pc = "main"
    BY <1>1, <2>1, <2>6 DEF FeedInv, Watched
  <2>7. CASE pc # "main"
    <3>1. Fed <= wdg_cnt + pass
      BY <1>1, <2>7 DEF FeedInv, Watched
    <3>2. Fed \in Int /\ Fed >= MaxWork + 10 /\ Stay + MaxWork + 2 <= Fed
      BY FedIsNat, FedAssumption
    <3> QED
      BY <2>1, <2>2, <2>5, <3>1, <3>2, TimeAssumption
  <2> QED
    BY <2>6, <2>7
<1> QED
  BY <1>1, FeedInvariant, PTL DEF Spec, BitesHung

(***************************************************************************)
(* A pass that hangs is over in time (main.c:504, 601).                    *)
(***************************************************************************)
THEOREM HangsEnd == Spec => []HangEnds
<1>1. FeedInv => HangEnds
  <2> SUFFICES ASSUME FeedInv PROVE HangEnds
    OBVIOUS
  <2>1. /\ pass \in Int /\ busy \in Int /\ wdg_cnt \in Int /\ busy <= MaxWork /\ wdg_cnt >= 0
        /\ Fed \in Int /\ Fed >= 0
    BY FedIsNat, TimeAssumption DEF FeedInv, Typed
  <2>2. CASE pc = "main"
    <3>1. pass = busy
      BY <2>2 DEF FeedInv, Spent, SpentAt
    <3> QED
      BY <2>1, <3>1, TimeAssumption DEF HangEnds
  <2>3. CASE pc # "main"
    <3>1. wdg_cnt + pass <= Fed + MaxWork
      BY <2>3 DEF FeedInv, Watched
    <3> QED
      BY <2>1, <3>1, TimeAssumption DEF HangEnds
  <2> QED
    BY <2>2, <2>3
<1> QED
  BY <1>1, FeedInvariant, PTL

-------------------------------------------------------------------------------
\* timer_set loads one counter and leaves the other (timer.c:38).
LEMMA TimerSetOne ==
  ASSUME Counters, NEW t \in Timer, NEW load \in 0 .. 63, TimerSet(t, load)
  PROVE  /\ Counters'
         /\ t = 0 => sec_cnt'[0] = load
         /\ t = 1 => sec_cnt'[0] = sec_cnt[0]
<1>1. load % 64 = load
  OBVIOUS
<1>2. sec_cnt' = [sec_cnt EXCEPT ![t] = load]
  BY <1>1, Zenon DEF TimerSet
<1>3. 0 \in Timer
  BY DEF Timer
<1> QED
  BY <1>2, <1>3 DEF Counters

LEMMA CountersTick ==
  ASSUME Counters, Tick
  PROVE  /\ Counters'
         /\ sec_cnt[0] \in 0 .. 63
         /\ sec_cnt'[0] = IF sec_cnt[0] = 0 THEN 0 ELSE sec_cnt[0] - 1
         /\ since' = IF g_new_stratum = 1 THEN since + 1 ELSE since
BY DEF Counters, Tick, Timer

LEMMA IdleStart == Init => Counters /\ IdleInv
BY DEF Init, Counters, IdleInv, IdleAt, Timer

LEMMA IdleStep == Typed /\ Counters /\ IdleInv /\ [Next]_vars => Counters' /\ IdleInv'
<1>0. SUFFICES ASSUME Typed, Counters, IdleInv, [Next]_vars PROVE Counters' /\ IdleInv'
  OBVIOUS
<1>a. /\ pass \in Int /\ since \in Int /\ pass >= 0 /\ since >= 0 /\ g_new_stratum \in {0, 1}
      /\ sec_cnt[0] \in Int /\ sec_cnt[0] >= 0 /\ IDLE_TIME \in Int /\ IDLE_TIME >= 0
      /\ caller = "temp?" \/ caller = "work"
  BY <1>0, TimeAssumption DEF Typed, Counters, Timer
<1>b. IdleAt(pc, caller, g_new_stratum, since, sec_cnt[0], pass)
  BY <1>0 DEF IdleInv
<1> USE <1>a DEF restVars, localVars, timeVars, passVars, readVars
<1>1. CASE Main \/ Blink \/ HardReset
  BY <1>1, <1>0, <1>b DEF Main, Blink, HardReset, Go, Counters, IdleInv, IdleAt
<1>2. CASE Started
  <2>1. Counters' /\ sec_cnt'[0] = sec_cnt[0]
    BY <1>2, <1>0, TimerSetOne DEF Started, Timer
  <2> QED
    BY <1>2, <2>1, <1>b DEF Started, Go, IdleInv, IdleAt
<1>3. CASE Loop
  BY <1>3, <1>0, <1>b DEF Loop, NewPass, Go, Counters, IdleInv, IdleAt
<1>4. CASE Set
  <2>1. Counters' /\ sec_cnt'[0] = IDLE_TIME
    BY <1>4, <1>0, TimerSetOne, TimeAssumption DEF Set, Timer
  <2> QED
    BY <1>4, <2>1, <1>b DEF Set, Go, IdleInv, IdleAt
<1>5. CASE LampBack
  BY <1>5, <1>0, <1>b DEF LampBack, Go, Counters, IdleInv, IdleAt
<1>6. CASE Detect \/ IdleTimeout
  BY <1>6, <1>0, <1>b DEF Detect, IdleTimeout, Stop, Go, Counters, IdleInv, IdleAt
<1>7. CASE \/ Status \/ StatusAgain \/ StatusSent \/ CutOff \/ Completed \/ GetPkgReturn
           \/ TempDue \/ TempNotDue \/ WorkDone \/ NextStep
  BY <1>7, <1>0, <1>b DEF Status, StatusAgain, StatusSent, CutOff, Completed, GetPkgReturn,
     TempDue, TempNotDue, WorkDone, NextStep, Look, Go, Counters, IdleInv, IdleAt
<1>8. CASE GoOn
  BY <1>8, <1>0, <1>b DEF GoOn, Idle, TimerRead, Look, Go, Counters, IdleInv, IdleAt
<1>9. CASE TempRead
  <2>1. Counters' /\ sec_cnt'[0] = sec_cnt[0]
    BY <1>9, <1>0, TimerSetOne, TimeAssumption DEF TempRead, Timer
  <2> QED
    BY <1>9, <2>1, <1>b DEF TempRead, Go, IdleInv, IdleAt
<1>10. CASE HotLamp \/ NextWork
  BY <1>10, <1>0, <1>b DEF HotLamp, NextWork, Go, Counters, IdleInv, IdleAt
<1>11. CASE CarryOut
  BY <1>11, <1>0, <1>b DEF CarryOut, Counters, IdleInv, IdleAt
<1>12. CASE Tick
  <2>1. /\ pc' = pc /\ caller' = caller /\ g_new_stratum' = g_new_stratum /\ pass' = pass + 1
        /\ since' = IF g_new_stratum = 1 THEN since + 1 ELSE since
        /\ Counters' /\ sec_cnt'[0] = IF sec_cnt[0] = 0 THEN 0 ELSE sec_cnt[0] - 1
    BY <1>12, <1>0, CountersTick DEF Tick
  <2> QED
    BY <2>1, <1>b DEF IdleInv, IdleAt
<1>13. CASE Bite
  <2>1. Counters' /\ pc' = "main" /\ g_new_stratum' = 0
    BY <1>13 DEF Bite, Counters
  <2> QED
    BY <2>1 DEF IdleInv, IdleAt
<1>14. CASE UNCHANGED vars
  BY <1>14, <1>0, <1>b DEF vars, Counters, IdleInv, IdleAt
<1> QED
  BY <1>0, <1>1, <1>2, <1>3, <1>4, <1>5, <1>6, <1>7, <1>8, <1>9, <1>10, <1>11, <1>12, <1>13, <1>14
  DEF Next, Firmware, GetPkg

LEMMA IdleInvariant == Spec => [](Typed /\ Counters /\ IdleInv)
<1>1. FeedInv => Typed
  BY DEF FeedInv
<1> QED
  BY <1>1, FeedInvariant, IdleStart, IdleStep, PTL DEF Spec

(***************************************************************************)
(* The mining never stops for lack of P_SETs while the last one is not     *)
(* IDLE_TIME old (main.c:240, 610, 634).                                   *)
(***************************************************************************)
THEOREM NeverIdleEarly == Spec => NotIdleEarly
<1>1. ASSUME Typed /\ Counters /\ IdleInv, [Next]_vars
      PROVE  [IdleTimeout => since >= IDLE_TIME]_vars
  BY <1>1, TimeAssumption DEF IdleTimeout, Idle, TimerRead, Typed, IdleInv, IdleAt
<1> QED
  BY <1>1, IdleInvariant, PTL DEF Spec, NotIdleEarly

(***************************************************************************)
(* And it stops in the first pass that finds the last P_SET that old.      *)
(***************************************************************************)
THEOREM StopsInTime == Spec => []IdleInTime
<1>1. Typed /\ Counters /\ IdleInv => IdleInTime
  BY DEF IdleInv, IdleAt, IdleInTime
<1> QED
  BY <1>1, IdleInvariant, PTL
-------------------------------------------------------------------------------
(***************************************************************************)
(* The temperature.  A read over the bus goes through its nine commands in *)
(* order, whatever the sensor was left in, so its first byte is the        *)
(* temperature; the invariant follows that byte to the lamp, and the time  *)
(* since it was measured through timer 1 and the pass.                     *)
(***************************************************************************)
Byte == 0 .. 255
Master == [step : 0 .. 9, done : BOOLEAN, bytes : Seq(Byte)]
Sensor == [expects : {"start", "address", "register", "read"}, reg : {"temperature"}]

\* The bytes read when the master is at a step, done with it or not.
Reads(step, done) ==
  IF step < 7 \/ (step = 7 /\ ~done) THEN 0 ELSE IF step = 7 \/ (step = 8 /\ ~done) THEN 1 ELSE 2

\* What the sensor expects while the commands that lead to the read are carried out.
Heard(step, done, expects) ==
  /\ (step = 5 /\ done) \/ (step = 6 /\ ~done) => expects = "address"
  /\ (step = 6 /\ done) \/ step = 7 \/ (step = 8 /\ ~done) => expects = "read"

BusInv ==
  /\ twi \in Master /\ dev \in Sensor /\ temp \in Temps
  /\ Len(twi.bytes) = Reads(twi.step, twi.done)
  /\ twi.step = 0 => twi.done
  /\ Heard(twi.step, twi.done, dev.expects)

\* The gpio bits; SET_LAMP is inverted while a P_SET blinks it.
Lit(at, bits, n, degrees) ==
  /\ at = "main" => bits = {}
  /\ at = "blink" => bits \subseteq LEDS /\ (n % 2 = 0 => bits = {})
  /\ at = "reset" => bits = Lamps \cup {RESET}
  /\ at \notin {"main", "blink", "reset"} =>
       bits \ {HOT_LAMP} = Lamps \ (IF at = "lamp" THEN {SET_LAMP, HOT_LAMP} ELSE {HOT_LAMP})
  /\ at = "idle?" => bits \cap {HOT_LAMP} = (IF degrees >= g_temp_high THEN {HOT_LAMP} ELSE {})
GpioInv == tmp \in Byte /\ Lit(pc, gpio, i, tmp)

\* Which temperature main knows, and how old it is; c is what timer 1 has left.
Fresh(at, known, bytes, measured, old, b, c) ==
  /\ at # "temp" => known = measured
  /\ at = "temp" /\ bytes # <<>> => bytes[1] = measured /\ old <= b
  /\ at \in {"main", "blink", "reset", "temp"} => c = 0
  /\ c > 0 => old + c <= TEMP_SECONDS + MaxWork
  /\ at \in {"hot", "idle?"} => old <= TEMP_SECONDS + MaxWork + b
AgeInv == age \in Nat /\ Fresh(pc, tmp, twi.bytes, sampled, age, busy, sec_cnt[1])

LEMMA TransferSteps ==
  /\ Len(Transfer) = 9 /\ \A k \in 1 .. 9 : Transfer[k] = "read" <=> k \in {7, 8}
  /\ Transfer[5] = "start" /\ Transfer[6] = "addr+read"
  /\ Transfer[7] = "read" /\ Transfer[8] = "read"
BY DEF Transfer

\* What the steps but the bus's own do to it: nothing, start a transfer or reset the master.
LEMMA BusSteps ==
  ASSUME [Next]_vars
  PROVE  \/ CarryOut
         \/ NextStep
         \/ /\ dev' = dev /\ temp' \in Temps \cup {temp}
            /\ \/ twi' = twi
               \/ twi' = [step |-> 0, done |-> TRUE, bytes |-> <<>>]
               \/ twi' = [step |-> 1, done |-> FALSE, bytes |-> <<>>]
<1> USE DEF restVars, localVars, timeVars, Resting, StartTransfer
<1>1. CASE Main \/ Blink \/ HardReset \/ Started \/ Loop
  BY <1>1 DEF Main, Blink, HardReset, Started, Loop
<1>2. CASE Set \/ LampBack \/ Detect \/ IdleTimeout
  BY <1>2 DEF Set, LampBack, Detect, IdleTimeout, Stop
<1>3. CASE Status \/ StatusAgain \/ StatusSent \/ CutOff \/ Completed \/ GetPkgReturn
  BY <1>3 DEF Status, StatusAgain, StatusSent, CutOff, Completed, GetPkgReturn, Look
<1>4. CASE TempDue \/ TempNotDue \/ GoOn \/ WorkDone
  BY <1>4 DEF TempDue, TempNotDue, GoOn, WorkDone, Look
<1>5. CASE TempRead \/ HotLamp \/ NextWork
  BY <1>5 DEF TempRead, HotLamp, NextWork
<1>6. CASE Tick \/ Bite
  BY <1>6 DEF Tick, Bite
<1>7. CASE UNCHANGED vars
  BY <1>7 DEF vars
<1> QED
  BY <1>1, <1>2, <1>3, <1>4, <1>5, <1>6, <1>7 DEF Next, Firmware, GetPkg

\* A command carried out: what the sensor expects then, and the byte that was read.
LEMMA CommandCarriedOut ==
  ASSUME BusInv, CarryOut
  PROVE  /\ twi.step \in 1 .. 9 /\ twi'.step = twi.step /\ twi'.done = TRUE /\ twi' \in Master
         /\ IF twi.step \in {7, 8} THEN twi'.bytes = Append(twi.bytes, ByteRead)
                                   ELSE twi'.bytes = twi.bytes
         /\ twi.step = 7 => ByteRead = temp
         /\ dev' \in Sensor
         /\ twi.step = 5 => dev'.expects = "address"
         /\ twi.step \in {6, 7} => dev'.expects = "read"
<1> DEFINE cmd == Transfer[twi.step]
<1>1. ~twi.done /\ twi \in Master /\ dev \in Sensor /\ temp \in 0 .. 127
  BY TimeAssumption DEF BusInv, CarryOut
<1>2. dev' = Listens(cmd)
      /\ twi' = [twi EXCEPT !.done = TRUE,
                            !.bytes = IF cmd = "read" THEN Append(@, ByteRead) ELSE @]
  BY DEF CarryOut
<1>3. dev' \in Sensor
  BY <1>1, <1>2 DEF Listens, Sensor
<1>4. twi.step = 5 => dev'.expects = "address"
  BY <1>1, <1>2, TransferSteps DEF Listens, Sensor
<1>5. ASSUME twi.step \in {6, 7} PROVE dev'.expects = "read"
  <2>1. dev.expects = IF twi.step = 6 THEN "address" ELSE "read"
    BY <1>1, <1>5 DEF BusInv, Heard
  <2> QED
    BY <1>1, <1>2, <1>5, <2>1, TransferSteps DEF Listens, Sensor
<1>6. ASSUME twi.step \in {7, 8}
      PROVE  ByteRead \in Byte /\ (twi.step = 7 => ByteRead = temp)
  <2>1. dev.expects = "read" /\ dev.reg = "temperature"
    BY <1>1, <1>6 DEF BusInv, Heard, Sensor
  <2>2. ByteRead = Sensed[Len(twi.bytes) + 1]
    BY <2>1 DEF ByteRead
  <2>3. Len(twi.bytes) = IF twi.step = 7 THEN 0 ELSE 1
    BY <1>1, <1>6 DEF BusInv, Reads
  <2>4. Sensed[1] = temp /\ Sensed[2] = 128
    BY DEF Sensed
  <2> QED
    <3>1. CASE twi.step = 7
      <4>1. ByteRead = temp
        BY <2>2, <2>3, <2>4, <3>1
      <4> QED
        BY <1>1, <4>1 DEF Byte
    <3>2. CASE twi.step = 8
      <4>1. ByteRead = 128
        BY <2>2, <2>3, <2>4, <3>2
      <4> QED
        BY <3>2, <4>1 DEF Byte
    <3> QED
      BY <1>6, <3>1, <3>2
<1>7. twi.step \in 1 .. 9
  BY <1>1 DEF BusInv, Master
<1>8. cmd = "read" <=> twi.step \in {7, 8}
  BY <1>7, TransferSteps
<1> HIDE DEF cmd
<1>9. /\ twi'.step = twi.step /\ twi'.done = TRUE
      /\ twi'.bytes = IF cmd = "read" THEN Append(twi.bytes, ByteRead) ELSE twi.bytes
      /\ twi' = [step |-> twi.step, done |-> TRUE, bytes |-> twi'.bytes]
  BY <1>1, <1>2 DEF Master
<1>10. twi.bytes \in Seq(Byte)
  BY <1>1 DEF Master
<1>11. twi'.bytes \in Seq(Byte)
  BY <1>6, <1>8, <1>9, <1>10
<1>12. twi' \in Master
  <2>1. PICK n \in 0 .. 9, b \in Seq(Byte) : n = twi.step /\ b = twi'.bytes
    BY <1>7, <1>11
  <2>2. twi' = [step |-> n, done |-> TRUE, bytes |-> b]
    BY <1>9, <2>1
  <2> QED
    BY <2>2 DEF Master
<1>13. IF twi.step \in {7, 8} THEN twi'.bytes = Append(twi.bytes, ByteRead)
                              ELSE twi'.bytes = twi.bytes
  BY <1>8, <1>9
<1>14. twi.step = 7 => ByteRead = temp
  BY <1>6
<1> QED
  BY <1>3, <1>4, <1>5, <1>7, <1>9, <1>12, <1>13, <1>14

LEMMA BusStep == BusInv /\ [Next]_vars => BusInv'
<1> SUFFICES ASSUME BusInv, [Next]_vars PROVE BusInv'
  OBVIOUS
<1>1. /\ twi \in Master /\ dev \in Sensor /\ temp \in Temps /\ twi.bytes \in Seq(Byte)
      /\ Len(twi.bytes) = Reads(twi.step, twi.done)
  BY DEF BusInv, Master
<1>2. CASE CarryOut
  <2>1. ~twi.done /\ temp' = temp
    BY <1>2 DEF CarryOut
  <2>2. /\ twi.step \in 1 .. 9 /\ twi'.step = twi.step /\ twi'.done = TRUE /\ twi' \in Master
        /\ IF twi.step \in {7, 8} THEN twi'.bytes = Append(twi.bytes, ByteRead)
                                  ELSE twi'.bytes = twi.bytes
        /\ dev' \in Sensor
        /\ twi.step = 5 => dev'.expects = "address"
        /\ twi.step \in {6, 7} => dev'.expects = "read"
    BY <1>2, CommandCarriedOut
  <2>3. Len(twi'.bytes) = IF twi.step \in {7, 8} THEN Len(twi.bytes) + 1 ELSE Len(twi.bytes)
    BY <1>1, <2>2
  <2>4. Len(twi'.bytes) = Reads(twi'.step, twi'.done)
    BY <1>1, <2>1, <2>2, <2>3 DEF Reads
  <2>5. Heard(twi'.step, twi'.done, dev'.expects)
    BY <2>2 DEF Heard
  <2> QED
    BY <1>1, <2>1, <2>2, <2>4, <2>5 DEF BusInv
<1>3. CASE NextStep
  <2>1. /\ twi.step \in 1 .. Len(Transfer) - 1 /\ twi.done
        /\ twi' = [twi EXCEPT !.step = @ + 1, !.done = FALSE]
        /\ dev' = dev /\ temp' = temp
    BY <1>3 DEF NextStep, Look, restVars
  <2>2. twi.step \in 1 .. 8
    BY <2>1, TransferSteps
  <2>3. twi' = [step |-> twi.step + 1, done |-> FALSE, bytes |-> twi.bytes]
    BY <1>1, <2>1 DEF Master
  <2>4. twi' \in Master /\ twi'.step = twi.step + 1 /\ twi'.done = FALSE
        /\ twi'.bytes = twi.bytes /\ twi'.step # 0
    BY <1>1, <2>2, <2>3 DEF Master
  <2>5. Len(twi'.bytes) = Reads(twi'.step, twi'.done)
    BY <1>1, <2>1, <2>2, <2>4 DEF Reads
  <2>6. Heard(twi'.step, twi'.done, dev'.expects)
    BY <2>1, <2>2, <2>4 DEF BusInv, Heard
  <2> QED
    BY <1>1, <2>1, <2>4, <2>5, <2>6 DEF BusInv
<1>4. CASE /\ dev' = dev /\ temp' \in Temps \cup {temp}
           /\ \/ twi' = twi
              \/ twi' = [step |-> 0, done |-> TRUE, bytes |-> <<>>]
              \/ twi' = [step |-> 1, done |-> FALSE, bytes |-> <<>>]
  <2>1. CASE twi' = twi
    BY <1>1, <1>4, <2>1 DEF BusInv
  <2>2. CASE twi' = [step |-> 0, done |-> TRUE, bytes |-> <<>>]
    <3>1. twi' \in Master /\ twi'.step = 0 /\ twi'.done = TRUE /\ Len(twi'.bytes) = 0
      BY <2>2 DEF Master
    <3>2. Reads(0, TRUE) = 0 /\ Heard(0, TRUE, dev'.expects)
      BY DEF Reads, Heard
    <3> QED
      BY <1>1, <1>4, <3>1, <3>2 DEF BusInv
  <2>3. CASE twi' = [step |-> 1, done |-> FALSE, bytes |-> <<>>]
    <3>1. twi' \in Master /\ twi'.step = 1 /\ twi'.done = FALSE /\ Len(twi'.bytes) = 0
      BY <2>3 DEF Master
    <3>2. Reads(1, FALSE) = 0 /\ Heard(1, FALSE, dev'.expects)
      BY DEF Reads, Heard
    <3>3. Len(twi'.bytes) = Reads(twi'.step, twi'.done) /\ Heard(twi'.step, twi'.done, dev'.expects)
      BY <3>1, <3>2, Zenon
    <3>4. dev' \in Sensor /\ temp' \in Temps /\ twi'.step # 0
      BY <1>1, <1>4, <3>1
    <3> QED
      BY <3>1, <3>3, <3>4 DEF BusInv
  <2> QED
    BY <1>4, <2>1, <2>2, <2>3
<1> QED
  BY <1>2, <1>3, <1>4, BusSteps

\* The lamps.
LEMMA GpioStep == Typed /\ BusInv /\ GpioInv /\ [Next]_vars => GpioInv'
<1> SUFFICES ASSUME Typed, BusInv, GpioInv, [Next]_vars PROVE GpioInv'
  OBVIOUS
<1>a. /\ tmp \in Byte /\ Lit(pc, gpio, i, tmp) /\ i \in 0 .. 10
      /\ caller \in {"temp?", "work"}
  BY DEF GpioInv, Typed
<1> USE <1>a DEF restVars, localVars, timeVars, LedOn, LedOff, LedInvert
<1>1. CASE Main
  BY <1>1 DEF Main, Go, GpioInv, Lit
<1>2. CASE Blink
  <2>1. i % 2 = 0 => (i + 1) % 2 # 0
    OBVIOUS
  <2>2. tmp' = tmp /\ pc = "blink" /\ pc' = "blink" /\ i' = i + 1
    BY <1>2 DEF Blink, Go
  <2>3. i % 2 = 0 => gpio' \subseteq LEDS
    BY <1>2, <2>2 DEF Blink, Lit
  <2>4. i % 2 # 0 => gpio' = {}
    BY <1>2, <2>2 DEF Blink, Lit
  <2> QED
    BY <2>1, <2>2, <2>3, <2>4 DEF GpioInv, Lit
<1>3. CASE HardReset
  <2>1. 10 % 2 = 0
    OBVIOUS
  <2>2. gpio = {}
    BY <1>3, <2>1 DEF HardReset, Go, Lit
  <2> QED
    BY <1>3, <2>2 DEF HardReset, Go, GpioInv, Lit
<1>4. CASE Started
  BY <1>4 DEF Started, Go, GpioInv, Lit, Lamps, RESET, HOT_LAMP
<1>5. CASE Set \/ LampBack
  BY <1>5 DEF Set, LampBack, Go, GpioInv, Lit, Lamps, SET_LAMP, HOT_LAMP
<1>6. CASE Detect \/ IdleTimeout
  BY <1>6 DEF Detect, IdleTimeout, Stop, Go, GpioInv, Lit
<1>7. CASE Loop
  BY <1>7 DEF Loop, Go, GpioInv, Lit
<1>8. CASE \/ Status \/ StatusAgain \/ StatusSent \/ CutOff \/ Completed \/ GetPkgReturn
           \/ TempDue \/ TempNotDue \/ GoOn \/ WorkDone
  BY <1>8 DEF Status, StatusAgain, StatusSent, CutOff, Completed, GetPkgReturn, TempDue,
              TempNotDue, GoOn, WorkDone, Look, Go, GpioInv, Lit
<1>9. CASE TempRead
  <2>1. gpio' = gpio /\ pc' = "hot" /\ pc = "temp" /\ tmp' = twi.bytes[1]
    BY <1>9 DEF TempRead, Go, ReadTemp
  <2>2. twi.bytes \in Seq(Byte) /\ Len(twi.bytes) = 2
    <3>1. twi \in Master /\ twi.step = 9 /\ Len(twi.bytes) = Reads(twi.step, twi.done)
      BY <1>9, TransferSteps DEF TempRead, TransferEnds, BusInv
    <3> QED
      BY <3>1 DEF Master, Reads
  <2>3. tmp' \in Byte
    BY <2>1, <2>2
  <2> QED
    BY <2>1, <2>3 DEF GpioInv, Lit
<1>10. CASE HotLamp
  <2>1. pc = "hot" /\ pc' = "idle?" /\ tmp' = tmp
        /\ gpio' = IF tmp >= g_temp_high THEN gpio \cup {HOT_LAMP} ELSE gpio \ {HOT_LAMP}
    BY <1>10 DEF HotLamp, Go
  <2>2. gpio \ {HOT_LAMP} = Lamps \ {HOT_LAMP}
    BY <2>1 DEF Lit
  <2>3. gpio' \ {HOT_LAMP} = Lamps \ {HOT_LAMP}
        /\ gpio' \cap {HOT_LAMP} = IF tmp >= g_temp_high THEN {HOT_LAMP} ELSE {}
    BY <2>1, <2>2
  <2> QED
    BY <2>1, <2>3 DEF GpioInv, Lit
<1>11. CASE NextWork
  BY <1>11 DEF NextWork, Go, GpioInv, Lit
<1>12. CASE CarryOut \/ NextStep
  BY <1>12 DEF CarryOut, NextStep, Look, Go, GpioInv
<1>13. CASE Tick
  BY <1>13 DEF Tick, GpioInv
<1>14. CASE Bite
  BY <1>14 DEF Bite, GpioInv, Lit, Byte
<1>15. CASE UNCHANGED vars
  BY <1>15 DEF vars, GpioInv
<1> QED
  BY <1>1, <1>2, <1>3, <1>4, <1>5, <1>6, <1>7, <1>8, <1>9, <1>10, <1>11, <1>12, <1>13, <1>14,
     <1>15
  DEF Next, Firmware, GetPkg

\* timer_set and timer 1.
LEMMA TimerSetTwo ==
  ASSUME Counters, NEW t \in Timer, NEW load \in 0 .. 63, TimerSet(t, load)
  PROVE  sec_cnt'[1] = IF t = 1 THEN load ELSE sec_cnt[1]
<1>1. load % 64 = load
  OBVIOUS
<1>2. sec_cnt' = [sec_cnt EXCEPT ![t] = load]
  BY <1>1, Zenon DEF TimerSet
<1>3. 1 \in Timer
  BY DEF Timer
<1> QED
  BY <1>2, <1>3 DEF Counters

LEMMA AgeStep ==
  Typed /\ Spent /\ Counters /\ BusInv /\ AgeInv /\ [Next]_vars => AgeInv'
<1> SUFFICES ASSUME Typed, Spent, Counters, BusInv, AgeInv, [Next]_vars PROVE AgeInv'
  OBVIOUS
<1>a. /\ age \in Nat /\ busy \in 0 .. MaxWork /\ sec_cnt[1] \in 0 .. 63
      /\ MaxWork \in Nat /\ TEMP_SECONDS \in 2 .. 63 /\ caller \in {"temp?", "work"}
  BY TimeAssumption DEF AgeInv, Typed, Counters, Timer
<1>b. Fresh(pc, tmp, twi.bytes, sampled, age, busy, sec_cnt[1])
  BY DEF AgeInv
<1>c. twi.bytes \in Seq(Byte)
  BY DEF BusInv, Master
<1> USE <1>a, <1>b DEF restVars, localVars, timeVars, passVars, readVars
<1>1. CASE Main \/ Blink \/ HardReset
  BY <1>1 DEF Main, Blink, HardReset, Go, AgeInv, Fresh
<1>2. CASE Started
  <2>1. sec_cnt'[1] = 2
    BY <1>2, TimerSetTwo DEF Started, Timer
  <2> QED
    BY <1>2, <2>1 DEF Started, Go, AgeInv, Fresh
<1>3. CASE Loop
  BY <1>3 DEF Loop, Go, AgeInv, Fresh
<1>4. CASE Set
  <2>1. sec_cnt'[1] = sec_cnt[1]
    BY <1>4, TimerSetTwo, TimeAssumption DEF Set, Timer
  <2> QED
    BY <1>4, <2>1 DEF Set, Go, AgeInv, Fresh
<1>5. CASE LampBack
  BY <1>5 DEF LampBack, Go, AgeInv, Fresh
<1>6. CASE Detect \/ IdleTimeout
  BY <1>6 DEF Detect, IdleTimeout, Stop, Go, AgeInv, Fresh
<1>7. CASE \/ Status \/ StatusAgain \/ StatusSent \/ CutOff \/ Completed \/ GetPkgReturn
           \/ GoOn \/ WorkDone
  BY <1>7 DEF Status, StatusAgain, StatusSent, CutOff, Completed, GetPkgReturn,
              GoOn, WorkDone, Look, Go, AgeInv, Fresh
<1>8. CASE TempDue
  <2>1. /\ pc' = "temp" /\ twi'.bytes = <<>> /\ sec_cnt' = sec_cnt /\ sec_cnt[1] = 0
        /\ age' = age
    BY <1>8 DEF TempDue, TimerRead, Look, Go, StartTransfer
  <2> QED
    BY <2>1 DEF AgeInv, Fresh
<1>9. CASE TempNotDue
  BY <1>9 DEF TempNotDue, TimerRead, Look, Go, AgeInv, Fresh
<1>10. CASE TempRead
  <2>1. sec_cnt'[1] = TEMP_SECONDS
    BY <1>10, TimerSetTwo DEF TempRead, Timer
  <2>2. Len(twi.bytes) = 2
    <3>1. twi.step = 9 /\ Len(twi.bytes) = Reads(twi.step, twi.done)
      BY <1>10, TransferSteps DEF TempRead, TransferEnds, BusInv
    <3> QED
      BY <3>1 DEF Reads
  <2>3. twi.bytes # <<>>
    <3>1. Len(<<>>) # 2
      OBVIOUS
    <3> QED
      BY <2>2, <3>1, Zenon
  <2>4. /\ pc = "temp" /\ pc' = "hot" /\ tmp' = twi.bytes[1]
        /\ sampled' = sampled /\ age' = age /\ busy' = busy
    BY <1>10 DEF TempRead, Go, ReadTemp
  <2>5. tmp' = sampled /\ age <= busy
    BY <2>3, <2>4 DEF Fresh
  <2>6. \A bytes : Fresh("hot", sampled, bytes, sampled, age, busy, TEMP_SECONDS)
    BY <2>5 DEF Fresh
  <2> QED
    BY <2>1, <2>4, <2>5, <2>6 DEF AgeInv
<1>11. CASE HotLamp \/ NextWork
  BY <1>11 DEF HotLamp, NextWork, Go, AgeInv, Fresh
<1>12. CASE CarryOut
  <2>1. /\ pc' = pc /\ tmp' = tmp /\ sec_cnt' = sec_cnt /\ busy' = busy
        /\ IF Transfer[twi.step] = "read" /\ twi.bytes = <<>> /\ pc = "temp"
             THEN sampled' = temp /\ age' = 0 ELSE sampled' = sampled /\ age' = age
    BY <1>12 DEF CarryOut
  <2>2. /\ twi.step \in 1 .. 9
        /\ IF twi.step \in {7, 8} THEN twi'.bytes = Append(twi.bytes, ByteRead)
                                  ELSE twi'.bytes = twi.bytes
        /\ twi.step = 7 => ByteRead = temp
        /\ ~twi.done /\ Len(twi.bytes) = Reads(twi.step, twi.done)
    BY <1>12, CommandCarriedOut DEF CarryOut, BusInv
  <2>3. Transfer[twi.step] = "read" <=> twi.step \in {7, 8}
    BY <2>2, TransferSteps
  <2>4. CASE twi.step = 7
    <3>1. twi.bytes = <<>>
      BY <1>c, <2>2, <2>4 DEF Reads
    <3>2. twi'.bytes[1] = temp
      BY <2>2, <2>4, <3>1
    <3> QED
      BY <2>1, <2>3, <2>4, <3>1, <3>2 DEF AgeInv, Fresh
  <2>5. CASE twi.step = 8
    <3>1. Len(twi.bytes) = 1 /\ twi.bytes # <<>>
      <4>1. twi.done = FALSE
        BY <2>2 DEF BusInv, Master
      <4>2. Reads(8, FALSE) = 1
        BY DEF Reads
      <4>3. Len(twi.bytes) = 1
        BY <2>2, <2>5, <4>1, <4>2
      <4>4. Len(<<>>) # 1
        OBVIOUS
      <4> QED
        BY <4>3, <4>4, Zenon
    <3>2. twi'.bytes = Append(twi.bytes, ByteRead)
      BY <2>2, <2>5
    <3>3. twi'.bytes[1] = twi.bytes[1]
      BY <1>c, <3>1, <3>2
    <3> QED
      BY <2>1, <3>1, <3>3 DEF AgeInv, Fresh
  <2>6. CASE twi.step \notin {7, 8}
    BY <2>1, <2>2, <2>3, <2>6 DEF AgeInv, Fresh
  <2> QED
    BY <2>4, <2>5, <2>6
<1>13. CASE NextStep
  <2>1. twi'.bytes = twi.bytes
    BY <1>13 DEF NextStep, BusInv, Master
  <2> QED
    BY <1>13, <2>1 DEF NextStep, Look, Go, AgeInv, Fresh
<1>14. CASE Tick
  <2>1. /\ pc' = pc /\ tmp' = tmp /\ twi' = twi /\ sampled' = sampled
        /\ age' = IF age > TEMP_SECONDS + 2 * MaxWork THEN age ELSE age + 1
        /\ sec_cnt'[1] = IF sec_cnt[1] = 0 THEN 0 ELSE sec_cnt[1] - 1
    BY <1>14 DEF Tick, Timer
  <2>2. pc \in {"temp", "hot", "idle?"} => ~InGetPkg /\ wait = 0
    BY DEF InGetPkg, Spent, SpentAt
  <2>3. /\ busy' \in 0 .. MaxWork /\ (busy' = busy \/ busy' = busy + 1)
        /\ pc \in {"temp", "hot", "idle?"} => busy' = busy + 1
    BY <1>14, <2>2, TickSpent
  <2>4. PICK a \in Nat, b \in Nat, c \in Nat : a = age' /\ b = busy' /\ c = sec_cnt'[1]
    <3>1. age' \in Nat
      BY <2>1
    <3>2. busy' \in Nat
      BY <2>3
    <3>3. sec_cnt'[1] \in Nat
      BY <2>1
    <3> QED
      BY <3>1, <3>2, <3>3
  <2>5. Fresh(pc, tmp, twi.bytes, sampled, a, b, c)
    <3>1. a = age + 1 \/ (a = age /\ age > TEMP_SECONDS + 2 * MaxWork)
      BY <2>1, <2>4
    <3>2. c = IF sec_cnt[1] = 0 THEN 0 ELSE sec_cnt[1] - 1
      BY <2>1, <2>4
    <3>3. (b = busy \/ b = busy + 1) /\ b <= MaxWork
      BY <2>3, <2>4
    <3>4. pc \in {"temp", "hot", "idle?"} => b = busy + 1
      BY <2>3, <2>4
    <3>5. busy \in Nat /\ sec_cnt[1] \in Nat
      OBVIOUS
    <3> QED
      BY <3>1, <3>2, <3>3, <3>4, <3>5 DEF Fresh
  <2> QED
    BY <2>1, <2>4, <2>5 DEF AgeInv
<1>15. CASE Bite
  <2>1. sec_cnt'[1] = 0 /\ age' = 0 /\ tmp' = 0 /\ sampled' = 0 /\ pc' = "main"
    BY <1>15 DEF Bite, Timer
  <2> QED
    BY <2>1 DEF AgeInv, Fresh
<1>16. CASE UNCHANGED vars
  BY <1>16 DEF vars, AgeInv
<1> QED
  BY <1>1, <1>2, <1>3, <1>4, <1>5, <1>6, <1>7, <1>8, <1>9, <1>10, <1>11, <1>12, <1>13, <1>14,
     <1>15, <1>16
  DEF Next, Firmware, GetPkg

\* What the types say besides: the watchdog's counter has 31 bits, and no tick is counted twice.
Places == {"main", "blink", "reset", "loop", "get_pkg", "lamp", "status", "status2", "cut off",
           "temp?", "temp", "hot", "idle?", "work"}
Placed == wdg_en \in BOOLEAN /\ wdg_cnt \in 0 .. WDG_COUNTS - 1 /\ pc \in Places
CountedOnce == inpkg + busy <= pass

LEMMA PlacedStep == Typed /\ Placed /\ [Next]_vars => Placed'
<1> SUFFICES ASSUME Typed, Placed, [Next]_vars PROVE Placed'
  OBVIOUS
<1>a. wdg_en \in BOOLEAN /\ wdg_cnt \in 0 .. WDG_COUNTS - 1 /\ pc \in Places /\ caller \in Places
  BY DEF Placed, Typed, Places
<1>b. Fed \in 0 .. WDG_COUNTS - 1 /\ 0 \in 0 .. WDG_COUNTS - 1
  BY FedIsNat, TimeAssumption
<1>c. wdg_cnt # 0 => wdg_cnt - 1 \in 0 .. WDG_COUNTS - 1
  BY <1>a, TimeAssumption
<1> USE <1>a, <1>b DEF Places, restVars, localVars, timeVars
<1>1. CASE Main \/ Loop
  BY <1>1, FeedFed DEF Main, Loop, Go, Placed
<1>2. CASE Blink \/ HardReset \/ Started
  BY <1>2 DEF Blink, HardReset, Started, Go, Placed
<1>3. CASE Set \/ LampBack \/ Detect \/ IdleTimeout
  BY <1>3 DEF Set, LampBack, Detect, IdleTimeout, Stop, Go, Placed
<1>4. CASE \/ Status \/ StatusAgain \/ StatusSent \/ CutOff \/ Completed \/ GetPkgReturn
           \/ TempDue \/ TempNotDue \/ GoOn \/ WorkDone
  BY <1>4 DEF Status, StatusAgain, StatusSent, CutOff, Completed, GetPkgReturn, TempDue,
              TempNotDue, GoOn, WorkDone, Look, Go, Placed
<1>5. CASE TempRead \/ HotLamp \/ NextWork
  BY <1>5 DEF TempRead, HotLamp, NextWork, Go, Placed
<1>6. CASE CarryOut \/ NextStep
  BY <1>6 DEF CarryOut, NextStep, Look, Go, Placed
<1>7. CASE Tick
  BY <1>7, <1>c DEF Tick, Placed
<1>8. CASE Bite
  BY <1>8 DEF Bite, Placed
<1>9. CASE UNCHANGED vars
  BY <1>9 DEF vars, Placed
<1> QED
  BY <1>1, <1>2, <1>3, <1>4, <1>5, <1>6, <1>7, <1>8, <1>9 DEF Next, Firmware, GetPkg

\* What a step does to the ticks of the pass.
LEMMA PassSteps ==
  ASSUME [Next]_vars
  PROVE  \/ UNCHANGED passVars
         \/ Tick
         \/ inpkg' = 0 /\ busy' = 0 /\ pass' = 0
<1> USE DEF restVars
<1>1. CASE Main \/ Blink \/ HardReset \/ Started
  BY <1>1 DEF Main, Blink, HardReset, Started
<1>2. CASE Loop \/ Bite
  BY <1>2 DEF Loop, NewPass, Bite
<1>3. CASE Set \/ LampBack \/ Detect \/ IdleTimeout
  BY <1>3 DEF Set, LampBack, Detect, IdleTimeout, Stop
<1>4. CASE \/ Status \/ StatusAgain \/ StatusSent \/ CutOff \/ Completed \/ GetPkgReturn
           \/ TempDue \/ TempNotDue \/ GoOn \/ WorkDone
  BY <1>4 DEF Status, StatusAgain, StatusSent, CutOff, Completed, GetPkgReturn, TempDue,
              TempNotDue, GoOn, WorkDone, Look
<1>5. CASE TempRead \/ HotLamp \/ NextWork
  BY <1>5 DEF TempRead, HotLamp, NextWork
<1>6. CASE CarryOut \/ NextStep
  BY <1>6 DEF CarryOut, NextStep, Look
<1>7. CASE UNCHANGED vars
  BY <1>7 DEF vars
<1> QED
  BY <1>1, <1>2, <1>3, <1>4, <1>5, <1>6, <1>7 DEF Next, Firmware, GetPkg

LEMMA CountedOnceStep == Typed /\ CountedOnce /\ [Next]_vars => CountedOnce'
<1> SUFFICES ASSUME Typed, CountedOnce, [Next]_vars PROVE CountedOnce'
  OBVIOUS
<1>1. CASE UNCHANGED passVars
  BY <1>1 DEF CountedOnce, passVars
<1>2. CASE inpkg' = 0 /\ busy' = 0 /\ pass' = 0
  BY <1>2 DEF CountedOnce
<1>3. CASE Tick
  <2>1. inpkg \in Nat /\ busy \in Nat /\ pass \in Nat
    BY TimeAssumption DEF Typed
  <2>2. \/ inpkg' = inpkg + 1 /\ busy' = busy
        \/ inpkg' = inpkg /\ busy' = busy
        \/ inpkg' = inpkg /\ busy' = busy + 1
    BY <1>3 DEF Tick
  <2>3. pass' = pass + 1
    BY <1>3 DEF Tick
  <2> QED
    BY <2>1, <2>2, <2>3 DEF CountedOnce
<1> QED
  BY <1>1, <1>2, <1>3, PassSteps

ReadInv == FeedInv /\ Counters /\ BusInv /\ GpioInv /\ AgeInv /\ Placed /\ CountedOnce

LEMMA ReadStart == Init => BusInv /\ GpioInv /\ AgeInv /\ Placed /\ CountedOnce
<1> SUFFICES ASSUME Init PROVE BusInv /\ GpioInv /\ AgeInv /\ Placed /\ CountedOnce
  OBVIOUS
<1>1. BusInv
  <2>1. /\ twi = [step |-> 0, done |-> TRUE, bytes |-> <<>>] /\ temp \in Temps
        /\ dev = [expects |-> "start", reg |-> "temperature"]
    BY DEF Init, Resting, DevOff
  <2>2. twi \in Master /\ dev \in Sensor /\ twi.step = 0 /\ twi.done = TRUE /\ Len(twi.bytes) = 0
    BY <2>1 DEF Master, Sensor
  <2>3. Reads(0, TRUE) = 0 /\ Heard(0, TRUE, dev.expects)
    BY DEF Reads, Heard
  <2> QED
    BY <2>1, <2>2, <2>3 DEF BusInv
<1>2. GpioInv
  BY DEF Init, GpioInv, Lit, Byte
<1>3. AgeInv
  BY DEF Init, AgeInv, Fresh, Timer
<1>4. Placed
  <2>1. wdg_en = FALSE /\ wdg_cnt = 0 /\ pc = "main"
    BY DEF Init
  <2>2. 0 \in 0 .. WDG_COUNTS - 1
    BY TimeAssumption
  <2> QED
    BY <2>1, <2>2 DEF Placed, Places
<1>5. CountedOnce
  <2>1. inpkg = 0 /\ busy = 0 /\ pass = 0
    BY DEF Init
  <2> QED
    BY <2>1 DEF CountedOnce
<1> QED
  BY <1>1, <1>2, <1>3, <1>4, <1>5

LEMMA ReadInvariant == Spec => []ReadInv
<1>1. Init => ReadInv
  BY FeedInvInit, IdleStart, ReadStart DEF ReadInv
<1>2. ReadInv /\ IdleInv /\ [Next]_vars => ReadInv'
  BY FeedInvStep, IdleStep, BusStep, GpioStep, AgeStep, PlacedStep, CountedOnceStep DEF ReadInv, FeedInv
<1>3. Spec => []IdleInv
  BY IdleInvariant, PTL
<1> QED
  BY <1>1, <1>2, <1>3, PTL DEF Spec

(***************************************************************************)
(* Every variable keeps its range: the counters of the timers and of the   *)
(* watchdog their widths, the transfer its steps, and the ticks of a pass  *)
(* are counted once (timer.c, main.c:574, twi.c).                          *)
(***************************************************************************)
THEOREM TypeCorrect == Spec => []TypeOK
<1>1. ASSUME ReadInv PROVE TypeOK
  <2>1. Typed /\ Counters /\ BusInv /\ GpioInv /\ AgeInv /\ Placed /\ CountedOnce
    BY <1>1 DEF ReadInv, FeedInv
  <2>2. gpio \subseteq 0 .. RESET
    <3>1. Lit(pc, gpio, i, tmp)
      BY <2>1 DEF GpioInv
    <3> QED
      BY <3>1 DEF Lit, LEDS, Lamps, RESET, HOT_LAMP
  <2>3. twi.step \in 0 .. Len(Transfer) /\ twi.done \in BOOLEAN /\ Len(twi.bytes) <= 2
    BY <2>1, TransferSteps DEF BusInv, Master, Reads
  <2>4. dev.expects \in {"start", "address", "register", "read"} /\ temp \in Temps
    BY <2>1 DEF BusInv, Sensor
  <2>5. /\ caller \in {"temp?", "work"} /\ wait \in Short /\ i \in 0 .. 10
        /\ g_new_stratum \in {0, 1} /\ pass \in Nat /\ busy <= MaxWork /\ since \in Nat
    BY <2>1, TimeAssumption DEF Typed, Short
  <2>6. tmp \in 0 .. 255 /\ age \in Nat
    BY <2>1 DEF GpioInv, AgeInv, Byte
  <2>7. sec_cnt \in [Timer -> 0 .. 63] /\ Placed /\ CountedOnce
    BY <2>1 DEF Counters
  <2> QED
    BY <2>2, <2>3, <2>4, <2>5, <2>6, <2>7 DEF TypeOK, Placed, CountedOnce, Places
<1> QED
  BY <1>1, ReadInvariant, PTL

(***************************************************************************)
(* When a pass has come to the idle timeout, the lamp shows a temperature  *)
(* measured not long ago: what read_temp returned is the sensor's byte,    *)
(* and timer 1 and the pass bound its age (main.c:605-632).                *)
(***************************************************************************)
THEOREM LampShows == Spec => []BoardShows
<1>1. ASSUME ReadInv PROVE BoardShows
  <2> SUFFICES ASSUME pc = "idle?"
               PROVE  /\ gpio = (Lamps \ {HOT_LAMP})
                                  \cup (IF sampled >= g_temp_high THEN {HOT_LAMP} ELSE {})
                      /\ age <= TEMP_SECONDS + MaxWork + busy
    BY DEF BoardShows
  <2>1. tmp = sampled /\ age <= TEMP_SECONDS + MaxWork + busy
    BY <1>1 DEF ReadInv, AgeInv, Fresh
  <2>2. /\ gpio \ {HOT_LAMP} = Lamps \ {HOT_LAMP}
        /\ gpio \cap {HOT_LAMP} = IF tmp >= g_temp_high THEN {HOT_LAMP} ELSE {}
    BY <1>1 DEF ReadInv, GpioInv, Lit
  <2> QED
    BY <2>1, <2>2
<1> QED
  BY <1>1, ReadInvariant, PTL
===============================================================================

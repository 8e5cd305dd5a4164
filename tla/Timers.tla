-------------------------------- MODULE Timers --------------------------------
(***************************************************************************)
(* Time in the firmware: the watchdog, the two second counters of the TWI  *)
(* block (twi.v) and what the main loop does by them, with the start-up,   *)
(* the temperature read over the TWI bus and the LEDs.                     *)
(*                                                                         *)
(* The unit of time is the edge on which the second counters count: a      *)
(* tick.  Ticks fall between any two steps; but for the delays and for     *)
(* get_pkg a pass of the loop takes at most MaxWork of them.               *)
(***************************************************************************)
EXTENDS Integers, Sequences

CONSTANTS
  CPU_FREQUENCY,   \* clocks in a second
  WORD,            \* values of an unsigned int
  WDG_COUNTS,      \* values of the watchdog's counter
  WDG_SECONDS,     \* what main feeds the watchdog with (60)
  IDLE_TIME,       \* seconds from a P_SET to the idle timeout (60)
  TEMP_SECONDS,    \* seconds from one temperature to the next (5)
  g_temp_high,     \* the temperature that lights the LED (60)
  Temps,           \* the temperatures, in degrees
  MaxWork,         \* ticks a pass takes besides get_pkg and delays
  Stay             \* the ticks get_pkg may stay before the watchdog bites

ASSUME TimeAssumption ==
  /\ CPU_FREQUENCY \in Nat \ {0} /\ WORD \in Nat \ {0} /\ WDG_COUNTS \in Nat \ {0}
  /\ WDG_SECONDS \in Nat /\ IDLE_TIME \in 0 .. 63 /\ TEMP_SECONDS \in 2 .. 63
  /\ g_temp_high \in Nat /\ Temps \subseteq 0 .. 127 /\ Temps # {}
  /\ MaxWork \in Nat /\ Stay \in Nat

\* The seconds the feed comes to, in 32 bits of which 31 are kept.
Fed == ((CPU_FREQUENCY * WDG_SECONDS) % WORD) % WDG_COUNTS

\* They are enough for the start, and for get_pkg to stay.
ASSUME FedAssumption == Fed >= MaxWork + 10 /\ Stay + MaxWork + 2 <= Fed

Timer == {0, 1}
LEDS  == 0 .. 7          \* the bits of the gpio register that are lamps
Lamps == {1, 3, 5, 7}    \* 0xAA
SET_LAMP == 5            \* 0x20
HOT_LAMP == 7            \* 0x80
RESET    == 8            \* 0x100: the reset line of the chips

VARIABLES
  sec_cnt,         \* the second counters
  wdg_en, wdg_cnt, \* the watchdog
  gpio,            \* the bits that are set
  pc,              \* where main is
  caller,          \* where get_pkg returns to
  wait,            \* ticks a delay still takes
  i,               \* the half blinks of the start
  g_new_stratum,
  tmp,             \* main's: the temperature read last
  twi,             \* the TWI master: the step of the transfer, done, and the bytes read
  dev,             \* the sensor: what it expects, and the register it is set to
  temp,            \* the temperature
  pass, inpkg, busy, \* history: ticks since the pass began; in get_pkg; in other code
  since,           \* history: ticks since the last P_SET
  sampled, age     \* history: the temperature measured last, and the ticks since (not counted
                   \* further when they are too many)

timeVars  == <<sec_cnt, wdg_en, wdg_cnt>>
localVars == <<caller, wait, i, g_new_stratum, tmp>>
passVars  == <<pass, inpkg, busy>>
readVars  == <<sampled, age>>
restVars  == <<dev, temp, passVars, since, readVars>>   \* what most steps of main leave
vars == <<timeVars, gpio, pc, localVars, twi, restVars>>

-------------------------------------------------------------------------------
\* timer_set: the word enables the counter it loads and no other.  The mutants clear the other
\* and load both.
SetAndClear(t, load) == sec_cnt' = [u \in Timer |-> IF u = t THEN load % 64 ELSE 0]
SetBoth(t, load)     == sec_cnt' = [u \in Timer |-> load % 64]
TimerSet(t, load) == sec_cnt' = [sec_cnt EXCEPT ![t] = load % 64]
TimerRead(t) == sec_cnt[t]

\* A step of main from one place to another.
Go(from, to) == pc = from /\ pc' = to
\* One that only looks, and may talk to the TWI master.
Look(from, to) == Go(from, to) /\ UNCHANGED <<timeVars, gpio, localVars, restVars>>

\* wdg_feed_sec: the clocks are multiplied in 32 bits, and 31 of them are kept (a mutant keeps
\* them all).
FeedLong(seconds) == wdg_en' = TRUE /\ wdg_cnt' = CPU_FREQUENCY * seconds
Feed(seconds) ==
  wdg_en' = TRUE /\ wdg_cnt' = ((CPU_FREQUENCY * seconds) % WORD) % WDG_COUNTS

LedOn(mask)    == gpio' = gpio \cup mask
LedOff(mask)   == gpio' = gpio \ mask
LedInvert(mask) == gpio' = (gpio \ mask) \cup (mask \ gpio)

\* Ticks a delay shorter than a tick may take.
Short == {0, 1}

-------------------------------------------------------------------------------
(***************************************************************************)
(* Reading two bytes over the bus, most significant first.  Each step is a *)
(* command for the master, which takes the done flag away until it is      *)
(* carried out, acknowledged or not; the firmware polls the flag.          *)
(***************************************************************************)
Transfer == <<"start", "addr", "register", "stop", "start", "addr+read", "read", "read", "stop">>
Resting  == [step |-> 0, done |-> TRUE, bytes |-> <<>>]
DevOff   == [expects |-> "start", reg |-> "temperature"]

\* A register of the sensor: whole degrees and fraction.
Sensed == <<temp, 128>>

StartTransfer == twi' = [step |-> 1, done |-> FALSE, bytes |-> <<>>]

\* The sensor's side of a command.
Listens(cmd) ==
  CASE cmd = "start"                                  -> [dev EXCEPT !.expects = "address"]
    [] cmd = "addr" /\ dev.expects = "address"        -> [dev EXCEPT !.expects = "register"]
    [] cmd = "register" /\ dev.expects = "register"   -> [dev EXCEPT !.reg = "temperature"]
    [] cmd = "addr+read" /\ dev.expects = "address"   -> [dev EXCEPT !.expects = "read"]
    [] cmd = "stop"                                   -> [dev EXCEPT !.expects = "start"]
    [] OTHER                                          -> dev

\* What the master reads: the sensor's next byte, or a line that nobody pulls low.
ByteRead == IF dev.expects = "read" /\ dev.reg = "temperature"
              THEN Sensed[Len(twi.bytes) + 1] ELSE 255

CarryOut ==
  /\ ~twi.done
  /\ LET cmd == Transfer[twi.step] IN
       /\ dev' = Listens(cmd)
       /\ twi' = [twi EXCEPT !.done = TRUE,
                             !.bytes = IF cmd = "read" THEN Append(@, ByteRead) ELSE @]
       /\ IF cmd = "read" /\ twi.bytes = <<>> /\ pc = "temp"
            THEN sampled' = temp /\ age' = 0 ELSE UNCHANGED readVars
  /\ UNCHANGED <<timeVars, gpio, pc, localVars, temp, passVars, since>>

NextStep ==
  /\ twi.step \in 1 .. (Len(Transfer) - 1) /\ twi.done
  /\ twi' = [twi EXCEPT !.step = @ + 1, !.done = FALSE]
  /\ Look(pc, pc)

\* The transfer has ended; read_temp returns the first byte (a mutant: the second).
TransferEnds == twi.step = Len(Transfer) /\ twi.done
LowByte   == twi.bytes[2]
ReadTemp  == twi.bytes[1]

-------------------------------------------------------------------------------
Init ==
  /\ sec_cnt = [t \in Timer |-> 0] /\ wdg_en = FALSE /\ wdg_cnt = 0 /\ gpio = {}
  /\ pc = "main" /\ caller = "temp?" /\ wait = 0 /\ i = 0 /\ g_new_stratum = 0 /\ tmp = 0
  /\ twi = Resting /\ dev = DevOff /\ temp \in Temps
  /\ pass = 0 /\ inpkg = 0 /\ busy = 0 /\ since = 0 /\ sampled = 0 /\ age = 0

\* wdg_init(1) and the first feed; the UARTs; the lamps off.
Main ==
  /\ Go("main", "blink") /\ Feed(WDG_SECONDS) /\ LedOff(Lamps)
  /\ UNCHANGED <<sec_cnt, localVars, twi, restVars>>

\* All lamps blink five times, a second each.
Blink ==
  /\ Go("blink", "blink") /\ wait = 0 /\ i < 10
  /\ IF i % 2 = 0 THEN LedOn(LEDS) ELSE LedOff(LEDS)
  /\ wait' = i % 2 /\ i' = i + 1
  /\ UNCHANGED <<timeVars, caller, g_new_stratum, tmp, twi, restVars>>

\* chip_hard_reset, with its delay.
HardReset ==
  /\ Go("blink", "reset") /\ wait = 0 /\ i = 10
  /\ LedOn(Lamps \cup {RESET})
  /\ wait' \in Short /\ i' = 0
  /\ UNCHANGED <<timeVars, caller, g_new_stratum, tmp, twi, restVars>>
Started ==
  /\ Go("reset", "loop") /\ wait = 0
  /\ LedOff({RESET}) /\ TimerSet(1, 2) /\ age' = 0
  /\ UNCHANGED <<wdg_en, wdg_cnt, localVars, twi, dev, temp, passVars, since, sampled>>

\* The head of the main loop (a mutant feeds the watchdog only while nothing is mined).
NewPass == pass' = 0 /\ inpkg' = 0 /\ busy' = 0
LoopSlack ==
  /\ Go("loop", "get_pkg") /\ caller' = "temp?" /\ NewPass
  /\ IF g_new_stratum = 0 THEN Feed(WDG_SECONDS) ELSE UNCHANGED <<wdg_en, wdg_cnt>>
  /\ UNCHANGED <<sec_cnt, gpio, wait, i, g_new_stratum, tmp, twi, dev, temp, since, readVars>>
Loop ==
  /\ Go("loop", "get_pkg") /\ caller' = "temp?" /\ NewPass
  /\ Feed(WDG_SECONDS)
  /\ UNCHANGED <<sec_cnt, gpio, wait, i, g_new_stratum, tmp, twi, dev, temp, since, readVars>>

-------------------------------------------------------------------------------
(***************************************************************************)
(* get_pkg.  It stays for as long as packages follow each other, and waits *)
(* for the rest of a package that was cut off.                             *)
(***************************************************************************)
\* P_SET: the idle timer, and a lamp is inverted for 100 ms.
Set ==
  /\ Go("get_pkg", "lamp")
  /\ TimerSet(0, IDLE_TIME) /\ g_new_stratum' = 1 /\ since' = 0
  /\ LedInvert({SET_LAMP}) /\ wait' \in Short
  /\ UNCHANGED <<wdg_en, wdg_cnt, caller, i, tmp, twi, dev, temp, passVars, readVars>>
LampBack ==
  /\ Go("lamp", "get_pkg") /\ wait = 0 /\ LedInvert({SET_LAMP})
  /\ UNCHANGED <<timeVars, localVars, twi, restVars>>

Stop(from, to) ==
  /\ Go(from, to) /\ g_new_stratum' = 0 /\ since' = 0
  /\ UNCHANGED <<timeVars, gpio, caller, wait, i, tmp, twi, dev, temp, passVars, readVars>>
Detect == Stop("get_pkg", "get_pkg")

\* A STATUS is sent: the temperature is read for it, twice.
Status      == Look("get_pkg", "status") /\ StartTransfer
StatusAgain == Look("status", "status2") /\ TransferEnds /\ StartTransfer
StatusSent  == Look("status2", "get_pkg") /\ TransferEnds /\ twi' = Resting

\* A package is cut off; a later byte completes it.
CutOff    == Look("get_pkg", "cut off") /\ UNCHANGED twi
Completed == Look("cut off", "get_pkg") /\ UNCHANGED twi

\* No more bytes.
GetPkgReturn == Look("get_pkg", caller) /\ UNCHANGED twi

GetPkg == Set \/ LampBack \/ Detect \/ Status \/ StatusAgain \/ StatusSent \/ CutOff
            \/ GetPkgReturn
InGetPkg == pc \in {"get_pkg", "lamp", "status", "status2", "cut off"}

-------------------------------------------------------------------------------
(***************************************************************************)
(* The rest of a pass: the temperature, its lamp, the idle timeout, and    *)
(* the work, with get_pkg after each chip.                                 *)
(***************************************************************************)
TempDue    == TimerRead(1) = 0 /\ Look("temp?", "temp") /\ StartTransfer
TempNotDue == TimerRead(1) > 0 /\ Look("temp?", "hot") /\ UNCHANGED twi

TempRead ==
  /\ Go("temp", "hot") /\ TransferEnds /\ twi' = Resting
  /\ tmp' = ReadTemp /\ TimerSet(1, TEMP_SECONDS)
  /\ UNCHANGED <<wdg_en, wdg_cnt, gpio, caller, wait, i, g_new_stratum, restVars>>

HotLamp ==
  /\ Go("hot", "idle?")
  /\ IF tmp >= g_temp_high THEN LedOn({HOT_LAMP}) ELSE LedOff({HOT_LAMP})
  /\ UNCHANGED <<timeVars, localVars, twi, restVars>>

\* No P_SET for IDLE_TIME seconds.
Idle == TimerRead(0) = 0 /\ g_new_stratum = 1
IdleTimeout == Idle /\ Stop("idle?", "loop")
GoOn == ~Idle /\ Look("idle?", IF g_new_stratum = 1 THEN "work" ELSE "loop") /\ UNCHANGED twi

\* Another chip gets its work, or the chips are read and the pass ends.
NextWork ==
  /\ Go("work", "get_pkg") /\ caller' = "work"
  /\ UNCHANGED <<timeVars, gpio, wait, i, g_new_stratum, tmp, twi, restVars>>
WorkDone == Look("work", "loop") /\ UNCHANGED twi

Firmware == Main \/ Blink \/ HardReset \/ Started \/ Loop \/ GetPkg \/ TempDue \/ TempNotDue
              \/ TempRead \/ HotLamp \/ IdleTimeout \/ GoOn \/ NextWork \/ WorkDone \/ NextStep

-------------------------------------------------------------------------------
Bites == wdg_en /\ wdg_cnt \in {1, 2}

\* A second of the counters, while the watchdog does not bite.
Tick ==
  /\ ~Bites
  /\ sec_cnt' = [t \in Timer |-> IF sec_cnt[t] = 0 THEN 0 ELSE sec_cnt[t] - 1]
  /\ wdg_cnt' = IF wdg_cnt = 0 THEN 0 ELSE wdg_cnt - 1
  /\ wait' = IF wait = 0 THEN 0 ELSE wait - 1
  /\ pass' = pass + 1
  /\ \/ InGetPkg /\ inpkg' = inpkg + 1 /\ busy' = busy
     \/ ~InGetPkg /\ wait > 0 /\ UNCHANGED <<inpkg, busy>>
     \/ ~InGetPkg /\ wait = 0 /\ busy < MaxWork /\ busy' = busy + 1 /\ inpkg' = inpkg
  /\ since' = IF g_new_stratum = 1 THEN since + 1 ELSE since
  /\ age' = IF age > TEMP_SECONDS + 2 * MaxWork THEN age ELSE age + 1
  /\ temp' \in Temps
  /\ UNCHANGED <<wdg_en, gpio, pc, caller, i, g_new_stratum, tmp, twi, dev, sampled>>

\* The watchdog resets the processor and the board.
Bite ==
  /\ Bites
  /\ sec_cnt' = [t \in Timer |-> 0] /\ wdg_en' = FALSE /\ wdg_cnt' = 0 /\ gpio' = {}
  /\ pc' = "main" /\ caller' = "temp?" /\ wait' = 0 /\ i' = 0 /\ g_new_stratum' = 0 /\ tmp' = 0
  /\ twi' = Resting
  /\ pass' = 0 /\ inpkg' = 0 /\ busy' = 0 /\ since' = 0 /\ sampled' = 0 /\ age' = 0
  /\ UNCHANGED <<dev, temp>>

Next == Firmware \/ Completed \/ CarryOut \/ Tick \/ Bite

Spec == Init /\ [][Next]_vars

-------------------------------------------------------------------------------
TypeOK ==
  /\ sec_cnt \in [Timer -> 0 .. 63]
  /\ wdg_en \in BOOLEAN /\ wdg_cnt \in 0 .. WDG_COUNTS - 1
  /\ gpio \subseteq 0 .. RESET
  /\ pc \in {"main", "blink", "reset", "loop", "get_pkg", "lamp", "status", "status2", "cut off",
             "temp?", "temp", "hot", "idle?", "work"}
  /\ caller \in {"temp?", "work"} /\ wait \in Short /\ i \in 0 .. 10
  /\ g_new_stratum \in {0, 1} /\ tmp \in 0 .. 255
  /\ twi.step \in 0 .. Len(Transfer) /\ twi.done \in BOOLEAN /\ Len(twi.bytes) <= 2
  /\ dev.expects \in {"start", "address", "register", "read"}
  /\ temp \in Temps /\ pass \in Nat /\ inpkg + busy <= pass /\ busy <= MaxWork
  /\ since \in Nat /\ age \in Nat

(***************************************************************************)
(* The watchdog resets the firmware only if get_pkg kept it: the start     *)
(* with its five seconds, the temperature and the work of a pass never     *)
(* take so long, although 60 seconds come out as 17 (wdg_feed_sec,         *)
(* main.c:574 and 601).                                                    *)
(***************************************************************************)
BitesHung == [][Bite => inpkg >= Stay]_vars

(***************************************************************************)
(* A pass of the loop that hangs, in a package cut off or in packages that *)
(* never end, is over before the time is up (main.c:504, 601).             *)
(***************************************************************************)
HangEnds == pass <= Fed + MaxWork

(***************************************************************************)
(* The mining never stops for lack of P_SETs while the last one is not     *)
(* IDLE_TIME old, whatever the other timer does (main.c:240, 610, 634).    *)
(***************************************************************************)
NotIdleEarly == [][IdleTimeout => since >= IDLE_TIME]_vars

(***************************************************************************)
(* And it stops in the first pass that finds it that old.                  *)
(***************************************************************************)
IdleInTime == pc = "loop" /\ g_new_stratum = 1 => since <= IDLE_TIME + pass

(***************************************************************************)
(* When a pass has come to the idle timeout, the lamp of the temperature   *)
(* shows one measured in the last TEMP_SECONDS, the other lamps are as the *)
(* start left them and the chips are not held in reset (main.c:605-632).   *)
(***************************************************************************)
BoardShows ==
  pc = "idle?" =>
    /\ gpio = (Lamps \ {HOT_LAMP}) \cup (IF sampled >= g_temp_high THEN {HOT_LAMP} ELSE {})
    /\ age <= TEMP_SECONDS + MaxWork + busy
===============================================================================

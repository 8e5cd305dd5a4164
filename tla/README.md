# A verification project for the Miner Manager (mm-hashratio)

The Miner Manager is the firmware of an FPGA controller for BE200 bitcoin mining chips. It runs on
an LM32 soft core, takes stratum jobs from a host (cgminer) over a UART, makes tasks from them for
80 chips on SPI buses, tests the nonces the chips find and reports the good ones when the host
polls. This directory holds TLA+ modules that model its core, the configurations that check them
with TLC, and proofs for TLAPS.

Line numbers are those of `src/firmware/`, unless another path is given.

## 1. Inventory

One thread runs `main` (main.c:565). Interrupts only fill the UART receive rings. Everything else
that is concurrent is outside: the host, the chips, the timers, the watchdog.

| Part | State | Operations | Talks to | What makes it correct |
|---|---|---|---|---|
| Main loop (main.c:600) | `g_new_stratum`, chip counter | get packages, idle timeout, dispatch to every idle chip, read every chip | all others | each pass reaches each chip; mining stops without P_SETs |
| Packet receiver `get_pkg` (main.c:494), `decode_pkg` (164) | `g_pkg`, `last`, `count`, `start` | find the head, collect 39 bytes, test the CRC, handle | UART ring, job slots, ring, board | no package of another job gets into a slot in use; recovery after lost bytes |
| Job slots `g_mm_works` (48) | 3 slots, `g_cur_mm_idx` | fill the next slot, make it current (P_SET), make a task, read pool and job id | decode, dispatch, nonce test, polling | a report names the pool and the job of its own work |
| Chips' bookkeeping `miner_status` (61) | a tag (nonce2, slot) per chip | note at dispatch, read at the nonce | dispatch, `be200_read_result` (420) | the tag describes the task the nonce is of |
| Result ring `be200_result_buff` (62) | 64 cells, two indices | put, poll, drop at the idle timeout | read loop, polling | a FIFO: in order, nothing twice |
| Nonce statistics (40-50) | `g_local_work`, `g_hw_work`, `reset_flag` | count, reset all chips at 10 bad nonces | read loop, STATUS | counts mean what they are named |
| Chip driver (be200.c) | two static buffers | status, write task, start, read nonce, clear, PLL | SPI driver | the protocol of registers; failure seen |
| BE200 chips (external) | task, write-allowed bit, ready bit, nonce bits, PLL | hash, find, finish | driver | - |
| Fan, PWM (twipwm.c:114, twi.v:78) | remembered value, register | set | P_SET, idle timeout, start | the register is what is remembered |
| Timers (timer.c, twi.v:203) | two 6 bit second counts | set, read | P_SET, main | timeout after 60 s |
| Watchdog (twipwm.c:92, twi.v:97) | 31 bit count | feed once per pass | main | bites only when the loop hangs |
| Start-up (sdk/crt0ram.S) | .bss, .data | clear .bss, call main | watchdog | a restart is like a start |
| UART driver (uart.c) | rings of 1024 and 512, hardware FIFOs of 16 | isr, read, write with interrupts masked | receiver, `send_pkg`, debug output | bytes in order, none twice; the FIFO never fills |
| Interrupt dispatch (sdk/intr.c) | pending and mask registers | call the handlers | UART | no byte waits for the next one |
| SPI driver (spi.c) | two buffers in be200.c | exchange bytes with one chip | chip driver | - |
| Work generator (miner.c) | none of its own, writes into a slot | make a task, test a nonce | SHA | the task is of one job |
| SHA-256 driver (sha256.c) and core | the core's round, done flag, hash counter | cut, pad, write words, wait, read | work generator | the padded message is hashed whole and in order |
| TWI and temperature (twipwm.c:18) | the master's done flag; the sensor's register | read two bytes | main, STATUS | the lamp shows a fresh temperature |
| LEDs (timer.c:91) | gpio register, with the chips' reset line | on, off, blink | main, P_SET, reads | every blink is taken back |
| Factory test (main.c:273) | two halves of a task, verdicts | start the chips on it, judge them | chip driver | a verdict is about the chip's own nonces |
| Voltage shifter, libc, CPU and bus cores | | | | see "Not modelled" |

Hard behaviour: packages of the next job arrive in the middle of the dispatch loop; chips and the
ring hold nonces of older jobs when slots are used again; the job id is looked up only at the poll;
the ring has no test for full; a package with a wrong CRC is dropped without an answer; the watchdog
restarts the CPU with .data as it was; a local of the read loop may be used without a value.
`PROJECT.json` lists these hazards at their lines with the properties on them.

## 2. Modules

| Module | What it is |
|---|---|
| `Ring` | index arithmetic of the rings, and the queue a ring stands for |
| `ResultFifo` | abstract specification of the result buffer: a queue with a capacity and drops |
| `MinerManager` | the firmware with its chips, timer and watchdog, and a host that may send any package of the mining protocol at any time |
| `Mining` | `MinerManager` with a host that keeps to doc/protocol.md over a line that loses packages; the module TLC runs |
| `UartRx` | the UART driver under the interrupt dispatch: rings, registers, masked writes, hardware FIFOs |
| `ByteLine` | abstract specification of a serial line: bytes in order, the oldest may be lost |
| `PkgReceiver` | `get_pkg` over `UartRx`, with a host that sends bytes, a line that loses some, replies and debug output |
| `Sha256` | the SHA-256 driver and its core |
| `Be200Spi` | the chip driver transfer by transfer, and the chips |
| `ChipPort` | abstract specification of a chip behind its driver: load, clear, take, each in one step |
| `FactoryTest` | the factory test packages over `Be200Spi`, with a test bench |
| `WorkPath` | `Sha256`, `Be200Spi` and `FactoryTest` put together under main's loop |
| `Timers` | seconds, watchdog, start-up, TWI bus, lamps and the pass of main's loop |
| `Ring_proofs` | lemmas on rings: what putting and taking do to the queue |
| `MinerManager_proofs`, `Attribution_proofs`, `Mining_proofs` | theorems about the firmware, about what a report says, and about the firmware with its host |
| `PkgReceiver_proofs`, `PkgDecoding_proofs` | theorems about the bytes, and about the packages made of them |
| `Timers_proofs`, `WorkPath_proofs` | theorems about the seconds and the lamps, and about the SHA driver, the chip driver and the factory test |

There are four systems: `Mining` (what a report says), `PkgReceiver` (how bytes become packages),
`WorkPath` (how a work gets to a chip and a nonce back) and `Timers` (when). They are views of one
program on purpose: together they would be too large for TLC, and each leaves out what another has.
Where they meet: a `Receive` of `MinerManager` is a `Finish` of `PkgReceiver`; its `Dispatch` and
reads are calls of `WorkPath`; its `TimerExpires` and `Restart` are `Tick` and `Bite` of `Timers`,
`Restart` of `PkgReceiver` is the same bite. `Ring` is used by the result ring and by the UART's.

### State and actions of MinerManager

Variables have the names of the C variables. The others: `pc` is the place in `main` (`pkg`: the
`get_pkg` at the top; `main`: lines 605-642; `send`: the dispatch loop; `pkg_send`: its `get_pkg`;
`read`: `be200_read_result`), `idx` the loops' chip counter, `found` the local of line 429,
`mm_nonce2` the field `nonce2` of the slots, `timer0` whether timer 0 still runs, `fan` the static
value of `adjust_fan` with the PWM register, `pll` and `chip` the chips. `reply` is the package sent
in this step. Variables for the properties only: `activated` (the work each P_SET since the start
made current), the fields `of` of a ring element and `src` of a chip (which find a nonce is), and
the counters of the bounds.

| Action | Code |
|---|---|
| `Detect`, `Store`, `Set`, `PollStatus`, `PollNonce`, `Require` | the cases of `decode_pkg` and the answers of `get_pkg` |
| `GetPkgReturn` | no more bytes (500), or a wrong CRC (515) |
| `IdleTimeout`, `MainLoop` | 634-642 |
| `Dispatch`, `SkipBusy` | one iteration of the loop 643-655 |
| `ReadNothing`, `ReadValid`, `ReadBad` | one iteration of the loop 432-488 |
| `ChipFind`, `ChipDone` | the chips (external) |
| `TimerExpires`, `Restart` | timer 0 and the watchdog |

Abstractions. A field of a job (one package) is the job it came with, `NoJob` for zeroes: enough to
tell apart which job a task, a slot or a report is of. Hashing is left out: `test_nonce` can pass
only if the tag's slot now holds the fields the chip hashed with the tag's nonce2 (`Hashed`); that a
wrong hash starts with 32 zero bits is not modelled, nor is what the nonce's value is. `Hashed` does
not compare the STATIC package, since another job's may hold the same lengths: outside the window a
nonce may then pass in the model that the code would refuse, never the reverse. The writes of
`miner_gen_nonce2_work` into the slot (the nonce2 and the merkle root) are left out: both places are
written again before each use. One iteration of a chip loop is one step, since only the UART
interrupt can come between and it touches none of these variables. Where a ready bit comes without a
nonce bit, `be200_get_result` returns without a nonce and the read loop goes on with what its local
holds: every answer of `test_nonce` is possible, and the chip is not cleared (`"nomask"`).
`g_total_nonce` (debug output), LEDs, the temperature and the contents of a STATUS are left out.

`Restart` happens only inside `get_pkg`: the one place where the loop can hang is a truncated
package (504). It sets all of .bss as `Init` does, keeps `g_asic_freq` and the value of
`adjust_fan`, clears the PWM register, and does what `main` does up to its loop.

### The host of Mining

`Script` is the order of a job's packages in doc/protocol.md, then comes the P_SET. `LoseField` and
`LoseSet` are packages lost on the line or dropped for their CRC; the firmware is built without
CFG_ENABLE_ACK, so nothing is sent again. Polls, P_DETECT and P_REQUIRE come in between at any time.
`lost` collects what did not arrive, including what a restart cleared.

### State and actions of UartRx and PkgReceiver

`rx_buf`, `rx_produce`, `rx_consume` are the C variables, a function of the port (`uart`: host,
`uart1`: debug). `fifo` and `txq` are the hardware, `ip` and `im` the interrupt registers, `irqs` the
local of `isr`, and `isr`, `read`, `write` say where handler, `uart_read` and `uart_write` are. A
byte of the receiver is the package and the position it was sent at.

| Action | Code |
|---|---|
| `HostByte`, `LoseByte`, `DebugByte` | the host, the line and the debug port (external) |
| `IsrEnter`, `IsrByte`, `IsrDrained`, `IsrAck` | `isr` (intr.c:18), `uart_isr`, `uart1_isr` |
| `GetPkg` | the head of `get_pkg`'s loop (499) |
| `ReadWait`, `ReadCell`, `ReadNext` | `uart_read` (uart.c:64, 65, 66); an interrupt may come between |
| `GotByte` (`Collect`, `Finish`, `Decode`) | the body of the loop (506-544), the CRC of `decode_pkg` (181-191) and the answers (525-535) |
| `WriteMask`, `WriteChar` | `uart_write`, `uart1_write` for replies and debug output |
| `Time` | on each port one character may arrive and one leave |
| `Restart` | the watchdog while `get_pkg` does not return, for want of bytes or because they do not end: .bss cleared, `count` (in .data) kept |

The length of a package is a parameter; head, type, idx, cnt and data keep their places. The CRC
covers the data and itself (`p + 5` on, main.c:181-186), not the five bytes before: `CrcRight` asks
that the data be those of one package in place, and `Parsed` takes type, idx and cnt from wherever
they came. That the CRC tells the data of one package from a mixture is true of 16 bits but for one
case in 65536. A type byte that was another byte of a package may be any type's (`Answers`).

### State and actions of Sha256, Be200Spi, FactoryTest and WorkPath

`Sha256`: the driver is at a byte `i` of a block `blk` (`sha_pc`); the core has absorbed bytes since
INIT and is at word `round` of a block. A word written while the core works is lost. Each write,
wait and read of the driver is an action.

`Be200Spi`: `reg` are the chips' task registers, `run` the task started, `slot` the nonces a chip
shows with their status bits, `bare` the chips that are ready without one, `allow` the write-allowed
bit. `op` is the driver's next transfer, `ready` and `mask` what `be200_get_done` found.

| Action | Code |
|---|---|
| `Clear`, `TaskReg`, `Start` | be200.c:24, 64, 81; a register may not take its value, and nobody looks |
| `GetDone`, `NonceByte`, `Drop` | 92 and 116-118, 105-123, 125; the carry of 123 included |
| `ItpTask`, `ItpLoad`, `ItpResult`, `ItpAsk`, `Verdict`, `ItpEnd` | main.c:273-388, both forms |
| `Dispatch`, `SendWork`, `ReadResult`, `Test` | the loops 643-655 and 432-488, here only for the calls they make |
| `ChipFind`, `ChipReady`, `ChipDone`, `CoreDone` | the chips and the SHA core, at any moment |

The ready bit and the nonce bits are read separately (97, 99), and the model has chips that are ready
without a nonce bit (`ChipReady`). `be200_get_result` then reads and clears nothing and leaves the
caller's variable as it is (116-118); `Verdict` judges the chip on it (main.c:313-325). `result` is that
variable: of `Unset` when the factory test begins, 0 after each verdict on a ready chip. The other
case, a nonce bit without the ready bit, is taken not to occur. `mask` and `ready` are dead after
their use and are reset there.

A byte of a task is a token, the 80 chips and 44 registers are parameters. A transfer of several
bytes is one step (spi.c:46): nothing else is on the bus and a chip acts on the whole command.

### State and actions of Timers

The unit of time is a second, the edge the counters count on; it may come between any two steps, so
that what lasts less than a second may still see one. `sec_cnt`, `wdg_en`, `wdg_cnt` are the
registers of twi.v; `gpio` the lamps and the reset line; `pc` the place in `main`, `caller` where
`get_pkg` returns to; `twi` the transfer and `dev` the sensor. `pass`, `inpkg`, `busy`, `since`,
`sampled`, `age` are for the properties. `busy < MaxWork` says that main's own work (80 chips, the
SHA core, a transfer on the bus) takes less than `MaxWork` seconds a pass; delays and `get_pkg` have
no such bound. The blinks of the read loop and its `chip_hard_reset` (main.c:471, 478, 483) are
part of that work and have no steps of their own; the blink of a P_SET has (`Set`, `LampBack`).

| Action | Code |
|---|---|
| `Main`, `Blink`, `HardReset`, `Started` | 573-598 |
| `Loop` | 600-603, with the feed |
| `Set`, `LampBack`, `Detect`, `Status..`, `CutOff`, `Completed`, `GetPkgReturn` | what `get_pkg` does that takes time or sets a timer |
| `TempDue`, `TempNotDue`, `TempRead`, `HotLamp` | 605-632 |
| `IdleTimeout`, `GoOn`, `NextWork`, `WorkDone` | 634-657 |
| `NextStep`, `CarryOut` | a command to the TWI master, and the master and the sensor |
| `Tick`, `Bite` | the counters and the reset of twi.v:97-251 |

## 3. Runs

The runs of module `Mining`, then one of each other system.

| Run | Checks | What it shows |
|---|---|---|
| slots | `SlotsKept`, `NonceTagged`, `ResultsTagged`, `ReplyRight` | with the code's 3 slots and 4 jobs (one more than the slots hold) the reports of the last `MM_BUF_NUM - 1` P_SETs are right, whatever came into the slots since |
| ring | `TypeOK`, `OncePerNonce`, `ResultsInOrder` | 2 chips, 3 nonces, a ring of 3 (2 can wait): overrun, wrap, timeout; the ring implements `ResultFifo` |
| board | `OneFrequency`, `FanRemembered`, `TasksWhole`, `CurrentWork` | one lost package, one watchdog reset, chip resets, a frequency out of and in range, a fan value to clamp |
| live | `IdleStops`, `ReadyServed`, `ChipsBusy`, `ResultsLeave` | 2 chips, 2 nonces, a ring of 3 where both can wait, the idle timeout and P_DETECT; under the fairness below |
| receiver (`PkgReceiver`) | `TypeOK`, `FifoSuffices`, `InStepAgain`, `DecodedAsSent`, `BytesInOrder`, `Listens` | 3 packages, one byte lost, a ring that overruns, replies, debug output and input, the watchdog |
| path (`WorkPath`) | `TypeOK`, `DigestRight`, `PortsAtomic`, `VerdictRight`, `GoodChipPasses`, `WaitsEnd` | 2 chips that find nonces and end tasks at any moment; mining or 2 tests; one register not written, one package lost or one chip ready without a nonce |
| timers (`Timers`) | `TypeOK`, `HangEnds`, `IdleInTime`, `BoardShows`, `BitesHung`, `NotIdleEarly` | the start, passes, P_SETs, hangs and resets, second by second |
| stale | `NonceOfItsJob` violated | a report of an older work has the wrong job id (doc/protocol.md:32 knows no limit) |
| static | `StaticStops` violated | P_STATIC does not stop the mining (doc/protocol.md:21 says so) |
| freq | `SetSetsFrequency` violated | after a chip reset a P_SET with the old frequency does nothing (main.c:246, 484) |
| fan | `FanStarts` violated | after a watchdog reset the fan may stay off (twipwm.c:118) |
| hw | `HwOnlyInvalid` violated | valid nonces above the pool's target count as hardware errors (main.c:474) |

What the main properties say:

- *Window.* A task is in the window while fewer than `MM_BUF_NUM - 1` P_SETs were handled after its
  own: then its slot is not yet the one being filled. `SlotsKept` says the slots in the window are
  untouched, `NonceTagged` and `ResultsTagged` that tags on chips and in the ring describe their
  tasks, `ReplyRight` that reports do. Outside the window they may not: run stale.
- `OncePerNonce`: a nonce is on a chip, in the ring or reported, in one place only.
- `CurrentWork`: while mining, each field of the current slot is of the job of the last P_SET,
  unless that very package was lost. `TasksWhole`: what a chip hashes is of one job, but for the
  packages of that job which were lost.

- `BytesInOrder` is the refinement of `ByteLine` by ring, FIFO and `uart_read`: although the handler
  overruns the ring and comes between the steps of `uart_read`, get_pkg reads no byte twice and none
  out of order. `FifoSuffices`: the masked stretches of `uart_write` are short enough for 16 bytes.
- `InStepAgain`: after a loss at most one package that arrived whole is lost with it, but for a
  package with a head in its data. `DecodedAsSent`: packages are decoded in order and once. Where the
  CRC lets the type, idx and cnt of other packages pass with the data of one, no more was read of the
  one that gave the type than a header takes, and the one with the data lacks its head; the other
  two are between them.
- `Listens`: `get_pkg` does not stay in a package, by its rest or by the watchdog.
- `PortsAtomic` is the refinement of `ChipPort`: in spite of the chip going on, a task and a nonce
  pass as if in one step, but for the carry that be200.c:123 loses and the task that be200.c:71 cuts:
  the registers after the cut are then those of the task before.
- `VerdictRight`: "none" if and only if the chip was not ready; right if all it showed is right, not
  right if nothing is (a lost carry apart). A chip that is ready without a nonce is judged all the same,
  and wrongly: as long as all chips before were "none" it may pass on whatever the local held. What
  holds is that the nonce of one chip is never taken for that of another: later such a chip passes only
  where 0 would. `GoodChipPasses`: a chip that found only the right nonce of a task it took whole passes.
- `ResultsLeave`: a result does not stay in the ring, whatever is put behind it. That the ring becomes
  empty does not hold of the code: new results may come as fast as polls take them.
- `DigestRight`: what the core has absorbed when the hash is read is the message padded as the
  standard says. `WaitsEnd`: no wait for the core lasts for ever, no test either.
- `BitesHung`: the watchdog, fed with 60 seconds and set to 17, bites no firmware that works.
  `HangEnds`: one that hangs is reset. `NotIdleEarly` and `IdleInTime`: the idle timeout.
- `BoardShows`: after each reading the lamps are what the start left and the temperature demands.

### Bounds

`MaxSets`, `MaxFinds`, `MaxRestarts`, `MaxLost` bound how often these events happen; `MaxReads` how
often a ready bit without a nonce bit is seen before it goes away. `LastJob` is one more than the
slots in run slots, so that each slot is used again. Two chips are the fewest for which the loops,
`found` and the reset of all chips have someone else to disturb; a ring of 3 the smallest that
wraps with two waiting. `NONCE2_SIZE` is 2 in run slots, so that a wrong nonce2 can be told, and 1
where no property looks at it. `RESET_LIMIT` is 1 or 2 for 10: a threshold reached and, with 2, also
not reached. With one package per field type a coinbase may be cleared and filled; run slots
takes two. `Readiness` has no `"nomask"` in runs ring and live: `OncePerNonce` and `ReadyServed`
need chips that set a nonce bit with the ready bit, and with `"nomask"` TLC finds a nonce put into
the ring at every pass until the chip gets new work.

Receiver: 3 packages of 7 bytes, the shortest with head, type, idx, cnt and two bytes of data, so that
data may look like a head (`Tricky`, the first package) and be mixed; the ring takes 6, less than a
package, so that it wraps and overruns; debug port and transmitters have one place, so that every write
waits. The byte is lost of the first package (`Lossy`): one merges it with the second, and the third is
the one after; any package may lose bytes to an overrun of the ring or to the watchdog. Debug bytes
come while the host sends the first package (`Quiet` names the others), which is enough for a
reply and a line of debug output with bytes on both ports, and in the time after the host's last byte,
where they never end. `FifoSuffices` depends on `RX_DEPTH` only through how many characters one masked
stretch lasts: 4 are enough for the longest, a newline, and so are the 16 of the core.

Path: two chips are the fewest with a single test on fewer than all; a task of two registers has two
halves; two nonces at a time (`MaxShown`, over all chips) are two on one chip or one on each; a byte
has 16 values and a nonce two bytes. The chips' registers are 3 above the nonce of the test
(`Errors` is 4, less one), so the nonce returned is 4 above it, the last that passes, for test 48; for
test 28 it is the value whose carry is lost. `Noise` is the value next to the first of these, 5 above the
nonce of test 48, which does not pass. `Unset` is 4 below test 28 and passes there, not for test 48.
Coinbase lengths 55 and 56 are the two sides of the padding's second block; a merkle branch, of 64 bytes,
and the header, of 80, are the messages longer than a block. `MaxFaults` is 1: a register that does not
take its value, a lost package or a chip that is ready without a nonce. `MaxTests` is 2.

Timers: seconds are exact. A 32 bit count of clocks is 43 seconds, the 31 bits that are kept 21, so
that the 60 seconds of the feed come to 17 as in the code. The 60 seconds of the idle timeout are 7,
shorter than a hang, so that both orders happen; the 5 of the temperature are kept.

### Fairness

`MiningFair` has weak fairness of the firmware's own steps: the CPU runs, and `get_pkg` returns
since a package takes 3.4 ms on the line and less to handle. It has strong fairness of polls: the
host polls forever, and the bytes of a poll wait in the receive ring until `get_pkg` looks. Nothing
is assumed of chips, timer, or other packages.

`PkgReceiver` has weak fairness of the interrupts, of time and of the watchdog, and strong fairness
of main: bytes on the debug port may keep coming, but a handler takes microseconds and a character
87 of them, so main runs in between. Nothing is assumed of the host: it may stop in a package.
`WorkPath` has weak fairness of the firmware and of the SHA core; the chips need not find anything.
`Timers` states safety only: how long a pass may take is in its guards.

The runs receiver and path do not look for deadlock: a host that is silent and a bench at the end of
its tests leave nothing to do.

## 4. Proofs

Every safety property and every action property that a run checks is also a theorem, and with them
the three refinements. The theorems hold for every value of the constants that the named assumptions
allow:

- `MinerManager`, `Mining`: every number of chips, slots, ring cells, jobs and packages (sizes
  positive, at least two slots and two ring cells, a set of inputs each). Those about `Spec` are for
  a host that may send anything; `MiningImplementsSpec` carries them over to the host of doc/protocol.md.
- `PkgReceiver`: every size of ring and transmitter, every length of a package from 7, every number of
  packages and losses. `DepthAssumption`: a UART core keeps 4 bytes (it keeps 16), the most that
  arrive while the longest masked stretch is written. `NoByte` is not a byte.
- `Timers`: every clock, width of the counters and temperature. `FedAssumption`: the feed comes to
  enough for the start (10 seconds and a pass) and for `get_pkg` to stay `Stay`; with the 100 MHz, 32
  bits and 60 seconds of the code it comes to 17. The temperature is read every 2 seconds or less
  often (the code: 5).
- `WorkPath`: every number of chips, registers, nonces at a time and bytes of a nonce, every coinbase
  up to `HRTO_P_COINBASE_SIZE`, which is below 2^29 bytes (protocol.h:22: 2048), since the driver
  leaves the upper half of the message's length zero. `TestAssumption`: the nonces of the tests and of
  the chips fit their registers, and so does what the local holds before the first verdict. `PlaceAssumption` is the law of powers for the places of the digits,
  which no installed prover knows; TLC evaluates it for the run's base.

| Theorem | States |
|---|---|
| `TypeCorrect` (`MinerManager`, `PkgReceiver`, `WorkPath`, `Timers`) | `Spec => []TypeOK` |
| `RingIsFifo` | `Spec => ResultsInOrder`: refinement of `ResultFifo` |
| `ChipsAtOneFrequency`, `FanAsRemembered` | `[]OneFrequency`, `[]FanRemembered` |
| `WindowKept` | `[]SlotsKept` |
| `NoncesTagged`, `RingTagged`, `RepliesRight` | `[]NonceTagged`, `[]ResultsTagged`, `[]ReplyRight` |
| `NoncesOnce` | `[]OncePerNonce` if `"nomask"` is not in `Readiness` |
| `MiningImplementsSpec` | `MiningSpec => Spec` |
| `MiningReports` | the reports of `MiningSpec` are right, in order and made once |
| `CurrentSlotOfItsJob`, `TasksOfOneJob` | `MiningSpec => []CurrentWork`, `[]TasksWhole` |
| `FifoIsLongEnough` | `[]FifoSuffices` |
| `BytesAreInOrder` | `Spec => BytesInOrder`: refinement of `ByteLine` |
| `InStepAgainAlways`, `DecodedAsSentAlways` | `[]InStepAgain`, `[]DecodedAsSent` |
| `DigestIsRight` | `[]DigestRight` |
| `DriverIsAtomic` | `Spec => PortsAtomic`: refinement of `ChipPort` |
| `VerdictsAreRight`, `GoodChipsPass` | `VerdictRight`, `GoodChipPasses` |
| `WatchdogBitesHung`, `HangsEnd` | `BitesHung`, `[]HangEnds` |
| `NeverIdleEarly`, `StopsInTime` | `NotIdleEarly`, `[]IdleInTime` |
| `LampShows` | `[]BoardShows` |

### Slots, tags and reports

- `Ring_proofs`: a ring stands for the window of its cells from one index to the other; what putting
  and taking do to that queue, full rings included. The result ring and the UART's both use it.
- `TypeOK` of `MinerManager` is inductive as it stands. The refinement maps `Queue` and the reply to
  the FIFO's variables; each step is a put, a take, a drop or a stutter (`QueueSteps`).
- `SlotsKept` needs only `TypeOK`: `Store` writes to the next slot, and the next slot is not one of
  the last `MM_BUF_NUM - 1` (`NextSlotOutside`); a P_SET shifts the ages by one (`SlotsAge`).
- `ReplyRight` is not inductive. `AttributionInv` adds that the tag of every chip describes
  both the task it works on and the one its nonce is of (`ChipsTagged`), that every ring cell, taken
  or not, describes its own (`CellsTagged`), and that nothing is handed out before a P_SET
  (`Worked`). That a tag goes on describing a task is one lemma for all of them (`HeldKept`).
- `OncePerNonce` needs that the numbers in use are not above the last find's (`NumbersBound`) and
  that no two chips show one nonce (`ShownOnce`).
- `CurrentWork` needs to know what the host did: every field that the script has passed is in the next
  slot or in `lost` (`FieldsSent`). The P_SET that ends the script makes that slot current
  (`CurrentFilled`). `TasksWhole` follows, since a task is made of the current slot and `lost` only
  grows.

### Bytes and packages

- `FifoSuffices`: `Room` bounds what a UART core has or is due (`Due`). When a masked stretch begins no
  interrupt is pending, so nothing waits; in the stretch bytes gather for as long as its characters
  take (`Gathered`); after it the handler runs before a character's time is over.
- `BytesInOrder`: the queue of the line is the ring's window, without the cell that `uart_read` has
  copied and not yet passed, and then the core's FIFO. Each step of handler, core and reader puts,
  takes, moves or overruns (the oldest are lost) that queue, lemma by lemma.
- The packages need the order of the line itself: what waits was sent in increasing order, after the
  byte read last (`Ordered`), so that the count of bytes read of a package tells which (`Counted`).
  `Decoding` then says what `last`, `start`, `count` and each byte of `g_pkg` are of, in terms of the
  counts; `InStepAgain` and `DecodedAsSent` are read off it.

### Hashes, chips and verdicts

- `DigestRight`: `ShaInv` says that what the core has absorbed is the messages' blocks up to the
  driver's place (`Absorbed`) and that its rounds are in turn with the driver's words (`Turns`). The
  last block or the last two of a padded message are those the driver builds (`BlocksOfMessage`), by
  cases of the length modulo 64.
- `PortsAtomic`, the verdicts: `ChipInv` relates the driver's place to the chip: what was loaded is a
  beginning of the task on the chip that was asked for (`Loaded`), and the nonce read so far has the
  digits of the lowest nonce the status showed (`ReadOut`), whatever nonces came since. That the
  digits put together are that nonce and one more, but for the lost carry, is arithmetic of places
  (`ReturnedIsValue`). `Asked` and `Own` say which nonces those are, and `Forgotten` that before a chip is read
  nothing is left of the chips before it; a verdict follows from them (`VerdictOfSeen`).

### Seconds

- `FeedInv` says where the ticks of a pass went (`Spent`: into the start, `get_pkg`, a delay or
  other work, of which there is at most `MaxWork`) and what the watchdog has left (`Watched`: the
  feed less the pass). The bite happens at 2 or less, hence after at least `Stay` ticks in `get_pkg`;
  and since ticks stop at the bite, a pass is not longer than the feed.
- `IdleInv` ties timer 0 to the ticks since the last P_SET while mining (`IDLE_TIME` less them, or
  zero), which the settings of timer 1 and the resets leave alone: the timeout is not early, and
  a pass that found the timer running began before it was over.
- `BoardShows`: `BusInv` follows a transfer through master and sensor (which step expects which byte),
  `GpioInv` the lamps through the start, a blink and a reading, and `AgeInv` the age of the
  temperature through timer 1.

Only model-checked are the liveness properties, which the prover cannot reach: `IdleStops`,
`ReadyServed`, `ChipsBusy` and `ResultsLeave` (run live), `Listens` (receiver), `WaitsEnd` (path).
So are the five properties that runs find violated. No module has a recursive definition.

## 5. What could come next

1. `PkgReceiver` as the implementation of `Receive` of `MinerManager`, and `ChipPort` as that of its
   chips, with refinement mappings between the systems.
2. nonce2 ranges of several controllers (main.c:257, 649), once it is known what a host sends.

## 6. Not modelled

- What nothing calls in this version: the voltage shifter (`set_voltage`), `sha256_precalc`,
  `twi_write_2byte`, `uart1_read`, `wdg_feed`, `reset`, `be200_reset`, `be200_clear`,
  `be200_dump_register`, the test functions of spi.c, uart.c and be200_test.c.
- The timer interrupts: the handlers do nothing but acknowledge, and they stay masked.
- The compression of SHA-256, the order of bytes in a work (`flip32` and the like), and what a CRC of
  16 bits misses.
- P_ITP_SYNC (writes a word), P_ITP_ENTER and P_ITP_EXIT (set the fan), the fans' tachometers (read
  for a STATUS), `read_power_good`.
- nonce2 ranges: the hazard at main.c:257 depends on what ranges a host sends.
- The text of the debug output. debug32 formats into 32 characters (defines.h:18) and some lines are
  longer (main.c:188, 438, 466): what they overwrite depends on how the linker laid out .bss, so no
  model of the source can tell. Every model here is of a build where it is nothing that matters.
- Temperatures below zero and a board without a sensor, which read as 128 or more.
- minilibc, hexdump: no state anything else depends on.
- LM32, UART, SPI and GPIO cores: vendored; SoC wiring and Xilinx primitives: generated. What the
  drivers rely on of them (FIFO, interrupt registers, second counters, watchdog, TWI done flag, SHA
  rounds) is in the modules of the drivers.

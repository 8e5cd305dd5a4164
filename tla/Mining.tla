------------------------------- MODULE Mining -------------------------------
(***************************************************************************)
(* The Miner Manager with the host it is written for: cgminer, as          *)
(* doc/protocol.md describes it.  The host sends the packages of one job   *)
(* after the other, each job closed by its P_SET, and polls in between;    *)
(* a package may be lost or arrive with a wrong CRC, which neither side    *)
(* notices (the firmware is built without CFG_ENABLE_ACK).                 *)
(***************************************************************************)
EXTENDS MinerManager

CONSTANTS LastJob,   \* the host sends the jobs 1..LastJob
          MaxLost    \* bound: packages lost

ASSUME HostAssumption == 1 .. LastJob \subseteq Jobs /\ LastJob \in Nat /\ MaxLost \in Nat

VARIABLES sending,   \* the job whose packages the host sends
          next,      \* the number of the next of them
          current,   \* the job of the last P_SET that arrived
          lost       \* the <<job, field>> that did not arrive, or not survive

hostVars == <<sending, next, current, lost>>
allVars == <<vars, hostVars>>

\* The order of a job's packages, up to the P_SET.
Packages(type, count) == [i \in 1 .. count |-> <<type, i>>]
Script == <<STATIC, TARGET, JOB_ID>> \o Packages("COINBASE", CoinbasePkts)
            \o Packages("MERKLES", MerklesPkts) \o Packages("HEADER", HeaderPkts)

\* The fields of the job being sent that the host has sent already.
Sent == {<<sending, Script[k]>> : k \in 1 .. (next - 1)}

MiningInit == Init /\ sending = 1 /\ next = 1 /\ current = 0 /\ lost = {}

SendField ==
  /\ sending <= LastJob /\ next <= Len(Script)
  /\ Store(Script[next], sending)
  /\ next' = next + 1
  /\ UNCHANGED <<sending, current, lost>>

SendSet ==
  /\ sending <= LastJob /\ next = Len(Script) + 1
  /\ \E pwm \in Pwms, freq \in Freqs, offset \in Nonce2Offsets, range \in Nonce2Ranges :
       Set(pwm, freq, offset, range)
  /\ current' = sending
  /\ sending' = sending + 1 /\ next' = 1
  /\ UNCHANGED lost

\* A package is lost, or its CRC is wrong and get_pkg returns.
LoseField ==
  /\ sending <= LastJob /\ next <= Len(Script) /\ Cardinality(lost) < MaxLost
  /\ GetPkgReturn
  /\ lost' = lost \cup {<<sending, Script[next]>>}
  /\ next' = next + 1
  /\ UNCHANGED <<sending, current>>

LoseSet ==
  /\ sending <= LastJob /\ next = Len(Script) + 1 /\ MaxLost > 0
  /\ GetPkgReturn
  /\ sending' = sending + 1 /\ next' = 1
  /\ UNCHANGED <<current, lost>>

Poll == (PollStatus \/ PollNonce) /\ UNCHANGED hostVars
Other == (Detect \/ Require) /\ UNCHANGED hostVars

\* The host does not see a restart; what it sent of its job is gone.
HostRestart == Restart /\ lost' = lost \cup Sent /\ current' = 0 /\ UNCHANGED <<sending, next>>

Step ==
  \/ Firmware
  \/ \E i \in Chips : ChipDone(i) \/ \E ready \in Readiness : ChipFind(i, ready)
  \/ TimerExpires

MiningNext ==
  \/ SendField \/ SendSet \/ LoseField \/ LoseSet \/ Poll \/ Other \/ HostRestart
  \/ Step /\ UNCHANGED hostVars

MiningSpec == MiningInit /\ [][MiningNext]_allVars

-----------------------------------------------------------------------------
(***************************************************************************)
(* While the firmware mines, every field of the current slot belongs to    *)
(* the job of the last P_SET that arrived, but for the packages of that    *)
(* job which were lost: no other job's package ever gets into the slot.    *)
(***************************************************************************)
CurrentWork ==
  g_new_stratum = 1 =>
    \A f \in Fields : g_mm_works[g_cur_mm_idx][f] = current \/ <<current, f>> \in lost

(***************************************************************************)
(* A chip at work hashes one job, but for the packages of that job which   *)
(* were lost: no task mixes what the host sent for two jobs.               *)
(***************************************************************************)
TasksWhole ==
  \A i \in Chips : chip[i].task.set > 0 =>
    \E job \in Jobs : \A f \in Fields : chip[i].task.work[f] = job \/ <<job, f>> \in lost

-----------------------------------------------------------------------------
(***************************************************************************)
(* Fairness.  The CPU runs, so the main loop goes on; get_pkg returns,     *)
(* because a package takes longer to arrive than to be handled.  The host  *)
(* polls for ever, and the bytes of a poll wait in the receive buffer      *)
(* until get_pkg looks: strong fairness.                                   *)
(***************************************************************************)
MiningFair ==
  /\ MiningSpec
  /\ WF_allVars(Firmware /\ UNCHANGED hostVars)
  /\ SF_allVars(Poll)

\* Without a P_SET in IDLE_TIME the mining stops.
IdleStops == (g_new_stratum = 1 /\ ~timer0) ~> (g_new_stratum = 0 \/ timer0)

(***************************************************************************)
(* What a chip shows does not stay: it is read and cleared, or its chip is *)
(* cleared for a new task or reset.  (Not so without a nonce bit.)         *)
(***************************************************************************)
ReadyServed ==
  \A i \in Chips :
    (chip[i].ready # "no" /\ g_new_stratum = 1) ~> (chip[i].ready = "no" \/ g_new_stratum = 0)

\* While the firmware mines, no chip stays without work.
ChipsBusy ==
  \A i \in Chips :
    (chip[i].allow /\ g_new_stratum = 1) ~> (~chip[i].allow \/ g_new_stratum = 0)

\* A result does not stay in the ring, whatever is put behind it: it is reported, or dropped
\* with the others (main.c:139-161, 459, 636).
Waits(id) == \E k \in 1 .. Len(Queue) : Queue[k].of.id = id
ResultsLeave == \A id \in 1 .. MaxFinds : Waits(id) ~> ~Waits(id)

-----------------------------------------------------------------------------
(***************************************************************************)
(* Statements of the documentation and the comments that do not hold.      *)
(***************************************************************************)
\* doc/protocol.md: a P_NONCE carries the job id of its nonce, without a window.
NonceOfItsJob ==
  reply.type = "NONCE" => reply.job_id = reply.result.of.task.work[JOB_ID]

\* doc/protocol.md: P_STATIC makes the MM stop generating works until a P_SET.
StaticStops == [][\A job \in Jobs : Store(STATIC, job) => g_new_stratum' = 0]_allVars

\* doc/protocol.md: P_SET configures the chip frequency (one in the range main.c takes).
SetSetsFrequency ==
  [][\A pwm \in Pwms, freq \in Freqs, offset \in Nonce2Offsets, range \in Nonce2Ranges :
       freq > 100 /\ freq <= 750 /\ Set(pwm, freq, offset, range) =>
         \A i \in Chips : pll'[i] = Mult(freq)]_allVars

\* main.c: "adjust_fan(200); /* ~= 20% */" starts the fan whenever main starts.
FanStarts == [][restarts' # restarts => fan'.reg = 200]_allVars

\* main.c: only NONCE_HW is counted as a hardware error ("/* NONCE_HW */").
HwOnlyInvalid == [][g_hw_work' > g_hw_work => NONCE_HW \in TestNonce(idx)]_allVars
=============================================================================

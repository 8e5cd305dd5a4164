---------------------------- MODULE Mining_proofs ----------------------------
(***************************************************************************)
(* The firmware with its host is the firmware with some host: what holds   *)
(* for an arbitrary host holds for cgminer.                                *)
(***************************************************************************)
EXTENDS Mining, Attribution_proofs

\* The host sends packages of its jobs, and at most one P_SET after them.
HostType == sending \in 1 .. LastJob + 1 /\ next \in 1 .. Len(Script) + 1

LEMMA ScriptType == Script \in Seq(Fields)
<1> DEFINE c == Packages("COINBASE", CoinbasePkts)
           m == Packages("MERKLES", MerklesPkts)
           h == Packages("HEADER", HeaderPkts)
<1>1. <<STATIC, TARGET, JOB_ID>> \in Seq(Fields)
  BY DEF Fields
<1>2. CoinbasePkts \in Nat /\ MerklesPkts \in Nat /\ HeaderPkts \in Nat
  BY SizeAssumption
<1>3. c \in [1 .. CoinbasePkts -> Fields]
  BY DEF Packages, Fields, WorkFields, Coinbase
<1>4. m \in [1 .. MerklesPkts -> Fields]
  BY DEF Packages, Fields, WorkFields
<1>5. h \in [1 .. HeaderPkts -> Fields]
  BY DEF Packages, Fields, WorkFields
<1>6. c \in Seq(Fields) /\ m \in Seq(Fields) /\ h \in Seq(Fields)
  BY <1>2, <1>3, <1>4, <1>5, SeqDef
<1> HIDE DEF c, m, h
<1>7. <<STATIC, TARGET, JOB_ID>> \o c \in Seq(Fields)
  BY <1>1, <1>6
<1>8. (<<STATIC, TARGET, JOB_ID>> \o c) \o m \in Seq(Fields)
  BY <1>6, <1>7
<1> QED BY <1>6, <1>8 DEF Script, c, m, h

LEMMA HostSteps ==
  ASSUME HostType, [MiningNext]_allVars
  PROVE  HostType' /\ [Next]_vars
<1> DEFINE n == Len(Script)
<1>1. LastJob \in Nat /\ 1 .. LastJob \subseteq Jobs /\ n \in Nat
      /\ \A k \in 1 .. n : Script[k] \in Fields
  BY HostAssumption, ScriptType
<1> HIDE DEF n
<1> USE DEF HostType
<1>2. CASE SendField
  <2>1. Script[next] \in Fields /\ sending \in Jobs /\ Store(Script[next], sending)
    BY <1>1, <1>2 DEF SendField, n
  <2>2. \E f \in Fields, job \in Jobs : Store(f, job)
    BY <2>1
  <2>3. HostType'
    BY <1>1, <1>2 DEF SendField, n
  <2> QED BY <2>2, <2>3 DEF Next, Receive
<1>3. CASE SendSet
  <2>1. HostType'
    BY <1>1, <1>3 DEF SendSet, n
  <2> QED BY <1>3, <2>1 DEF SendSet, Next, Receive
<1>4. CASE LoseField
  <2>1. HostType'
    BY <1>1, <1>4 DEF LoseField, n
  <2> QED BY <1>4, <2>1 DEF LoseField, Next, Firmware
<1>5. CASE LoseSet
  <2>1. HostType'
    BY <1>1, <1>5 DEF LoseSet, n
  <2> QED BY <1>5, <2>1 DEF LoseSet, Next, Firmware
<1>6. CASE Poll \/ Other
  BY <1>6 DEF Poll, Other, hostVars, Next, Receive
<1>7. CASE HostRestart
  BY <1>7 DEF HostRestart, Next, Environment
<1>8. CASE Step /\ UNCHANGED hostVars
  BY <1>8 DEF Step, hostVars, Next, Environment
<1>9. CASE UNCHANGED allVars
  BY <1>9 DEF allVars, hostVars
<1> QED BY <1>2, <1>3, <1>4, <1>5, <1>6, <1>7, <1>8, <1>9 DEF MiningNext

(***************************************************************************)
(* Every behaviour of the firmware with the host that protocol.md          *)
(* describes, package losses and watchdog resets included, is one of the   *)
(* firmware with an arbitrary host.                                        *)
(***************************************************************************)
THEOREM MiningImplementsSpec == MiningSpec => Spec
<1>1. MiningInit => Init /\ HostType
  BY HostAssumption, ScriptType DEF MiningInit, HostType
<1>2. HostType /\ [MiningNext]_allVars => HostType' /\ [Next]_vars
  BY HostSteps
<1> QED BY <1>1, <1>2, PTL DEF MiningSpec, Spec

(***************************************************************************)
(* With that host too, each nonce is reported for the job it was found for *)
(* in the window, in the order of the finds, and at most once if no chip   *)
(* shows the ready bit without a nonce bit.                                *)
(***************************************************************************)
THEOREM MiningReports ==
  MiningSpec => /\ []ReplyRight /\ ResultsInOrder
                /\ "nomask" \notin Readiness => []OncePerNonce
<1>1. MiningSpec => []ReplyRight /\ ResultsInOrder
  BY MiningImplementsSpec, RepliesRight, RingIsFifo
<1>2. ASSUME "nomask" \notin Readiness PROVE MiningSpec => []OncePerNonce
  BY <1>2, MiningImplementsSpec, NoncesOnce
<1> QED BY <1>1, <1>2
-----------------------------------------------------------------------------
(***************************************************************************)
(* Whose data a slot and a chip hold.  The packages of a job come in the   *)
(* order of Script, so the inductive invariant follows them: those sent so *)
(* far are in the next slot or lost, those of the last P_SET are in the    *)
(* current slot or lost, also while the mining is stopped.                 *)
(***************************************************************************)
\* Where the elements of a concatenation are.
LEMMA ConcatElements ==
  \A S : \A s, t \in Seq(S) :
    /\ s \o t \in Seq(S) /\ Len(s \o t) = Len(s) + Len(t)
    /\ \A k \in 1 .. Len(s) : (s \o t)[k] = s[k]
    /\ \A k \in 1 .. Len(t) : (s \o t)[Len(s) + k] = t[k]
<1> TAKE S
<1> TAKE s, t \in Seq(S)
<1>1. s \o t \in Seq(S) /\ Len(s \o t) = Len(s) + Len(t)
  OBVIOUS
<1>2. ASSUME NEW k \in 1 .. Len(s) PROVE (s \o t)[k] = s[k]
  OBVIOUS
<1>3. ASSUME NEW k \in 1 .. Len(t) PROVE (s \o t)[Len(s) + k] = t[k]
  <2> DEFINE j == Len(s) + k
  <2>1. j \in 1 .. Len(s) + Len(t) /\ ~(j <= Len(s)) /\ j - Len(s) = k
    OBVIOUS
  <2> HIDE DEF j
  <2>2. (s \o t)[j] = t[j - Len(s)]
    BY <2>1
  <2> QED BY <2>1, <2>2 DEF j
<1> QED BY <1>1, <1>2, <1>3

LEMMA ScriptElements ==
  LET c == CoinbasePkts
      m == MerklesPkts
      h == HeaderPkts
  IN  /\ Len(Script) = 3 + c + m + h
      /\ Script[1] = STATIC /\ Script[2] = TARGET /\ Script[3] = JOB_ID
      /\ \A k \in 1 .. c : Script[3 + k] = <<"COINBASE", k>>
      /\ \A k \in 1 .. m : Script[3 + c + k] = <<"MERKLES", k>>
      /\ \A k \in 1 .. h : Script[3 + c + m + k] = <<"HEADER", k>>
<1> DEFINE first == <<STATIC, TARGET, JOB_ID>>
           c == Packages("COINBASE", CoinbasePkts)
           m == Packages("MERKLES", MerklesPkts)
           h == Packages("HEADER", HeaderPkts)
<1>1. CoinbasePkts \in Nat /\ MerklesPkts \in Nat /\ HeaderPkts \in Nat
  BY SizeAssumption
<1>2. /\ c \in [1 .. CoinbasePkts -> Fields]
      /\ m \in [1 .. MerklesPkts -> Fields]
      /\ h \in [1 .. HeaderPkts -> Fields]
  BY DEF Packages, Fields, WorkFields, Coinbase
<1>3. first \in Seq(Fields) /\ c \in Seq(Fields) /\ m \in Seq(Fields) /\ h \in Seq(Fields)
  BY <1>1, <1>2, SeqDef DEF Fields
<1>4. Len(c) = CoinbasePkts /\ Len(m) = MerklesPkts /\ Len(h) = HeaderPkts
  BY <1>1, <1>2, <1>3
<1>5. /\ \A k \in 1 .. CoinbasePkts : c[k] = <<"COINBASE", k>>
      /\ \A k \in 1 .. MerklesPkts : m[k] = <<"MERKLES", k>>
      /\ \A k \in 1 .. HeaderPkts : h[k] = <<"HEADER", k>>
  BY DEF Packages
<1>6. Len(first) = 3 /\ first[1] = STATIC /\ first[2] = TARGET /\ first[3] = JOB_ID
  OBVIOUS
<1>7. Script = ((first \o c) \o m) \o h
  BY DEF Script
<1> HIDE DEF first, c, m, h
<1>8. /\ first \o c \in Seq(Fields) /\ Len(first \o c) = 3 + CoinbasePkts
      /\ \A k \in 1 .. 3 : (first \o c)[k] = first[k]
      /\ \A k \in 1 .. CoinbasePkts : (first \o c)[3 + k] = c[k]
  <2>1. /\ first \o c \in Seq(Fields) /\ Len(first \o c) = Len(first) + Len(c)
        /\ \A k \in 1 .. Len(first) : (first \o c)[k] = first[k]
        /\ \A k \in 1 .. Len(c) : (first \o c)[Len(first) + k] = c[k]
    BY <1>3, ConcatElements
  <2> QED BY <1>4, <1>6, <2>1
<1> DEFINE fc == first \o c
           n == 3 + CoinbasePkts
<1>9. n \in Nat /\ fc \in Seq(Fields) /\ Len(fc) = n
  BY <1>1, <1>8
<1> HIDE DEF fc, n
<1>10. /\ fc \o m \in Seq(Fields) /\ Len(fc \o m) = n + MerklesPkts
       /\ \A k \in 1 .. n : (fc \o m)[k] = fc[k]
       /\ \A k \in 1 .. MerklesPkts : (fc \o m)[n + k] = m[k]
  <2>1. /\ fc \o m \in Seq(Fields) /\ Len(fc \o m) = Len(fc) + Len(m)
        /\ \A k \in 1 .. Len(fc) : (fc \o m)[k] = fc[k]
        /\ \A k \in 1 .. Len(m) : (fc \o m)[Len(fc) + k] = m[k]
    <3>1. fc \in Seq(Fields) /\ m \in Seq(Fields)
      BY <1>3, <1>9
    <3> QED BY <3>1, ConcatElements
  <2> QED BY <1>4, <1>9, <2>1
<1> DEFINE fcm == fc \o m
           n2 == n + MerklesPkts
<1>11. n2 \in Nat /\ fcm \in Seq(Fields) /\ Len(fcm) = n2
  BY <1>1, <1>9, <1>10
<1> HIDE DEF fcm, n2
<1>12. /\ Len(fcm \o h) = n2 + HeaderPkts
       /\ \A k \in 1 .. n2 : (fcm \o h)[k] = fcm[k]
       /\ \A k \in 1 .. HeaderPkts : (fcm \o h)[n2 + k] = h[k]
  <2>1. /\ Len(fcm \o h) = Len(fcm) + Len(h)
        /\ \A k \in 1 .. Len(fcm) : (fcm \o h)[k] = fcm[k]
        /\ \A k \in 1 .. Len(h) : (fcm \o h)[Len(fcm) + k] = h[k]
    <3>1. fcm \in Seq(Fields) /\ h \in Seq(Fields)
      BY <1>3, <1>11
    <3> QED BY <3>1, ConcatElements
  <2> QED BY <1>4, <1>11, <2>1
<1>13. Script = fcm \o h
  BY <1>7 DEF fc, fcm
<1>14. \A k \in 1 .. n : Script[k] = fc[k]
  BY <1>1, <1>9, <1>10, <1>12, <1>13 DEF fcm, n2
<1>15. \A k \in 1 .. MerklesPkts : Script[n + k] = m[k]
  BY <1>1, <1>9, <1>10, <1>12, <1>13 DEF fcm, n2
<1>16. \A k \in 1 .. 3 : Script[k] = first[k]
  BY <1>1, <1>8, <1>14 DEF fc, n
<1>17. \A k \in 1 .. CoinbasePkts : Script[3 + k] = c[k]
  BY <1>1, <1>8, <1>14 DEF fc, n
<1>18. Script[1] = STATIC /\ Script[2] = TARGET /\ Script[3] = JOB_ID
  BY <1>6, <1>16
<1>19. n = 3 + CoinbasePkts /\ n2 = 3 + CoinbasePkts + MerklesPkts
  BY DEF n, n2
<1> QED BY <1>5, <1>12, <1>13, <1>15, <1>17, <1>18, <1>19

\* A job's packages fill every field, and the first coinbase package, which clears the
\* coinbase, comes before the others.
LEMMA ScriptCovers ==
  /\ \A f \in Fields : \E k \in 1 .. Len(Script) : Script[k] = f
  /\ \A k \in 1 .. Len(Script) : Script[k] = <<"COINBASE", 1>> =>
       \A j \in 1 .. k - 1 : Script[j] \notin Coinbase
<1> DEFINE c == CoinbasePkts
           m == MerklesPkts
           h == HeaderPkts
<1>1. c \in Nat /\ m \in Nat /\ h \in Nat
  BY SizeAssumption
<1>2. /\ Len(Script) = 3 + c + m + h
      /\ Script[1] = STATIC /\ Script[2] = TARGET /\ Script[3] = JOB_ID
      /\ \A k \in 1 .. c : Script[3 + k] = <<"COINBASE", k>>
      /\ \A k \in 1 .. m : Script[3 + c + k] = <<"MERKLES", k>>
      /\ \A k \in 1 .. h : Script[3 + c + m + k] = <<"HEADER", k>>
  BY ScriptElements
<1>3. ASSUME NEW f \in Fields PROVE \E k \in 1 .. Len(Script) : Script[k] = f
  <2>1. CASE f \in {STATIC, JOB_ID, TARGET}
    BY <1>1, <1>2, <2>1
  <2>2. ASSUME NEW i \in 1 .. c, f = <<"COINBASE", i>>
        PROVE  \E k \in 1 .. Len(Script) : Script[k] = f
    <3>1. 3 + i \in 1 .. Len(Script) /\ Script[3 + i] = f
      BY <1>1, <1>2, <2>2
    <3> QED BY <3>1
  <2>3. ASSUME NEW i \in 1 .. m, f = <<"MERKLES", i>>
        PROVE  \E k \in 1 .. Len(Script) : Script[k] = f
    <3>1. 3 + c + i \in 1 .. Len(Script) /\ Script[3 + c + i] = f
      BY <1>1, <1>2, <2>3
    <3> QED BY <3>1
  <2>4. ASSUME NEW i \in 1 .. h, f = <<"HEADER", i>>
        PROVE  \E k \in 1 .. Len(Script) : Script[k] = f
    <3>1. 3 + c + m + i \in 1 .. Len(Script) /\ Script[3 + c + m + i] = f
      BY <1>1, <1>2, <2>4
    <3> QED BY <3>1
  <2>5. \/ f \in {STATIC, JOB_ID, TARGET}
        \/ \E i \in 1 .. c : f = <<"COINBASE", i>>
        \/ \E i \in 1 .. m : f = <<"MERKLES", i>>
        \/ \E i \in 1 .. h : f = <<"HEADER", i>>
    <3>1. ASSUME NEW type, NEW n \in Nat, f \in {type} \X (1 .. n)
          PROVE  \E i \in 1 .. n : f = <<type, i>>
      BY <3>1
    <3>2. \/ f \in {STATIC, JOB_ID, TARGET} \/ f \in {"COINBASE"} \X (1 .. c)
          \/ f \in {"MERKLES"} \X (1 .. m) \/ f \in {"HEADER"} \X (1 .. h)
      BY DEF Fields, WorkFields, Coinbase
    <3> HIDE DEF c, m, h
    <3>3. f \in {"COINBASE"} \X (1 .. c) => \E i \in 1 .. c : f = <<"COINBASE", i>>
      BY <1>1, <3>1
    <3>4. f \in {"MERKLES"} \X (1 .. m) => \E i \in 1 .. m : f = <<"MERKLES", i>>
      BY <1>1, <3>1
    <3>5. f \in {"HEADER"} \X (1 .. h) => \E i \in 1 .. h : f = <<"HEADER", i>>
      BY <1>1, <3>1
    <3> QED BY <3>2, <3>3, <3>4, <3>5
  <2> QED BY <2>1, <2>2, <2>3, <2>4, <2>5
<1>4. ASSUME NEW k \in 1 .. Len(Script), Script[k] = <<"COINBASE", 1>>,
             NEW j \in 1 .. k - 1
      PROVE  Script[j] \notin Coinbase
  <2>1. CASE k <= 3
    <3>1. j = 1 \/ j = 2
      BY <2>1
    <3> QED BY <1>2, <3>1 DEF STATIC, TARGET, Coinbase
  <2>2. CASE k > 3 /\ k <= 3 + c
    <3>1. k - 3 \in 1 .. c /\ 3 + (k - 3) = k
      BY <1>1, <2>2
    <3>2. <<"COINBASE", k - 3>> = <<"COINBASE", 1>>
      BY <1>2, <1>4, <3>1
    <3>3. k = 4
      BY <3>1, <3>2
    <3>4. j = 1 \/ j = 2 \/ j = 3
      BY <3>3
    <3> QED BY <1>2, <3>4 DEF STATIC, TARGET, JOB_ID, Coinbase
  <2>3. CASE k > 3 + c /\ k <= 3 + c + m
    <3>1. k - 3 - c \in 1 .. m /\ 3 + c + (k - 3 - c) = k
      BY <1>1, <2>3
    <3>2. <<"COINBASE", 1>> = <<"MERKLES", k - 3 - c>>
      BY <1>2, <1>4, <3>1
    <3> QED BY <3>2
  <2>4. CASE k > 3 + c + m
    <3>1. k - 3 - c - m \in 1 .. h /\ 3 + c + m + (k - 3 - c - m) = k
      BY <1>1, <1>2, <2>4
    <3>2. <<"COINBASE", 1>> = <<"HEADER", k - 3 - c - m>>
      BY <1>2, <1>4, <3>1
    <3> QED BY <3>2
  <2> QED BY <1>1, <2>1, <2>2, <2>3, <2>4
<1> QED BY <1>3, <1>4

\* A field of a slot holds the data of a job, but for a package that did not arrive.
HasField(slot, f, job) == g_mm_works[slot][f] = job \/ <<job, f>> \in lost
FieldsSent == \A k \in 1 .. next - 1 : HasField(NextSlot, Script[k], sending)
CurrentFilled ==
  activated # <<>> => current \in Jobs /\ \A f \in Fields : HasField(g_cur_mm_idx, f, current)
MiningInv == TypeOK /\ HostType /\ LoopMines /\ FieldsSent /\ CurrentFilled /\ TasksWhole

LEMMA MiningInvInit == MiningInit => MiningInv
<1> SUFFICES ASSUME MiningInit PROVE MiningInv
  OBVIOUS
<1>1. Init /\ sending = 1 /\ next = 1
  BY DEF MiningInit
<1>2. TypeOK /\ LoopMines
  BY <1>1, InitType, WorkedInit DEF Worked
<1>3. HostType
  BY <1>1, HostAssumption, ScriptType DEF HostType
<1>4. FieldsSent /\ CurrentFilled
  BY <1>1 DEF Init, FieldsSent, CurrentFilled
<1>5. \A i \in Chips : chip[i].task.set = 0
  BY <1>1 DEF Init, IdleChips, ChipReset, NoTask
<1>6. TasksWhole
  BY <1>5 DEF TasksWhole
<1> QED BY <1>2, <1>3, <1>4, <1>6 DEF MiningInv

\* What is neither a package nor a restart leaves the slots alone.
LEMMA SlotsAlone ==
  ASSUME Poll \/ Other \/ (Step /\ UNCHANGED hostVars) \/ UNCHANGED allVars
  PROVE  UNCHANGED <<windowVars, hostVars>>
<1> USE DEF windowVars, jobVars
<1>1. CASE Poll \/ Other
  BY <1>1 DEF Poll, Other, PollStatus, PollNonce, Detect, Require
<1>2. CASE UNCHANGED allVars
  BY <1>2 DEF allVars, vars
<1>3. ASSUME Step PROVE UNCHANGED windowVars
  <2>1. CASE GetPkgReturn \/ MainLoop \/ Dispatch \/ SkipBusy \/ IdleTimeout
    BY <2>1 DEF GetPkgReturn, MainLoop, Dispatch, SkipBusy, IdleTimeout
  <2>2. CASE ReadNothing \/ ReadValid
    BY <2>2 DEF ReadNothing, ReadValid, AfterRead
  <2>3. ASSUME NEW check \in {NONCE_HW, NONCE_VALID}, ReadBad(check)
        PROVE  UNCHANGED windowVars
    BY <2>3 DEF ReadBad, AfterRead
  <2>4. ASSUME NEW i \in Chips, ChipDone(i) PROVE UNCHANGED windowVars
    BY <2>4 DEF ChipDone
  <2>5. ASSUME NEW i \in Chips, NEW ready \in Readiness, ChipFind(i, ready)
        PROVE  UNCHANGED windowVars
    BY <2>5 DEF ChipFind
  <2>6. CASE TimerExpires
    BY <2>6 DEF TimerExpires
  <2> HIDE DEF windowVars, jobVars
  <2> QED BY <1>3, <2>1, <2>2, <2>3, <2>4, <2>5, <2>6 DEF Step, Firmware
<1> HIDE DEF windowVars, jobVars
<1> QED BY <1>1, <1>2, <1>3

LEMMA FieldsNext ==
  ASSUME TypeOK, HostType, FieldsSent, CurrentFilled, [MiningNext]_allVars
  PROVE  FieldsSent' /\ CurrentFilled' /\ lost \subseteq lost'
<1>1. /\ g_cur_mm_idx \in Slots /\ g_mm_works \in [Slots -> Work]
      /\ NextSlot \in Slots /\ NextSlot # g_cur_mm_idx
  <2>1. g_cur_mm_idx \in Slots /\ g_mm_works \in [Slots -> Work]
    BY DEF TypeOK, JobType
  <2>2. 0 \in 0 .. MM_BUF_NUM - 2
    BY SizeAssumption
  <2>3. SlotAt(0) # NextSlot
    BY <2>1, <2>2, NextSlotOutside
  <2>4. SlotAt(0) = g_cur_mm_idx
    BY <2>1 DEF SlotAt, Slots
  <2> QED BY <2>1, <2>3, <2>4, NextSlotType
<1>2. /\ Len(Script) \in Nat /\ next \in 1 .. Len(Script) + 1
      /\ \A k \in 1 .. Len(Script) : Script[k] \in Fields
  BY ScriptType DEF HostType
<1>3. CASE SendField
  <2> DEFINE f == Script[next]
             w == g_mm_works[NextSlot]
  <2>1. /\ g_mm_works' = [g_mm_works EXCEPT ![NextSlot] = Filled(w, f, sending)]
        /\ g_cur_mm_idx' = g_cur_mm_idx /\ activated' = activated
        /\ next' = next + 1 /\ sending' = sending /\ current' = current /\ lost' = lost
        /\ next <= Len(Script)
    BY <1>3 DEF SendField, Store
  <2>2. NextSlot' = NextSlot
    BY <2>1 DEF NextSlot
  <2>3. f \in Fields /\ (f = <<"COINBASE", 1>> => \A j \in 1 .. next - 1 : Script[j] \notin Coinbase)
    BY <1>2, <2>1, ScriptCovers
  <2>4. g_mm_works'[NextSlot] = Filled(w, f, sending)
    BY <1>1, <2>1
  <2>5. ASSUME NEW k \in 1 .. next' - 1
        PROVE  HasField(NextSlot, Script[k], sending)'
    <3>1. k \in 1 .. next /\ Script[k] \in Fields
      BY <1>2, <2>1
    <3>2. CASE Script[k] = f
      <4>1. Filled(w, f, sending)[Script[k]] = sending
        BY <3>1, <3>2 DEF Filled
      <4> QED BY <2>1, <2>2, <2>4, <4>1 DEF HasField
    <3>3. CASE Script[k] # f
      <4>1. k \in 1 .. next - 1
        BY <1>2, <3>1, <3>3
      <4>2. Filled(w, f, sending)[Script[k]] = w[Script[k]]
        BY <2>3, <3>1, <3>3, <4>1 DEF Filled
      <4>3. HasField(NextSlot, Script[k], sending)
        BY <4>1 DEF FieldsSent
      <4> QED BY <2>1, <2>2, <2>4, <4>2, <4>3 DEF HasField
    <3> QED BY <3>2, <3>3
  <2>6. CurrentFilled'
    BY <1>1, <2>1 DEF CurrentFilled, HasField
  <2> HIDE DEF f, w
  <2> QED BY <2>1, <2>5, <2>6 DEF FieldsSent
<1>4. CASE SendSet
  <2>1. /\ g_mm_works' = g_mm_works /\ g_cur_mm_idx' = NextSlot
        /\ next' = 1 /\ current' = sending /\ lost' = lost /\ next = Len(Script) + 1
    BY <1>4 DEF SendSet, Set
  <2>2. \A g \in Fields : HasField(NextSlot, g, sending)
    <3>1. \A k \in 1 .. Len(Script) : HasField(NextSlot, Script[k], sending)
      BY <1>2, <2>1 DEF FieldsSent
    <3> QED BY <3>1, ScriptCovers
  <2>3. sending \in Jobs
    BY <1>4, HostAssumption DEF SendSet, HostType
  <2>4. CurrentFilled'
    BY <2>1, <2>2, <2>3 DEF CurrentFilled, HasField
  <2> QED BY <2>1, <2>4 DEF FieldsSent
<1>5. CASE LoseField
  <2>1. /\ UNCHANGED windowVars /\ next' = next + 1 /\ sending' = sending /\ current' = current
        /\ lost' = lost \cup {<<sending, Script[next]>>}
    BY <1>5 DEF LoseField, GetPkgReturn, windowVars, jobVars
  <2>2. g_mm_works' = g_mm_works /\ g_cur_mm_idx' = g_cur_mm_idx /\ activated' = activated
        /\ NextSlot' = NextSlot
    BY <2>1 DEF windowVars, NextSlot
  <2>3. ASSUME NEW k \in 1 .. next' - 1 PROVE HasField(NextSlot, Script[k], sending)'
    <3>1. k = next \/ k \in 1 .. next - 1
      BY <1>2, <2>1
    <3> QED BY <2>1, <2>2, <3>1 DEF FieldsSent, HasField
  <2>4. CurrentFilled'
    BY <2>1, <2>2 DEF CurrentFilled, HasField
  <2> QED BY <2>1, <2>3, <2>4 DEF FieldsSent
<1>6. CASE LoseSet
  <2>1. UNCHANGED windowVars /\ next' = 1 /\ current' = current /\ lost' = lost
    BY <1>6 DEF LoseSet, GetPkgReturn, windowVars, jobVars
  <2>2. CurrentFilled'
    BY <2>1 DEF CurrentFilled, HasField, windowVars
  <2> QED BY <2>1, <2>2 DEF FieldsSent
<1>7. CASE HostRestart
  <2>1. /\ activated' = <<>> /\ next' = next /\ sending' = sending /\ lost' = lost \cup Sent
    BY <1>7 DEF HostRestart, Restart
  <2>2. ASSUME NEW k \in 1 .. next' - 1 PROVE HasField(NextSlot, Script[k], sending)'
    BY <2>1, <2>2 DEF HasField, Sent
  <2> QED BY <2>1, <2>2 DEF FieldsSent, CurrentFilled
<1>8. CASE UNCHANGED <<windowVars, hostVars>>
  <2>1. /\ g_mm_works' = g_mm_works /\ g_cur_mm_idx' = g_cur_mm_idx /\ activated' = activated
        /\ next' = next /\ sending' = sending /\ current' = current /\ lost' = lost
    BY <1>8 DEF windowVars, hostVars
  <2>2. NextSlot' = NextSlot
    BY <2>1 DEF NextSlot
  <2> QED BY <2>1, <2>2 DEF FieldsSent, CurrentFilled, HasField
<1> QED BY <1>3, <1>4, <1>5, <1>6, <1>7, <1>8, SlotsAlone DEF MiningNext

LEMMA TasksWholeNext ==
  ASSUME TypeOK, LoopMines, CurrentFilled, TasksWhole, [Next]_vars, lost \subseteq lost'
  PROVE  TasksWhole'
<1> SUFFICES ASSUME NEW i \in Chips, chip'[i].task.set > 0
             PROVE  \E job \in Jobs : \A f \in Fields :
                      chip'[i].task.work[f] = job \/ <<job, f>> \in lost'
  BY DEF TasksWhole
<1>1. chip'[i].task # NoTask
  BY DEF NoTask
<1>2. CASE Restart
  BY <1>1, <1>2 DEF Restart, IdleChips, ChipReset
<1>3. CASE Dispatch /\ i = idx
  <2>1. activated # <<>>
    BY <1>3 DEF Dispatch, LoopMines
  <2>2. current \in Jobs
        /\ \A f \in Fields : g_mm_works[g_cur_mm_idx][f] = current \/ <<current, f>> \in lost
    BY <2>1 DEF CurrentFilled, HasField
  <2>3. chip'[i].task.work = g_mm_works[g_cur_mm_idx]
    BY <1>3 DEF Dispatch, SendWork, TypeOK, ChipType
  <2> QED BY <2>2, <2>3
<1>4. CASE chip'[i].task \in {chip[i].task, NoTask}
  <2>1. chip'[i].task = chip[i].task
    BY <1>1, <1>4
  <2>2. PICK job \in Jobs : \A f \in Fields : chip[i].task.work[f] = job \/ <<job, f>> \in lost
    BY <2>1 DEF TasksWhole
  <2> QED BY <2>1, <2>2
<1> QED BY <1>2, <1>3, <1>4, ChipSteps

LEMMA MiningInvNext == MiningInv /\ [MiningNext]_allVars => MiningInv'
<1> SUFFICES ASSUME MiningInv, [MiningNext]_allVars PROVE MiningInv'
  OBVIOUS
<1> USE DEF MiningInv
<1>1. HostType' /\ [Next]_vars
  BY HostSteps
<1>2. TypeOK' /\ LoopMines'
  BY <1>1, NextType, LoopMinesNext
<1>3. FieldsSent' /\ CurrentFilled' /\ lost \subseteq lost'
  BY FieldsNext
<1>4. TasksWhole'
  BY <1>1, <1>3, TasksWholeNext
<1> QED BY <1>1, <1>2, <1>3, <1>4

LEMMA MiningAlways == MiningSpec => []MiningInv
BY MiningInvInit, MiningInvNext, PTL DEF MiningSpec

(***************************************************************************)
(* While the firmware mines, the current slot holds the job of the last    *)
(* P_SET that arrived and nothing else, but for lost packages: whatever    *)
(* job decode_pkg is filling, and whenever the watchdog bites.             *)
(***************************************************************************)
THEOREM CurrentSlotOfItsJob == MiningSpec => []CurrentWork
<1>1. MiningInv => CurrentWork
  BY DEF MiningInv, LoopMines, CurrentFilled, HasField, CurrentWork
<1> QED BY <1>1, MiningAlways, PTL

(***************************************************************************)
(* be200_send_work never gives a chip a task that mixes two jobs, not even *)
(* one handed out after a P_DETECT came in the middle of the loop over the *)
(* chips, or while the packages of the next job come in.                   *)
(***************************************************************************)
THEOREM TasksOfOneJob == MiningSpec => []TasksWhole
<1>1. MiningInv => TasksWhole
  BY DEF MiningInv
<1> QED BY <1>1, MiningAlways, PTL
=============================================================================

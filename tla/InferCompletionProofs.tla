----------------------- MODULE InferCompletionProofs -----------------------
(***************************************************************************)
(* Proofs about InferCompletion: type correctness, the promise that a call *)
(* begun at rest reports success only when its results are complete, the   *)
(* order in which the ring holds descriptors and OUTFEED drains results,   *)
(* and the refinement of InferService.                                     *)
(***************************************************************************)
EXTENDS InferInvariant, TLAPS

\* A remainder is determined by any decomposition of the number.
LEMMA RemainderUnique ==
  ASSUME NEW m \in Nat, NEW k \in Nat, NEW s \in 0 .. RingSize - 1,
         m = RingSize * k + s
  PROVE  m % RingSize = s
<1> DEFINE q == m \div RingSize
           r == m % RingSize
<1>1. q \in Nat /\ r \in 0 .. RingSize - 1 /\ m = RingSize * q + r
  BY RingAssumption
<1> HIDE DEF q, r
<1>2. CASE k = q
  BY <1>1, <1>2, RingAssumption DEF r
<1>3. CASE k > q
  <2>1. PICK d \in Nat : k = q + d /\ d >= 1
    <3>1. k - q \in Nat /\ k - q >= 1 /\ k = q + (k - q)
      BY <1>1, <1>3
    <3> QED BY <3>1
  <2>2. RingSize * k = RingSize * q + RingSize * d
    BY <1>1, <2>1, RingAssumption
  <2>3. RingSize * d >= RingSize
    BY <2>1, RingAssumption
  <2>4. RingSize * q \in Nat /\ RingSize * d \in Nat /\ RingSize * k \in Nat
    BY <1>1, <2>1, RingAssumption
  <2> QED BY <1>1, <2>2, <2>3, <2>4, RingAssumption
<1>4. CASE k < q
  <2>1. PICK d \in Nat : q = k + d /\ d >= 1
    <3>1. q - k \in Nat /\ q - k >= 1 /\ q = k + (q - k)
      BY <1>1, <1>4
    <3> QED BY <3>1
  <2>2. RingSize * q = RingSize * k + RingSize * d
    BY <1>1, <2>1, RingAssumption
  <2>3. RingSize * d >= RingSize
    BY <2>1, RingAssumption
  <2>4. RingSize * q \in Nat /\ RingSize * d \in Nat /\ RingSize * k \in Nat
    BY <1>1, <2>1, RingAssumption
  <2> QED BY <1>1, <2>2, <2>3, <2>4, RingAssumption
<1> QED BY <1>1, <1>2, <1>3, <1>4

\* The ring index of a descriptor count is an index, and the next count has
\* the next index, which is a different one (DescRingTail % 256).
LEMMA RingIndex ==
  ASSUME NEW n \in Nat
  PROVE  /\ n % RingSize \in 0 .. RingSize - 1
         /\ ((n % RingSize) + 1) % RingSize = (n + 1) % RingSize
         /\ (n + 1) % RingSize # n % RingSize
<1> DEFINE q == n \div RingSize
           r == n % RingSize
<1>1. q \in Nat /\ r \in 0 .. RingSize - 1 /\ n = RingSize * q + r
  BY RingAssumption
<1> HIDE DEF q, r
<1>2. CASE r + 1 < RingSize
  <2>1. n + 1 = RingSize * q + (r + 1) /\ r + 1 = RingSize * 0 + (r + 1)
    BY <1>1, RingAssumption
  <2>2. r + 1 \in 0 .. RingSize - 1
    BY <1>1, <1>2, RingAssumption
  <2>3. (n + 1) % RingSize = r + 1
    BY <1>1, <2>1, <2>2, RemainderUnique
  <2>4. (r + 1) % RingSize = r + 1
    BY <1>1, <2>1, <2>2, RemainderUnique
  <2> QED BY <1>1, <2>3, <2>4 DEF r
<1>3. CASE r + 1 = RingSize
  <2>1. n + 1 = RingSize * (q + 1) + 0 /\ r + 1 = RingSize * 1 + 0
    BY <1>1, <1>3, RingAssumption
  <2>2. 0 \in 0 .. RingSize - 1
    BY RingAssumption
  <2>3. (n + 1) % RingSize = 0
    <3>1. q + 1 \in Nat /\ n + 1 \in Nat
      BY <1>1
    <3> QED BY <3>1, <2>1, <2>2, RemainderUnique
  <2>4. (r + 1) % RingSize = 0
    BY <1>1, <2>1, <2>2, RemainderUnique
  <2> QED BY <1>1, <1>3, <2>3, <2>4, RingAssumption DEF r
<1> QED BY <1>1, <1>2, <1>3, RingAssumption

-----------------------------------------------------------------------------

\* Raising an interrupt keeps the pending word and the messages well typed.
LEMMA RaiseType ==
  ASSUME NEW b \in Bits, Raise(b), pending \subseteq Bits,
         msi \in [Vectors -> BOOLEAN]
  PROVE  pending' \subseteq Bits /\ msi' \in [Vectors -> BOOLEAN]
BY DEF Raise

LEMMA DpcOffType == DpcOff \in DpcState
BY SettleAssumption DEF DpcOff, DpcState

LEMMA TypeInit == Init => TypeOK
<1> SUFFICES ASSUME Init PROVE TypeOK
  OBVIOUS
<1>1. NoDesc \in Descriptor
  BY RequestsAssumption DEF NoDesc, Descriptor
<1>2. DpcOff \in DpcState
  BY DpcOffType
<1>3. 0 \in 0 .. RingSize - 1 /\ 0 \in 0 .. MaxRequests
  BY RingAssumption, RequestsAssumption
<1> QED
  BY <1>1, <1>2, <1>3
  DEF Init, TypeOK, Outcomes

LEMMA TypeStep == TypeOK /\ [Next]_vars => TypeOK'
<1> SUFFICES ASSUME TypeOK, [Next]_vars PROVE TypeOK'
  OBVIOUS
<1> USE DEF TypeOK, hostVars, chipVars, irqVars
<1>1. CASE Begin
  <2>1. clean' \in BOOLEAN
    BY <1>1 DEF Begin
  <2>2. req' \in 0 .. MaxRequests
    BY <1>1, RequestsAssumption DEF Begin
  <2> QED BY <1>1, <2>1, <2>2 DEF Begin
<1>2. CASE ZeroSeen
  BY <1>2 DEF ZeroSeen
<1>3. CASE Arm
  BY <1>3 DEF Arm
<1>4. CASE PushExe1
  <2>1. [exe |-> "exe1", req |-> req] \in Descriptor
    BY DEF Descriptor
  <2>2. tail \in Nat /\ tail + 1 \in Nat
    OBVIOUS
  <2>4. ring' \in [0 .. RingSize - 1 -> Descriptor]
    BY <1>4, <2>1 DEF PushExe1
  <2> QED BY <1>4, <2>2, <2>4 DEF PushExe1
<1>5. CASE Submit
  <2>1. [exe |-> "exe0", req |-> req] \in Descriptor
    BY DEF Descriptor
  <2>2. tail \in Nat /\ tail + 1 \in Nat
    OBVIOUS
  <2>4. ring' \in [0 .. RingSize - 1 -> Descriptor]
    BY <1>5, <2>1 DEF Submit
  <2> QED BY <1>5, <2>2, <2>4 DEF Submit
<1>24. CASE Doorbell
  <2>1. tail % RingSize \in 0 .. RingSize - 1
    BY RingIndex
  <2> QED BY <1>24, <2>1 DEF Doorbell
<1>6. CASE Snapshot
  BY <1>6 DEF Snapshot
<1>7. CASE Wake
  BY <1>7 DEF Wake
<1>8. CASE TimeOut
  BY <1>8 DEF TimeOut, Outcomes
<1>9. CASE Check
  BY <1>9 DEF Check, Outcomes
<1>10. CASE Fetch
  <2>1. pending' \subseteq Bits /\ msi' \in [Vectors -> BOOLEAN]
    <3>1. "iq" \in Bits
      BY DEF Bits
    <3> QED BY <1>10, <3>1, RaiseType DEF Fetch
  <2>2. head' \in 0 .. RingSize - 1
    <3>1. head + 1 \in Nat /\ head' = (head + 1) % RingSize
      BY <1>10 DEF Fetch
    <3>2. (head + 1) % RingSize \in 0 .. RingSize - 1
      BY <3>1, RingIndex
    <3> QED BY <3>1, <3>2
  <2> QED BY <1>10, <2>1, <2>2 DEF Fetch
<1>11. CASE HostInterrupt
  <2>1. pending' \subseteq Bits /\ msi' \in [Vectors -> BOOLEAN]
    <3>1. "sc" \in Bits
      BY DEF Bits
    <3> QED BY <1>11, <3>1, RaiseType DEF HostInterrupt
  <2> QED BY <1>11, <2>1 DEF HostInterrupt
<1>12. CASE Fatal
  <2>1. pending' \subseteq Bits /\ msi' \in [Vectors -> BOOLEAN]
    <3>1. "fatal" \in Bits
      BY DEF Bits
    <3> QED BY <1>12, <3>1, RaiseType DEF Fatal
  <2> QED BY <1>12, <2>1 DEF Fatal
<1>13. ASSUME NEW e \in Engines, EngineDone(e) PROVE TypeOK'
  <2>1. cur.req \in 0 .. MaxRequests
    BY DEF Descriptor
  <2>2. NoDesc \in Descriptor
    BY RequestsAssumption DEF NoDesc, Descriptor
  <2> QED BY <1>13, <2>1, <2>2 DEF EngineDone
<1>14. ASSUME NEW e \in {"SC", "OUT"}, EngineHalt(e) PROVE TypeOK'
  BY <1>14 DEF EngineHalt, Engines
<1>15. ASSUME NEW v \in Vectors, IsrRead(v) PROVE TypeOK'
  BY <1>15 DEF IsrRead
<1>16. ASSUME NEW v \in Vectors, IsrAck(v) PROVE TypeOK'
  BY <1>16 DEF IsrAck
<1>17. ASSUME NEW v \in Vectors, DpcStart(v) PROVE TypeOK'
  <2>1. ASSUME NEW s \in BOOLEAN, NEW f \in BOOLEAN
        PROVE  [DpcOff EXCEPT !.pc = "gates", !.sc = s, !.fatal = f] \in DpcState
    BY DpcOffType DEF DpcState
  <2>2. ("sc" \in seen) \in BOOLEAN /\ ("fatal" \in seen) \in BOOLEAN
    OBVIOUS
  <2>3. [DpcOff EXCEPT !.pc = "gates", !.sc = "sc" \in seen,
                       !.fatal = "fatal" \in seen] \in DpcState
    BY <2>1, <2>2, Zenon
  <2> QED BY <1>17, <2>3 DEF DpcStart
<1>18. ASSUME NEW v \in Vectors, DpcReadGate(v) PROVE TypeOK'
  <2>1. ASSUME NEW d \in DpcState, NEW i \in BOOLEAN, NEW h \in BOOLEAN,
               NEW p \in {"gates", "decide"}, NEW g \in 1 .. 4
        PROVE  [d EXCEPT !.idle = i, !.halted = h, !.pc = p, !.gate = g]
                 \in DpcState
    BY DEF DpcState
  <2>2. dpc[v].idle \in BOOLEAN /\ dpc[v].halted \in BOOLEAN
         /\ dpc[v].gate \in 1 .. 4 /\ dpc[v] \in DpcState
    BY DEF DpcState
  <2> DEFINE d == dpc[v]
             e == GateOrder[d.gate]
             r == [d EXCEPT !.idle = d.idle /\ run[e] = "idle",
                     !.halted = d.halted \/ (e \in {"SC", "OUT"} /\ run[e] = "halt"),
                     !.pc     = IF d.gate = 4 THEN "decide" ELSE "gates",
                     !.gate   = IF d.gate = 4 THEN 1 ELSE d.gate + 1]
  <2>3. /\ (d.idle /\ run[e] = "idle") \in BOOLEAN
        /\ (d.halted \/ (e \in {"SC", "OUT"} /\ run[e] = "halt")) \in BOOLEAN
    OBVIOUS
  <2>4. /\ (IF d.gate = 4 THEN "decide" ELSE "gates") \in {"gates", "decide"}
        /\ (IF d.gate = 4 THEN 1 ELSE d.gate + 1) \in 1 .. 4
    BY <2>2
  <2>5. r \in DpcState
    BY <2>1, <2>2, <2>3, <2>4, Zenon
  <2>6. dpc' = [dpc EXCEPT ![v] = r]
    BY <1>18 DEF DpcReadGate
  <2> HIDE DEF r
  <2> QED BY <1>18, <2>5, <2>6 DEF DpcReadGate
<1>19. ASSUME NEW v \in Vectors, DpcSettle(v) PROVE TypeOK'
  <2>1. ASSUME NEW d \in DpcState, NEW n \in 0 .. SettlePolls
        PROVE  [d EXCEPT !.pc = "gates", !.idle = TRUE, !.halted = FALSE,
                         !.polls = n] \in DpcState
    BY DEF DpcState
  <2>2. dpc[v].polls \in 0 .. SettlePolls /\ dpc[v] \in DpcState
    BY DEF DpcState
  <2> DEFINE d == dpc[v]
             n == IF d.polls < SettlePolls THEN d.polls + 1 ELSE d.polls
             r == [d EXCEPT !.pc = "gates", !.idle = TRUE, !.halted = FALSE,
                            !.polls = n]
  <2>3. n \in 0 .. SettlePolls
    BY <2>2, SettleAssumption
  <2>4. dpc' = [dpc EXCEPT ![v] = r]
    BY <1>19 DEF DpcSettle
  <2> HIDE DEF n
  <2>5. r \in DpcState
    BY <2>1, <2>2, <2>3, Zenon
  <2> HIDE DEF r
  <2> QED BY <1>19, <2>4, <2>5 DEF DpcSettle
<1>20. ASSUME NEW v \in Vectors, DpcComplete(v) PROVE TypeOK'
  BY <1>20, DpcOffType DEF DpcComplete
<1>21. ASSUME NEW v \in Vectors, DpcDefer(v) PROVE TypeOK'
  BY <1>21, DpcOffType DEF DpcDefer
<1>22. CASE Start
  BY <1>22 DEF Start
<1>23. CASE UNCHANGED vars
  BY <1>23 DEF vars
<1> QED
  BY <1>1, <1>2, <1>3, <1>4, <1>5, <1>6, <1>7, <1>8, <1>9, <1>10, <1>11, <1>12,
     <1>13, <1>14, <1>15, <1>16, <1>17, <1>18, <1>19, <1>20, <1>21, <1>22,
     <1>23, <1>24
  DEF Next, Handler, Chip, Isr, Dpc

\* Every reachable state is well typed, for any ring size, number of vectors,
\* settle bound and set of perils.
THEOREM TypeCorrect == Spec => []TypeOK
<1>1. Init => TypeOK
  BY TypeInit
<1>2. TypeOK /\ [Next]_vars => TypeOK'
  BY TypeStep
<1> QED BY <1>1, <1>2, PTL DEF Spec

-----------------------------------------------------------------------------

NoExe1 == "exe1" \notin Env

\* With EXE1_BS a call needs two places in the ring: where that is so, no call
\* starts on a full one.
RoomForExe1 == ~("exe1" \in Env /\ "ringFull" \in Env)

LEMMA CleanInit == Init => CleanInv
<1> SUFFICES ASSUME Init PROVE CleanInv
  OBVIOUS
<1>1. TypeOK
  BY TypeInit
<1>2. FatalIsSticky
  BY DEF Init, FatalIsSticky, DpcOff
<1>3. DoorbellRung
  <2>1. 0 \in Nat /\ 0 \in 0 .. RingSize - 1 /\ 0 = RingSize * 0 + 0
    BY RingAssumption
  <2>2. 0 % RingSize = 0
    BY <2>1, RemainderUnique
  <2> QED BY <2>2 DEF Init, DoorbellRung
<1>4. Exe1Phases /\ CleanStages /\ DpcLocals
  BY DEF Init, Exe1Phases, CleanStages, DpcLocals, DpcOff
<1> QED BY <1>1, <1>2, <1>3, <1>4 DEF CleanInv

\* Only Fatal creates a fatal bit; the ISR and the DPC pass it on.
LEMMA FatalStep ==
  ASSUME TypeOK, FatalIsSticky, [Next]_vars PROVE FatalIsSticky'
<1> USE DEF FatalIsSticky, hostVars, chipVars, irqVars
<1>1. CASE Handler \/ TimeOut
  BY <1>1 DEF Handler, TimeOut, Begin, ZeroSeen, Arm, PushExe1, Submit, Doorbell,
              Snapshot, Wake, Check
<1>2. CASE Fetch \/ HostInterrupt
  BY <1>2 DEF Fetch, HostInterrupt, Raise
<1>3. CASE Fatal
  BY <1>3 DEF Fatal
<1>4. CASE Start \/ (\E e \in Engines : EngineDone(e))
           \/ (\E e \in {"SC", "OUT"} : EngineHalt(e))
  BY <1>4 DEF Start, EngineDone, EngineHalt
<1>5. ASSUME NEW v \in Vectors, IsrRead(v) \/ IsrAck(v) PROVE FatalIsSticky'
  BY <1>5 DEF IsrRead, IsrAck, TypeOK
<1>6. ASSUME NEW v \in Vectors, DpcStart(v) PROVE FatalIsSticky'
  <2>1. \A w \in Vectors : w # v => dpc'[w] = dpc[w]
    BY <1>6 DEF DpcStart, TypeOK
  <2>2. ASSUME dpc'[v].fatal PROVE "fatal" \in seen
    <3>1. dpc'[v] = [DpcOff EXCEPT !.pc = "gates", !.sc = "sc" \in seen,
                                   !.fatal = "fatal" \in seen]
      BY <1>6 DEF DpcStart, TypeOK
    <3>2. dpc'[v].fatal = ("fatal" \in seen)
      BY <3>1 DEF DpcOff
    <3> QED BY <2>2, <3>2
  <2> QED BY <1>6, <2>1, <2>2 DEF DpcStart
<1>7. ASSUME NEW v \in Vectors, DpcReadGate(v) PROVE FatalIsSticky'
  BY <1>7 DEF DpcReadGate, TypeOK, DpcState
<1>8. ASSUME NEW v \in Vectors, DpcSettle(v) PROVE FatalIsSticky'
  BY <1>8 DEF DpcSettle, TypeOK, DpcState
<1>9. ASSUME NEW v \in Vectors, DpcComplete(v) \/ DpcDefer(v) PROVE FatalIsSticky'
  BY <1>9 DEF DpcComplete, DpcDefer, DpcOff, TypeOK
<1>10. CASE UNCHANGED vars
  BY <1>10 DEF vars
<1> QED
  BY <1>1, <1>2, <1>3, <1>4, <1>5, <1>6, <1>7, <1>8, <1>9, <1>10
  DEF Next, Chip, Isr, Dpc

\* Without exe1 the doorbell follows every push, and the second clear of the
\* event is never reached.
LEMMA DoorbellStep ==
  ASSUME NoExe1, TypeOK, DoorbellRung, Exe1Phases, [Next]_vars
  PROVE  DoorbellRung' /\ Exe1Phases'
<1> USE DEF DoorbellRung, Exe1Phases, hostVars, chipVars, irqVars
<1>1. ASSUME Handler \/ TimeOut, ~Submit PROVE DoorbellRung' /\ Exe1Phases'
  BY <1>1 DEF NoExe1, Handler, TimeOut, Begin, ZeroSeen, Arm, PushExe1, Doorbell,
              Snapshot, Wake, Check
<1>5. CASE Submit
  <2>1. tail' - 1 = tail /\ tail' > 0
    BY <1>5 DEF Submit, TypeOK
  <2> QED BY <1>5, <2>1 DEF Submit
<1>2. CASE Chip
  BY <1>2 DEF Chip, Fetch, Start, HostInterrupt, Fatal, EngineDone, EngineHalt
<1>3. ASSUME NEW v \in Vectors, Isr(v) \/ Dpc(v)
      PROVE  DoorbellRung' /\ Exe1Phases'
  BY <1>3 DEF Isr, Dpc, IsrRead, IsrAck, DpcStart, DpcReadGate, DpcSettle,
              DpcComplete, DpcDefer
<1>4. CASE UNCHANGED vars
  BY <1>4 DEF vars
<1> QED BY <1>1, <1>2, <1>3, <1>4, <1>5 DEF Next

\* The DPC's locals are fresh whenever it starts.
LEMMA DpcLocalsStep ==
  ASSUME TypeOK, DpcLocals, [Next]_vars PROVE DpcLocals'
<1> USE DEF DpcLocals, hostVars, chipVars, irqVars
<1>1. CASE Handler \/ TimeOut
  BY <1>1 DEF Handler, TimeOut, Begin, ZeroSeen, Arm, PushExe1, Submit, Doorbell,
              Snapshot, Wake, Check
<1>2. CASE Chip
  BY <1>2 DEF Chip, Fetch, Start, HostInterrupt, Fatal, EngineDone, EngineHalt
<1>3. ASSUME NEW v \in Vectors, IsrRead(v) \/ IsrAck(v) PROVE DpcLocals'
  BY <1>3 DEF IsrRead, IsrAck
<1>4. ASSUME NEW v \in Vectors, DpcStart(v) PROVE DpcLocals'
  BY <1>4 DEF DpcStart, DpcOff, TypeOK
<1>5. ASSUME NEW v \in Vectors, DpcReadGate(v) PROVE DpcLocals'
  BY <1>5 DEF DpcReadGate, TypeOK, DpcState
<1>6. ASSUME NEW v \in Vectors, DpcSettle(v) PROVE DpcLocals'
  BY <1>6 DEF DpcSettle, TypeOK, DpcState
<1>7. ASSUME NEW v \in Vectors, DpcComplete(v) \/ DpcDefer(v) PROVE DpcLocals'
  <2>1. dpc'[v] = DpcOff /\ \A w \in Vectors : w # v => dpc'[w] = dpc[w]
    BY <1>7 DEF DpcComplete, DpcDefer, TypeOK
  <2>2. DpcOff.pc = "off"
    BY DEF DpcOff
  <2> QED BY <2>1, <2>2
<1>8. CASE UNCHANGED vars
  BY <1>8 DEF vars
<1> QED
  BY <1>1, <1>2, <1>3, <1>4, <1>5, <1>6, <1>7, <1>8 DEF Next, Isr, Dpc

\* While the interrupt path is quiescent nothing on it can move.
LEMMA QuiescentBlocks ==
  ASSUME Quiescent, NEW v \in Vectors PROVE ~Isr(v) /\ ~Dpc(v)
BY DEF Quiescent, Isr, IsrRead, IsrAck, Dpc, DpcStart, DpcReadGate, DpcSettle,
       DpcComplete, DpcDefer

\* A chip without work does nothing.
LEMMA QuietBlocks == ASSUME ChipQuiet PROVE ~Chip
BY DEF ChipQuiet, Chip, Fetch, Start, HostInterrupt, Fatal, EngineDone, EngineHalt,
       Engines

\* All four gates idle means every engine idle.
LEMMA AllGates ==
  ASSUME \A g \in 1 .. 4 : run[GateOrder[g]] = "idle" PROVE AllIdle
<1>1. /\ GateOrder[1] = "SC" /\ GateOrder[2] = "IN"
      /\ GateOrder[3] = "OUT" /\ GateOrder[4] = "AV"
  BY DEF GateOrder
<1> QED BY <1>1 DEF AllIdle, Engines

LEMMA MineIsWork == Mine # NoDesc /\ Mine.req = req /\ Mine.exe = "exe0"
BY DEF Mine, NoDesc

Stage == Queued \/ Fetched \/ Running \/ Done

\* The chip's steps take a clean call from stage to stage, in order.
LEMMA ChipStage ==
  ASSUME TypeOK, DpcLocals, Stage, Chip PROVE Stage'
<1> USE DEF TypeOK, hostVars, chipVars, irqVars
<1>m. Mine' = Mine /\ Mine # NoDesc /\ UNCHANGED <<event, seen, isr, dpcQ, dpc, hwTail, req>>
  BY MineIsWork DEF Chip, Fetch, Start, HostInterrupt, Fatal, EngineDone, EngineHalt, Mine
<1>1. CASE Fetch
  <2>1. Queued
    BY <1>1, <1>m, QuietBlocks DEF Stage, Fetch, Fetched, Running, Done, ChipQuiet
  <2>2. pending' = {"iq"}
    BY <1>1, <2>1 DEF Fetch, Raise, Queued, Quiescent
  <2>3. AllIdle'
    BY <1>1, <2>1 DEF Fetch, Queued, AllIdle
  <2>4. NoScInFlight' /\ (\A v \in Vectors : ~dpc'[v].halted) /\ ~event'
    BY <1>m, <2>1, <2>2 DEF Queued, Quiescent, NoScInFlight, DpcLocals, DpcOff
  <2>5. cur' = Mine /\ head' = hwTail
    BY <1>1, <2>1 DEF Fetch, Queued
  <2> QED BY <1>m, <2>3, <2>4, <2>5 DEF Stage, Fetched
<1>2. CASE Start
  <2>1. Fetched
    BY <1>2, <1>m, QuietBlocks DEF Stage, Start, Queued, Running, Done, ChipQuiet, AllIdle
  <2>2. ~AllIdle' /\ run'["OUT"] # "idle"
    BY <1>2 DEF Start, AllIdle, Engines
  <2>3. NoScInFlight'
    BY <1>2, <2>1 DEF Start, Fetched, NoScInFlight
  <2>4. ASSUME NEW v \in Vectors PROVE SampleHolds(dpc[v])'
    BY <1>m, <2>1 DEF Fetched, NoScInFlight, SampleHolds
  <2>5. cur' = Mine /\ head' = hwTail /\ (event' => hibErr')
    BY <1>2, <2>1 DEF Start, Fetched
  <2> QED BY <1>m, <2>2, <2>3, <2>4, <2>5 DEF Stage, Running
<1>3. CASE HostInterrupt
  <2>1. Running
    BY <1>3, <1>m, QuietBlocks
    DEF Stage, HostInterrupt, Queued, Fetched, Done, ChipQuiet, AllIdle, Engines
  <2>2. UNCHANGED <<head, cur, run, hibErr, slot>> /\ fired'
    BY <1>3 DEF HostInterrupt
  <2>3. ASSUME NEW v \in Vectors PROVE SampleHolds(dpc[v])'
    BY <1>m, <2>1, <2>2 DEF Running, SampleHolds, Halted
  <2> QED BY <1>m, <2>1, <2>2, <2>3 DEF Stage, Running, AllIdle, Halted
<1>4. CASE Fatal
  <2>1. UNCHANGED <<head, cur, run, fired, slot>> /\ hibErr'
    BY <1>4 DEF Fatal
  <2>2. pending' = pending \cup {"fatal"} \/ pending' = pending
    BY <1>4 DEF Fatal, Raise
  <2>3. NoScInFlight => NoScInFlight'
    BY <1>m, <2>2 DEF NoScInFlight
  <2>4. Running \/ Fetched
    BY <1>4, <1>m DEF Stage, Fatal, Queued, Done, ChipQuiet
  <2>5. CASE Fetched
    BY <1>m, <2>1, <2>3, <2>5 DEF Stage, Fetched, AllIdle
  <2>6. CASE Running
    <3>1. ASSUME NEW v \in Vectors PROVE SampleHolds(dpc[v])'
      BY <1>m, <2>1, <2>6 DEF Running, SampleHolds, Halted
    <3> QED BY <1>m, <2>1, <2>3, <2>6, <3>1 DEF Stage, Running, AllIdle
  <2> QED BY <2>4, <2>5, <2>6
<1>5. ASSUME NEW e \in Engines, EngineDone(e) PROVE Stage'
  <2>1. Running
    BY <1>5, <1>m DEF Stage, EngineDone, Queued, Fetched, Done, ChipQuiet, AllIdle
  <2>2. /\ UNCHANGED <<head, fired, hibErr, pending>>
        /\ run[e] = "run" /\ run' = [run EXCEPT ![e] = "idle"]
    BY <1>5 DEF EngineDone
  <2>3. NoScInFlight => NoScInFlight'
    BY <1>m, <2>2 DEF NoScInFlight
  <2>4. run'["OUT"] = "idle" => slot' = req
    BY <1>5, <2>1, <2>2, MineIsWork DEF EngineDone, Running, Engines
  <2>5. CASE \A d \in Engines \ {e} : run[d] = "idle"
    <3>1. cur' = NoDesc
      BY <1>5, <2>5 DEF EngineDone
    <3>2. \A d \in Engines : run'[d] = "idle"
      BY <2>2, <2>5
    <3>3. head' = hwTail' /\ slot' = req'
      BY <1>m, <2>1, <2>2, <2>4, <3>2 DEF Running, Engines
    <3> QED BY <3>1, <3>2, <3>3 DEF Stage, Done, ChipQuiet
  <2>6. CASE ~(\A d \in Engines \ {e} : run[d] = "idle")
    <3>1. cur' = Mine
      BY <1>5, <2>1, <2>6 DEF EngineDone, Running
    <3>2. ~AllIdle'
      BY <2>2, <2>6 DEF AllIdle
    <3>3. Halted => Halted'
      BY <2>2 DEF Halted, Engines
    <3>4. ASSUME NEW v \in Vectors PROVE SampleHolds(dpc[v])'
      <4>1. \A d \in Engines : run[d] = "idle" => run'[d] = "idle"
        BY <2>2
      <4>2. \A g \in 1 .. 4 : GateOrder[g] \in Engines
        BY DEF GateOrder, Engines
      <4> QED BY <1>m, <2>1, <3>3, <4>1, <4>2 DEF Running, SampleHolds
    <3> QED BY <1>m, <2>1, <2>2, <2>3, <2>4, <3>1, <3>2, <3>3, <3>4 DEF Stage, Running
  <2> QED BY <2>5, <2>6
<1>6. ASSUME NEW e \in {"SC", "OUT"}, EngineHalt(e) PROVE Stage'
  <2>1. Running
    BY <1>6, <1>m
    DEF Stage, EngineHalt, Queued, Fetched, Done, ChipQuiet, AllIdle, Engines
  <2>2. /\ UNCHANGED <<head, cur, fired, hibErr, pending, slot>>
        /\ run[e] = "run" /\ run' = [run EXCEPT ![e] = "halt"]
    BY <1>6 DEF EngineHalt
  <2>3. NoScInFlight => NoScInFlight'
    BY <1>m, <2>2 DEF NoScInFlight
  <2>4. Halted' /\ ~AllIdle' /\ (run'["OUT"] = "idle" => run["OUT"] = "idle")
    BY <2>2 DEF Halted, AllIdle, Engines
  <2>5. ASSUME NEW v \in Vectors PROVE SampleHolds(dpc[v])'
    <3>1. \A d \in Engines : run[d] = "idle" => run'[d] = "idle"
      BY <2>2, SMT DEF Engines
    <3>2. \A g \in 1 .. 4 : GateOrder[g] \in Engines
      BY DEF GateOrder, Engines
    <3> QED BY <1>m, <2>1, <2>4, <3>1, <3>2 DEF Running, SampleHolds
  <2> QED BY <1>m, <2>1, <2>2, <2>3, <2>4, <2>5 DEF Stage, Running
<1> QED BY <1>1, <1>2, <1>3, <1>4, <1>5, <1>6 DEF Chip

\* The interrupt path moves bits and samples; it may set the event only for a
\* reason the handler will see, or when the chip is done.
LEMMA IrqStage ==
  ASSUME TypeOK, FatalIsSticky, DpcLocals, Stage,
         NEW v \in Vectors, Isr(v) \/ Dpc(v)
  PROVE  Stage'
<1> USE DEF TypeOK, hostVars, chipVars, irqVars
<1>m. UNCHANGED <<req, hwTail, head, cur, run, fired, hibErr, slot, ring>>
  BY DEF Isr, Dpc, IsrRead, IsrAck, DpcStart, DpcReadGate, DpcSettle, DpcComplete,
         DpcDefer
<1>n. ~Queued
  BY QuiescentBlocks DEF Queued
<1>d. CASE Done
  BY <1>m, <1>d DEF Stage, Done, ChipQuiet
<1>1. CASE IsrRead(v) \/ IsrAck(v)
  <2>1. dpc' = dpc /\ event' = event
    BY <1>1 DEF IsrRead, IsrAck
  <2>2. NoScInFlight => NoScInFlight'
    BY <1>1 DEF IsrRead, IsrAck, NoScInFlight
  <2>3. CASE Fetched
    BY <1>m, <2>1, <2>2, <2>3 DEF Stage, Fetched, AllIdle, Mine
  <2>4. CASE Running
    <3>1. ASSUME NEW w \in Vectors PROVE SampleHolds(dpc[w])'
      BY <1>m, <2>1, <2>4 DEF Running, SampleHolds, Halted
    <3> QED BY <1>m, <2>1, <2>2, <2>4, <3>1 DEF Stage, Running, AllIdle, Halted, Mine
  <2> QED BY <1>n, <1>d, <2>3, <2>4 DEF Stage
<1>2. CASE Dpc(v)
  <2>1. /\ UNCHANGED <<seen, pending, isr>>
        /\ \A w \in Vectors : w # v => dpc'[w] = dpc[w]
    BY <1>2 DEF Dpc, DpcStart, DpcReadGate, DpcSettle, DpcComplete, DpcDefer
  <2>2. CASE DpcStart(v)
    <3>1. dpc'[v] = [DpcOff EXCEPT !.pc = "gates", !.sc = "sc" \in seen,
                                   !.fatal = "fatal" \in seen]
      BY <2>2 DEF DpcStart
    <3>2. /\ dpc'[v].pc = "gates" /\ dpc'[v].gate = 1 /\ ~dpc'[v].halted
          /\ dpc'[v].sc = ("sc" \in seen)
      BY <3>1 DEF DpcOff
    <3>3. event' = event
      BY <2>2 DEF DpcStart
    <3>4. NoScInFlight => NoScInFlight'
      BY <2>1, <3>2 DEF NoScInFlight
    <3>5. CASE Fetched
      BY <1>m, <2>1, <3>2, <3>3, <3>4, <3>5 DEF Stage, Fetched, AllIdle, Mine
    <3>6. CASE Running
      <4>1. SampleHolds(dpc[v])'
        BY <3>2 DEF SampleHolds
      <4>2. ASSUME NEW w \in Vectors PROVE SampleHolds(dpc[w])'
        BY <1>m, <2>1, <3>6, <4>1 DEF Running, SampleHolds, Halted
      <4> QED BY <1>m, <3>3, <3>4, <3>6, <4>2 DEF Stage, Running, AllIdle, Halted, Mine
    <3> QED BY <1>n, <1>d, <3>5, <3>6 DEF Stage
  <2>3. CASE DpcReadGate(v)
    <3> DEFINE d == dpc[v]
               e == GateOrder[d.gate]
    <3>1. /\ d.pc = "gates" /\ dpc[v] \in DpcState /\ dpc'[v].sc = d.sc
          /\ dpc'[v].idle = (d.idle /\ run[e] = "idle")
          /\ dpc'[v].halted = (d.halted \/ (e \in {"SC", "OUT"} /\ run[e] = "halt"))
          /\ dpc'[v].pc = (IF d.gate = 4 THEN "decide" ELSE "gates")
          /\ dpc'[v].gate = (IF d.gate = 4 THEN 1 ELSE d.gate + 1)
          /\ event' = event
      BY <2>3 DEF DpcReadGate, DpcState
    <3>2. dpc[v].gate \in 1 .. 4
      BY DEF DpcState
    <3>3. NoScInFlight => NoScInFlight'
      BY <2>1, <3>1 DEF NoScInFlight
    <3>4. CASE Fetched
      <4>1. run[e] # "halt"
        BY <3>2, <3>4 DEF Fetched, AllIdle, GateOrder, Engines
      <4>2. ~dpc'[v].halted
        BY <3>1, <3>4, <4>1 DEF Fetched
      <4> QED BY <1>m, <2>1, <3>1, <3>3, <3>4, <4>2 DEF Stage, Fetched, AllIdle, Mine
    <3>5. CASE Running
      <4>1. SampleHolds(d)
        BY <3>5 DEF Running
      <4>2. dpc'[v].halted => Halted'
        BY <1>m, <3>1, <4>1 DEF SampleHolds, Halted
      <4>3. ASSUME dpc'[v].sc, dpc'[v].idle, NEW g \in 1 .. 4,
                   \/ dpc'[v].pc = "gates" /\ g < dpc'[v].gate
                   \/ dpc'[v].pc = "decide"
            PROVE  run'[GateOrder[g]] = "idle"
        <5>1. g < d.gate \/ g = d.gate
          BY <3>1, <3>2, <4>3
        <5>2. run[e] = "idle" /\ d.idle /\ d.sc
          BY <3>1, <4>3
        <5> QED BY <1>m, <3>1, <4>1, <5>1, <5>2 DEF SampleHolds
      <4>4. SampleHolds(dpc[v])'
        BY <4>2, <4>3 DEF SampleHolds
      <4>5. ASSUME NEW w \in Vectors PROVE SampleHolds(dpc[w])'
        BY <1>m, <2>1, <3>5, <4>4 DEF Running, SampleHolds, Halted
      <4> QED BY <1>m, <3>1, <3>3, <3>5, <4>5 DEF Stage, Running, AllIdle, Halted, Mine
    <3> QED BY <1>n, <1>d, <3>4, <3>5 DEF Stage
  <2>4. CASE DpcSettle(v)
    <3>1. /\ dpc'[v].sc = dpc[v].sc /\ dpc'[v].pc = "gates"
          /\ ~dpc'[v].halted /\ dpc'[v].gate = dpc[v].gate /\ event' = event
      BY <2>4 DEF DpcSettle, DpcState
    <3>2. dpc[v].pc = "decide" /\ dpc[v].gate = 1
      BY <2>4 DEF DpcSettle, DpcLocals
    <3>3. NoScInFlight => NoScInFlight'
      BY <2>1, <3>1 DEF NoScInFlight
    <3>4. CASE Fetched
      BY <1>m, <2>1, <3>1, <3>3, <3>4 DEF Stage, Fetched, AllIdle, Mine
    <3>5. CASE Running
      <4>1. SampleHolds(dpc[v])'
        BY <3>1, <3>2 DEF SampleHolds
      <4>2. ASSUME NEW w \in Vectors PROVE SampleHolds(dpc[w])'
        BY <1>m, <2>1, <3>5, <4>1 DEF Running, SampleHolds, Halted
      <4> QED BY <1>m, <3>1, <3>3, <3>5, <4>2 DEF Stage, Running, AllIdle, Halted, Mine
    <3> QED BY <1>n, <1>d, <3>4, <3>5 DEF Stage
  <2>5. CASE DpcComplete(v) \/ DpcDefer(v)
    <3>1. dpc'[v] = DpcOff
      BY <2>5 DEF DpcComplete, DpcDefer
    <3>2. ~dpc'[v].sc /\ ~dpc'[v].halted
      BY <3>1 DEF DpcOff
    <3>3. NoScInFlight => NoScInFlight'
      BY <2>1, <3>2 DEF NoScInFlight
    <3>4. event' => \/ event
                    \/ dpc[v].pc = "decide" /\ ShouldComplete(dpc[v])
      BY <2>5 DEF DpcComplete, DpcDefer
    <3>5. CASE Fetched
      <4>1. event' => hibErr
        BY <3>4, <3>5 DEF Fetched, ShouldComplete, NoScInFlight, FatalIsSticky
      <4> QED BY <1>m, <2>1, <3>2, <3>3, <3>5, <4>1 DEF Stage, Fetched, AllIdle, Mine
    <3>6. CASE Running
      <4>1. event' => hibErr \/ Halted
        <5>1. SampleHolds(dpc[v]) /\ ~AllIdle
          BY <3>6 DEF Running
        <5>2. ~(dpc[v].pc = "decide" /\ dpc[v].idle /\ dpc[v].sc)
          BY <5>1, AllGates DEF SampleHolds
        <5> QED BY <3>4, <3>6, <5>1, <5>2
                DEF Running, ShouldComplete, FatalIsSticky, SampleHolds
      <4>2. SampleHolds(dpc[v])'
        BY <3>2 DEF SampleHolds
      <4>3. ASSUME NEW w \in Vectors PROVE SampleHolds(dpc[w])'
        BY <1>m, <2>1, <3>6, <4>2 DEF Running, SampleHolds, Halted
      <4> QED BY <1>m, <3>3, <3>6, <4>1, <4>3 DEF Stage, Running, AllIdle, Halted, Mine
    <3> QED BY <1>n, <1>d, <3>5, <3>6 DEF Stage
  <2> QED BY <1>2, <2>2, <2>3, <2>4, <2>5 DEF Dpc
<1> QED BY <1>1, <1>2 DEF Isr

\* The handler starts a clean call at rest and queues it at the doorbell.
LEMMA HandlerStages ==
  ASSUME NoExe1, TypeOK, DoorbellRung, Exe1Phases, CleanStages,
         Handler \/ TimeOut
  PROVE  CleanStages'
<1> USE DEF TypeOK, hostVars, chipVars, irqVars
<1> SUFFICES ASSUME clean'
             PROVE  /\ hpc' \in {"zero", "arm", "submit", "doorbell"} => AtRest'
                    /\ hpc' = "doorbell" => ring'[hwTail'] = Mine'
                    /\ hpc' \in {"snapshot", "wait", "check"} => Stage'
  BY DEF CleanStages, Stage
<1>1. CASE Begin
  BY <1>1 DEF Begin, AtRest, Quiescent, ChipQuiet
<1>2. CASE ZeroSeen
  <2>1. hpc = "zero" /\ hpc' = "arm" /\ AtRest
    BY <1>2 DEF ZeroSeen, Exe1Phases, CleanStages
  <2> QED BY <1>2, <2>1 DEF ZeroSeen, AtRest, Quiescent, ChipQuiet
<1>3. CASE Arm
  <2>1. hpc = "arm" /\ hpc' = "submit" /\ AtRest
    BY <1>3 DEF Arm, NoExe1, CleanStages
  <2>2. \A e \in Engines : run'[e] = "idle"
    BY <1>3, <2>1 DEF Arm, AtRest, ChipQuiet
  <2> QED BY <1>3, <2>1, <2>2 DEF Arm, AtRest, Quiescent, ChipQuiet
<1>4. CASE PushExe1
  BY <1>4 DEF PushExe1, Exe1Phases
<1>5. CASE Submit
  <2>1. hpc = "submit" /\ hpc' = "doorbell" /\ AtRest
    BY <1>5 DEF Submit, CleanStages
  <2>2. hwTail = tail % RingSize /\ hwTail' = hwTail
    BY <1>5, <2>1 DEF DoorbellRung, Submit
  <2>3. ring'[hwTail] = Mine /\ Mine' = Mine
    BY <1>5, <2>2 DEF Submit, Mine
  <2>4. AtRest'
    BY <1>5, <2>1 DEF Submit, AtRest, Quiescent, ChipQuiet
  <2> QED BY <2>1, <2>2, <2>3, <2>4
<1>8. CASE Doorbell
  <2>1. /\ hpc = "doorbell" /\ hpc' = "snapshot" /\ AtRest
        /\ ring[hwTail] = Mine /\ tail > 0
    BY <1>8 DEF Doorbell, CleanStages, DoorbellRung
  <2>2. /\ head = hwTail /\ hwTail = (tail - 1) % RingSize
        /\ tail - 1 \in Nat /\ (tail - 1) + 1 = tail
    BY <2>1 DEF AtRest, ChipQuiet, DoorbellRung
  <2>3. /\ hwTail' = (head + 1) % RingSize /\ hwTail' # head
        /\ head \in 0 .. RingSize - 1
    BY <1>8, <2>2, RingIndex DEF Doorbell
  <2>4. Queued'
    BY <1>8, <2>1, <2>2, <2>3
       DEF Doorbell, AtRest, Queued, Quiescent, ChipQuiet, AllIdle, Mine
  <2> QED BY <2>1, <2>4 DEF Stage
<1>6. CASE Snapshot \/ Wake
  <2>1. Stage /\ hpc' \in {"wait", "check"}
    BY <1>6 DEF Snapshot, Wake, CleanStages, Stage
  <2>2. /\ UNCHANGED <<req, ring, hwTail, event, seen>>
        /\ UNCHANGED chipVars /\ UNCHANGED irqVars
    BY <1>6 DEF Snapshot, Wake
  <2>3. Stage'
    BY <2>1, <2>2 DEF Stage, Queued, Fetched, Running, Done, Quiescent, ChipQuiet,
       AllIdle, Mine, NoScInFlight, SampleHolds, Halted
  <2> QED BY <2>1, <2>3
<1>7. CASE Check \/ TimeOut
  BY <1>7 DEF Check, TimeOut
<1> QED BY <1>1, <1>2, <1>3, <1>4, <1>5, <1>6, <1>7, <1>8 DEF Handler

LEMMA StagesStep ==
  ASSUME NoExe1, CleanInv, [Next]_vars PROVE CleanStages'
<1>1. CASE Handler \/ TimeOut
  BY <1>1, HandlerStages DEF CleanInv
<1>2. ASSUME Chip \/ (\E v \in Vectors : Isr(v) \/ Dpc(v)) PROVE CleanStages'
  <2>1. UNCHANGED <<clean, hpc>>
    BY <1>2 DEF Chip, Fetch, Start, HostInterrupt, Fatal, EngineDone, EngineHalt,
       Isr, Dpc, IsrRead, IsrAck, DpcStart, DpcReadGate, DpcSettle, DpcComplete,
       DpcDefer, hostVars
  <2>2. CASE clean /\ hpc \in {"zero", "arm", "submit", "doorbell"}
    <3>1. Quiescent /\ ChipQuiet
      BY <2>2 DEF CleanInv, CleanStages, AtRest
    <3> QED BY <1>2, <3>1, QuiescentBlocks, QuietBlocks
  <2>3. CASE clean /\ hpc \in {"snapshot", "wait", "check"}
    <3>1. Stage /\ TypeOK /\ FatalIsSticky /\ DpcLocals
      BY <2>3 DEF CleanInv, CleanStages, Stage
    <3>2. Stage'
      BY <1>2, <3>1, ChipStage, IrqStage
    <3> QED BY <2>1, <2>3, <3>2 DEF CleanStages, Stage
  <2> QED BY <2>1, <2>2, <2>3 DEF CleanStages
<1>3. CASE UNCHANGED vars
  BY <1>3 DEF vars, hostVars, chipVars, irqVars, CleanInv, CleanStages, AtRest,
     Queued, Fetched, Running, Done, Quiescent, ChipQuiet, AllIdle, Mine,
     NoScInFlight, SampleHolds, Halted
<1> QED BY <1>1, <1>2, <1>3 DEF Next

\* At the moment of judgement only a finished chip leaves no trace of failure.
LEMMA StagesSuffice == CleanInv => CleanCallIsComplete
<1> SUFFICES ASSUME CleanInv, clean, hpc \in {"wait", "check"}, event,
                    ~Failed, ~Halted
             PROVE  slot = req /\ ChipQuiet
  BY DEF CleanCallIsComplete, SuccessIsComplete
<1>1. Queued \/ Fetched \/ Running \/ Done
  BY DEF CleanInv, CleanStages
<1> QED BY <1>1 DEF Queued, Fetched, Running, Done, Failed

\* The stages of a clean call are an invariant of the driver and the chip for
\* every number of vectors and requests, ring size and settle bound, whatever
\* times out, halts, faults, overlaps or drains slowly - without EXE1_BS.
THEOREM CleanInvHolds == ASSUME NoExe1 PROVE Spec => []CleanInv
<1>1. Init => CleanInv
  BY CleanInit
<1>2. CleanInv /\ [Next]_vars => CleanInv'
  <2> SUFFICES ASSUME CleanInv, [Next]_vars PROVE CleanInv'
    OBVIOUS
  <2>1. TypeOK'
    BY TypeStep DEF CleanInv
  <2>2. FatalIsSticky' /\ DpcLocals'
    BY FatalStep, DpcLocalsStep DEF CleanInv
  <2>3. DoorbellRung' /\ Exe1Phases'
    BY DoorbellStep DEF CleanInv
  <2>4. CleanStages'
    BY StagesStep
  <2> QED BY <2>1, <2>2, <2>3, <2>4 DEF CleanInv
<1> QED BY <1>1, <1>2, PTL DEF Spec

\* A call of Queue.c that begins with chip and interrupts at rest reports
\* success only when its results are in the slots and the chip is idle.
THEOREM CleanCallCompletes == ASSUME NoExe1 PROVE Spec => []CleanCallIsComplete
<1>1. Spec => []CleanInv
  BY CleanInvHolds
<1>2. CleanInv => CleanCallIsComplete
  BY StagesSuffice
<1> QED BY <1>1, <1>2, PTL

-----------------------------------------------------------------------------

Calm == Env \subseteq {"fault", "slowDrain", "ringFull"}

LEMMA CalmStep ==
  ASSUME Calm, CleanInv, CalmInv, [Next]_vars PROVE CalmInv'
<1> USE DEF CalmInv, hostVars, chipVars, irqVars
<1>t. TypeOK
  BY DEF CleanInv
<1>1. CASE Begin
  <2>1. Quiescent
    BY <1>1 DEF Begin, Calm
  <2>2. ~hibErr => clean'
    BY <1>1, <2>1 DEF Begin
  <2> QED BY <1>1, <2>2 DEF Begin
<1>2. CASE Check
  <2>1. ASSUME ~hibErr PROVE ChipQuiet
    <3>1. hpc = "check" /\ event /\ clean /\ ~Halted
      BY <1>2, <2>1 DEF Check, Halted, Engines
    <3> QED BY <2>1, <3>1
            DEF CleanInv, CleanStages, Queued, Fetched, Running, Done
  <2> QED BY <1>2, <2>1 DEF Check, ChipQuiet
<1>3. CASE Arm
  <2>1. hpc' # "idle" /\ hpc' # "check" /\ hpc # "idle"
         /\ UNCHANGED <<clean, hibErr>>
    BY <1>3 DEF Arm
  <2>2. \A e \in Engines : run'[e] # "halt"
    BY <1>3 DEF Arm
  <2> QED BY <2>1, <2>2
<1>4. CASE ZeroSeen \/ PushExe1 \/ Submit \/ Doorbell \/ Snapshot \/ Wake
  BY <1>4 DEF ZeroSeen, PushExe1, Submit, Doorbell, Snapshot, Wake
<1>5. CASE TimeOut
  BY <1>5 DEF TimeOut, Calm
<1>6. CASE Chip
  <2>1. UNCHANGED <<hpc, clean, event>> /\ (~hibErr' => ~hibErr)
    BY <1>6 DEF Chip, Fetch, Start, HostInterrupt, Fatal, EngineDone, EngineHalt
  <2>2. \A e \in Engines : run'[e] # "halt"
    BY <1>6, <1>t DEF Chip, Fetch, Start, HostInterrupt, Fatal, EngineDone,
       EngineHalt, Calm, TypeOK
  <2> QED BY <1>6, <2>1, <2>2, QuietBlocks
<1>7. ASSUME NEW v \in Vectors, Isr(v) \/ Dpc(v) PROVE CalmInv'
  <2>1. UNCHANGED <<hpc, clean, hwTail, head, cur, run, hibErr>> /\ (event => event')
    BY <1>7 DEF Isr, Dpc, IsrRead, IsrAck, DpcStart, DpcReadGate, DpcSettle,
       DpcComplete, DpcDefer
  <2> QED BY <2>1 DEF ChipQuiet
<1>8. CASE UNCHANGED vars
  BY <1>8 DEF vars, ChipQuiet
<1> QED
  BY <1>1, <1>2, <1>3, <1>4, <1>5, <1>6, <1>7, <1>8 DEF Next, Handler

\* Without a time-out, a halt, exe1 or overlapping interrupts every call begins
\* at rest until a fatal error: the invariant of the calm environment.
THEOREM CalmInvHolds == ASSUME Calm PROVE Spec => [](CleanInv /\ CalmInv)
<1>1. NoExe1
  BY DEF Calm, NoExe1
<1>2. Spec => []CleanInv
  BY <1>1, CleanInvHolds
<1>3. Init => CalmInv
  BY DEF Init, CalmInv, ChipQuiet
<1>4. CleanInv /\ CalmInv /\ [Next]_vars => CalmInv'
  BY CalmStep
<1> QED BY <1>2, <1>3, <1>4, PTL DEF Spec

\* There every success is complete: KeSetEvent of Device.c's DPC means what its
\* comment says, for any number of vectors, calls and settle polls.
THEOREM CalmSuccessIsComplete == ASSUME Calm PROVE Spec => []SuccessIsComplete
<1>1. Spec => [](CleanInv /\ CalmInv)
  BY CalmInvHolds
<1>2. CleanInv /\ CalmInv => SuccessIsComplete
  BY StagesSuffice DEF CalmInv, SuccessIsComplete, CleanCallIsComplete, Failed
<1> QED BY <1>1, <1>2, PTL

\* And the chip never works on a call the handler has already answered.
THEOREM CalmOneCallInFlight == ASSUME Calm PROVE Spec => []OneCallInFlight
<1>1. Spec => [](CleanInv /\ CalmInv)
  BY CalmInvHolds
<1>2. CleanInv /\ CalmInv => OneCallInFlight
  <2> SUFFICES ASSUME CleanInv, CalmInv, ~hibErr
               PROVE  /\ cur # NoDesc => cur.req = req
                      /\ head # hwTail => ring[head].req = req
    BY DEF OneCallInFlight
  <2>1. CASE hpc = "idle"
    BY <2>1 DEF CalmInv, ChipQuiet
  <2>2. CASE hpc # "idle"
    <3>1. clean /\ Mine.req = req
      BY <2>2, MineIsWork DEF CalmInv
    <3>2. AtRest \/ Queued \/ Fetched \/ Running \/ Done
      BY <2>2, <3>1 DEF CleanInv, CleanStages, Exe1Phases, TypeOK
    <3> QED BY <3>1, <3>2 DEF AtRest, Queued, Fetched, Running, Done, ChipQuiet
  <2> QED BY <2>1, <2>2
<1> QED BY <1>1, <1>2, PTL

-----------------------------------------------------------------------------

\* Every count is a number of full turns of the ring and an index.
LEMMA RingTurns ==
  ASSUME NEW n \in Nat
  PROVE  /\ n % RingSize \in 0 .. RingSize - 1
         /\ \E q \in Nat : n = RingSize * q + (n % RingSize)
<1>1. (n \div RingSize) \in Nat /\ n = RingSize * (n \div RingSize) + (n % RingSize)
  BY RingAssumption
<1> QED BY <1>1, RingIndex

\* The ring index of a later descriptor, counted from the index of an earlier.
LEMMA RingAdd ==
  ASSUME NEW n \in Nat, NEW k \in Nat
  PROVE  ((n % RingSize) + k) % RingSize = (n + k) % RingSize
<1> DEFINE r == n % RingSize
           s == (r + k) % RingSize
<1>1. PICK q \in Nat : n = RingSize * q + r
  BY RingTurns
<1>2. r \in 0 .. RingSize - 1
  BY RingTurns
<1> HIDE DEF r
<1>3. r + k \in Nat
  BY <1>2
<1>4. PICK u \in Nat : r + k = RingSize * u + s
  BY <1>3, RingTurns
<1>5. s \in 0 .. RingSize - 1
  BY <1>3, RingTurns
<1> HIDE DEF s
<1>6. RingSize * (q + u) = RingSize * q + RingSize * u
  BY RingAssumption
<1>7. RingSize * q \in Nat /\ RingSize * u \in Nat
  BY RingAssumption
<1>8. n + k = RingSize * (q + u) + s /\ q + u \in Nat /\ n + k \in Nat
  BY <1>1, <1>2, <1>4, <1>5, <1>6, <1>7
<1>9. (n + k) % RingSize = s
  BY <1>5, <1>8, RemainderUnique
<1> QED BY <1>9 DEF r, s

\* Fewer than RingSize descriptors apart, two descriptors have different places.
LEMMA RingApart ==
  ASSUME NEW i \in Nat, NEW d \in Nat, d > 0, d < RingSize
  PROVE  (i + d) % RingSize # i % RingSize
<1> DEFINE r == i % RingSize
<1>1. r \in 0 .. RingSize - 1 /\ (r + d) % RingSize = (i + d) % RingSize
  BY RingAdd, RingTurns
<1> HIDE DEF r
<1>2. CASE r + d < RingSize
  <2>1. r + d = RingSize * 0 + (r + d) /\ r + d \in 0 .. RingSize - 1
    BY <1>1, <1>2, RingAssumption
  <2>2. (r + d) % RingSize = r + d
    BY <2>1, RemainderUnique
  <2> QED BY <1>1, <2>2 DEF r
<1>3. CASE r + d >= RingSize
  <2>1. /\ r + d = RingSize * 1 + (r + d - RingSize) /\ r + d \in Nat
        /\ r + d - RingSize \in 0 .. RingSize - 1
    BY <1>1, <1>3, RingAssumption
  <2>2. (r + d) % RingSize = r + d - RingSize
    BY <2>1, RemainderUnique
  <2> QED BY <1>1, <2>2, RingAssumption DEF r
<1> QED BY <1>1, <1>2, <1>3, RingAssumption

\* What the chip computes from its head and the doorbell is the number of
\* descriptors waiting, as long as they are fewer than RingSize.
LEMMA RingWaiting ==
  ASSUME NEW n \in Nat, NEW d \in Nat, d < RingSize
  PROVE  (((n + d) % RingSize) + RingSize - (n % RingSize)) % RingSize = d
<1> DEFINE r == n % RingSize
           s == (n + d) % RingSize
<1>1. r \in 0 .. RingSize - 1 /\ (r + d) % RingSize = s
  BY RingAdd, RingTurns
<1> HIDE DEF r
<1>2. CASE r + d < RingSize
  <2>1. r + d = RingSize * 0 + (r + d) /\ r + d \in 0 .. RingSize - 1
    BY <1>1, <1>2, RingAssumption
  <2>2. s = r + d
    BY <1>1, <2>1, RemainderUnique
  <2>3. s + RingSize - r = RingSize * 1 + d /\ d \in 0 .. RingSize - 1
        /\ s + RingSize - r \in Nat
    BY <1>1, <2>2, RingAssumption
  <2>4. (s + RingSize - r) % RingSize = d
    BY <2>3, RemainderUnique
  <2> QED BY <2>4 DEF r
<1>3. CASE r + d >= RingSize
  <2>1. /\ r + d = RingSize * 1 + (r + d - RingSize) /\ r + d \in Nat
        /\ r + d - RingSize \in 0 .. RingSize - 1
    BY <1>1, <1>3, RingAssumption
  <2>2. s = r + d - RingSize
    BY <1>1, <2>1, RemainderUnique
  <2>3. s + RingSize - r = RingSize * 0 + d /\ d \in 0 .. RingSize - 1
        /\ s + RingSize - r \in Nat
    BY <1>1, <2>2, RingAssumption
  <2>4. (s + RingSize - r) % RingSize = d
    BY <2>3, RemainderUnique
  <2> QED BY <2>4 DEF r
<1> QED BY <1>1, <1>2, <1>3, RingAssumption

\* Which descriptor each push writes: the calls alternate exe1, exe0 when
\* EXE1_BS is there, and push exe0 alone otherwise.
LEMMA PushedNext ==
  ASSUME NEW r \in Nat, r > 0
  PROVE  /\ Pushed(r) \in Nat /\ Pushed(r - 1) \in Nat
         /\ "exe1" \in Env => /\ Pushed(r) = Pushed(r - 1) + 2
                              /\ Submitted(Pushed(r - 1)) = [exe |-> "exe1", req |-> r]
                              /\ Submitted(Pushed(r - 1) + 1) = [exe |-> "exe0", req |-> r]
         /\ "exe1" \notin Env => /\ Pushed(r) = Pushed(r - 1) + 1
                                 /\ Submitted(Pushed(r - 1)) = [exe |-> "exe0", req |-> r]
<1>1. r - 1 \in Nat
  OBVIOUS
<1>2. CASE "exe1" \in Env
  <2>1. (2 * (r - 1)) % 2 = 0 /\ (2 * (r - 1)) \div 2 = r - 1
    BY <1>1
  <2>2. (2 * (r - 1) + 1) % 2 = 1 /\ (2 * (r - 1) + 1) \div 2 = r - 1
    BY <1>1
  <2> QED BY <1>1, <1>2, <2>1, <2>2 DEF Pushed, Submitted
<1>3. CASE "exe1" \notin Env
  BY <1>1, <1>3 DEF Pushed, Submitted
<1> QED BY <1>2, <1>3

\* An exe0 descriptor is the last of its call, and later calls push later.
LEMMA SubmittedExe0 ==
  ASSUME NEW n \in Nat, Submitted(n).exe = "exe0"
  PROVE  Pushed(Submitted(n).req) = n + 1 /\ Submitted(n).req \in Nat
<1>1. CASE "exe1" \in Env
  <2>1. n % 2 # 0
    BY <1>1 DEF Submitted
  <2>2. n = 2 * (n \div 2) + 1 /\ n \div 2 \in Nat
    BY <2>1
  <2> QED BY <1>1, <2>1, <2>2 DEF Submitted, Pushed
<1>2. CASE "exe1" \notin Env
  BY <1>2 DEF Submitted, Pushed
<1> QED BY <1>1, <1>2

LEMMA PushedMonotonic ==
  ASSUME NEW a \in Nat, NEW b \in Nat
  PROVE  (Pushed(a) < Pushed(b) <=> a < b) /\ Pushed(a) \in Nat
BY DEF Pushed

-----------------------------------------------------------------------------

LEMMA PushedStep ==
  ASSUME NEW r \in Nat, r > 0
  PROVE  /\ Pushed(r) \in Nat /\ Pushed(r - 1) \in Nat
         /\ Pushed(r) = Pushed(r - 1) + (IF "exe1" \in Env THEN 2 ELSE 1)
BY DEF Pushed

\* How many descriptors are written and not announced, by place of the handler.
LEMMA UnannouncedIs ==
  /\ Unannounced \in {0, 1, 2}
  /\ hpc = "doorbell" => Unannounced = IF "exe1" \in Env THEN 2 ELSE 1
  /\ hpc \in {"zero1", "submit"} => Unannounced = IF "exe1" \in Env THEN 1 ELSE 0
  /\ hpc \notin {"zero1", "submit", "doorbell"} => Unannounced = 0
BY DEF Unannounced

LEMMA RingInit == Init => RingInv
<1> SUFFICES ASSUME Init PROVE RingInv
  OBVIOUS
<1>1. TypeOK
  BY TypeInit
<1>2. 0 \in 0 .. RingSize - 1 /\ 0 \in Nat /\ 0 = RingSize * 0 + 0
  BY RingAssumption
<1>3. 0 % RingSize = 0
  BY <1>2, RemainderUnique
<1>4. TailCounts /\ Rung = 0
  <2>1. hpc = "idle" /\ req = 0 /\ tail = 0
    BY DEF Init
  <2>2. Unannounced = 0
    BY <2>1, UnannouncedIs
  <2> QED BY <2>1, <2>2 DEF TailCounts, BeforeDoorbell, Pushed, Rung
<1>5. FetchedUpTo(0)
  BY <1>3, <1>4, RingAssumption DEF Init, FetchedUpTo, BeforeDoorbell, Pushed, NoDesc
<1> QED BY <1>1, <1>3, <1>4, <1>5 DEF RingInv, Init

\* DescRingTail follows the handler: only PushExe1 and Submit push, and only
\* Doorbell announces.
LEMMA TailStep ==
  ASSUME TypeOK, TailCounts, [Next]_vars
  PROVE  /\ TailCounts'
         /\ ~Doorbell => Rung' = Rung /\ hwTail' = hwTail
         /\ ~PushExe1 /\ ~Submit => UNCHANGED <<ring, tail>>
         /\ hpc' \in BeforeDoorbell => Begin \/ hpc \in BeforeDoorbell
<1> USE DEF TypeOK, TailCounts, BeforeDoorbell, Rung, hostVars, chipVars, irqVars
<1>1. CASE Begin
  <2>1. req' = req + 1 /\ req + 1 - 1 = req
    BY <1>1 DEF Begin
  <2>2. Unannounced = 0 /\ Unannounced' = 0 /\ Pushed(req) \in Nat
    BY <1>1, UnannouncedIs DEF Begin, Unannounced, Pushed
  <2> QED BY <1>1, <2>1, <2>2 DEF Begin
<1>2. CASE ZeroSeen \/ Arm \/ Snapshot \/ Wake \/ Check \/ TimeOut
  <2>1. Unannounced' = Unannounced
    BY <1>2 DEF ZeroSeen, Arm, Snapshot, Wake, Check, TimeOut, Unannounced
  <2> QED BY <1>2, <2>1 DEF ZeroSeen, Arm, Snapshot, Wake, Check, TimeOut
<1>3. CASE PushExe1 \/ Submit
  <2>1. Unannounced \in {0, 1} /\ Unannounced' = Unannounced + 1
    BY <1>3 DEF PushExe1, Submit, Unannounced
  <2>2. req > 0 /\ req \in Nat
    BY <1>3 DEF PushExe1, Submit
  <2>3. Pushed(req - 1) \in Nat
    BY <2>2, PushedStep
  <2>4. /\ tail = Pushed(req - 1) + Unannounced /\ tail' = tail + 1 /\ req' = req
        /\ hpc \in BeforeDoorbell /\ hpc' \in BeforeDoorbell /\ hwTail' = hwTail
    BY <1>3 DEF PushExe1, Submit
  <2>5. tail' = Pushed(req - 1) + Unannounced' /\ tail' - Unannounced' = tail - Unannounced
    BY <2>1, <2>3, <2>4
  <2> QED BY <1>3, <2>2, <2>4, <2>5 DEF PushExe1, Submit
<1>4. CASE Doorbell
  <2>1. req \in Nat /\ req > 0 /\ hpc' = "snapshot" /\ req' = req /\ tail' = tail
    BY <1>4 DEF Doorbell
  <2>2. /\ tail = Pushed(req - 1) + Unannounced
        /\ Unannounced = IF "exe1" \in Env THEN 2 ELSE 1
    BY <1>4, UnannouncedIs DEF Doorbell
  <2>3. tail = Pushed(req)
    BY <2>1, <2>2, PushedStep
  <2> QED BY <1>4, <2>1, <2>3 DEF Doorbell
<1>5. ASSUME Chip \/ (\E v \in Vectors : Isr(v) \/ Dpc(v)) \/ UNCHANGED vars
      PROVE  UNCHANGED hostVars
  BY <1>5 DEF Chip, Fetch, Start, HostInterrupt, Fatal, EngineDone, EngineHalt,
     Isr, Dpc, IsrRead, IsrAck, DpcStart, DpcReadGate, DpcSettle, DpcComplete,
     DpcDefer, vars
<1>6. CASE UNCHANGED hostVars
  BY <1>6 DEF Unannounced
<1> QED BY <1>1, <1>2, <1>3, <1>4, <1>5, <1>6 DEF Next, Handler

\* What the handler pushes is the next descriptor in the order of submission.
LEMMA PushIsNext ==
  ASSUME TypeOK, TailCounts, PushExe1 \/ Submit
  PROVE  /\ Unannounced = IF Submit /\ "exe1" \in Env THEN 1 ELSE 0
         /\ ring' = [ring EXCEPT ![tail % RingSize] = Submitted(tail)]
         /\ tail' = tail + 1 /\ hpc \in BeforeDoorbell
<1>1. /\ req \in Nat /\ req > 0 /\ hpc \in {"exe1", "submit"}
      /\ hpc = "exe1" => "exe1" \in Env
      /\ Submit <=> hpc = "submit"
  BY DEF PushExe1, Submit, TailCounts, TypeOK
<1>2. Unannounced = IF Submit /\ "exe1" \in Env THEN 1 ELSE 0
  BY <1>1, UnannouncedIs
<1>3. tail = Pushed(req - 1) + Unannounced /\ Pushed(req - 1) \in Nat
  BY <1>1, PushedNext DEF TailCounts, BeforeDoorbell
<1>4. Submitted(tail) = [exe |-> IF Submit THEN "exe0" ELSE "exe1", req |-> req]
  <2>1. CASE Submit /\ "exe1" \in Env
    BY <1>1, <1>2, <1>3, <2>1, PushedNext
  <2>2. CASE ~(Submit /\ "exe1" \in Env)
    <3>1. tail = Pushed(req - 1)
      BY <1>2, <1>3, <2>2
    <3> QED BY <1>1, <2>2, <3>1, PushedNext
  <2> QED BY <2>1, <2>2
<1> QED BY <1>1, <1>2, <1>4 DEF PushExe1, Submit, BeforeDoorbell

\* A push goes to a place of the ring the chip is not waiting for.
LEMMA PushKeepsRing ==
  ASSUME TypeOK, TailCounts, Rung \in Nat, Rung' = Rung,
         NEW n \in 0 .. Rung, FetchedUpTo(n), PushExe1 \/ Submit
  PROVE  FetchedUpTo(n)'
<1> USE DEF hostVars, chipVars, irqVars
<1>1. /\ ring' = [ring EXCEPT ![tail % RingSize] = Submitted(tail)]
      /\ tail' = tail + 1 /\ tail \in Nat /\ hpc \in BeforeDoorbell
  BY PushIsNext DEF TypeOK
<1>2. tail < n + RingSize
  <2>1. tail = Rung + Unannounced
    BY <1>1, UnannouncedIs DEF Rung
  <2>2. CASE "exe1" \in Env
    <3>1. Unannounced \in {0, 1}
      BY PushIsNext
    <3>2. Rung + 1 < n + RingSize
      BY <1>1, <2>2 DEF FetchedUpTo
    <3> QED BY <2>1, <3>1, <3>2, RingAssumption
  <2>3. CASE "exe1" \notin Env
    <3>1. Unannounced = 0
      BY <2>3, PushIsNext
    <3> QED BY <2>1, <3>1, RingAssumption DEF FetchedUpTo
  <2> QED BY <2>2, <2>3
<1>5. tail % RingSize \in 0 .. RingSize - 1
  BY <1>1, RingTurns
<1>7. ASSUME NEW i \in n .. tail
      PROVE  ring'[i % RingSize] = Submitted(i)
  <2>1. CASE i = tail
    BY <1>1, <1>5, <2>1 DEF TypeOK
  <2>2. CASE i # tail
    <3>1. i \in Nat /\ tail - i \in Nat /\ tail - i > 0 /\ tail - i < RingSize
      BY <1>1, <1>2, <2>2, RingAssumption
    <3>2. i + (tail - i) = tail
      BY <1>1, <3>1
    <3>3. i % RingSize # tail % RingSize
      BY <3>1, <3>2, RingApart
    <3>4. ring'[i % RingSize] = ring[i % RingSize]
      BY <1>1, <1>5, <3>1, <3>3, RingTurns DEF TypeOK
    <3>5. i \in n .. tail - 1
      BY <1>1, <2>2
    <3> QED BY <3>4, <3>5 DEF FetchedUpTo
  <2> QED BY <2>1, <2>2
<1>8. UNCHANGED <<head, slot, cur, run>> /\ tail' - 1 = tail
  BY <1>1 DEF PushExe1, Submit
<1>9. "exe1" \in Env => Rung + 1 < n + RingSize
  BY <1>1 DEF FetchedUpTo
<1> QED BY <1>7, <1>8, <1>9 DEF FetchedUpTo, OutPending, AllIdle

\* The doorbell announces the call's descriptors.  When RingSize would be
\* waiting, the chip reads a whole turn of the ring fewer.
LEMMA DoorbellKeepsRing ==
  ASSUME TypeOK, TailCounts, Rung \in Nat,
         NEW n \in 0 .. Rung, FetchedUpTo(n), Doorbell
  PROVE  /\ \E m \in 0 .. Rung' : FetchedUpTo(m)'
         /\ hwTail' = Rung' % RingSize
<1> USE DEF hostVars, chipVars, irqVars
<1>1. /\ hpc = "doorbell" /\ hpc' = "snapshot" /\ tail \in Nat
      /\ UNCHANGED <<tail, ring, head, slot, cur, run>> /\ hwTail' = tail % RingSize
  BY DEF Doorbell, TypeOK
<1>2. Rung' = tail
  <2>1. Unannounced' = 0
    BY <1>1 DEF Unannounced
  <2> QED BY <1>1, <2>1 DEF Rung
<1>3. Rung < tail /\ tail <= n + RingSize
  <2>1. tail = Rung + Unannounced
    BY <1>1, UnannouncedIs DEF Rung
  <2>2. CASE "exe1" \in Env
    <3>1. Rung + 1 < n + RingSize
      BY <1>1, <2>2 DEF FetchedUpTo, BeforeDoorbell
    <3> QED BY <1>1, <2>1, <2>2, <3>1, UnannouncedIs, RingAssumption
  <2>3. CASE "exe1" \notin Env
    BY <1>1, <2>1, <2>3, UnannouncedIs, RingAssumption DEF FetchedUpTo
  <2> QED BY <2>2, <2>3
<1>m. PICK m \in Nat : m = IF tail < n + RingSize THEN n ELSE n + RingSize
  BY RingAssumption
<1>7. m <= tail /\ tail < m + RingSize /\ n <= m
  BY <1>m, <1>1, <1>3, RingAssumption
<1>8. \A i \in m .. tail - 1 : ring[i % RingSize] = Submitted(i)
  BY <1>1, <1>7 DEF FetchedUpTo
<1>9. head = m % RingSize
  <2>1. CASE m = n
    BY <2>1 DEF FetchedUpTo
  <2>2. CASE m = n + RingSize
    <3>1. PICK q \in Nat : n = RingSize * q + (n % RingSize)
      BY RingTurns
    <3>2. n % RingSize \in 0 .. RingSize - 1
      BY RingTurns
    <3>3. RingSize * (q + 1) = RingSize * q + RingSize /\ RingSize * q \in Nat
      BY RingAssumption
    <3>4. m = RingSize * (q + 1) + (n % RingSize) /\ q + 1 \in Nat
      BY <2>2, <3>1, <3>2, <3>3, RingAssumption
    <3>5. m % RingSize = n % RingSize
      BY <1>7, <3>2, <3>4, RemainderUnique
    <3> QED BY <3>5 DEF FetchedUpTo
  <2> QED BY <1>m, <2>1, <2>2
<1>11. Pushed(slot) <= m /\ (cur.exe = "exe0" => Pushed(cur.req) <= m)
  <2>1. slot \in Nat /\ cur.req \in Nat
    BY DEF TypeOK, Descriptor
  <2>2. Pushed(slot) \in Nat /\ Pushed(cur.req) \in Nat
    BY <2>1 DEF Pushed
  <2> QED BY <1>7, <2>2 DEF FetchedUpTo
<1>12. FetchedUpTo(m)'
  BY <1>1, <1>2, <1>7, <1>8, <1>9, <1>11
     DEF FetchedUpTo, OutPending, AllIdle, BeforeDoorbell
<1> QED BY <1>1, <1>2, <1>7, <1>12

\* What the chip sees between its head and the doorbell is what is announced.
LEMMA WaitingIs ==
  ASSUME Rung \in Nat, hwTail = Rung % RingSize, NEW n \in 0 .. Rung, FetchedUpTo(n)
  PROVE  Waiting = Rung - n /\ Rung - n \in Nat /\ Rung - n < RingSize
<1>1. PICK d \in Nat : Rung = n + d /\ d < RingSize /\ d = Rung - n
  <2>1. Rung - n \in Nat /\ Rung = n + (Rung - n) /\ Rung - n < RingSize
    BY RingAssumption DEF FetchedUpTo
  <2> QED BY <2>1
<1>2. Waiting = d
  BY <1>1, RingWaiting DEF FetchedUpTo, Waiting
<1> QED BY <1>1, <1>2

\* A call that starts while the ring has a place finds one for each of its
\* descriptors.
LEMMA BeginKeepsRing ==
  ASSUME RoomForExe1, TypeOK, Rung \in Nat, Rung' = Rung, tail' = tail,
         hwTail = Rung % RingSize, NEW n \in 0 .. Rung, FetchedUpTo(n), Begin
  PROVE  FetchedUpTo(n)'
<1>1. UNCHANGED <<ring, head, slot, cur, run>>
  BY DEF Begin, chipVars
<1>2. "exe1" \in Env => Rung + 1 < n + RingSize
  <2>1. "exe1" \in Env => Waiting < RingSize - 1
    BY DEF Begin, RingHasRoom, RoomForExe1
  <2> QED BY <2>1, WaitingIs, RingAssumption
<1> QED BY <1>1, <1>2 DEF FetchedUpTo, OutPending, AllIdle

\* The chip fetches the next announced descriptor.
LEMMA FetchKeepsRing ==
  ASSUME TypeOK, hwTail = Rung % RingSize, Rung' = Rung, Rung \in Nat,
         NEW n \in 0 .. Rung, FetchedUpTo(n), Fetch
  PROVE  \E m \in 0 .. Rung : FetchedUpTo(m)'
<1> USE DEF hostVars, chipVars, irqVars
<1>1. n < Rung /\ n \in Nat
  BY DEF Fetch, FetchedUpTo
<1>t. tail \in Nat /\ Rung <= tail
  BY UnannouncedIs DEF TypeOK, Rung
<1>2. cur' = Submitted(n)
  BY <1>1, <1>t DEF Fetch, FetchedUpTo
<1>3. PICK m \in Nat : m = n + 1
  BY <1>1
<1>4. head' = m % RingSize
  BY <1>1, <1>3, RingIndex DEF Fetch, FetchedUpTo
<1>5. UNCHANGED <<ring, slot, tail, hpc>>
  BY DEF Fetch
<1>6. Pushed(slot) \in Nat /\ slot \in Nat /\ Pushed(slot) <= m
  BY <1>1, <1>3, PushedMonotonic DEF TypeOK, FetchedUpTo
<1>7. ASSUME cur'.exe = "exe0" PROVE Pushed(cur'.req) <= m /\ slot < cur'.req
  <2>1. Pushed(cur'.req) = m /\ cur'.req \in Nat
    BY <1>1, <1>2, <1>3, <1>7, SubmittedExe0
  <2>2. Pushed(slot) < Pushed(cur'.req)
    BY <1>1, <1>3, <1>6, <2>1 DEF FetchedUpTo
  <2> QED BY <1>3, <1>6, <2>1, <2>2, PushedMonotonic
<1>8. FetchedUpTo(m)'
  <2>1. \A i \in m .. tail - 1 : ring[i % RingSize] = Submitted(i)
    BY <1>1, <1>3, <1>t DEF FetchedUpTo
  <2>2. /\ m <= Rung /\ Rung < m + RingSize
        /\ "exe1" \in Env /\ hpc \in BeforeDoorbell => Rung + 1 < m + RingSize
    BY <1>1, <1>3, RingAssumption DEF FetchedUpTo
  <2> QED BY <1>3, <1>4, <1>5, <1>6, <1>7, <2>1, <2>2 DEF FetchedUpTo
<1> QED BY <1>1, <1>3, <1>8

\* An engine finishes: results are drained once per descriptor.
LEMMA DoneKeepsRing ==
  ASSUME TypeOK, Rung' = Rung, NEW n \in Nat, FetchedUpTo(n),
         NEW e \in Engines, EngineDone(e)
  PROVE  FetchedUpTo(n)' /\ (slot' # slot => slot' > slot)
<1> USE DEF hostVars, chipVars, irqVars
<1>1. UNCHANGED <<ring, head, tail, hpc>> /\ run' = [run EXCEPT ![e] = "idle"]
      /\ run[e] = "run"
  BY DEF EngineDone
<1>2. run'[e] = "idle" /\ \A d \in Engines \ {e} : run'[d] = run[d]
  BY <1>1 DEF TypeOK
<1>3. ASSUME cur'.exe = "exe0", OutPending' PROVE e # "OUT" /\ OutPending /\ cur' = cur
  <2>1. cur' = cur /\ ~(\A d \in Engines \ {e} : run[d] = "idle")
    BY <1>3 DEF EngineDone, NoDesc
  <2>2. ~AllIdle'
    BY <1>2, <2>1 DEF AllIdle
  <2>3. run'["OUT"] # "idle"
    BY <1>3, <2>2 DEF OutPending
  <2> QED BY <1>2, <2>1, <2>3 DEF OutPending, Engines
<1>4. CASE e = "OUT" /\ cur.exe = "exe0"
  <2>1. slot' = cur.req /\ slot < cur.req /\ Pushed(cur.req) <= n
    BY <1>1, <1>4 DEF EngineDone, FetchedUpTo, OutPending
  <2>2. cur'.exe = "exe0" => cur' = cur
    BY DEF EngineDone, NoDesc
  <2> QED BY <1>1, <1>3, <1>4, <2>1, <2>2 DEF FetchedUpTo
<1>5. CASE ~(e = "OUT" /\ cur.exe = "exe0")
  <2>1. slot' = slot
    BY <1>5 DEF EngineDone
  <2>2. cur'.exe = "exe0" => cur' = cur
    BY DEF EngineDone, NoDesc
  <2> QED BY <1>1, <1>3, <2>1, <2>2 DEF FetchedUpTo
<1> QED BY <1>4, <1>5

\* Every other step leaves the ring, the chip's place in it and the slot.
LEMMA RestKeepsRing ==
  ASSUME TypeOK, [Next]_vars, ~PushExe1, ~Submit, ~Fetch,
         ~(\E e \in Engines : EngineDone(e))
  PROVE  UNCHANGED <<head, cur, slot>> /\ (OutPending' => OutPending)
<1> USE DEF TypeOK, hostVars, chipVars, irqVars
<1>1. CASE Arm
  <2>1. UNCHANGED <<head, cur, slot>>
    BY <1>1 DEF Arm
  <2>2. \A e \in Engines : run'[e] = "idle" <=> run[e] = "idle"
    BY <1>1 DEF Arm
  <2> QED BY <2>1, <2>2 DEF OutPending, AllIdle, Engines
<1>2. CASE Start
  BY <1>2 DEF Start, OutPending, AllIdle
<1>3. ASSUME NEW e \in {"SC", "OUT"}, EngineHalt(e)
      PROVE  UNCHANGED <<head, cur, slot>> /\ (OutPending' => OutPending)
  <2>1. UNCHANGED <<head, cur, slot>> /\ e \in Engines
    BY <1>3 DEF EngineHalt, Engines
  <2>2. \A d \in Engines : run'[d] = "idle" <=> run[d] = "idle"
    BY <1>3 DEF EngineHalt
  <2> QED BY <2>1, <2>2 DEF OutPending, AllIdle, Engines
<1>4. ASSUME \/ Begin \/ ZeroSeen \/ Doorbell \/ Snapshot \/ Wake \/ Check \/ TimeOut
             \/ HostInterrupt \/ Fatal \/ UNCHANGED vars
             \/ \E v \in Vectors : Isr(v) \/ Dpc(v)
      PROVE  UNCHANGED <<head, cur, slot, run>>
  BY <1>4 DEF Begin, ZeroSeen, Doorbell, Snapshot, Wake, Check, TimeOut, HostInterrupt,
     Fatal, vars, Isr, Dpc, IsrRead, IsrAck, DpcStart, DpcReadGate, DpcSettle,
     DpcComplete, DpcDefer
<1>5. CASE UNCHANGED <<head, cur, slot, run>>
  BY <1>5 DEF OutPending, AllIdle
<1> QED BY <1>1, <1>2, <1>3, <1>4, <1>5 DEF Next, Handler, Chip

LEMMA RungIsNat == RingInv => Rung \in Nat
<1> SUFFICES ASSUME RingInv PROVE Rung \in Nat
  OBVIOUS
<1>1. PICK n \in 0 .. Rung : FetchedUpTo(n)
  BY DEF RingInv
<1>2. Rung = tail - Unannounced /\ tail \in Nat /\ Unannounced \in {0, 1, 2}
  BY UnannouncedIs DEF RingInv, TypeOK, Rung
<1> QED BY <1>1, <1>2 DEF FetchedUpTo

LEMMA RingStep == ASSUME RoomForExe1 PROVE RingInv /\ [Next]_vars => RingInv'
<1> SUFFICES ASSUME RingInv, [Next]_vars PROVE RingInv'
  OBVIOUS
<1>1. TypeOK /\ TypeOK' /\ TailCounts /\ TailCounts' /\ Rung \in Nat
      /\ hwTail = Rung % RingSize
  BY TypeStep, TailStep, RungIsNat DEF RingInv
<1>2. PICK n \in 0 .. Rung : FetchedUpTo(n)
  BY DEF RingInv
<1>3. CASE Doorbell
  BY <1>1, <1>2, <1>3, DoorbellKeepsRing DEF RingInv
<1>4. ASSUME ~Doorbell PROVE RingInv'
  <2>1. Rung' = Rung /\ hwTail' = hwTail
    BY <1>1, <1>4, TailStep
  <2>2. \E m \in 0 .. Rung : FetchedUpTo(m)'
    <3>1. CASE PushExe1 \/ Submit
      BY <1>1, <1>2, <2>1, <3>1, PushKeepsRing
    <3>2. ASSUME ~PushExe1, ~Submit PROVE UNCHANGED <<ring, tail>>
      BY <1>1, <3>2, TailStep
    <3>3. CASE Begin
      <4>1. ~PushExe1 /\ ~Submit
        BY <3>3 DEF Begin, PushExe1, Submit
      <4> QED BY <1>1, <1>2, <2>1, <3>2, <3>3, <4>1, BeginKeepsRing
    <3>4. CASE Fetch
      BY <1>1, <1>2, <2>1, <3>4, FetchKeepsRing
    <3>5. CASE \E e \in Engines : EngineDone(e)
      BY <1>1, <1>2, <2>1, <3>5, DoneKeepsRing
    <3>6. ASSUME ~PushExe1, ~Submit, ~Begin, ~Fetch,
                 ~(\E e \in Engines : EngineDone(e))
          PROVE  FetchedUpTo(n)'
      <4>1. UNCHANGED <<head, cur, slot>> /\ (OutPending' => OutPending)
        BY <1>1, <3>6, RestKeepsRing
      <4>2. hpc' \in BeforeDoorbell => hpc \in BeforeDoorbell
        BY <1>1, <3>6, TailStep
      <4> QED BY <1>2, <2>1, <3>2, <3>6, <4>1, <4>2 DEF FetchedUpTo
    <3> QED BY <1>2, <3>1, <3>3, <3>4, <3>5, <3>6
  <2> QED BY <1>1, <2>1, <2>2 DEF RingInv
<1> QED BY <1>3, <1>4

\* The ring of Queue.c holds what it announced, in order, whatever times out,
\* halts, faults, overlaps or overflows - as long as no call with EXE1_BS
\* starts on a ring without a free place.
THEOREM RingInvHolds == ASSUME RoomForExe1 PROVE Spec => []RingInv
<1>1. Init => RingInv
  BY RingInit
<1>2. RingInv /\ [Next]_vars => RingInv'
  BY RingStep
<1> QED BY <1>1, <1>2, PTL DEF Spec

\* What DescRingTail and the doorbell announce is what the chip finds, also
\* between the write of Queue.c's next descriptor and its doorbell.
THEOREM PendingStaysInOrder == ASSUME RoomForExe1 PROVE Spec => []RingHoldsPending
<1>1. RingInv => RingHoldsPending
  <2> SUFFICES ASSUME RingInv PROVE RingHoldsPending
    OBVIOUS
  <2>1. PICK n \in 0 .. Rung : FetchedUpTo(n)
    BY DEF RingInv
  <2>2. Rung \in Nat /\ Rung <= tail /\ tail \in Nat
    BY RungIsNat, UnannouncedIs DEF Rung, RingInv, TypeOK
  <2>3. Waiting = Rung - n /\ Rung - n \in Nat
    BY <2>1, <2>2, WaitingIs DEF RingInv
  <2>6. ASSUME NEW k \in 0 .. Waiting - 1
        PROVE  ring[(head + k) % RingSize] = Submitted(Rung - Waiting + k)
    <3>1. (head + k) % RingSize = (n + k) % RingSize
      BY <2>1, <2>2, <2>3, RingAdd DEF FetchedUpTo
    <3>2. n + k \in n .. tail - 1 /\ Rung - Waiting + k = n + k
      BY <2>2, <2>3
    <3> QED BY <2>1, <3>1, <3>2 DEF FetchedUpTo
  <2> QED BY <2>6 DEF RingHoldsPending
<1> QED BY <1>1, RingInvHolds, PTL

\* OUTFEED drains each call's results at most once and in the order of the
\* calls: nothing a call that timed out left behind overwrites a later result,
\* under the same condition on a full ring.
THEOREM ResultsNeverGoBack == ASSUME RoomForExe1 PROVE Spec => ResultsInOrder
<1>1. RingInv /\ [Next]_vars => [slot' > slot]_slot
  <2> SUFFICES ASSUME RingInv, [Next]_vars, slot' # slot PROVE slot' > slot
    OBVIOUS
  <2>1. PICK n \in 0 .. Rung : FetchedUpTo(n)
    BY DEF RingInv
  <2>2. TypeOK /\ Rung \in Nat /\ TailCounts
    BY RungIsNat DEF RingInv
  <2>3. PICK e \in Engines : EngineDone(e)
    <3>1. ~Submit /\ ~PushExe1 /\ ~Fetch
      BY DEF Submit, PushExe1, Fetch, chipVars
    <3> QED BY <2>2, <3>1, RestKeepsRing
  <2>4. Rung' = Rung
    BY <2>3 DEF EngineDone, hostVars, Rung, Unannounced
  <2> QED BY <2>1, <2>2, <2>3, <2>4, DoneKeepsRing
<1> QED BY <1>1, RingInvHolds, PTL DEF Spec, ResultsInOrder

-----------------------------------------------------------------------------

\* No results are of a call that has not been made.
LEMMA NothingAhead ==
  ASSUME NoExe1, RingInv
  PROVE  slot \in 0 .. req /\ (cur.exe = "exe0" => cur.req \in 0 .. req)
<1>1. PICK n \in 0 .. Rung : FetchedUpTo(n)
  BY DEF RingInv
<1>2. slot \in Nat /\ cur.req \in Nat /\ req \in Nat /\ n \in Nat
  BY DEF RingInv, TypeOK, Descriptor
<1>3. Rung <= req
  <2>1. CASE hpc \in BeforeDoorbell
    <3>1. tail = Pushed(req - 1) + Unannounced /\ req > 0
      BY <2>1 DEF RingInv, TailCounts, BeforeDoorbell
    <3> QED BY <1>2, <3>1, UnannouncedIs DEF NoExe1, Rung, Pushed
  <2>2. CASE hpc \notin BeforeDoorbell
    BY <1>2, <2>2, UnannouncedIs
       DEF NoExe1, Rung, RingInv, TailCounts, BeforeDoorbell, Pushed
  <2> QED BY <2>1, <2>2
<1>4. n <= req
  BY <1>2, <1>3, RungIsNat
<1>5. slot <= n /\ (cur.exe = "exe0" => cur.req <= n)
  BY <1>1 DEF NoExe1, FetchedUpTo, Pushed
<1> QED BY <1>2, <1>4, <1>5

\* Each step of driver and chip is a step of the service, or none: Begin calls,
\* the end of OUTFEED computes, Check answers, a fatal error breaks.
LEMMA ServiceStep ==
  ASSUME Calm, CleanInv, CalmInv, RingInv, [Next]_vars
  PROVE  [Service!ServiceNext]_(Service!svars)
<1> USE DEF hostVars, chipVars, irqVars
<1>t. TypeOK /\ NoExe1
  BY DEF CleanInv, Calm, NoExe1
<1>1. CASE Begin
  <2>1. Service!Call
    BY <1>1 DEF Begin, Service!Call
  <2> QED BY <2>1 DEF Service!ServiceNext
<1>2. CASE ZeroSeen \/ Arm \/ PushExe1 \/ Submit \/ Doorbell \/ Snapshot \/ Wake
  BY <1>2 DEF ZeroSeen, Arm, PushExe1, Submit, Doorbell, Snapshot, Wake, Service!svars
<1>3. CASE TimeOut
  BY <1>3 DEF TimeOut, Calm
<1>4. CASE Check
  <2>1. hpc = "check" /\ hpc' = "idle" /\ UNCHANGED <<req, slot, hibErr>> /\ event
    BY <1>4 DEF Check, CalmInv
  <2>2. CASE hibErr
    <3>1. outcome' = [outcome EXCEPT ![req] = "hwError"]
      BY <1>4, <2>2 DEF Check, Failed
    <3>2. Service!AnswerError
      BY <2>1, <2>2, <3>1 DEF Service!AnswerError
    <3> QED BY <3>2 DEF Service!ServiceNext
  <2>3. CASE ~hibErr
    <3>1. ~Failed /\ ~Halted /\ clean
      BY <2>1, <2>3 DEF Failed, Halted, CleanInv, CalmInv, FatalIsSticky, Engines
    <3>2. slot = req
      BY <2>1, <3>1, StagesSuffice DEF CleanCallIsComplete, SuccessIsComplete
    <3>3. outcome' = [outcome EXCEPT ![req] = "ok"]
      BY <1>4, <3>1 DEF Check
    <3>4. Service!AnswerOk
      BY <2>1, <2>3, <3>2, <3>3 DEF Service!AnswerOk
    <3> QED BY <3>4 DEF Service!ServiceNext
  <2> QED BY <2>2, <2>3
<1>5. CASE Fetch \/ Start \/ HostInterrupt
           \/ \E e \in {"SC", "OUT"} : EngineHalt(e)
  BY <1>5 DEF Fetch, Start, HostInterrupt, EngineHalt, Service!svars
<1>6. CASE Fatal
  <2>1. Service!Break
    BY <1>6 DEF Fatal, Service!Break
  <2> QED BY <2>1 DEF Service!ServiceNext
<1>7. ASSUME NEW e \in Engines, EngineDone(e)
      PROVE  [Service!ServiceNext]_(Service!svars)
  <2>1. UNCHANGED <<hpc, req, outcome, hibErr>>
    BY <1>7 DEF EngineDone
  <2>2. CASE slot' = slot
    BY <2>1, <2>2 DEF Service!svars
  <2>3. CASE slot' # slot
    <3>1. slot' = cur.req /\ cur.exe = "exe0"
      BY <1>7, <2>3 DEF EngineDone
    <3>2. CASE hibErr
      <4>1. Service!StrayResults
        BY <1>t, <2>1, <3>1, <3>2, NothingAhead DEF Service!StrayResults
      <4> QED BY <4>1 DEF Service!ServiceNext
    <3>3. CASE ~hibErr
      <4>1. ~ChipQuiet
        BY <1>7, QuietBlocks DEF Chip
      <4>2. hpc # "idle" /\ clean
        BY <3>3, <4>1 DEF CalmInv
      <4>3. Stage
        BY <4>1, <4>2 DEF CleanInv, CleanStages, AtRest, Stage, TypeOK, Exe1Phases
      <4>4. cur = Mine
        BY <1>7, <4>1, <4>3 DEF EngineDone, Stage, Queued, Fetched, Running, Done
      <4>5. slot' = req
        BY <3>1, <4>4, MineIsWork
      <4>6. Service!Compute
        BY <2>1, <2>3, <4>2, <4>5 DEF Service!Compute
      <4> QED BY <4>6 DEF Service!ServiceNext
    <3> QED BY <3>2, <3>3
  <2> QED BY <2>2, <2>3
<1>8. ASSUME NEW v \in Vectors, Isr(v) \/ Dpc(v)
      PROVE  UNCHANGED Service!svars
  BY <1>8 DEF Isr, Dpc, IsrRead, IsrAck, DpcStart, DpcReadGate, DpcSettle,
     DpcComplete, DpcDefer, Service!svars
<1>9. CASE UNCHANGED vars
  BY <1>9 DEF vars, Service!svars
<1> QED
  BY <1>1, <1>2, <1>3, <1>4, <1>5, <1>6, <1>7, <1>8, <1>9 DEF Next, Handler, Chip

\* The handler, the chip, the ISRs and the DPCs of Queue.c and Device.c together
\* implement InferService for any number of vectors and calls.
THEOREM CalmImplementsService == ASSUME Calm PROVE Spec => ImplementsService
<1>1. Init => Service!ServiceInit
  BY DEF Init, Service!ServiceInit, Requests
<1>2. CleanInv /\ CalmInv /\ RingInv /\ [Next]_vars
        => [Service!ServiceNext]_(Service!svars)
  BY ServiceStep
<1>3. Spec => [](CleanInv /\ CalmInv)
  BY CalmInvHolds
<1>4. Spec => []RingInv
  <2>1. RoomForExe1
    BY DEF Calm, RoomForExe1
  <2> QED BY <2>1, RingInvHolds
<1> QED
  BY <1>1, <1>2, <1>3, <1>4, PTL DEF Spec, ImplementsService, Service!ServiceSpec
=============================================================================

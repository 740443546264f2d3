-------------------------- MODULE InferCompletion --------------------------
(***************************************************************************)
(* How one IOCTL_INFER_NEW learns that its inference is over.              *)
(*                                                                         *)
(* Four parties run concurrently and share memory and registers:           *)
(*   - the IOCTL handler (one at a time: the queue is sequential), which   *)
(*     resets the event and the accumulated interrupt bits, rings the      *)
(*     doorbell, waits, and judges the outcome;                            *)
(*   - the chip, which fetches descriptors, runs its engines, drains the   *)
(*     output into the output slot and raises interrupts;                  *)
(*   - the ISR, one instance per MSI-X vector: read pending, OR, ack;      *)
(*   - the DPC, one instance per vector: sample the bits, sample the four  *)
(*     run-status registers one after the other, settle, signal or defer.  *)
(*                                                                         *)
(* Env names what the environment may do to the driver; the runs and the   *)
(* theorems say under which Env a property holds.                          *)
(***************************************************************************)
EXTENDS Naturals, FiniteSets

CONSTANTS
  Vectors,      \* MSI-X vectors on which the chip may deliver an interrupt
  MaxRequests,  \* bound on the number of IOCTL_INFER_NEW calls
  RingSize,     \* descriptors in the instruction ring (256 in the code)
  SettlePolls,  \* extra run-status samples of the DPC (200 in the code)
  Env           \* what may go wrong, a subset of Perils

(***************************************************************************)
(* timeout    : an inference may outlast the 3 s wait                      *)
(* halt       : an engine may stop in kHalted                              *)
(* fault      : the HIB may report a fatal error                           *)
(* exe1       : the EXE1_BS slot is allocated (PARAMETER_CACHING model)    *)
(* backToBack : a call may start while interrupts of the previous one are  *)
(*              still being serviced                                       *)
(* slowDrain  : OUTFEED may drain for longer than the DPC settles (2 ms)   *)
(* ringFull   : a call may start while RingSize - 1 descriptors are        *)
(*              announced and not fetched: the ring has no free place      *)
(***************************************************************************)
Perils == {"timeout", "halt", "fault", "exe1", "backToBack", "slowDrain",
           "ringFull"}

ASSUME VectorsAssumption  == Vectors # {}
ASSUME RequestsAssumption == MaxRequests \in Nat
ASSUME RingAssumption     == RingSize \in Nat /\ RingSize > 1
ASSUME SettleAssumption   == SettlePolls \in Nat
ASSUME EnvAssumption      == Env \subseteq Perils

Requests == 1 .. MaxRequests
Engines  == {"SC", "IN", "OUT", "AV"}
Bits     == {"iq", "sc", "fatal"}

\* A descriptor of the ring: which executable, for which call.
Descriptor == [exe : {"exe0", "exe1", "none"}, req : 0 .. MaxRequests]
NoDesc == [exe |-> "none", req |-> 0]

VARIABLES
  hpc,      \* where the handler is
  req,      \* number of the call being served, or of the last one
  outcome,  \* NTSTATUS class each call returned with
  event,    \* InferCompleteEvent
  seen,     \* IsrSeenPendingBits
  tail,     \* DescRingTail
  ring,     \* DescRingBase
  snapshot, \* LastScHostIntCount
  hwTail,   \* INSTR_QUEUE_TAIL
  head,     \* next ring index the chip fetches
  cur,      \* descriptor the chip is executing
  run,      \* run-status registers
  fired,    \* the current descriptor has executed host_interrupt 0
  scCount,  \* SC_HOST_INT_COUNT
  hibErr,   \* USER_HIB_ERROR_STATUS # 0
  pending,  \* WIRE_INT_PENDING with the source latches behind it
  msi,      \* MSI-X messages on their way
  isr,      \* bits each running ISR has captured ({} : not running)
  dpcQ,     \* DPC queued
  dpc,      \* locals of each DPC
  slot,     \* call whose results were drained last into the output slots
  clean     \* history: the call began with chip and interrupts at rest

hostVars == <<hpc, req, outcome, tail, ring, snapshot, hwTail, clean>>
chipVars == <<head, cur, run, fired, scCount, hibErr, slot>>
irqVars  == <<pending, msi, isr, dpcQ, dpc>>
vars     == <<hostVars, event, seen, chipVars, irqVars>>

DpcOff == [pc |-> "off", gate |-> 1, sc |-> FALSE, fatal |-> FALSE,
           idle |-> TRUE, halted |-> FALSE, polls |-> 0]

DpcState == [pc : {"off", "gates", "decide"}, gate : 1 .. 4, sc : BOOLEAN,
             fatal : BOOLEAN, idle : BOOLEAN, halted : BOOLEAN,
             polls : 0 .. SettlePolls]

\* Mutant: the DPC forgets the OUTFEED gate and reads AV twice.
GateOrderNoOut == <<"SC", "IN", "AV", "AV">>

\* The order in which the DPC reads the run-status registers.
GateOrder == <<"SC", "IN", "OUT", "AV">>

Outcomes == {"none", "ok", "timeout", "hwError", "dataError"}

TypeOK ==
  /\ hpc \in {"idle", "zero", "arm", "exe1", "zero1", "submit",
              "doorbell", "snapshot", "wait", "check"}
  /\ req \in 0 .. MaxRequests
  /\ outcome \in [Requests -> Outcomes]
  /\ event \in BOOLEAN
  /\ seen \subseteq Bits
  /\ tail \in Nat
  /\ ring \in [0 .. RingSize - 1 -> Descriptor]
  /\ snapshot \in Nat
  /\ hwTail \in 0 .. RingSize - 1
  /\ head \in 0 .. RingSize - 1
  /\ cur \in Descriptor
  /\ run \in [Engines -> {"idle", "run", "halt"}]
  /\ fired \in BOOLEAN
  /\ scCount \in Nat
  /\ hibErr \in BOOLEAN
  /\ pending \subseteq Bits
  /\ msi \in [Vectors -> BOOLEAN]
  /\ isr \in [Vectors -> SUBSET Bits]
  /\ dpcQ \in [Vectors -> BOOLEAN]
  /\ dpc \in [Vectors -> DpcState]
  /\ slot \in 0 .. MaxRequests
  /\ clean \in BOOLEAN

\* State after EvtDevicePrepareHardware: engines armed and idle, ring empty.
Init ==
  /\ hpc = "idle" /\ req = 0
  /\ outcome = [r \in Requests |-> "none"]
  /\ event = FALSE /\ seen = {}
  /\ tail = 0 /\ ring = [i \in 0 .. RingSize - 1 |-> NoDesc] /\ snapshot = 0
  /\ hwTail = 0 /\ head = 0 /\ cur = NoDesc
  /\ run = [e \in Engines |-> "idle"]
  /\ fired = FALSE /\ scCount = 0 /\ hibErr = FALSE /\ slot = 0 /\ clean = FALSE
  /\ pending = {} /\ msi = [v \in Vectors |-> FALSE]
  /\ isr = [v \in Vectors |-> {}]
  /\ dpcQ = [v \in Vectors |-> FALSE] /\ dpc = [v \in Vectors |-> DpcOff]

(***************************************************************************)
(* The handler of IOCTL_INFER_NEW.                                         *)
(***************************************************************************)

\* No interrupt of an earlier call is still on its way or being serviced.
Quiescent ==
  /\ pending = {}
  /\ \A v \in Vectors : /\ ~msi[v] /\ isr[v] = {}
                        /\ ~dpcQ[v] /\ dpc[v].pc = "off"

\* Nothing submitted is waiting or executing, every run status reads kIdle.
ChipQuiet ==
  /\ cur = NoDesc /\ head = hwTail
  /\ \A e \in Engines : run[e] = "idle"

\* Descriptors the chip sees between its place in the ring and the doorbell.
Waiting == (hwTail + RingSize - head) % RingSize

\* The driver never asks whether the ring has a place for another descriptor.
RingHasRoom == "ringFull" \in Env \/ Waiting < RingSize - 1

\* Mutant: KeClearEvent is missing.
BeginKeepsEvent ==
  /\ hpc = "idle" /\ req < MaxRequests
  /\ "backToBack" \in Env \/ Quiescent
  /\ RingHasRoom
  /\ req' = req + 1
  /\ clean' = (Quiescent /\ ChipQuiet)
  /\ hpc' = "zero"
  /\ UNCHANGED <<outcome, event, tail, ring, snapshot, hwTail, seen, chipVars, irqVars>>

\* The call passes the VA and slot checks (a call that fails them returns
\* without touching any of this state) and clears the event.
Begin ==
  /\ hpc = "idle" /\ req < MaxRequests
  /\ "backToBack" \in Env \/ Quiescent
  /\ RingHasRoom
  /\ req' = req + 1
  /\ event' = FALSE
  /\ clean' = (Quiescent /\ ChipQuiet)
  /\ hpc' = "zero"
  /\ UNCHANGED <<outcome, tail, ring, snapshot, hwTail, seen, chipVars, irqVars>>

\* IsrSeenPendingBits = 0: a plain store, after KeClearEvent each time.
ZeroSeen ==
  /\ \/ hpc = "zero"  /\ hpc' = "arm"
     \/ hpc = "zero1" /\ hpc' = "submit"
  /\ seen' = {}
  /\ UNCHANGED <<clean, req, outcome, tail, ring, snapshot, hwTail, event, chipVars, irqVars>>

\* RUN_CONTROL = 1 on every engine: a halted engine runs again.
Arm ==
  /\ hpc = "arm"
  /\ run' = [e \in Engines |-> IF run[e] = "halt" THEN "run" ELSE run[e]]
  /\ hpc' = IF "exe1" \in Env THEN "exe1" ELSE "submit"
  /\ UNCHANGED <<clean, req, outcome, tail, ring, snapshot, hwTail, event, seen,
                 head, cur, fired, scCount, hibErr, slot, irqVars>>

\* Mutant: DescRingTail is not advanced past the exe1 descriptor.
PushExe1NoTail ==
  /\ hpc = "exe1"
  /\ ring' = [ring EXCEPT ![tail % RingSize] = [exe |-> "exe1", req |-> req]]
  /\ event' = FALSE
  /\ hpc' = "zero1"
  /\ UNCHANGED <<clean, req, outcome, tail, snapshot, hwTail, seen, chipVars, irqVars>>

\* With EXE1_BS allocated: its descriptor goes first, without a doorbell, and
\* the event is cleared a second time.
PushExe1 ==
  /\ hpc = "exe1"
  /\ ring' = [ring EXCEPT ![tail % RingSize] = [exe |-> "exe1", req |-> req]]
  /\ tail' = tail + 1
  /\ event' = FALSE
  /\ hpc' = "zero1"
  /\ UNCHANGED <<clean, req, outcome, snapshot, hwTail, seen, chipVars, irqVars>>

\* The descriptor of the inference, in memory the chip may read from now on.
Submit ==
  /\ hpc = "submit"
  /\ ring' = [ring EXCEPT ![tail % RingSize] = [exe |-> "exe0", req |-> req]]
  /\ tail' = tail + 1
  /\ hpc' = "doorbell"
  /\ UNCHANGED <<clean, req, outcome, snapshot, hwTail, event, seen, chipVars, irqVars>>

\* Mutant: the doorbell carries the cumulative count, not the index.
DoorbellNoWrap ==
  /\ hpc = "doorbell"
  /\ hwTail' = tail
  /\ hpc' = "snapshot"
  /\ UNCHANGED <<clean, req, outcome, tail, ring, snapshot, event, seen, chipVars, irqVars>>

\* One doorbell announces all the descriptors of the call.
Doorbell ==
  /\ hpc = "doorbell"
  /\ hwTail' = tail % RingSize
  /\ hpc' = "snapshot"
  /\ UNCHANGED <<clean, req, outcome, tail, ring, snapshot, event, seen, chipVars, irqVars>>

\* LastScHostIntCount is read after the doorbell.
Snapshot ==
  /\ hpc = "snapshot"
  /\ snapshot' = scCount
  /\ hpc' = "wait"
  /\ UNCHANGED <<clean, req, outcome, tail, ring, hwTail, event, seen, chipVars, irqVars>>

Wake ==
  /\ hpc = "wait" /\ event
  /\ hpc' = "check"
  /\ UNCHANGED <<clean, req, outcome, tail, ring, snapshot, hwTail, event, seen, chipVars, irqVars>>

\* KeWaitForSingleObject gives up; the chip is told nothing.
TimeOut ==
  /\ "timeout" \in Env
  /\ hpc = "wait" /\ ~event
  /\ outcome' = [outcome EXCEPT ![req] = "timeout"]
  /\ hpc' = "idle"
  /\ UNCHANGED <<clean, req, tail, ring, snapshot, hwTail, event, seen, chipVars, irqVars>>

Halted == run["SC"] = "halt" \/ run["OUT"] = "halt"

\* Mutant: the sticky error register is not read after the wait.
FailedBySeen == "fatal" \in seen

Failed == hibErr \/ "fatal" \in seen

\* After the wait the handler, not the DPC, tells success from failure.
Check ==
  /\ hpc = "check"
  /\ outcome' = [outcome EXCEPT ![req] =
                   IF Failed THEN "hwError" ELSE IF Halted THEN "dataError" ELSE "ok"]
  /\ hpc' = "idle"
  /\ UNCHANGED <<clean, req, tail, ring, snapshot, hwTail, event, seen, chipVars, irqVars>>

(***************************************************************************)
(* The chip, as the code uses it.                                          *)
(***************************************************************************)

\* A pending bit that is already up raises no second message.
Raise(b) ==
  IF b \in pending
  THEN UNCHANGED <<pending, msi>>
  ELSE /\ pending' = pending \cup {b}
       /\ \E v \in Vectors : msi' = [msi EXCEPT ![v] = TRUE]

Fetch ==
  /\ cur = NoDesc /\ head # hwTail
  /\ cur' = ring[head]
  /\ head' = (head + 1) % RingSize
  /\ Raise("iq")
  /\ UNCHANGED <<hostVars, event, seen, run, fired, scCount, hibErr, slot, isr, dpcQ, dpc>>

\* The engines start some time after the fetch: until then they still read
\* kIdle, which is why the DPC asks for SC_HOST_0 besides the idle gates.
Start ==
  /\ cur # NoDesc /\ \A e \in Engines : run[e] = "idle"
  /\ run' = [e \in Engines |-> "run"]
  /\ fired' = FALSE
  /\ UNCHANGED <<hostVars, event, seen, head, cur, scCount, hibErr, slot, irqVars>>

\* SCALAR executes host_interrupt 0; the host may learn of it before OUTFEED
\* has drained.
HostInterrupt ==
  /\ cur # NoDesc /\ run["SC"] = "run" /\ ~fired
  /\ fired' = TRUE
  /\ scCount' = scCount + 1
  /\ Raise("sc")
  /\ UNCHANGED <<hostVars, event, seen, head, cur, run, hibErr, slot, isr, dpcQ, dpc>>

\* An engine finishes; OUTFEED finishing means the results are in host memory.
EngineDone(e) ==
  /\ cur # NoDesc /\ run[e] = "run"
  /\ e = "SC" => fired
  /\ run' = [run EXCEPT ![e] = "idle"]
  /\ slot' = IF e = "OUT" /\ cur.exe = "exe0" THEN cur.req ELSE slot
  /\ cur' = IF \A d \in Engines \ {e} : run[d] = "idle" THEN NoDesc ELSE cur
  /\ UNCHANGED <<hostVars, event, seen, head, fired, scCount, hibErr, irqVars>>

EngineHalt(e) ==
  /\ "halt" \in Env
  /\ cur # NoDesc /\ run[e] = "run"
  /\ run' = [run EXCEPT ![e] = "halt"]
  /\ UNCHANGED <<hostVars, event, seen, head, cur, fired, scCount, hibErr, slot, irqVars>>

\* USER_HIB_ERROR_STATUS is never cleared by the driver.
Fatal ==
  /\ "fault" \in Env
  /\ cur # NoDesc /\ ~hibErr
  /\ hibErr' = TRUE
  /\ Raise("fatal")
  /\ UNCHANGED <<hostVars, event, seen, head, cur, run, fired, scCount, slot, isr, dpcQ, dpc>>

(***************************************************************************)
(* npudriverEvtInterruptIsr, one instance per vector.                      *)
(***************************************************************************)

\* Read WIRE_INT_PENDING; nothing pending: not ours.  Otherwise OR it in.
IsrRead(v) ==
  /\ msi[v] /\ isr[v] = {}
  /\ msi' = [msi EXCEPT ![v] = FALSE]
  /\ isr' = [isr EXCEPT ![v] = pending]
  /\ seen' = seen \cup pending
  /\ UNCHANGED <<hostVars, event, chipVars, pending, dpcQ, dpc>>

\* Ack the sources, then WIRE_INT_PENDING, with the captured value; queue the DPC.
IsrAck(v) ==
  /\ isr[v] # {}
  /\ pending' = pending \ isr[v]
  /\ isr' = [isr EXCEPT ![v] = {}]
  /\ dpcQ' = [dpcQ EXCEPT ![v] = TRUE]
  /\ UNCHANGED <<hostVars, event, seen, chipVars, msi, dpc>>

(***************************************************************************)
(* npudriverEvtInterruptDpcNew, one instance per vector.                   *)
(***************************************************************************)

DpcStart(v) ==
  /\ dpcQ[v] /\ dpc[v].pc = "off"
  /\ dpcQ' = [dpcQ EXCEPT ![v] = FALSE]
  /\ dpc' = [dpc EXCEPT ![v] = [DpcOff EXCEPT !.pc = "gates",
                                              !.sc = "sc" \in seen,
                                              !.fatal = "fatal" \in seen]]
  /\ UNCHANGED <<hostVars, event, seen, chipVars, pending, msi, isr>>

\* One run-status register read; only SC and OUT are tested for kHalted.
DpcReadGate(v) ==
  LET d == dpc[v]
      e == GateOrder[d.gate]
  IN  /\ d.pc = "gates"
      /\ dpc' = [dpc EXCEPT ![v] =
           [d EXCEPT !.idle   = d.idle /\ run[e] = "idle",
                     !.halted = d.halted \/ (e \in {"SC", "OUT"} /\ run[e] = "halt"),
                     !.pc     = IF d.gate = 4 THEN "decide" ELSE "gates",
                     !.gate   = IF d.gate = 4 THEN 1 ELSE d.gate + 1]]
      /\ UNCHANGED <<hostVars, event, seen, chipVars, pending, msi, isr, dpcQ>>

\* Mutant: SC_HOST_0 alone completes, or the idle gates alone do.
CompleteOnSc(d)   == d.fatal \/ d.halted \/ d.sc
CompleteOnIdle(d) == d.fatal \/ d.halted \/ d.idle

ShouldComplete(d) == d.fatal \/ d.halted \/ (d.idle /\ d.sc)

\* Mutant: no settling, the DPC defers at once.
NeverSettle(d) == FALSE

MustSettle(d) == d.sc /\ ~(d.idle \/ d.halted \/ d.fatal)

\* 10 us later all four registers are read again.  When OUTFEED always drains
\* within the settle time, the poll ends only by seeing it.
DpcSettle(v) ==
  LET d == dpc[v]
  IN  /\ d.pc = "decide" /\ MustSettle(d)
      /\ d.polls < SettlePolls \/ "slowDrain" \notin Env
      /\ dpc' = [dpc EXCEPT ![v] =
           [d EXCEPT !.pc = "gates", !.idle = TRUE, !.halted = FALSE,
                     !.polls = IF d.polls < SettlePolls THEN d.polls + 1 ELSE d.polls]]
      /\ UNCHANGED <<hostVars, event, seen, chipVars, pending, msi, isr, dpcQ>>

DpcComplete(v) ==
  /\ dpc[v].pc = "decide" /\ ShouldComplete(dpc[v])
  /\ event' = TRUE
  /\ dpc' = [dpc EXCEPT ![v] = DpcOff]
  /\ UNCHANGED <<hostVars, seen, chipVars, pending, msi, isr, dpcQ>>

DpcDefer(v) ==
  /\ dpc[v].pc = "decide" /\ ~ShouldComplete(dpc[v])
  /\ MustSettle(dpc[v]) => dpc[v].polls = SettlePolls /\ "slowDrain" \in Env
  /\ dpc' = [dpc EXCEPT ![v] = DpcOff]
  /\ UNCHANGED <<hostVars, event, seen, chipVars, pending, msi, isr, dpcQ>>

(***************************************************************************)
(* Specification.                                                          *)
(***************************************************************************)

Handler == \/ Begin \/ ZeroSeen \/ Arm \/ PushExe1 \/ Submit \/ Doorbell
           \/ Snapshot \/ Wake \/ Check
Chip    == \/ Fetch \/ Start \/ HostInterrupt \/ Fatal
           \/ \E e \in Engines : EngineDone(e)
           \/ \E e \in {"SC", "OUT"} : EngineHalt(e)
Dpc(v)  == DpcStart(v) \/ DpcReadGate(v) \/ DpcSettle(v) \/ DpcComplete(v) \/ DpcDefer(v)
Isr(v)  == IsrRead(v) \/ IsrAck(v)

Next == \/ Handler \/ TimeOut \/ Chip
        \/ \E v \in Vectors : Isr(v) \/ Dpc(v)

Spec == Init /\ [][Next]_vars

\* The handler runs on, the chip finishes what it has fetched, interrupts are
\* delivered and their DPCs run; nothing obliges an application to call again.
Fairness ==
  /\ WF_vars(\/ ZeroSeen \/ Arm \/ PushExe1 \/ Submit \/ Doorbell
             \/ Snapshot \/ Wake \/ Check)
  /\ WF_vars(Fetch) /\ WF_vars(Start) /\ WF_vars(HostInterrupt)
  /\ \A e \in Engines : WF_vars(EngineDone(e))
  /\ \A v \in Vectors : WF_vars(Isr(v)) /\ WF_vars(Dpc(v))

FairSpec == Spec /\ Fairness

(***************************************************************************)
(* Properties.                                                             *)
(***************************************************************************)

\* The contract of KeSetEvent (Device.c: "gate passed = the slot contents are
\* valid"; DPC_NEW_GUIDE.md: reading the results and freeing the slots are
\* safe): when the handler is about to report success, the output slots hold
\* the results of this very call and the chip holds no descriptor any more.
SuccessIsComplete ==
  (hpc \in {"wait", "check"} /\ event /\ ~Failed /\ ~Halted)
     => slot = req /\ ChipQuiet

\* The same promise under every peril but exe1, for a call that began with the
\* chip and the interrupt path at rest: a time-out, a halt or a late interrupt
\* of an earlier call cannot leak into it.
CleanCallIsComplete == clean => SuccessIsComplete

\* While a call has not returned, the chip works on that call only: no
\* descriptor of an earlier call is executing or waiting to be fetched.
OneCallInFlight ==
  ~hibErr => /\ cur # NoDesc => cur.req = req
             /\ head # hwTail => ring[head].req = req

\* The n-th descriptor ever submitted, counting from 0.
Submitted(n) ==
  IF "exe1" \in Env
  THEN [exe |-> IF n % 2 = 0 THEN "exe1" ELSE "exe0", req |-> n \div 2 + 1]
  ELSE [exe |-> "exe0", req |-> n + 1]

\* Descriptors of the running call that are in the ring before its doorbell.
Unannounced ==
  LET first == IF "exe1" \in Env THEN 1 ELSE 0
  IN  CASE hpc \in {"zero1", "submit"} -> first
        [] hpc = "doorbell"            -> first + 1
        [] OTHER                       -> 0

\* Descriptors ever announced by the doorbell.
Rung == tail - Unannounced

\* DescRingTail counts descriptors while the doorbell carries it modulo the
\* ring size: what the doorbell announces and the chip has not fetched is still
\* in the ring, in the order of submission, also behind calls that timed out,
\* and also while the next descriptor is written and not yet announced.
\* Without exe1 a call that starts on a full ring is covered: its descriptor
\* goes to the free place and RingSize descriptors waiting at once read as none.
RingHoldsPending ==
  \A k \in 0 .. Waiting - 1 :
    ring[(head + k) % RingSize] = Submitted(Rung - Waiting + k)

\* The results of a call never replace those of a later one.
ResultsInOrder == [][slot' > slot]_slot

\* Seen through this mapping a behaviour of the driver and the chip is a
\* behaviour of InferService.
Service == INSTANCE InferService WITH
  calls <- req, serving <- (hpc # "idle"), results <- slot,
  broken <- hibErr, answer <- outcome

ImplementsService == Service!ServiceSpec

\* Every call is answered, by an interrupt alone: no timeout is enabled here.
EveryCallAnswered ==
  \A r \in Requests : (req = r /\ hpc = "wait") ~> (outcome[r] # "none")
=============================================================================

--------------------------- MODULE InferInvariant ---------------------------
(***************************************************************************)
(* Why a call that begins at rest cannot report success early: the         *)
(* inductive invariant behind CleanCallIsComplete.  A clean call goes      *)
(* through at rest -> queued -> fetched -> running -> done, and each stage  *)
(* says what the interrupt path may still be carrying.                     *)
(***************************************************************************)
EXTENDS InferCompletion

\* A fatal bit anywhere on its way to the DPC means the HIB reports an error.
FatalIsSticky ==
  /\ "fatal" \in seen \cup pending => hibErr
  /\ \A v \in Vectors : "fatal" \in isr[v] \/ dpc[v].fatal => hibErr

\* Without EXE1_BS the doorbell is behind by the call's own descriptor only.
DoorbellRung ==
  /\ hpc = "doorbell" => tail > 0
  /\ hwTail = (IF hpc = "doorbell" THEN tail - 1 ELSE tail) % RingSize

AllIdle == \A e \in Engines : run[e] = "idle"
Mine    == [exe |-> "exe0", req |-> req]

\* No SC_HOST_0 is on its way, at any station between the chip and the DPC.
NoScInFlight ==
  /\ "sc" \notin seen \cup pending
  /\ \A v \in Vectors : "sc" \notin isr[v] /\ ~dpc[v].sc

AtRest == Quiescent /\ ChipQuiet /\ ~event /\ (hpc # "zero" => seen = {})

Queued ==
  /\ Quiescent /\ cur = NoDesc /\ AllIdle /\ ~event /\ seen = {}
  /\ head # hwTail /\ hwTail = (head + 1) % RingSize /\ ring[head] = Mine

\* Fetched, but the engines still read kIdle.
Fetched ==
  /\ cur = Mine /\ head = hwTail /\ AllIdle /\ NoScInFlight
  /\ event => hibErr
  /\ \A v \in Vectors : ~dpc[v].halted

\* A DPC that knows of SC_HOST_0 and has seen a gate idle has seen an engine
\* that is done: an engine does not start again before the next call.
SampleHolds(d) ==
  /\ d.halted => Halted
  /\ d.sc /\ d.idle =>
       \A g \in 1 .. 4 : (d.pc = "gates" /\ g < d.gate) \/ d.pc = "decide"
                            => run[GateOrder[g]] = "idle"

Running ==
  /\ cur = Mine /\ head = hwTail /\ ~AllIdle
  /\ fired \/ NoScInFlight
  /\ run["OUT"] = "idle" => slot = req
  /\ event => hibErr \/ Halted
  /\ \A v \in Vectors : SampleHolds(dpc[v])

Done == ChipQuiet /\ slot = req

CleanStages ==
  clean => /\ hpc \in {"zero", "arm", "submit", "doorbell"} => AtRest
           /\ hpc = "doorbell" => ring[hwTail] = Mine
           /\ hpc \in {"snapshot", "wait", "check"} =>
                Queued \/ Fetched \/ Running \/ Done

\* A DPC that is not running has the locals of none, one that decides has
\* read all four gates.
DpcLocals ==
  \A v \in Vectors : /\ dpc[v].pc = "off" => dpc[v] = DpcOff
                     /\ dpc[v].pc = "decide" => dpc[v].gate = 1

Exe1Phases == hpc \notin {"exe1", "zero1"}

\* The invariant proved inductive for every Env without exe1.
\* The handler stages, the doorbell, the fatal bit and the clean call's stages
\* of Queue.c and Device.c's DPC agree with each other in every state.
CleanInv ==
  /\ TypeOK /\ FatalIsSticky /\ DoorbellRung /\ Exe1Phases /\ DpcLocals
  /\ CleanStages

\* What calm adds: nothing is halted, the chip is at rest between calls, so
\* every call starts clean, until the HIB reports an error.
\* Queue.c begins the next call only after Check has seen the event set.
CalmInv ==
  /\ hpc = "check" => event
  /\ \A e \in Engines : run[e] # "halt"
  /\ ~hibErr => /\ hpc = "idle" => ChipQuiet
                /\ hpc # "idle" => clean

-----------------------------------------------------------------------------

\* Descriptors pushed by the calls up to the r-th: DescRingTail after that call.
Pushed(r) == IF "exe1" \in Env THEN 2 * r ELSE r

\* Handler places between the start of a call and its doorbell.
BeforeDoorbell == {"zero", "arm", "exe1", "zero1", "submit", "doorbell"}

\* DescRingTail is a function of the call and of the handler's place in it.
TailCounts ==
  /\ hpc \in {"exe1", "zero1"} => "exe1" \in Env
  /\ hpc # "idle" => req > 0
  /\ tail = IF hpc \notin BeforeDoorbell THEN Pushed(req)
            ELSE Pushed(req - 1) + Unannounced

\* OUTFEED has still to drain for the executing descriptor.
OutPending == AllIdle \/ run["OUT"] # "idle"

\* The chip has come to the n-th descriptor: what was written from there on is
\* in the ring, and the results drained are of descriptors before.  A call that
\* submits two descriptors found a place for both.
FetchedUpTo(n) ==
  /\ head = n % RingSize /\ n <= Rung /\ Rung < n + RingSize
  /\ "exe1" \in Env /\ hpc \in BeforeDoorbell => Rung + 1 < n + RingSize
  /\ \A i \in n .. tail - 1 : ring[i % RingSize] = Submitted(i)
  /\ Pushed(slot) <= n
  /\ cur.exe = "exe0" => /\ Pushed(cur.req) <= n
                         /\ OutPending => slot < cur.req

\* Queue.c's ring and the chip's place in it agree, however many calls timed
\* out: a ring that overflows loses descriptors but never reorders them.
RingInv ==
  /\ TypeOK /\ TailCounts
  /\ hwTail = Rung % RingSize
  /\ \E n \in 0 .. Rung : FetchedUpTo(n)
=============================================================================

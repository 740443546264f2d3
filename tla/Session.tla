------------------------------ MODULE Session ------------------------------
(***************************************************************************)
(* Client processes, from npu_runtime_init_face_ssd to npu_runtime_free.   *)
(*                                                                         *)
(* A client opens the device, gets the IO slots with one ALLOC, copies its *)
(* patched bitstream into them, and then, image by image, fills the input  *)
(* slot, calls INFER_NEW and reads the output slots.  It leaves through    *)
(* FREE and CloseHandle, or dies and has its handle closed for it.  A      *)
(* console (infer_test_console) lives the same life with a single image,   *)
(* and shows its outputs whether or not the call succeeded.                *)
(*                                                                         *)
(* The device has ONE set of slots, at fixed device addresses: FREE, a     *)
(* failed ALLOC and the cleanup of any handle release it, whoever's it is. *)
(* IOCTLs wait in one FIFO (WdfIoQueueDispatchSequential); file cleanup    *)
(* does not go through it.  BufferMap shows the slots one by one and       *)
(* InferCompletion one call in detail: here both are single steps.         *)
(***************************************************************************)
EXTENDS Naturals, Sequences, FiniteSets

CONSTANTS
  Clients,    \* client processes, one handle each, single-threaded
  Consoles,   \* those which are infer_test_console
  Nobody,     \* not a client
  MaxImages   \* bound on the images ever submitted

ASSUME ConsolesAssumption == Consoles \subseteq Clients
ASSUME NobodyAssumption   == Nobody \notin Clients
ASSUME ImagesAssumption   == MaxImages \in Nat


\* Results: whose bitstream computed them, from which image.
Result == [prog : Clients \cup {Nobody}, img : 0 .. MaxImages]
Blank  == [prog |-> Nobody, img |-> 0]   \* zeroed, or 0xCC

\* A call on the chip: what INFEED has read, and whether its caller was
\* told that it failed.
Job == [client : Clients, read : BOOLEAN, result : Result, abandoned : BOOLEAN]

NoSlots == [live |-> FALSE, owner |-> Nobody, prog |-> Nobody, in |-> 0, out |-> Blank]

VARIABLES
  pc,      \* where each client is
  queue,   \* clients whose IOCTL is in the device queue, the first one served
  slots,   \* the IO slots: owner, bitstream, input and output
  jobs,    \* what the chip has been given, in order
  done,    \* InferCompleteEvent
  chip,    \* ok, halted (an engine) or broken (HIB error, never cleared)
  images,  \* number of images so far
  latest,  \* last image of each client
  answer,  \* how its last call ended
  shown,   \* what it showed for that image, <<>> when nothing
  clean,   \* history: when that image was loaded the chip had no job and the
           \* client was alone with the device, and it has been alone since
  shared   \* history: the last client to open met another one's handle

clientVars == <<images, latest, answer, shown, clean>>
vars == <<pc, queue, slots, jobs, done, chip, clientVars, shared>>

Asking  == {"alloc", "infer", "wait", "free"}   \* inside DeviceIoControl
Holding == {"patch", "ready", "infer", "wait", "read", "free"}

\* A client has one request at most in the queue, and waits for it.
SessionTypeOK ==
  /\ pc \in [Clients -> {"off", "open", "close"} \cup {"alloc"} \cup Holding]
  /\ queue \in Seq(Clients)
  /\ \A i, k \in 1 .. Len(queue) : queue[i] = queue[k] => i = k
  /\ \A c \in Clients : pc[c] \in Asking <=> \E i \in 1 .. Len(queue) : queue[i] = c
  /\ slots \in [live : BOOLEAN, owner : Clients \cup {Nobody},
                prog : Clients \cup {Nobody}, in : 0 .. MaxImages, out : Result]
  /\ jobs \in Seq(Job)
  /\ done \in BOOLEAN /\ chip \in {"ok", "halted", "broken"}
  /\ images \in 0 .. MaxImages
  /\ latest \in [Clients -> 0 .. MaxImages]
  /\ answer \in [Clients -> {"none", "ok", "failed"}]
  /\ shown \in [Clients -> Result \cup {<<>>}]
  /\ clean \in [Clients -> BOOLEAN]
  /\ shared \in BOOLEAN

SessionInit ==
  /\ pc = [c \in Clients |-> "off"] /\ queue = <<>>
  /\ slots = NoSlots
  /\ jobs = <<>> /\ done = FALSE /\ chip = "ok"
  /\ images = 0 /\ latest = [c \in Clients |-> 0]
  /\ answer = [c \in Clients |-> "none"] /\ shown = [c \in Clients |-> <<>>]
  /\ clean = [c \in Clients |-> FALSE]
  /\ shared = FALSE

Goto(c, l) == pc' = [pc EXCEPT ![c] = l]
Serving(c) == queue # <<>> /\ Head(queue) = c
Mine(c)    == slots.live /\ slots.owner = c
Open(c)    == pc[c] # "off"

\* DeviceIoControl: the client waits, its request queues up.
Ask(c, l) == Goto(c, l) /\ queue' = Append(queue, c)

\* Mutant: the answered request stays at the head of the queue.
MutReturn(c, l) == Goto(c, l) /\ UNCHANGED queue

\* WdfRequestCompleteWithInformation: the client goes on, the framework
\* dispatches the next request.
Return(c, l) == Goto(c, l) /\ queue' = Tail(queue)

(***************************************************************************)
(* npu_runtime_init_face_ssd.  What fails before the device is open never  *)
(* reaches the driver.                                                     *)
(***************************************************************************)
OpenDevice(c) ==
  /\ pc[c] = "off"
  /\ Goto(c, "open")
  /\ shared' = (\E d \in Clients : Open(d))
  /\ latest' = [latest EXCEPT ![c] = 0]
  /\ answer' = [answer EXCEPT ![c] = "none"]
  /\ shown'  = [shown EXCEPT ![c] = <<>>]
  /\ clean'  = [d \in Clients |-> FALSE]
  /\ UNCHANGED <<queue, slots, jobs, done, chip, images>>

AskAlloc(c) ==
  /\ pc[c] = "open"
  /\ Ask(c, "alloc")
  /\ UNCHANGED <<slots, jobs, done, chip, clientVars, shared>>

\* Zeroed slots, if nobody has any.
AllocGranted(c) ==
  /\ Serving(c) /\ pc[c] = "alloc" /\ ~slots.live
  /\ slots' = [NoSlots EXCEPT !.live = TRUE, !.owner = c]
  /\ Return(c, "patch")
  /\ UNCHANGED <<jobs, done, chip, clientVars, shared>>

\* Mutant: the failure of ALLOC goes unnoticed.
MutAllocFails(c) ==
  /\ Serving(c) /\ pc[c] = "alloc"
  /\ slots' = NoSlots
  /\ Return(c, "patch")
  /\ UNCHANGED <<jobs, done, chip, clientVars, shared>>

\* Slots taken, or no memory: alloc_io_fail releases every slot of the
\* device, and the client goes on to npu_runtime_free.
AllocFails(c) ==
  /\ Serving(c) /\ pc[c] = "alloc"
  /\ slots' = NoSlots
  /\ queue' = Append(Tail(queue), c) /\ Goto(c, "free")
  /\ UNCHANGED <<jobs, done, chip, clientVars, shared>>

\* Parameters and the patched bitstreams are copied into the slots.
Patch(c) ==
  /\ pc[c] = "patch" /\ Mine(c)
  /\ slots' = [slots EXCEPT !.prog = c]
  /\ Goto(c, "ready")
  /\ UNCHANGED <<queue, jobs, done, chip, clientVars, shared>>

(***************************************************************************)
(* npu_runtime_infer_image.                                                *)
(***************************************************************************)

\* The image is copied into the input slot (a console also fills the
\* outputs with a sentinel) and INFER_NEW is called.
LoadImage(c) ==
  /\ pc[c] = "ready" /\ Mine(c)
  /\ images < MaxImages /\ (c \in Consoles => latest[c] = 0)
  /\ images' = images + 1
  /\ latest' = [latest EXCEPT ![c] = images + 1]
  /\ answer' = [answer EXCEPT ![c] = "none"]
  /\ shown'  = [shown EXCEPT ![c] = <<>>]
  /\ clean'  = [clean EXCEPT ![c] = (jobs = <<>> /\ ~shared)]
  /\ slots'  = [slots EXCEPT !.in = images + 1,
                             !.out = IF c \in Consoles THEN Blank ELSE @]
  /\ Ask(c, "infer")
  /\ UNCHANGED <<jobs, done, chip, shared>>

\* A runtime client reads its outputs after a success only, a console always.
Then(c, outcome) == IF outcome = "ok" \/ c \in Consoles THEN "read" ELSE "ready"

Answered(c, outcome) ==
  /\ Return(c, Then(c, outcome))
  /\ answer' = [answer EXCEPT ![c] = outcome]
  /\ UNCHANGED <<images, latest, shown, clean>>

\* No slot has the user and device addresses of the request.
InferRefused(c) ==
  /\ Serving(c) /\ pc[c] = "infer" /\ ~Mine(c)
  /\ Answered(c, "failed")
  /\ UNCHANGED <<slots, jobs, done, chip, shared>>

\* Mutant: KeClearEvent is missing.
MutSubmit(c) ==
  /\ Serving(c) /\ pc[c] = "infer" /\ slots.live
  /\ jobs' = Append(jobs, [client |-> c, read |-> FALSE, result |-> Blank,
                           abandoned |-> FALSE])
  /\ chip' = IF chip = "halted" THEN "ok" ELSE chip
  /\ Goto(c, "wait")
  /\ UNCHANGED <<queue, slots, done, clientVars, shared>>

\* The event is cleared, engines are re-armed, a descriptor is pushed.  The
\* slots are recognised by their addresses: those of another process pass
\* when it happens to have the same user addresses.
Submit(c) ==
  /\ Serving(c) /\ pc[c] = "infer" /\ slots.live
  /\ jobs' = Append(jobs, [client |-> c, read |-> FALSE, result |-> Blank,
                           abandoned |-> FALSE])
  /\ done' = FALSE
  /\ chip' = IF chip = "halted" THEN "ok" ELSE chip
  /\ Goto(c, "wait")
  /\ UNCHANGED <<queue, slots, clientVars, shared>>

AnswerOk(c) ==
  /\ Serving(c) /\ pc[c] = "wait" /\ done /\ chip = "ok"
  /\ Answered(c, "ok")
  /\ UNCHANGED <<slots, jobs, done, chip, shared>>

\* The caller learns of a failure; its job stays on the chip, if it is
\* still there.
Abandon(c) ==
  jobs' = [i \in 1 .. Len(jobs) |->
             IF jobs[i].client = c THEN [jobs[i] EXCEPT !.abandoned = TRUE] ELSE jobs[i]]

AnswerError(c) ==
  /\ Serving(c) /\ pc[c] = "wait" /\ chip # "ok"
  /\ Answered(c, "failed") /\ Abandon(c)
  /\ UNCHANGED <<slots, done, chip, shared>>

\* Mutant: the wait has no timeout.
MutAnswerTimeout(c) ==
  /\ Serving(c) /\ pc[c] = "wait" /\ done /\ chip = "ok"
  /\ Answered(c, "failed") /\ Abandon(c)
  /\ UNCHANGED <<slots, done, chip, shared>>

AnswerTimeout(c) ==
  /\ Serving(c) /\ pc[c] = "wait" /\ ~done
  /\ Answered(c, "failed") /\ Abandon(c)
  /\ UNCHANGED <<slots, done, chip, shared>>

\* Outputs are read and turned into detections.
Show(c) ==
  /\ pc[c] = "read" /\ Mine(c)
  /\ shown' = [shown EXCEPT ![c] = slots.out]
  /\ Goto(c, "ready")
  /\ UNCHANGED <<queue, slots, jobs, done, chip, images, latest, answer, clean, shared>>

(***************************************************************************)
(* npu_runtime_free, and the death of a client.                            *)
(***************************************************************************)

\* Called by the application, or on an exception while initialising.
GiveUp(c) ==
  /\ pc[c] \in {"patch", "ready"}
  /\ Ask(c, "free")
  /\ UNCHANGED <<slots, jobs, done, chip, clientVars, shared>>

FreeSlots(c) ==
  /\ Serving(c) /\ pc[c] = "free"
  /\ slots' = NoSlots
  /\ Return(c, "close")
  /\ UNCHANGED <<jobs, done, chip, clientVars, shared>>

\* Mutant: file cleanup leaves the slots to FREE.
MutCloseHandle(c) ==
  /\ pc[c] = "close"
  /\ Goto(c, "off")
  /\ UNCHANGED <<queue, slots, jobs, done, chip, clientVars, shared>>

\* npudriverEvtFileCleanup, beside whatever IOCTL is being served.
CloseHandle(c) ==
  /\ pc[c] = "close"
  /\ slots' = NoSlots
  /\ Goto(c, "off")
  /\ UNCHANGED <<queue, jobs, done, chip, clientVars, shared>>

\* A process that dies, at the latest when it touches slots it has lost,
\* has its handle closed once its IOCTL, if any, has returned.
Die(c) ==
  /\ pc[c] \in {"open", "patch", "ready", "read"}
  /\ Goto(c, "close")
  /\ UNCHANGED <<queue, slots, jobs, done, chip, clientVars, shared>>

(***************************************************************************)
(* The chip, as the code uses it: jobs in order, each through the page     *)
(* table as it is when the step is taken.                                  *)
(***************************************************************************)
Working == jobs # <<>> /\ chip # "halted"

\* Mutant: the completion is signalled before OUTFEED has drained.
MutExecute ==
  /\ Working /\ slots.live /\ ~Head(jobs).read
  /\ jobs' = [jobs EXCEPT ![1].read = TRUE,
                          ![1].result = [prog |-> slots.prog, img |-> slots.in]]
  /\ done' = TRUE
  /\ UNCHANGED <<pc, queue, slots, chip, clientVars, shared>>

\* INFEED reads the bitstream and the image that are in the slots.
Execute ==
  /\ Working /\ slots.live /\ ~Head(jobs).read
  /\ jobs' = [jobs EXCEPT ![1].read = TRUE,
                          ![1].result = [prog |-> slots.prog, img |-> slots.in]]
  /\ UNCHANGED <<pc, queue, slots, done, chip, clientVars, shared>>

\* OUTFEED writes the results into the slots and the DPC sets the event.
Drain ==
  /\ Working /\ slots.live /\ Head(jobs).read
  /\ slots' = [slots EXCEPT !.out = Head(jobs).result]
  /\ jobs' = Tail(jobs)
  /\ done' = TRUE
  /\ UNCHANGED <<pc, queue, chip, clientVars, shared>>

\* The pages of the slots are gone: HIB page fault.
PageFault ==
  /\ Working /\ ~slots.live
  /\ chip' = "broken"
  /\ UNCHANGED <<pc, queue, slots, jobs, done, clientVars, shared>>

Halt ==
  /\ jobs # <<>> /\ chip = "ok"
  /\ chip' = "halted"
  /\ UNCHANGED <<pc, queue, slots, jobs, done, clientVars, shared>>

(***************************************************************************)
(* Specification.                                                          *)
(***************************************************************************)
Call(c) ==
  \/ LoadImage(c) \/ InferRefused(c) \/ Submit(c)
  \/ AnswerOk(c) \/ AnswerError(c) \/ AnswerTimeout(c) \/ Show(c)

Visit(c) ==
  \/ OpenDevice(c) \/ AskAlloc(c) \/ AllocGranted(c) \/ AllocFails(c) \/ Patch(c)
  \/ GiveUp(c) \/ FreeSlots(c) \/ CloseHandle(c) \/ Die(c)

Chip == Execute \/ Drain \/ PageFault \/ Halt

SessionNext == (\E c \in Clients : Call(c) \/ Visit(c)) \/ Chip

\* What the driver does for the request at the head of its queue.
Serve(c) ==
  \/ AllocGranted(c) \/ AllocFails(c) \/ InferRefused(c) \/ Submit(c)
  \/ AnswerOk(c) \/ AnswerError(c) \/ AnswerTimeout(c) \/ FreeSlots(c)

\* The driver works off its queue: the framework dispatches the next request
\* when one returns, and the wait of INFER_NEW ends after 3 s at the latest.
\* Nothing is assumed of the chip, nor of the clients.
SessionSpec ==
  SessionInit /\ [][SessionNext]_vars /\ \A c \in Clients : WF_vars(Serve(c))

(***************************************************************************)
(* Properties.                                                             *)
(***************************************************************************)

\* A client that has the device for itself never finds its slots gone: from
\* the success of ALLOC to its own FREE the pointers it keeps in its context
\* are those of live slots of its own, whatever failed or timed out before.
SlotsAreMine ==
  \A c \in Clients :
    ~shared /\ pc[c] \in Holding \ {"free"} => Mine(c)

\* What the client shows for its last image.
Own(c) == [prog |-> c, img |-> latest[c]]

Faithful(c) ==
  shown[c] # <<>> =>
    shown[c] = Own(c) \/ (answer[c] = "failed" /\ shown[c] = Blank)

\* Detections are those of the image that was passed in: what a client shows
\* of a call that found the chip quiet was computed by its own bitstream from
\* that very image; a console whose call failed may also show its sentinel.
ShownIsOwn == \A c \in Clients : clean[c] => Faithful(c)

\* The chip works in live slots of the client that waits for it: as long as
\* nobody was told that a call failed while its job stayed behind (whose late
\* completion is then taken for that of the next call), FREE, ALLOC and file
\* cleanup take no memory from under an inference in progress.
ChipInLiveSlots ==
  \A i \in 1 .. Len(jobs) :
    ~jobs[i].abandoned /\ clean[jobs[i].client] =>
      Mine(jobs[i].client) /\ pc[jobs[i].client] = "wait"

\* However the clients ended - freed, failed half-way through their
\* initialisation, or dead - the slots are gone when the last handle is.
AllReleased == (\A c \in Clients : ~Open(c)) => ~slots.live /\ queue = <<>>

\* Every DeviceIoControl returns: no client is stuck behind another one, nor
\* behind an inference that never ends.
EveryRequestReturns == \A c \in Clients : pc[c] \in Asking ~> pc[c] \notin Asking
=============================================================================

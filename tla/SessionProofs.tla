--------------------------- MODULE SessionProofs ---------------------------
(***************************************************************************)
(* Proofs about Session, for any number of clients and images.             *)
(*                                                                         *)
(* SessionInv says that a device nobody shares has one client (Alone),     *)
(* that slots need a handle (Held), whose the bitstream in them is         *)
(* (Patched), and what a client that found the chip quiet may rely on      *)
(* until it shows its outputs (Calm): its job, its image, its outputs.     *)
(***************************************************************************)
EXTENDS Session, TLAPS

(***************************************************************************)
(* The queue of the device: every client in it once.                       *)
(***************************************************************************)
Queued(q)   == {q[i] : i \in 1 .. Len(q)}
Distinct(q) == \A i, k \in 1 .. Len(q) : q[i] = q[k] => i = k

\* Queueing a client that is not queued.
LEMMA AppendDistinct ==
  ASSUME NEW q \in Seq(Clients), NEW c \in Clients, Distinct(q), c \notin Queued(q)
  PROVE  /\ Append(q, c) \in Seq(Clients) /\ Distinct(Append(q, c))
         /\ Queued(Append(q, c)) = Queued(q) \cup {c}
<1> DEFINE r == Append(q, c)
<1>1. /\ r \in Seq(Clients) /\ Len(r) = Len(q) + 1 /\ r[Len(q) + 1] = c
      /\ \A i \in 1 .. Len(q) : r[i] = q[i]
  OBVIOUS
<1>2. Distinct(r)
  BY <1>1 DEF Distinct, Queued
<1>3. Queued(r) = Queued(q) \cup {c}
  BY <1>1 DEF Queued
<1> QED BY <1>1, <1>2, <1>3

\* Dispatching the first one.
LEMMA TailDistinct ==
  ASSUME NEW q \in Seq(Clients), q # <<>>, Distinct(q)
  PROVE  /\ Tail(q) \in Seq(Clients) /\ Distinct(Tail(q))
         /\ Head(q) \in Queued(q)
         /\ Queued(Tail(q)) = Queued(q) \ {Head(q)}
<1> DEFINE r == Tail(q)
<1>1. /\ r \in Seq(Clients) /\ Len(q) \in Nat \ {0} /\ Len(r) = Len(q) - 1
      /\ \A i \in 1 .. Len(r) : r[i] = q[i + 1]
      /\ Head(q) = q[1]
  OBVIOUS
<1>2. Distinct(r)
  BY <1>1 DEF Distinct
<1>3. Head(q) \in Queued(q)
  BY <1>1 DEF Queued
<1>4. Queued(r) \subseteq Queued(q) \ {Head(q)}
  BY <1>1 DEF Queued, Distinct
<1>5. ASSUME NEW x \in Queued(q) \ {Head(q)} PROVE x \in Queued(r)
  <2>1. PICK i \in 1 .. Len(q) : x = q[i]
    BY DEF Queued
  <2>2. i - 1 \in 1 .. Len(r) /\ r[i - 1] = x
    BY <1>1, <2>1
  <2> QED BY <2>2 DEF Queued
<1> QED BY <1>1, <1>2, <1>3, <1>4, <1>5

\* The two clauses of the type invariant about the queue, and the others.
QueueOK ==
  /\ pc \in [Clients -> {"off", "open", "close"} \cup {"alloc"} \cup Holding]
  /\ queue \in Seq(Clients) /\ Distinct(queue)
  /\ \A c \in Clients : pc[c] \in Asking <=> c \in Queued(queue)

DataOK ==
  /\ slots \in [live : BOOLEAN, owner : Clients \cup {Nobody},
                prog : Clients \cup {Nobody}, in : 0 .. MaxImages, out : Result]
  /\ jobs \in Seq(Job)
  /\ done \in BOOLEAN /\ chip \in {"ok", "halted", "broken"}
  /\ images \in 0 .. MaxImages
  /\ latest \in [Clients -> 0 .. MaxImages]
  /\ answer \in [Clients -> {"none", "ok", "failed"}]
  /\ shown \in [Clients -> Result \cup {<<>>}]
  /\ clean \in [Clients -> BOOLEAN]
  /\ shared \in BOOLEAN

LEMMA TypeSplit == SessionTypeOK <=> (QueueOK /\ DataOK)
<1>1. \A c \in Clients : c \in Queued(queue) <=> \E i \in 1 .. Len(queue) : queue[i] = c
  BY DEF Queued
<1> QED BY <1>1 DEF SessionTypeOK, QueueOK, DataOK, Distinct

\* What a request does to the queue.
LEMMA AskQueue ==
  ASSUME QueueOK, NEW c \in Clients, NEW l \in Asking, pc[c] \notin Asking, Ask(c, l)
  PROVE  QueueOK'
<1>1. c \notin Queued(queue)
  BY DEF QueueOK
<1>2. /\ queue' \in Seq(Clients) /\ Distinct(queue')
      /\ Queued(queue') = Queued(queue) \cup {c}
  BY <1>1, AppendDistinct DEF QueueOK, Ask
<1> QED BY <1>2 DEF QueueOK, Ask, Goto, Asking, Holding, Queued, Distinct

\* What the return of a request does to it.
LEMMA ReturnQueue ==
  ASSUME QueueOK, NEW c \in Clients, Serving(c),
         NEW l \in {"off", "open", "close", "patch", "ready", "read"}, Return(c, l)
  PROVE  QueueOK'
<1>1. queue # <<>> /\ Head(queue) = c
  BY DEF Serving
<1>2. /\ queue' \in Seq(Clients) /\ Distinct(queue')
      /\ Queued(queue') = Queued(queue) \ {c}
  BY <1>1, TailDistinct DEF QueueOK, Return
<1> QED BY <1>2 DEF QueueOK, Return, Goto, Asking, Holding, Queued, Distinct

\* A client that goes on without a request leaves the queue alone.
LEMMA GotoQueue ==
  ASSUME QueueOK, NEW c \in Clients, NEW l, UNCHANGED queue, Goto(c, l),
         \/ /\ pc[c] \notin Asking
            /\ l \in {"off", "open", "close", "patch", "ready", "read"}
         \/ pc[c] \in Asking /\ l \in Asking
  PROVE  QueueOK'
BY DEF QueueOK, Goto, Asking, Holding, Queued, Distinct

\* A request that fails and is followed by another one of the same client.
LEMMA RetryQueue ==
  ASSUME QueueOK, NEW c \in Clients, Serving(c), NEW l \in Asking,
         queue' = Append(Tail(queue), c), Goto(c, l)
  PROVE  QueueOK'
<1>1. queue # <<>> /\ Head(queue) = c
  BY DEF Serving
<1>2. /\ Tail(queue) \in Seq(Clients) /\ Distinct(Tail(queue))
      /\ c \in Queued(queue) /\ Queued(Tail(queue)) = Queued(queue) \ {c}
  BY <1>1, TailDistinct DEF QueueOK
<1>3. /\ queue' \in Seq(Clients) /\ Distinct(queue')
      /\ Queued(queue') = Queued(queue)
  BY <1>2, AppendDistinct DEF QueueOK
<1> QED BY <1>2, <1>3 DEF QueueOK, Goto, Asking, Holding, Queued, Distinct

LEMMA QueueStep ==
  ASSUME QueueOK, [SessionNext]_vars
  PROVE  QueueOK'
<1>1. CASE UNCHANGED vars
  BY <1>1 DEF vars, QueueOK, Queued, Distinct
<1>2. ASSUME NEW c \in Clients, Call(c) PROVE QueueOK'
  <2>1. \A o : Then(c, o) \in {"ready", "read"}
    BY DEF Then
  <2>2. CASE LoadImage(c)
    BY <2>2, AskQueue DEF LoadImage, Asking
  <2>3. CASE Submit(c)
    BY <2>3, GotoQueue DEF Submit, Asking
  <2>4. CASE Show(c)
    BY <2>4, GotoQueue DEF Show, Asking
  <2>5. ASSUME NEW o, Serving(c), Answered(c, o) PROVE QueueOK'
    BY <2>5, <2>1, ReturnQueue DEF Answered
  <2>6. CASE InferRefused(c)
    BY <2>6, <2>5 DEF InferRefused
  <2>7. CASE AnswerOk(c)
    BY <2>7, <2>5 DEF AnswerOk
  <2>8. CASE AnswerError(c)
    BY <2>8, <2>5 DEF AnswerError
  <2>9. CASE AnswerTimeout(c)
    BY <2>9, <2>5 DEF AnswerTimeout
  <2> QED BY <1>2, <2>2, <2>3, <2>4, <2>6, <2>7, <2>8, <2>9 DEF Call
<1>3. ASSUME NEW c \in Clients, Visit(c) PROVE QueueOK'
  <2>1. CASE OpenDevice(c)
    BY <2>1, GotoQueue DEF OpenDevice, Asking
  <2>2. CASE AskAlloc(c)
    BY <2>2, AskQueue DEF AskAlloc, Asking
  <2>3. CASE AllocGranted(c)
    BY <2>3, ReturnQueue DEF AllocGranted
  <2>4. CASE AllocFails(c)
    BY <2>4, RetryQueue DEF AllocFails, Asking
  <2>5. CASE Patch(c)
    BY <2>5, GotoQueue DEF Patch, Asking
  <2>6. CASE GiveUp(c)
    BY <2>6, AskQueue DEF GiveUp, Asking
  <2>7. CASE FreeSlots(c)
    BY <2>7, ReturnQueue DEF FreeSlots
  <2>8. CASE CloseHandle(c)
    BY <2>8, GotoQueue DEF CloseHandle, Asking
  <2>9. CASE Die(c)
    BY <2>9, GotoQueue DEF Die, Asking
  <2> QED BY <1>3, <2>1, <2>2, <2>3, <2>4, <2>5, <2>6, <2>7, <2>8, <2>9 DEF Visit
<1>4. CASE Chip
  BY <1>4 DEF Chip, Execute, Drain, PageFault, Halt, QueueOK, Queued, Distinct
<1> QED BY <1>1, <1>2, <1>3, <1>4 DEF SessionNext

(***************************************************************************)
(* The other variables.                                                    *)
(***************************************************************************)
LEMMA Results ==
  ASSUME QueueOK, DataOK
  PROVE  /\ Blank \in Result /\ NoSlots.out = Blank
         /\ \A c \in Clients : Own(c) \in Result
         /\ slots.out \in Result /\ [prog |-> slots.prog, img |-> slots.in] \in Result
BY ImagesAssumption DEF Blank, Result, NoSlots, Own, DataOK

\* A job that joins, leaves or is worked on leaves a queue of jobs.
LEMMA JobsType ==
  ASSUME DataOK
  PROVE  /\ \A j \in Job : Append(jobs, j) \in Seq(Job)
         /\ jobs # <<>> => Head(jobs) \in Job /\ Head(jobs) = jobs[1] /\ Tail(jobs) \in Seq(Job)
         /\ \A i \in 1 .. Len(jobs) : jobs[i] \in Job
BY DEF DataOK

LEMMA AbandonType ==
  ASSUME DataOK, NEW c \in Clients, Abandon(c)
  PROVE  /\ jobs' \in Seq(Job) /\ Len(jobs') = Len(jobs)
         /\ \A i \in 1 .. Len(jobs) :
              jobs'[i] = IF jobs[i].client = c THEN [jobs[i] EXCEPT !.abandoned = TRUE]
                         ELSE jobs[i]
<1>1. \A i \in 1 .. Len(jobs) : jobs[i] \in Job
  BY JobsType
<1>2. \A i \in 1 .. Len(jobs) : [jobs[i] EXCEPT !.abandoned = TRUE] \in Job
  BY <1>1 DEF Job
<1>3. Len(jobs) \in Nat
  BY DEF DataOK
<1> QED BY <1>1, <1>2, <1>3 DEF Abandon

\* What INFEED does to the first job.
LEMMA ExecuteType ==
  ASSUME QueueOK, DataOK, Execute
  PROVE  /\ jobs' \in Seq(Job) /\ Len(jobs') = Len(jobs)
         /\ jobs'[1] = [jobs[1] EXCEPT !.read = TRUE,
                                       !.result = [prog |-> slots.prog, img |-> slots.in]]
         /\ \A i \in 2 .. Len(jobs) : jobs'[i] = jobs[i]
<1>1. jobs \in Seq(Job) /\ jobs # <<>> /\ Len(jobs) \in Nat \ {0}
  BY DEF DataOK, Execute, Working
<1>2. [prog |-> slots.prog, img |-> slots.in] \in Result
  BY Results
<1>3. jobs[1] \in Job
  BY <1>1
<1>4. [jobs[1] EXCEPT !.read = TRUE,
                      !.result = [prog |-> slots.prog, img |-> slots.in]] \in Job
  BY <1>2, <1>3 DEF Job
<1>5. jobs' = [jobs EXCEPT ![1] = [jobs[1] EXCEPT !.read = TRUE,
                      !.result = [prog |-> slots.prog, img |-> slots.in]]]
  BY <1>1 DEF Execute
<1> DEFINE j == [jobs[1] EXCEPT !.read = TRUE,
                      !.result = [prog |-> slots.prog, img |-> slots.in]]
<1>6. j \in Job /\ jobs' = [jobs EXCEPT ![1] = j]
  BY <1>4, <1>5
<1> HIDE DEF j
<1>7. /\ jobs' \in Seq(Job) /\ Len(jobs') = Len(jobs) /\ jobs'[1] = j
      /\ \A i \in 2 .. Len(jobs) : jobs'[i] = jobs[i]
  BY <1>1, <1>6
<1> QED BY <1>7 DEF j

LEMMA DataStep ==
  ASSUME QueueOK, DataOK, [SessionNext]_vars
  PROVE  DataOK'
<1>1. CASE UNCHANGED vars
  BY <1>1 DEF vars, clientVars, DataOK
<1>2. ASSUME NEW c \in Clients, Call(c) PROVE DataOK'
  <2>1. Blank \in Result /\ slots.out \in Result
    BY Results
  <2>2. CASE LoadImage(c)
    <3>1. images' \in 0 .. MaxImages /\ latest' \in [Clients -> 0 .. MaxImages]
      BY <2>2, ImagesAssumption DEF LoadImage, DataOK
    <3>2. slots' \in [live : BOOLEAN, owner : Clients \cup {Nobody},
                     prog : Clients \cup {Nobody}, in : 0 .. MaxImages, out : Result]
      <4>1. images + 1 \in 0 .. MaxImages
        BY <2>2, ImagesAssumption DEF LoadImage, DataOK
      <4>2. (IF c \in Consoles THEN Blank ELSE slots.out) \in Result
        BY <2>1
      <4> QED BY <2>2, <4>1, <4>2 DEF LoadImage, DataOK
    <3>3. (jobs = <<>> /\ ~shared) \in BOOLEAN
      OBVIOUS
    <3>4. clean' \in [Clients -> BOOLEAN]
      BY <2>2, <3>3 DEF LoadImage, DataOK
    <3> QED BY <2>2, <3>1, <3>2, <3>4 DEF LoadImage, DataOK
  <2>3. CASE Submit(c)
    <3>1. [client |-> c, read |-> FALSE, result |-> Blank, abandoned |-> FALSE] \in Job
      BY <2>1 DEF Job, DataOK
    <3>2. jobs' \in Seq(Job)
      BY <2>3, <3>1, JobsType DEF Submit
    <3> QED BY <2>3, <3>2 DEF Submit, clientVars, DataOK
  <2>4. CASE Show(c)
    BY <2>1, <2>4 DEF Show, DataOK
  <2>5. CASE InferRefused(c)
    BY <2>5 DEF InferRefused, Answered, DataOK
  <2>6. CASE AnswerOk(c)
    BY <2>6 DEF AnswerOk, Answered, DataOK
  <2>7. CASE AnswerError(c)
    BY <2>7, AbandonType DEF AnswerError, Answered, DataOK
  <2>8. CASE AnswerTimeout(c)
    BY <2>8, AbandonType DEF AnswerTimeout, Answered, DataOK
  <2> QED BY <1>2, <2>2, <2>3, <2>4, <2>5, <2>6, <2>7, <2>8 DEF Call
<1>3. ASSUME NEW c \in Clients, Visit(c) PROVE DataOK'
  <2>1. /\ NoSlots \in [live : BOOLEAN, owner : Clients \cup {Nobody},
                        prog : Clients \cup {Nobody}, in : 0 .. MaxImages, out : Result]
        /\ [NoSlots EXCEPT !.live = TRUE, !.owner = c]
             \in [live : BOOLEAN, owner : Clients \cup {Nobody},
                 prog : Clients \cup {Nobody}, in : 0 .. MaxImages, out : Result]
    <3>1. Blank \in Result
      BY Results
    <3>2. 0 \in 0 .. MaxImages
      BY ImagesAssumption
    <3> QED BY <3>1, <3>2 DEF NoSlots
  <2>2. CASE OpenDevice(c)
    BY <2>2, ImagesAssumption DEF OpenDevice, DataOK
  <2>3. CASE AskAlloc(c)
    BY <2>3 DEF AskAlloc, clientVars, DataOK
  <2>4. CASE AllocGranted(c)
    BY <2>1, <2>4 DEF AllocGranted, clientVars, DataOK
  <2>5. CASE AllocFails(c)
    BY <2>1, <2>5 DEF AllocFails, clientVars, DataOK
  <2>6. CASE Patch(c)
    BY <2>6 DEF Patch, clientVars, DataOK
  <2>7. CASE GiveUp(c)
    BY <2>7 DEF GiveUp, clientVars, DataOK
  <2>8. CASE FreeSlots(c)
    BY <2>1, <2>8 DEF FreeSlots, clientVars, DataOK
  <2>9. CASE CloseHandle(c)
    BY <2>1, <2>9 DEF CloseHandle, clientVars, DataOK
  <2>10. CASE Die(c)
    BY <2>10 DEF Die, clientVars, DataOK
  <2> QED BY <1>3, <2>2, <2>3, <2>4, <2>5, <2>6, <2>7, <2>8, <2>9, <2>10 DEF Visit
<1>4. CASE Execute
  BY <1>4, ExecuteType DEF Execute, clientVars, DataOK
<1>5. CASE Drain
  <2>1. Head(jobs).result \in Result /\ Tail(jobs) \in Seq(Job)
    BY <1>5, JobsType DEF Drain, Working, Job, DataOK
  <2> QED BY <1>5, <2>1 DEF Drain, clientVars, DataOK
<1>6. CASE PageFault \/ Halt
  BY <1>6 DEF PageFault, Halt, clientVars, DataOK
<1> QED BY <1>1, <1>2, <1>3, <1>4, <1>5, <1>6 DEF SessionNext, Chip

LEMMA InitType == SessionInit => QueueOK /\ DataOK
<1> SUFFICES ASSUME SessionInit PROVE QueueOK /\ DataOK
  OBVIOUS
<1>1. QueueOK
  BY DEF SessionInit, QueueOK, Queued, Distinct, Asking, Holding
<1>2. Blank \in Result
  BY ImagesAssumption DEF Blank, Result
<1>3. NoSlots \in [live : BOOLEAN, owner : Clients \cup {Nobody},
                   prog : Clients \cup {Nobody}, in : 0 .. MaxImages, out : Result]
  BY <1>2, ImagesAssumption DEF NoSlots
<1>4. DataOK
  <2>1. jobs \in Seq(Job)
    BY DEF SessionInit
  <2>2. images \in 0 .. MaxImages /\ latest \in [Clients -> 0 .. MaxImages]
    BY ImagesAssumption DEF SessionInit
  <2>3. /\ answer \in [Clients -> {"none", "ok", "failed"}]
        /\ shown \in [Clients -> Result \cup {<<>>}]
        /\ clean \in [Clients -> BOOLEAN]
    BY DEF SessionInit
  <2> QED BY <1>3, <2>1, <2>2, <2>3 DEF SessionInit, DataOK
<1> QED BY <1>1, <1>4

\* Type correctness: in particular a client has one request in the queue when
\* it is inside DeviceIoControl and none otherwise.
THEOREM SessionTypeCorrect == SessionSpec => []SessionTypeOK
<1>1. QueueOK /\ DataOK /\ [SessionNext]_vars => (QueueOK /\ DataOK)'
  BY QueueStep, DataStep
<1> QED BY InitType, TypeSplit, <1>1, PTL DEF SessionSpec

(***************************************************************************)
(* The inductive invariant.                                                *)
(***************************************************************************)

\* A device nobody shares has one client.
Alone == ~shared => \A c, d \in Clients : Open(c) /\ Open(d) => c = d

\* No slots without a handle.
Held == slots.live => \E c \in Clients : Open(c)

\* Past the initialisation the bitstream in the slots is the client's.
Patched ==
  \A c \in Clients :
    ~shared /\ pc[c] \in {"ready", "infer", "wait", "read"} => slots.prog = c

\* A client that found the chip quiet and the device free: one job at most,
\* its own, working on its own image, and left behind only when it was told.
Undisturbed(c) ==
  /\ ~shared /\ \A d \in Clients : Open(d) => d = c
  /\ pc[c] \notin {"open", "alloc", "patch"}
  /\ slots.live => slots.prog = c /\ slots.in = latest[c]

OneJob(c) ==
  /\ Len(jobs) <= 1
  /\ pc[c] = "infer" => jobs = <<>>
  /\ jobs # <<>> =>
       /\ jobs[1].client = c
       /\ jobs[1].read => jobs[1].result = Own(c)
       /\ ~jobs[1].abandoned => pc[c] = "wait"

OwnOutputs(c) ==
  /\ pc[c] = "wait" /\ done => jobs = <<>> /\ slots.out = Own(c)
  /\ pc[c] = "read" => \/ answer[c] = "ok" /\ slots.out = Own(c)
                       \/ answer[c] = "failed" /\ c \in Consoles
  /\ pc[c] \in {"infer", "wait", "read"} /\ c \in Consoles =>
       slots.out \in {Blank, Own(c)}
  /\ pc[c] \in {"infer", "wait", "read"} => shown[c] = <<>>
  /\ Faithful(c)

Calm == \A c \in Clients : clean[c] => Undisturbed(c) /\ OneJob(c) /\ OwnOutputs(c)

SessionInv ==
  QueueOK /\ DataOK /\ Alone /\ Held /\ SlotsAreMine /\ Patched /\ Calm

LEMMA AloneStep ==
  ASSUME SessionInv, [SessionNext]_vars
  PROVE  Alone'
<1> USE DEF SessionInv, QueueOK, DataOK
<1>1. CASE UNCHANGED vars
  BY <1>1 DEF vars, clientVars, Alone, Open
<1>2. ASSUME NEW c \in Clients, LoadImage(c) PROVE Alone'
  BY <1>2 DEF LoadImage, Ask, Goto, clientVars, Alone, Open
<1>3. ASSUME NEW c \in Clients, InferRefused(c) PROVE Alone'
  BY <1>3 DEF InferRefused, Answered, Return, Goto, Then, clientVars, Alone, Open
<1>4. ASSUME NEW c \in Clients, Submit(c) PROVE Alone'
  BY <1>4 DEF Submit, Goto, clientVars, Alone, Open
<1>5. ASSUME NEW c \in Clients, AnswerOk(c) PROVE Alone'
  BY <1>5 DEF AnswerOk, Answered, Return, Goto, Then, clientVars, Alone, Open
<1>6. ASSUME NEW c \in Clients, AnswerError(c) PROVE Alone'
  BY <1>6 DEF AnswerError, Answered, Return, Goto, Then, clientVars, Alone, Open
<1>7. ASSUME NEW c \in Clients, AnswerTimeout(c) PROVE Alone'
  BY <1>7 DEF AnswerTimeout, Answered, Return, Goto, Then, clientVars, Alone, Open
<1>8. ASSUME NEW c \in Clients, Show(c) PROVE Alone'
  BY <1>8 DEF Show, Goto, clientVars, Alone, Open
<1>9. ASSUME NEW c \in Clients, OpenDevice(c) PROVE Alone'
  BY <1>9 DEF OpenDevice, Goto, clientVars, Alone, Open
<1>10. ASSUME NEW c \in Clients, AskAlloc(c) PROVE Alone'
  BY <1>10 DEF AskAlloc, Ask, Goto, clientVars, Alone, Open
<1>11. ASSUME NEW c \in Clients, AllocGranted(c) PROVE Alone'
  BY <1>11 DEF AllocGranted, Return, Goto, clientVars, Alone, Open
<1>12. ASSUME NEW c \in Clients, AllocFails(c) PROVE Alone'
  BY <1>12 DEF AllocFails, Goto, clientVars, Alone, Open
<1>13. ASSUME NEW c \in Clients, Patch(c) PROVE Alone'
  BY <1>13 DEF Patch, Goto, clientVars, Alone, Open
<1>14. ASSUME NEW c \in Clients, GiveUp(c) PROVE Alone'
  BY <1>14 DEF GiveUp, Ask, Goto, clientVars, Alone, Open
<1>15. ASSUME NEW c \in Clients, FreeSlots(c) PROVE Alone'
  BY <1>15 DEF FreeSlots, Return, Goto, clientVars, Alone, Open
<1>16. ASSUME NEW c \in Clients, CloseHandle(c) PROVE Alone'
  BY <1>16 DEF CloseHandle, Goto, clientVars, Alone, Open
<1>17. ASSUME NEW c \in Clients, Die(c) PROVE Alone'
  BY <1>17 DEF Die, Goto, clientVars, Alone, Open
<1>18. CASE Execute
  BY <1>18 DEF Execute, Working, clientVars, Alone, Open
<1>19. CASE Drain
  BY <1>19 DEF Drain, Working, clientVars, Alone, Open
<1>20. CASE PageFault
  BY <1>20 DEF PageFault, clientVars, Alone, Open
<1>21. CASE Halt
  BY <1>21 DEF Halt, clientVars, Alone, Open
<1> QED BY <1>1, <1>2, <1>3, <1>4, <1>5, <1>6, <1>7, <1>8, <1>9, <1>10, <1>11, <1>12, <1>13, <1>14, <1>15, <1>16, <1>17, <1>18, <1>19, <1>20, <1>21 DEF SessionNext, Call, Visit, Chip

LEMMA HeldStep ==
  ASSUME SessionInv, [SessionNext]_vars
  PROVE  Held'
<1> USE DEF SessionInv, QueueOK, DataOK
<1>1. CASE UNCHANGED vars
  BY <1>1 DEF vars, clientVars, Held, Open, Alone, Mine, NoSlots
<1>2. ASSUME NEW c \in Clients, LoadImage(c) PROVE Held'
  BY <1>2 DEF LoadImage, Ask, Goto, clientVars, Held, Open, Alone, Mine, NoSlots
<1>3. ASSUME NEW c \in Clients, InferRefused(c) PROVE Held'
  BY <1>3 DEF InferRefused, Answered, Return, Goto, Then, clientVars, Held, Open, Alone, Mine, NoSlots
<1>4. ASSUME NEW c \in Clients, Submit(c) PROVE Held'
  BY <1>4 DEF Submit, Goto, clientVars, Held, Open, Alone, Mine, NoSlots
<1>5. ASSUME NEW c \in Clients, AnswerOk(c) PROVE Held'
  BY <1>5 DEF AnswerOk, Answered, Return, Goto, Then, clientVars, Held, Open, Alone, Mine, NoSlots
<1>6. ASSUME NEW c \in Clients, AnswerError(c) PROVE Held'
  BY <1>6 DEF AnswerError, Answered, Return, Goto, Then, clientVars, Held, Open, Alone, Mine, NoSlots
<1>7. ASSUME NEW c \in Clients, AnswerTimeout(c) PROVE Held'
  BY <1>7 DEF AnswerTimeout, Answered, Return, Goto, Then, clientVars, Held, Open, Alone, Mine, NoSlots
<1>8. ASSUME NEW c \in Clients, Show(c) PROVE Held'
  BY <1>8 DEF Show, Goto, clientVars, Held, Open, Alone, Mine, NoSlots
<1>9. ASSUME NEW c \in Clients, OpenDevice(c) PROVE Held'
  BY <1>9 DEF OpenDevice, Goto, clientVars, Held, Open, Alone, Mine, NoSlots
<1>10. ASSUME NEW c \in Clients, AskAlloc(c) PROVE Held'
  BY <1>10 DEF AskAlloc, Ask, Goto, clientVars, Held, Open, Alone, Mine, NoSlots
<1>11. ASSUME NEW c \in Clients, AllocGranted(c) PROVE Held'
  BY <1>11 DEF AllocGranted, Return, Goto, clientVars, Held, Open, Alone, Mine, NoSlots
<1>12. ASSUME NEW c \in Clients, AllocFails(c) PROVE Held'
  BY <1>12 DEF AllocFails, Goto, clientVars, Held, Open, Alone, Mine, NoSlots
<1>13. ASSUME NEW c \in Clients, Patch(c) PROVE Held'
  BY <1>13 DEF Patch, Goto, clientVars, Held, Open, Alone, Mine, NoSlots
<1>14. ASSUME NEW c \in Clients, GiveUp(c) PROVE Held'
  BY <1>14 DEF GiveUp, Ask, Goto, clientVars, Held, Open, Alone, Mine, NoSlots
<1>15. ASSUME NEW c \in Clients, FreeSlots(c) PROVE Held'
  BY <1>15 DEF FreeSlots, Return, Goto, clientVars, Held, Open, Alone, Mine, NoSlots
<1>16. ASSUME NEW c \in Clients, CloseHandle(c) PROVE Held'
  BY <1>16 DEF CloseHandle, Goto, clientVars, Held, Open, Alone, Mine, NoSlots
<1>17. ASSUME NEW c \in Clients, Die(c) PROVE Held'
  BY <1>17 DEF Die, Goto, clientVars, Held, Open, Alone, Mine, NoSlots
<1>18. CASE Execute
  BY <1>18 DEF Execute, Working, clientVars, Held, Open, Alone, Mine, NoSlots
<1>19. CASE Drain
  BY <1>19 DEF Drain, Working, clientVars, Held, Open, Alone, Mine, NoSlots
<1>20. CASE PageFault
  BY <1>20 DEF PageFault, clientVars, Held, Open, Alone, Mine, NoSlots
<1>21. CASE Halt
  BY <1>21 DEF Halt, clientVars, Held, Open, Alone, Mine, NoSlots
<1> QED BY <1>1, <1>2, <1>3, <1>4, <1>5, <1>6, <1>7, <1>8, <1>9, <1>10, <1>11, <1>12, <1>13, <1>14, <1>15, <1>16, <1>17, <1>18, <1>19, <1>20, <1>21 DEF SessionNext, Call, Visit, Chip

LEMMA SlotsAreMineStep ==
  ASSUME SessionInv, [SessionNext]_vars
  PROVE  SlotsAreMine'
<1> USE DEF SessionInv, QueueOK, DataOK
<1>1. CASE UNCHANGED vars
  BY <1>1 DEF vars, clientVars, SlotsAreMine, Mine, Holding, Alone, Open, NoSlots
<1>2. ASSUME NEW c \in Clients, LoadImage(c) PROVE SlotsAreMine'
  BY <1>2 DEF LoadImage, Ask, Goto, clientVars, SlotsAreMine, Mine, Holding, Alone, Open, NoSlots
<1>3. ASSUME NEW c \in Clients, InferRefused(c) PROVE SlotsAreMine'
  BY <1>3 DEF InferRefused, Answered, Return, Goto, Then, clientVars, SlotsAreMine, Mine, Holding, Alone, Open, NoSlots
<1>4. ASSUME NEW c \in Clients, Submit(c) PROVE SlotsAreMine'
  BY <1>4 DEF Submit, Goto, clientVars, SlotsAreMine, Mine, Holding, Alone, Open, NoSlots
<1>5. ASSUME NEW c \in Clients, AnswerOk(c) PROVE SlotsAreMine'
  BY <1>5 DEF AnswerOk, Answered, Return, Goto, Then, clientVars, SlotsAreMine, Mine, Holding, Alone, Open, NoSlots
<1>6. ASSUME NEW c \in Clients, AnswerError(c) PROVE SlotsAreMine'
  BY <1>6 DEF AnswerError, Answered, Return, Goto, Then, clientVars, SlotsAreMine, Mine, Holding, Alone, Open, NoSlots
<1>7. ASSUME NEW c \in Clients, AnswerTimeout(c) PROVE SlotsAreMine'
  BY <1>7 DEF AnswerTimeout, Answered, Return, Goto, Then, clientVars, SlotsAreMine, Mine, Holding, Alone, Open, NoSlots
<1>8. ASSUME NEW c \in Clients, Show(c) PROVE SlotsAreMine'
  BY <1>8 DEF Show, Goto, clientVars, SlotsAreMine, Mine, Holding, Alone, Open, NoSlots
<1>9. ASSUME NEW c \in Clients, OpenDevice(c) PROVE SlotsAreMine'
  BY <1>9 DEF OpenDevice, Goto, clientVars, SlotsAreMine, Mine, Holding, Alone, Open, NoSlots
<1>10. ASSUME NEW c \in Clients, AskAlloc(c) PROVE SlotsAreMine'
  BY <1>10 DEF AskAlloc, Ask, Goto, clientVars, SlotsAreMine, Mine, Holding, Alone, Open, NoSlots
<1>11. ASSUME NEW c \in Clients, AllocGranted(c) PROVE SlotsAreMine'
  BY <1>11 DEF AllocGranted, Return, Goto, clientVars, SlotsAreMine, Mine, Holding, Alone, Open, NoSlots
<1>12. ASSUME NEW c \in Clients, AllocFails(c) PROVE SlotsAreMine'
  BY <1>12 DEF AllocFails, Goto, clientVars, SlotsAreMine, Mine, Holding, Alone, Open, NoSlots
<1>13. ASSUME NEW c \in Clients, Patch(c) PROVE SlotsAreMine'
  BY <1>13 DEF Patch, Goto, clientVars, SlotsAreMine, Mine, Holding, Alone, Open, NoSlots
<1>14. ASSUME NEW c \in Clients, GiveUp(c) PROVE SlotsAreMine'
  BY <1>14 DEF GiveUp, Ask, Goto, clientVars, SlotsAreMine, Mine, Holding, Alone, Open, NoSlots
<1>15. ASSUME NEW c \in Clients, FreeSlots(c) PROVE SlotsAreMine'
  BY <1>15 DEF FreeSlots, Return, Goto, clientVars, SlotsAreMine, Mine, Holding, Alone, Open, NoSlots
<1>16. ASSUME NEW c \in Clients, CloseHandle(c) PROVE SlotsAreMine'
  BY <1>16 DEF CloseHandle, Goto, clientVars, SlotsAreMine, Mine, Holding, Alone, Open, NoSlots
<1>17. ASSUME NEW c \in Clients, Die(c) PROVE SlotsAreMine'
  BY <1>17 DEF Die, Goto, clientVars, SlotsAreMine, Mine, Holding, Alone, Open, NoSlots
<1>18. CASE Execute
  BY <1>18 DEF Execute, Working, clientVars, SlotsAreMine, Mine, Holding, Alone, Open, NoSlots
<1>19. CASE Drain
  BY <1>19 DEF Drain, Working, clientVars, SlotsAreMine, Mine, Holding, Alone, Open, NoSlots
<1>20. CASE PageFault
  BY <1>20 DEF PageFault, clientVars, SlotsAreMine, Mine, Holding, Alone, Open, NoSlots
<1>21. CASE Halt
  BY <1>21 DEF Halt, clientVars, SlotsAreMine, Mine, Holding, Alone, Open, NoSlots
<1> QED BY <1>1, <1>2, <1>3, <1>4, <1>5, <1>6, <1>7, <1>8, <1>9, <1>10, <1>11, <1>12, <1>13, <1>14, <1>15, <1>16, <1>17, <1>18, <1>19, <1>20, <1>21 DEF SessionNext, Call, Visit, Chip

LEMMA PatchedStep ==
  ASSUME SessionInv, [SessionNext]_vars
  PROVE  Patched'
<1> USE DEF SessionInv, QueueOK, DataOK
<1>1. CASE UNCHANGED vars
  BY <1>1 DEF vars, clientVars, Patched, SlotsAreMine, Alone, Open, Holding, Mine, NoSlots
<1>2. ASSUME NEW c \in Clients, LoadImage(c) PROVE Patched'
  BY <1>2 DEF LoadImage, Ask, Goto, clientVars, Patched, SlotsAreMine, Alone, Open, Holding, Mine, NoSlots
<1>3. ASSUME NEW c \in Clients, InferRefused(c) PROVE Patched'
  BY <1>3 DEF InferRefused, Answered, Return, Goto, Then, clientVars, Patched, SlotsAreMine, Alone, Open, Holding, Mine, NoSlots
<1>4. ASSUME NEW c \in Clients, Submit(c) PROVE Patched'
  BY <1>4 DEF Submit, Goto, clientVars, Patched, SlotsAreMine, Alone, Open, Holding, Mine, NoSlots
<1>5. ASSUME NEW c \in Clients, AnswerOk(c) PROVE Patched'
  BY <1>5 DEF AnswerOk, Answered, Return, Goto, Then, clientVars, Patched, SlotsAreMine, Alone, Open, Holding, Mine, NoSlots
<1>6. ASSUME NEW c \in Clients, AnswerError(c) PROVE Patched'
  BY <1>6 DEF AnswerError, Answered, Return, Goto, Then, clientVars, Patched, SlotsAreMine, Alone, Open, Holding, Mine, NoSlots
<1>7. ASSUME NEW c \in Clients, AnswerTimeout(c) PROVE Patched'
  BY <1>7 DEF AnswerTimeout, Answered, Return, Goto, Then, clientVars, Patched, SlotsAreMine, Alone, Open, Holding, Mine, NoSlots
<1>8. ASSUME NEW c \in Clients, Show(c) PROVE Patched'
  BY <1>8 DEF Show, Goto, clientVars, Patched, SlotsAreMine, Alone, Open, Holding, Mine, NoSlots
<1>9. ASSUME NEW c \in Clients, OpenDevice(c) PROVE Patched'
  BY <1>9 DEF OpenDevice, Goto, clientVars, Patched, SlotsAreMine, Alone, Open, Holding, Mine, NoSlots
<1>10. ASSUME NEW c \in Clients, AskAlloc(c) PROVE Patched'
  BY <1>10 DEF AskAlloc, Ask, Goto, clientVars, Patched, SlotsAreMine, Alone, Open, Holding, Mine, NoSlots
<1>11. ASSUME NEW c \in Clients, AllocGranted(c) PROVE Patched'
  BY <1>11 DEF AllocGranted, Return, Goto, clientVars, Patched, SlotsAreMine, Alone, Open, Holding, Mine, NoSlots
<1>12. ASSUME NEW c \in Clients, AllocFails(c) PROVE Patched'
  <2>1. Open(c) /\ pc'[c] = "free" /\ shared' = shared
        /\ \A d \in Clients \ {c} : pc'[d] = pc[d]
    BY <1>12 DEF AllocFails, Return, Goto, Open
  <2>2. ~shared => \A d \in Clients \ {c} : pc[d] = "off"
    BY <2>1 DEF Alone, Open
  <2> QED BY <2>1, <2>2 DEF Patched
<1>13. ASSUME NEW c \in Clients, Patch(c) PROVE Patched'
  BY <1>13 DEF Patch, Goto, clientVars, Patched, SlotsAreMine, Alone, Open, Holding, Mine, NoSlots
<1>14. ASSUME NEW c \in Clients, GiveUp(c) PROVE Patched'
  BY <1>14 DEF GiveUp, Ask, Goto, clientVars, Patched, SlotsAreMine, Alone, Open, Holding, Mine, NoSlots
<1>15. ASSUME NEW c \in Clients, FreeSlots(c) PROVE Patched'
  <2>1. Open(c) /\ pc'[c] = "close" /\ shared' = shared
        /\ \A d \in Clients \ {c} : pc'[d] = pc[d]
    BY <1>15 DEF FreeSlots, Return, Goto, Open
  <2>2. ~shared => \A d \in Clients \ {c} : pc[d] = "off"
    BY <2>1 DEF Alone, Open
  <2> QED BY <2>1, <2>2 DEF Patched
<1>16. ASSUME NEW c \in Clients, CloseHandle(c) PROVE Patched'
  <2>1. Open(c) /\ pc'[c] = "off" /\ shared' = shared
        /\ \A d \in Clients \ {c} : pc'[d] = pc[d]
    BY <1>16 DEF CloseHandle, Goto, Open
  <2>2. ~shared => \A d \in Clients \ {c} : pc[d] = "off"
    BY <2>1 DEF Alone, Open
  <2> QED BY <2>1, <2>2 DEF Patched
<1>17. ASSUME NEW c \in Clients, Die(c) PROVE Patched'
  BY <1>17 DEF Die, Goto, clientVars, Patched, SlotsAreMine, Alone, Open, Holding, Mine, NoSlots
<1>18. CASE Execute
  BY <1>18 DEF Execute, Working, clientVars, Patched, SlotsAreMine, Alone, Open, Holding, Mine, NoSlots
<1>19. CASE Drain
  BY <1>19 DEF Drain, Working, clientVars, Patched, SlotsAreMine, Alone, Open, Holding, Mine, NoSlots
<1>20. CASE PageFault
  BY <1>20 DEF PageFault, clientVars, Patched, SlotsAreMine, Alone, Open, Holding, Mine, NoSlots
<1>21. CASE Halt
  BY <1>21 DEF Halt, clientVars, Patched, SlotsAreMine, Alone, Open, Holding, Mine, NoSlots
<1> QED BY <1>1, <1>2, <1>3, <1>4, <1>5, <1>6, <1>7, <1>8, <1>9, <1>10, <1>11, <1>12, <1>13, <1>14, <1>15, <1>16, <1>17, <1>18, <1>19, <1>20, <1>21 DEF SessionNext, Call, Visit, Chip

LEMMA CalmStep ==
  ASSUME SessionInv, [SessionNext]_vars
  PROVE  Calm'
<1> USE DEF SessionInv, QueueOK, DataOK
<1>1. CASE UNCHANGED vars
  BY <1>1 DEF vars, clientVars, Calm, Undisturbed, OneJob, OwnOutputs, Faithful, Own, Blank, NoSlots, Open, Alone, SlotsAreMine, Mine, Holding, Patched
<1>2. ASSUME NEW c \in Clients, LoadImage(c) PROVE Calm'
  BY <1>2 DEF LoadImage, Ask, Goto, clientVars, Calm, Undisturbed, OneJob, OwnOutputs, Faithful, Own, Blank, NoSlots, Open, Alone, SlotsAreMine, Mine, Holding, Patched
<1>3. ASSUME NEW c \in Clients, InferRefused(c) PROVE Calm'
  BY <1>3 DEF InferRefused, Answered, Return, Goto, Then, clientVars, Calm, Undisturbed, OneJob, OwnOutputs, Faithful, Own, Blank, NoSlots, Open, Alone, SlotsAreMine, Mine, Holding, Patched
<1>4. ASSUME NEW c \in Clients, Submit(c) PROVE Calm'
  BY <1>4 DEF Submit, Goto, clientVars, Calm, Undisturbed, OneJob, OwnOutputs, Faithful, Own, Blank, NoSlots, Open, Alone, SlotsAreMine, Mine, Holding, Patched
<1>5. ASSUME NEW c \in Clients, AnswerOk(c) PROVE Calm'
  BY <1>5 DEF AnswerOk, Answered, Return, Goto, Then, clientVars, Calm, Undisturbed, OneJob, OwnOutputs, Faithful, Own, Blank, NoSlots, Open, Alone, SlotsAreMine, Mine, Holding, Patched
<1>6. ASSUME NEW c \in Clients, AnswerError(c) PROVE Calm'
  <2>1. /\ jobs' \in Seq(Job) /\ Len(jobs') = Len(jobs)
        /\ jobs # <<>> /\ jobs[1].client = c =>
             jobs'[1] = [jobs[1] EXCEPT !.abandoned = TRUE]
    <3>1. jobs # <<>> => 1 \in 1 .. Len(jobs)
      OBVIOUS
    <3>2. Abandon(c)
      BY <1>6 DEF AnswerError
    <3> QED BY <3>1, <3>2, AbandonType
  <2>2. /\ Undisturbed(c)' <=> Undisturbed(c)
        /\ clean[c] => Undisturbed(c) /\ OneJob(c) /\ OwnOutputs(c)
        /\ \A d \in Clients : clean'[d] => clean[d] /\ d = c
    BY <1>6 DEF AnswerError, Answered, Return, Goto, Then, Calm, Undisturbed, Open
  <2>3. clean[c] => OneJob(c)'
    <3> SUFFICES ASSUME clean[c] PROVE OneJob(c)'
      OBVIOUS
    <3>1. Len(jobs') <= 1 /\ (jobs' # <<>> => jobs # <<>>)
      BY <2>1, <2>2 DEF OneJob
    <3>2. jobs # <<>> => jobs[1] \in Job /\ jobs[1].client = c
      BY <2>2, JobsType DEF OneJob
    <3>3. jobs # <<>> => /\ jobs'[1].client = c /\ jobs'[1].abandoned
                         /\ jobs'[1].read = jobs[1].read /\ jobs'[1].result = jobs[1].result
      BY <2>1, <3>2 DEF Job
    <3>4. pc'[c] # "infer" /\ Own(c)' = Own(c)
      BY <1>6 DEF AnswerError, Answered, Return, Goto, Then, Own
    <3> QED BY <2>2, <3>1, <3>3, <3>4 DEF OneJob
  <2>4. clean[c] => OwnOutputs(c)'
    BY <1>6, <2>2 DEF AnswerError, Answered, Return, Goto, Then, OwnOutputs, Faithful, Own
  <2> QED BY <2>2, <2>3, <2>4 DEF Calm
<1>7. ASSUME NEW c \in Clients, AnswerTimeout(c) PROVE Calm'
  <2>1. /\ jobs' \in Seq(Job) /\ Len(jobs') = Len(jobs)
        /\ jobs # <<>> /\ jobs[1].client = c =>
             jobs'[1] = [jobs[1] EXCEPT !.abandoned = TRUE]
    <3>1. jobs # <<>> => 1 \in 1 .. Len(jobs)
      OBVIOUS
    <3>2. Abandon(c)
      BY <1>7 DEF AnswerTimeout
    <3> QED BY <3>1, <3>2, AbandonType
  <2>2. /\ Undisturbed(c)' <=> Undisturbed(c)
        /\ clean[c] => Undisturbed(c) /\ OneJob(c) /\ OwnOutputs(c)
        /\ \A d \in Clients : clean'[d] => clean[d] /\ d = c
    BY <1>7 DEF AnswerTimeout, Answered, Return, Goto, Then, Calm, Undisturbed, Open
  <2>3. clean[c] => OneJob(c)'
    <3> SUFFICES ASSUME clean[c] PROVE OneJob(c)'
      OBVIOUS
    <3>1. Len(jobs') <= 1 /\ (jobs' # <<>> => jobs # <<>>)
      BY <2>1, <2>2 DEF OneJob
    <3>2. jobs # <<>> => jobs[1] \in Job /\ jobs[1].client = c
      BY <2>2, JobsType DEF OneJob
    <3>3. jobs # <<>> => /\ jobs'[1].client = c /\ jobs'[1].abandoned
                         /\ jobs'[1].read = jobs[1].read /\ jobs'[1].result = jobs[1].result
      BY <2>1, <3>2 DEF Job
    <3>4. pc'[c] # "infer" /\ Own(c)' = Own(c)
      BY <1>7 DEF AnswerTimeout, Answered, Return, Goto, Then, Own
    <3> QED BY <2>2, <3>1, <3>3, <3>4 DEF OneJob
  <2>4. clean[c] => OwnOutputs(c)'
    BY <1>7, <2>2 DEF AnswerTimeout, Answered, Return, Goto, Then, OwnOutputs, Faithful, Own
  <2> QED BY <2>2, <2>3, <2>4 DEF Calm
<1>8. ASSUME NEW c \in Clients, Show(c) PROVE Calm'
  BY <1>8 DEF Show, Goto, clientVars, Calm, Undisturbed, OneJob, OwnOutputs, Faithful, Own, Blank, NoSlots, Open, Alone, SlotsAreMine, Mine, Holding, Patched
<1>9. ASSUME NEW c \in Clients, OpenDevice(c) PROVE Calm'
  BY <1>9 DEF OpenDevice, Goto, clientVars, Calm, Undisturbed, OneJob, OwnOutputs, Faithful, Own, Blank, NoSlots, Open, Alone, SlotsAreMine, Mine, Holding, Patched
<1>10. ASSUME NEW c \in Clients, AskAlloc(c) PROVE Calm'
  BY <1>10 DEF AskAlloc, Ask, Goto, clientVars, Calm, Undisturbed, OneJob, OwnOutputs, Faithful, Own, Blank, NoSlots, Open, Alone, SlotsAreMine, Mine, Holding, Patched
<1>11. ASSUME NEW c \in Clients, AllocGranted(c) PROVE Calm'
  BY <1>11 DEF AllocGranted, Return, Goto, clientVars, Calm, Undisturbed, OneJob, OwnOutputs, Faithful, Own, Blank, NoSlots, Open, Alone, SlotsAreMine, Mine, Holding, Patched
<1>12. ASSUME NEW c \in Clients, AllocFails(c) PROVE Calm'
  BY <1>12 DEF AllocFails, Goto, clientVars, Calm, Undisturbed, OneJob, OwnOutputs, Faithful, Own, Blank, NoSlots, Open, Alone, SlotsAreMine, Mine, Holding, Patched
<1>13. ASSUME NEW c \in Clients, Patch(c) PROVE Calm'
  BY <1>13 DEF Patch, Goto, clientVars, Calm, Undisturbed, OneJob, OwnOutputs, Faithful, Own, Blank, NoSlots, Open, Alone, SlotsAreMine, Mine, Holding, Patched
<1>14. ASSUME NEW c \in Clients, GiveUp(c) PROVE Calm'
  BY <1>14 DEF GiveUp, Ask, Goto, clientVars, Calm, Undisturbed, OneJob, OwnOutputs, Faithful, Own, Blank, NoSlots, Open, Alone, SlotsAreMine, Mine, Holding, Patched
<1>15. ASSUME NEW c \in Clients, FreeSlots(c) PROVE Calm'
  BY <1>15 DEF FreeSlots, Return, Goto, clientVars, Calm, Undisturbed, OneJob, OwnOutputs, Faithful, Own, Blank, NoSlots, Open, Alone, SlotsAreMine, Mine, Holding, Patched
<1>16. ASSUME NEW c \in Clients, CloseHandle(c) PROVE Calm'
  BY <1>16 DEF CloseHandle, Goto, clientVars, Calm, Undisturbed, OneJob, OwnOutputs, Faithful, Own, Blank, NoSlots, Open, Alone, SlotsAreMine, Mine, Holding, Patched
<1>17. ASSUME NEW c \in Clients, Die(c) PROVE Calm'
  BY <1>17 DEF Die, Goto, clientVars, Calm, Undisturbed, OneJob, OwnOutputs, Faithful, Own, Blank, NoSlots, Open, Alone, SlotsAreMine, Mine, Holding, Patched
<1>18. CASE Execute
  BY <1>18 DEF Execute, Working, clientVars, Calm, Undisturbed, OneJob, OwnOutputs, Faithful, Own, Blank, NoSlots, Open, Alone, SlotsAreMine, Mine, Holding, Patched
<1>19. CASE Drain
  BY <1>19 DEF Drain, Working, clientVars, Calm, Undisturbed, OneJob, OwnOutputs, Faithful, Own, Blank, NoSlots, Open, Alone, SlotsAreMine, Mine, Holding, Patched
<1>20. CASE PageFault
  BY <1>20 DEF PageFault, clientVars, Calm, Undisturbed, OneJob, OwnOutputs, Faithful, Own, Blank, NoSlots, Open, Alone, SlotsAreMine, Mine, Holding, Patched
<1>21. CASE Halt
  BY <1>21 DEF Halt, clientVars, Calm, Undisturbed, OneJob, OwnOutputs, Faithful, Own, Blank, NoSlots, Open, Alone, SlotsAreMine, Mine, Holding, Patched
<1> QED BY <1>1, <1>2, <1>3, <1>4, <1>5, <1>6, <1>7, <1>8, <1>9, <1>10, <1>11, <1>12, <1>13, <1>14, <1>15, <1>16, <1>17, <1>18, <1>19, <1>20, <1>21 DEF SessionNext, Call, Visit, Chip

(***************************************************************************)
(* Theorems.                                                               *)
(***************************************************************************)
LEMMA InitInv == SessionInit => SessionInv
<1> SUFFICES ASSUME SessionInit PROVE SessionInv
  OBVIOUS
<1>1. QueueOK /\ DataOK
  BY InitType
<1>2. Alone /\ Held /\ SlotsAreMine /\ Patched /\ Calm
  BY DEF SessionInit, Alone, Open, Held, NoSlots, SlotsAreMine, Holding, Patched, Calm
<1> QED BY <1>1, <1>2 DEF SessionInv

\* The invariant is inductive.
THEOREM SessionInvariant == SessionSpec => []SessionInv
<1>1. SessionInv /\ [SessionNext]_vars => SessionInv'
  <2> SUFFICES ASSUME SessionInv, [SessionNext]_vars PROVE SessionInv'
    OBVIOUS
  <2>1. QueueOK' /\ DataOK'
    BY QueueStep, DataStep DEF SessionInv
  <2> QED BY <2>1, AloneStep, HeldStep, SlotsAreMineStep, PatchedStep, CalmStep
          DEF SessionInv
<1> QED BY InitInv, <1>1, PTL DEF SessionSpec

\* Alone with the device, a client keeps its slots until its own FREE: no
\* failed call, time-out or HIB error takes them away.
THEOREM SlotsKept == SessionSpec => []SlotsAreMine
<1>1. SessionInv => SlotsAreMine
  BY DEF SessionInv
<1> QED BY SessionInvariant, <1>1, PTL

\* The detections of a call that found the chip quiet are those of its image.
THEOREM OwnDetections == SessionSpec => []ShownIsOwn
<1>1. SessionInv => ShownIsOwn
  BY DEF SessionInv, Calm, OwnOutputs, ShownIsOwn
<1> QED BY SessionInvariant, <1>1, PTL

\* The chip is never left working on memory that was freed, unless the caller
\* was told that its call failed.
THEOREM ChipStaysInSlots == SessionSpec => []ChipInLiveSlots
<1>1. SessionInv => ChipInLiveSlots
  <2> SUFFICES ASSUME SessionInv, NEW i \in 1 .. Len(jobs),
                      ~jobs[i].abandoned, clean[jobs[i].client]
               PROVE  Mine(jobs[i].client) /\ pc[jobs[i].client] = "wait"
    BY DEF ChipInLiveSlots
  <2>1. jobs \in Seq(Job) /\ Len(jobs) \in Nat /\ jobs # <<>>
    BY DEF SessionInv, DataOK
  <2>2. jobs[i].client \in Clients
    <3>1. jobs[i] \in Job
      BY <2>1
    <3> QED BY <3>1 DEF Job
  <2>3. Undisturbed(jobs[i].client) /\ OneJob(jobs[i].client)
    BY <2>2 DEF SessionInv, Calm
  <2>4. i = 1
    BY <2>1, <2>3 DEF OneJob
  <2>5. pc[jobs[i].client] = "wait" /\ ~shared
    BY <2>1, <2>3, <2>4 DEF OneJob, Undisturbed
  <2> QED BY <2>2, <2>5 DEF SessionInv, SlotsAreMine, Holding
<1> QED BY SessionInvariant, <1>1, PTL

\* When the last handle is closed the slots are gone and nobody waits.
THEOREM NothingLeft == SessionSpec => []AllReleased
<1>1. SessionInv => AllReleased
  <2> SUFFICES ASSUME SessionInv, \A c \in Clients : ~Open(c)
               PROVE  ~slots.live /\ queue = <<>>
    BY DEF AllReleased
  <2>1. ~slots.live
    BY DEF SessionInv, Held, DataOK
  <2>2. queue \in Seq(Clients) /\ Queued(queue) = {}
    BY DEF SessionInv, QueueOK, Open, Asking, Queued
  <2>3. queue = <<>>
    <3>1. Len(queue) \in Nat /\ (Len(queue) # 0 => 1 \in 1 .. Len(queue))
      BY <2>2
    <3>2. Len(queue) = 0
      BY <2>2, <3>1 DEF Queued
    <3> QED BY <2>2, <3>2
  <2> QED BY <2>1, <2>3
<1> QED BY SessionInvariant, <1>1, PTL
=============================================================================

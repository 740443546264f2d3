--------------------------- MODULE InferService ---------------------------
(***************************************************************************)
(* What IOCTL_INFER_NEW promises its caller, with no interrupts, bits or   *)
(* engines in sight: calls are served one at a time, and a call answered   *)
(* with success is answered after its own results are in the output slots. *)
(* After a fatal error the device is broken: it may still write results,   *)
(* of whatever call, but no call is answered with success again.           *)
(***************************************************************************)
EXTENDS Naturals

CONSTANT MaxRequests

VARIABLES
  calls,    \* number of calls made so far
  serving,  \* a call is being served
  results,  \* the call whose results the output slots hold
  broken,   \* a fatal error has occurred
  answer    \* how each call was answered

svars == <<calls, serving, results, broken, answer>>

ServiceInit ==
  /\ calls = 0 /\ serving = FALSE /\ results = 0 /\ broken = FALSE
  /\ answer = [r \in 1 .. MaxRequests |-> "none"]

Call ==
  /\ ~serving /\ calls < MaxRequests
  /\ calls' = calls + 1 /\ serving' = TRUE
  /\ UNCHANGED <<results, broken, answer>>

Compute ==
  /\ serving /\ results # calls
  /\ results' = calls
  /\ UNCHANGED <<calls, serving, broken, answer>>

AnswerOk ==
  /\ serving /\ ~broken /\ results = calls
  /\ answer' = [answer EXCEPT ![calls] = "ok"]
  /\ serving' = FALSE
  /\ UNCHANGED <<calls, results, broken>>

Break ==
  /\ ~broken /\ broken' = TRUE
  /\ UNCHANGED <<calls, serving, results, answer>>

AnswerError ==
  /\ serving /\ broken
  /\ answer' = [answer EXCEPT ![calls] = "hwError"]
  /\ serving' = FALSE
  /\ UNCHANGED <<calls, results, broken>>

StrayResults ==
  /\ broken
  /\ results' \in 0 .. calls
  /\ UNCHANGED <<calls, serving, broken, answer>>

ServiceNext == Call \/ Compute \/ AnswerOk \/ Break \/ AnswerError \/ StrayResults

ServiceSpec == ServiceInit /\ [][ServiceNext]_svars
=============================================================================

------------------------------- MODULE SsdNms -------------------------------
(***************************************************************************)
(* Non-maximum suppression over the scores of an SSD model.                *)
(*                                                                         *)
(* Every anchor has a box and one score per object class.  Scores at or    *)
(* above the threshold become candidates, the candidates are sorted, and a *)
(* pass over them keeps each one that no better candidate of its class     *)
(* suppressed.  std::sort does not keep the order of equal scores: any     *)
(* sorted order may be the one the pass sees.                              *)
(*                                                                         *)
(* The only thing the pass asks of two boxes is whether their IoU exceeds  *)
(* the threshold: a symmetric relation of anchors here.                    *)
(***************************************************************************)
EXTENDS Naturals, Sequences

CONSTANTS
  Anchors,        \* the anchors (num_anchors)
  Classes,        \* object classes, the background slot left out (num_classes)
  Scores,         \* dequantised scores
  ScoreThreshold, \* score_threshold
  Limits,         \* values of max_detections
  OutMax,         \* room in the caller's buffer (max)
  MaxCandidates   \* bound on the candidates

ASSUME NmsAssumption ==
  /\ Scores \subseteq Nat /\ ScoreThreshold \in Nat
  /\ Limits \subseteq Nat /\ OutMax \in Nat
  /\ MaxCandidates \in Nat

VARIABLES
  limit,   \* max_detections
  pass,    \* where the pass is: "start", "scan" or "end"
  cand,    \* the sorted candidates
  overlap, \* the pairs of anchors whose boxes overlap too much
  sup,     \* sup: places of the suppressed candidates
  kept,    \* kept: places of the kept candidates, in order
  place    \* i: the place the pass is at

nmsVars == <<limit, pass, cand, overlap, sup, kept, place>>

Pairs      == {{x[1], x[2]} : x \in Anchors \X Anchors}
Candidates == [anchor : Anchors, class : Classes, score : Scores]
Places     == 1 .. Len(cand)

NmsTypeOK ==
  /\ limit \in Nat
  /\ pass \in {"start", "scan", "end"}
  /\ cand \in Seq(Candidates)
  /\ overlap \subseteq Pairs
  /\ sup \subseteq Places
  /\ kept \in Seq(Places)
  /\ place \in Nat \ {0}

NmsInit ==
  /\ limit = 0 /\ pass = "start" /\ cand = <<>> /\ overlap = {} /\ sup = {}
  /\ kept = <<>> /\ place = 1

Suppresses(a, b) == a.class = b.class /\ {a.anchor, b.anchor} \in overlap

\* Candidates are chosen and sorted by descending score.
Sorted(s) == \A a, b \in DOMAIN s : a < b => s[a].score >= s[b].score

Collect ==
  /\ pass = "start"
  /\ \E score \in [Anchors \X Classes -> Scores], pairs \in SUBSET Pairs :
       LET chosen == {[anchor |-> x[1], class |-> x[2], score |-> score[x]] :
                        x \in {x \in Anchors \X Classes : score[x] >= ScoreThreshold}} IN
       \E n \in 0 .. MaxCandidates : \E s \in [1 .. n -> chosen] :
         /\ \A c \in chosen : \E a \in DOMAIN s : s[a] = c
         /\ \A a, b \in DOMAIN s : s[a] = s[b] => a = b
         /\ Sorted(s)
         /\ cand' = s /\ overlap' = pairs
  /\ limit' \in Limits
  /\ pass' = "scan"
  /\ UNCHANGED <<sup, kept, place>>

\* A suppressed candidate is passed over.
Skip ==
  /\ pass = "scan" /\ place \in Places /\ place \in sup
  /\ place' = place + 1
  /\ UNCHANGED <<limit, pass, cand, overlap, sup, kept>>

\* Mutant: only the next candidate is compared.
MutKeep ==
  /\ pass = "scan" /\ place \in Places /\ place \notin sup
  /\ kept' = Append(kept, place)
  /\ IF Len(kept) + 1 >= limit
     THEN pass' = "end" /\ UNCHANGED <<sup, place>>
     ELSE /\ sup' = sup \cup {j \in Places : j = place + 1 /\ Suppresses(cand[place], cand[j])}
          /\ place' = place + 1 /\ UNCHANGED pass
  /\ UNCHANGED <<limit, cand, overlap>>

\* Any other one is kept; unless that fills the result, it suppresses the later
\* candidates of its class that overlap it.
Keep ==
  /\ pass = "scan" /\ place \in Places /\ place \notin sup
  /\ kept' = Append(kept, place)
  /\ IF Len(kept) + 1 >= limit
     THEN pass' = "end" /\ UNCHANGED <<sup, place>>
     ELSE /\ sup' = sup \cup {j \in Places : place < j /\ Suppresses(cand[place], cand[j])}
          /\ place' = place + 1 /\ UNCHANGED pass
  /\ UNCHANGED <<limit, cand, overlap>>

\* Mutant: the pass stops before the last candidate.
MutExhausted ==
  /\ pass = "scan" /\ place >= Len(cand)
  /\ pass' = "end"
  /\ UNCHANGED <<limit, cand, overlap, sup, kept, place>>

Exhausted ==
  /\ pass = "scan" /\ place > Len(cand)
  /\ pass' = "end"
  /\ UNCHANGED <<limit, cand, overlap, sup, kept, place>>

NmsNext == Collect \/ Skip \/ Keep \/ Exhausted

NmsSpec == NmsInit /\ [][NmsNext]_nmsVars

\* What the caller of the runtime receives: as many as it has room for.
Reported == SubSeq(kept, 1, IF OutMax < Len(kept) THEN OutMax ELSE Len(kept))

(***************************************************************************)
(* What the suppression must guarantee.                                    *)
(***************************************************************************)

\* The detections reported are the best kept ones, best first, never two of
\* one class that overlap too much - whatever order equal scores were sorted in.
KeptApart ==
  \A a, b \in DOMAIN Reported : a < b =>
    /\ cand[Reported[a]].score >= cand[Reported[b]].score
    /\ ~ Suppresses(cand[Reported[a]], cand[Reported[b]])
    /\ ~ Suppresses(cand[Reported[b]], cand[Reported[a]])

\* Nothing is lost: a candidate that is not kept overlaps a kept one of its
\* class that is at least as good, unless the limit cut the pass short; and the
\* limit is kept, but for a limit of zero, which still yields one detection
\* (the test follows the push, apex_ssd_postprocess.hpp:153).
NothingLost ==
  pass = "end" =>
    /\ Len(kept) <= limit \/ Len(kept) = 1
    /\ Len(kept) < limit =>
         \A j \in Places :
           \/ \E a \in DOMAIN kept : kept[a] = j
           \/ \E a \in DOMAIN kept :
                /\ kept[a] < j /\ cand[kept[a]].score >= cand[j].score
                /\ Suppresses(cand[kept[a]], cand[j])
=============================================================================

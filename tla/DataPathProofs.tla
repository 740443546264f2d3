--------------------------- MODULE DataPathProofs ---------------------------
(***************************************************************************)
(* What post-processing delivers, and that the sequential parts, explored  *)
(* side by side, keep their types.                                         *)
(*                                                                         *)
(* Relayout: for any layer whose layout is evenly spaced, the finished     *)
(* tensor is exactly the one the layout vectors describe.  The walk over   *)
(* rows, tiles and columns is tied to the coordinates by RelayoutInv:      *)
(* dst is where the next vector goes, and source where the chip has it.    *)
(*                                                                         *)
(* Suppression keeps a maximal set of best detections, for any number of   *)
(* anchors and classes and any overlap of their boxes.                     *)
(***************************************************************************)
EXTENDS MCDataPaths, PageWalkProofs, DeploymentProofs, SequenceTheorems,
        WellFoundedInduction, TLAPS

IsKept(j)        == \E a \in DOMAIN kept : kept[a] = j
KeptSuppresses(j) == \E a \in DOMAIN kept : kept[a] < j /\ Suppresses(cand[kept[a]], cand[j])

(***************************************************************************)
(* What the pass knows: the kept places ascend and lie behind it, every    *)
(* later candidate one of them suppresses is marked, no other is, and      *)
(* every place behind the pass is kept or marked.                          *)
(***************************************************************************)
KeptAscends ==
  \A a, b \in DOMAIN kept : a < b =>
    kept[a] < kept[b] /\ ~ Suppresses(cand[kept[a]], cand[kept[b]])

MarkedIsSuppressed == \A j \in sup : KeptSuppresses(j)

Scanning ==
  pass = "scan" =>
    /\ \A a \in DOMAIN kept : kept[a] < place
    /\ \A j \in Places : KeptSuppresses(j) => j \in sup
    /\ \A j \in Places : j < place => j \in sup \/ IsKept(j)
    /\ Len(kept) < limit \/ Len(kept) = 0

Ended ==
  pass = "end" =>
    /\ Len(kept) <= limit \/ Len(kept) = 1
    /\ Len(kept) < limit => \A j \in Places : j \in sup \/ IsKept(j)

Starting == pass = "start" => kept = <<>> /\ sup = {} /\ place = 1

NmsInv == /\ NmsTypeOK /\ Sorted(cand) /\ KeptAscends /\ MarkedIsSuppressed
          /\ Scanning /\ Ended /\ Starting

LEMMA SuppressesSymmetric ==
  ASSUME NEW a, NEW b
  PROVE  Suppresses(a, b) => Suppresses(b, a)
<1>1. {a.anchor, b.anchor} = {b.anchor, a.anchor}  OBVIOUS
<1> QED  BY <1>1 DEF Suppresses

LEMMA CandidatePlaces ==
  ASSUME NmsTypeOK
  PROVE  /\ Len(cand) \in Nat /\ DOMAIN cand = Places
         /\ Len(kept) \in Nat /\ DOMAIN kept = 1 .. Len(kept)
         /\ \A a \in DOMAIN kept : kept[a] \in Places /\ kept[a] \in Nat
         /\ \A j \in Places : j \in Nat /\ cand[j] \in Candidates
  BY DEF NmsTypeOK, Places

LEMMA NmsInitInv == NmsInit => NmsInv
  BY DEF NmsInit, NmsInv, NmsTypeOK, Places, Sorted, KeptAscends, MarkedIsSuppressed,
         Scanning, Ended, Starting, Pairs

LEMMA CollectInv ==
  ASSUME NmsInv, Collect
  PROVE  NmsInv'
<1> USE NmsAssumption DEF NmsInv
<1>1. kept = <<>> /\ sup = {} /\ pass = "start"  BY DEF Collect, Starting
<1>2. /\ pass' = "scan" /\ kept' = <<>> /\ sup' = {} /\ place' = place
      /\ limit' \in Nat /\ overlap' \subseteq Pairs
  BY <1>1 DEF Collect
<1>3. ASSUME NEW S, S \subseteq Candidates, NEW n \in Nat, NEW s \in [1 .. n -> S], Sorted(s),
             cand' = s
      PROVE  cand' \in Seq(Candidates) /\ Sorted(cand)'
  BY <1>3 DEF Sorted
<1>4. cand' \in Seq(Candidates) /\ Sorted(cand)'
  <2>1. PICK score \in [Anchors \X Classes -> Scores] :
          \E n \in 0 .. MaxCandidates :
            \E s \in [1 .. n -> {[anchor |-> x[1], class |-> x[2], score |-> score[x]] :
                        x \in {x \in Anchors \X Classes : score[x] >= ScoreThreshold}}] :
              Sorted(s) /\ cand' = s
    BY DEF Collect
  <2>2. {[anchor |-> x[1], class |-> x[2], score |-> score[x]] :
           x \in {x \in Anchors \X Classes : score[x] >= ScoreThreshold}} \subseteq Candidates
    BY DEF Candidates
  <2> QED  BY <1>3, <2>1, <2>2
<1>5. NmsTypeOK'
  BY <1>1, <1>2, <1>4 DEF NmsTypeOK, Places
<1>6. KeptAscends' /\ MarkedIsSuppressed' /\ Ended' /\ Starting'
  BY <1>2 DEF KeptAscends, MarkedIsSuppressed, Ended, Starting
<1>7. Scanning'
  <2>1. \A j \in Places' : ~ KeptSuppresses(j)'  BY <1>2 DEF KeptSuppresses
  <2>2. \A j \in Places' : ~ (j < place')
    BY <1>1, <1>2 DEF Starting, Places
  <2> QED  BY <1>2, <2>1, <2>2 DEF Scanning
<1> QED  BY <1>4, <1>5, <1>6, <1>7

LEMMA SkipInv ==
  ASSUME NmsInv, Skip
  PROVE  NmsInv'
<1> USE DEF NmsInv, Skip
<1>1. /\ limit' = limit /\ pass' = pass /\ cand' = cand /\ overlap' = overlap
      /\ sup' = sup /\ kept' = kept /\ place' = place + 1 /\ place \in Nat \ {0}
  BY DEF NmsTypeOK
<1>2. NmsTypeOK'  BY <1>1 DEF NmsTypeOK, Places
<1>3. /\ Sorted(cand)' /\ KeptAscends' /\ MarkedIsSuppressed' /\ Ended' /\ Starting'
  BY <1>1 DEF Sorted, KeptAscends, MarkedIsSuppressed, KeptSuppresses, Suppresses,
              Ended, Starting, IsKept
<1>4. Scanning'
  <2>1. Scanning /\ pass = "scan" /\ place \in sup  OBVIOUS
  <2>2. \A a \in DOMAIN kept : kept[a] < place + 1  BY <1>1, <2>1, CandidatePlaces DEF Scanning
  <2>3. ASSUME NEW j \in Places, j < place + 1 PROVE j \in sup \/ IsKept(j)
    <3>1. j < place \/ j = place  BY <1>1, <2>3, CandidatePlaces
    <3> QED  BY <2>1, <3>1 DEF Scanning
  <2> QED
    BY <1>1, <2>1, <2>2, <2>3 DEF Scanning, Places, KeptSuppresses, IsKept, Suppresses
<1> QED  BY <1>2, <1>3, <1>4

LEMMA KeepInv ==
  ASSUME NmsInv, Keep
  PROVE  NmsInv'
<1> USE DEF NmsInv
<1> DEFINE n == Len(kept)
           hit == {j \in Places : place < j /\ Suppresses(cand[place], cand[j])}
<1>1. /\ limit' = limit /\ cand' = cand /\ overlap' = overlap /\ limit \in Nat
      /\ kept' = Append(kept, place) /\ pass = "scan"
      /\ place \in Places /\ place \notin sup /\ place \in Nat
      /\ kept \in Seq(Places) /\ n \in Nat
  BY DEF NmsTypeOK, Keep, Places
<1>2. /\ DOMAIN kept = 1 .. n /\ DOMAIN kept' = 1 .. n + 1 /\ Len(kept') = n + 1
      /\ kept' \in Seq(Places)
      /\ \A a \in 1 .. n : kept'[a] = kept[a] /\ kept[a] \in Places /\ kept[a] < place
      /\ kept'[n + 1] = place
  BY <1>1 DEF Scanning
<1>3. \/ n + 1 >= limit /\ pass' = "end" /\ sup' = sup /\ place' = place
      \/ n + 1 < limit /\ pass' = "scan" /\ sup' = sup \cup hit /\ place' = place + 1
  BY <1>1 DEF Keep
<1>4. Places' = Places /\ (\A a, b : Suppresses(a, b)' <=> Suppresses(a, b))
  BY <1>1 DEF Places, Suppresses
<1> HIDE DEF n
<1>5. NmsTypeOK'
  <2>1. pass' \in {"start", "scan", "end"} /\ place' \in Nat \ {0}
    BY <1>1, <1>3 DEF NmsTypeOK
  <2>2. sup' \subseteq Places'  BY <1>3, <1>4 DEF NmsTypeOK
  <2>3. limit' \in Nat /\ cand' \in Seq(Candidates) /\ overlap' \subseteq Pairs
    BY <1>1 DEF NmsTypeOK
  <2> QED  BY <1>2, <1>4, <2>1, <2>2, <2>3 DEF NmsTypeOK
<1>6. Sorted(cand)'  BY <1>1 DEF Sorted
<1>7. KeptAscends'
  <2> SUFFICES ASSUME NEW a \in 1 .. n + 1, NEW b \in 1 .. n + 1, a < b
               PROVE  /\ kept'[a] < kept'[b]
                      /\ ~ Suppresses(cand[kept'[a]], cand[kept'[b]])
    BY <1>1, <1>2, <1>4 DEF KeptAscends
  <2>1. a \in 1 .. n  BY <1>1
  <2>2. CASE b = n + 1
    <3>1. kept'[a] = kept[a] /\ kept'[b] = place /\ kept[a] < place  BY <1>2, <2>1, <2>2
    <3>2. ~ KeptSuppresses(place)  BY <1>1 DEF Scanning
    <3> QED  BY <1>2, <2>1, <3>1, <3>2 DEF KeptSuppresses
  <2>3. CASE b # n + 1
    <3>1. b \in 1 .. n  BY <1>1, <2>3
    <3> QED  BY <1>2, <2>1, <3>1 DEF KeptAscends
  <2> QED  BY <2>2, <2>3
<1>8. ASSUME NEW j, KeptSuppresses(j) PROVE KeptSuppresses(j)'
  <2>1. PICK a \in 1 .. n : kept[a] < j /\ Suppresses(cand[kept[a]], cand[j])
    BY <1>2, <1>8 DEF KeptSuppresses
  <2>2. a \in 1 .. n + 1 /\ kept'[a] = kept[a]  BY <1>1, <1>2, <2>1
  <2> QED  BY <1>1, <1>2, <1>4, <2>1, <2>2 DEF KeptSuppresses
<1>9. ASSUME NEW j \in hit PROVE KeptSuppresses(j)'
  <2>1. n + 1 \in DOMAIN kept' /\ kept'[n + 1] = place  BY <1>1, <1>2
  <2> QED  BY <1>1, <1>4, <2>1 DEF KeptSuppresses
<1>10. MarkedIsSuppressed'  BY <1>3, <1>8, <1>9 DEF MarkedIsSuppressed
<1>11. ASSUME NEW j, IsKept(j) PROVE IsKept(j)'
  <2>1. PICK a \in 1 .. n : kept[a] = j  BY <1>2, <1>11 DEF IsKept
  <2>2. a \in 1 .. n + 1 /\ kept'[a] = j  BY <1>1, <1>2, <2>1
  <2> QED  BY <1>2, <2>2 DEF IsKept
<1>12. ASSUME NEW j, j = place PROVE IsKept(j)'
  <2>1. n + 1 \in DOMAIN kept' /\ kept'[n + 1] = place  BY <1>1, <1>2
  <2> QED  BY <1>12, <2>1 DEF IsKept
<1>13. Scanning'
  <2> SUFFICES ASSUME pass' = "scan" PROVE Scanning'  BY DEF Scanning
  <2>1. n + 1 < limit /\ sup' = sup \cup hit /\ place' = place + 1  BY <1>3
  <2>2. \A a \in DOMAIN kept' : kept'[a] < place'
    <3> TAKE a \in DOMAIN kept'
    <3>1. a \in 1 .. n \/ a = n + 1  BY <1>1, <1>2
    <3> QED  BY <1>1, <1>2, <2>1, <3>1 DEF Places
  <2>3. ASSUME NEW j \in Places, KeptSuppresses(j)' PROVE j \in sup'
    <3>1. PICK a \in 1 .. n + 1 : kept'[a] < j /\ Suppresses(cand[kept'[a]], cand[j])
      BY <1>1, <1>2, <1>4, <2>3 DEF KeptSuppresses
    <3>2. CASE a = n + 1  BY <1>2, <2>1, <3>1, <3>2
    <3>3. CASE a # n + 1
      <4>1. a \in 1 .. n  BY <1>1, <3>3
      <4>2. KeptSuppresses(j)  BY <1>2, <3>1, <4>1 DEF KeptSuppresses
      <4> QED  BY <1>1, <2>1, <4>2 DEF Scanning
    <3> QED  BY <3>2, <3>3
  <2>4. ASSUME NEW j \in Places, j < place' PROVE j \in sup' \/ IsKept(j)'
    <3>1. j < place \/ j = place  BY <1>1, <2>1, <2>4 DEF Places
    <3> QED  BY <1>1, <1>11, <1>12, <2>1, <3>1 DEF Scanning
  <2> QED  BY <1>1, <1>2, <1>4, <2>1, <2>2, <2>3, <2>4 DEF Scanning
<1>14. Ended'
  <2> SUFFICES ASSUME pass' = "end" PROVE Ended'  BY DEF Ended
  <2>1. n + 1 >= limit  BY <1>3
  <2>2. n < limit \/ n = 0  BY <1>1 DEF Scanning, n
  <2> QED  BY <1>1, <1>2, <2>1, <2>2 DEF Ended
<1>15. Starting'  BY <1>3 DEF Starting
<1> QED  BY <1>5, <1>6, <1>7, <1>10, <1>13, <1>14, <1>15

LEMMA ExhaustedInv ==
  ASSUME NmsInv, Exhausted
  PROVE  NmsInv'
<1> USE DEF NmsInv, Exhausted
<1>1. /\ limit' = limit /\ cand' = cand /\ overlap' = overlap /\ sup' = sup
      /\ kept' = kept /\ place' = place /\ pass' = "end" /\ pass = "scan"
      /\ place > Len(cand)
  OBVIOUS
<1>2. NmsTypeOK'  BY <1>1 DEF NmsTypeOK, Places
<1>3. Sorted(cand)' /\ KeptAscends' /\ MarkedIsSuppressed' /\ Starting' /\ Scanning'
  BY <1>1 DEF Sorted, KeptAscends, MarkedIsSuppressed, KeptSuppresses, Suppresses,
              Starting, Scanning
<1>4. Ended'
  <2>1. \A j \in Places : j < place  BY <1>1, CandidatePlaces DEF Places, NmsTypeOK
  <2>2. \A j \in Places : j \in sup \/ IsKept(j)  BY <1>1, <2>1 DEF Scanning
  <2>3. Len(kept) <= limit \/ Len(kept) = 1 \/ Len(kept) = 0
    BY <1>1, CandidatePlaces DEF Scanning, NmsTypeOK
  <2>4. Len(kept) <= limit \/ Len(kept) = 1  BY <2>3 DEF NmsTypeOK
  <2> QED  BY <1>1, <2>2, <2>4 DEF Ended, Places, IsKept
<1> QED  BY <1>2, <1>3, <1>4

LEMMA NmsNextInv == NmsInv /\ [NmsNext]_nmsVars => NmsInv'
<1> SUFFICES ASSUME NmsInv, [NmsNext]_nmsVars PROVE NmsInv'  OBVIOUS
<1>1. CASE Collect  BY <1>1, CollectInv
<1>2. CASE Skip  BY <1>2, SkipInv
<1>3. CASE Keep  BY <1>3, KeepInv
<1>4. CASE Exhausted  BY <1>4, ExhaustedInv
<1>5. CASE UNCHANGED nmsVars
  BY <1>5 DEF nmsVars, NmsInv, NmsTypeOK, Places, Sorted, KeptAscends, MarkedIsSuppressed,
              KeptSuppresses, Suppresses, Scanning, Ended, Starting, IsKept
<1> QED  BY <1>1, <1>2, <1>3, <1>4, <1>5 DEF NmsNext

\* In every reachable state of the pass, for any number of anchors.
THEOREM NmsInvariant == NmsSpec => []NmsInv
  BY NmsInitInv, NmsNextInv, PTL DEF NmsSpec

\* No two detections of one class that overlap too much are reported, and the
\* scores descend (NonMaxSuppression and the copy in npu_runtime_infer_image).
THEOREM DetectionsApart == NmsSpec => []KeptApart
<1>1. NmsInv => KeptApart
  <2> SUFFICES ASSUME NmsInv, NEW a \in DOMAIN Reported, NEW b \in DOMAIN Reported, a < b
               PROVE  /\ cand[Reported[a]].score >= cand[Reported[b]].score
                      /\ ~ Suppresses(cand[Reported[a]], cand[Reported[b]])
                      /\ ~ Suppresses(cand[Reported[b]], cand[Reported[a]])
    BY DEF KeptApart
  <2> USE DEF NmsInv
  <2>1. kept \in Seq(Places) /\ OutMax \in Nat  BY NmsAssumption DEF NmsTypeOK
  <2> DEFINE m == IF OutMax < Len(kept) THEN OutMax ELSE Len(kept)
  <2>2. m \in 0 .. Len(kept)  BY <2>1
  <2>3. Reported = SubSeq(kept, 1, m)  BY DEF Reported
  <2> HIDE DEF m
  <2>4. DOMAIN Reported = 1 .. m /\ \A i \in 1 .. m : Reported[i] = kept[i]
    BY <2>1, <2>2, <2>3
  <2>5. /\ a \in DOMAIN kept /\ b \in DOMAIN kept
        /\ Reported[a] = kept[a] /\ Reported[b] = kept[b]
    BY <2>1, <2>2, <2>4
  <2>6. kept[a] < kept[b] /\ ~ Suppresses(cand[kept[a]], cand[kept[b]])
    BY <2>5 DEF KeptAscends
  <2>7. kept[a] \in DOMAIN cand /\ kept[b] \in DOMAIN cand  BY <2>5, CandidatePlaces
  <2> QED  BY <2>5, <2>6, <2>7, SuppressesSymmetric DEF Sorted
<1> QED  BY <1>1, NmsInvariant, PTL

\* Every candidate is kept or suppressed by a better kept one, up to the limit.
THEOREM DetectionsComplete == NmsSpec => []NothingLost
<1>1. NmsInv => NothingLost
  <2> SUFFICES ASSUME NmsInv, pass = "end"
               PROVE  /\ Len(kept) <= limit \/ Len(kept) = 1
                      /\ Len(kept) < limit =>
                           \A j \in Places :
                             \/ \E a \in DOMAIN kept : kept[a] = j
                             \/ \E a \in DOMAIN kept :
                                  /\ kept[a] < j /\ cand[kept[a]].score >= cand[j].score
                                  /\ Suppresses(cand[kept[a]], cand[j])
    BY DEF NothingLost
  <2> USE DEF NmsInv
  <2>1. ASSUME Len(kept) < limit, NEW j \in Places, j \in sup
        PROVE  \E a \in DOMAIN kept :
                 /\ kept[a] < j /\ cand[kept[a]].score >= cand[j].score
                 /\ Suppresses(cand[kept[a]], cand[j])
    <3>1. PICK a \in DOMAIN kept : kept[a] < j /\ Suppresses(cand[kept[a]], cand[j])
      BY <2>1 DEF MarkedIsSuppressed, KeptSuppresses
    <3>2. kept[a] \in DOMAIN cand /\ j \in DOMAIN cand  BY <2>1, CandidatePlaces
    <3> QED  BY <3>1, <3>2 DEF Sorted
  <2> QED  BY <2>1 DEF Ended, IsKept
<1> QED  BY <1>1, NmsInvariant, PTL

-----------------------------------------------------------------------------

(***************************************************************************)
(* Relayout.  A vector is the z_dim elements of one (row, column).         *)
(***************************************************************************)
\* A vector of the tensor, counted row by row.
Pos(l, row, x) == row * l.x_dim + x

\* Where the chip has the vector of (row, x).
ChipVector(l, row, x) == IF l.has_layout THEN BufIdx(l, row, x) * Size(l)
                         ELSE Pos(l, row, x) * ZBytes(l)

CopiedTo(row, x) == \/ stage \in {"sign", "done"}
                    \/ row < y \/ (row = y /\ x < tileX + lx)

\* The walk is inside the layer, and dst counts the vectors copied.
TileWalk ==
  stage = "copy" =>
    /\ layer.has_layout /\ y < layer.y_dim /\ tileX < layer.x_dim
    /\ lx <= TileSize(layer, tileX)
    /\ dst = Pos(layer, y, tileX + lx) * ZBytes(layer)
    /\ EvenlySpaced(layer) /\ lx < TileSize(layer, tileX) =>
         source = BufIdx(layer, y, tileX + lx) * Size(layer)

\* What has been copied is where it belongs.
VectorsExact ==
  stage # "idle" /\ (layer.has_layout => EvenlySpaced(layer)) =>
    \A row \in 0 .. layer.y_dim - 1, x \in 0 .. layer.x_dim - 1,
       c \in 0 .. ZBytes(layer) - 1 :
      CopiedTo(row, x) =>
        out[Pos(layer, row, x) * ZBytes(layer) + c].from = ChipVector(layer, row, x) + c

\* The top bytes before dst are flipped, and no other.
FlipsExact ==
  /\ stage \in {"sign", "done"} => dst % Size(layer) = 0
  /\ stage # "idle" =>
       \A b \in 0 .. ActualSizeBytes(layer) - 1 :
         out[b].flipped <=> /\ stage \in {"sign", "done"} /\ b < dst
                            /\ b % Size(layer) = Size(layer) - 1
  /\ stage = "sign" /\ ~ IsSignedDataType(layer.data_type) => dst = 0
  /\ stage = "done" => IF IsSignedDataType(layer.data_type)
                       THEN ActualSizeBytes(layer) <= dst ELSE dst = 0

RelayoutInv == RelayoutTypeOK /\ TileWalk /\ VectorsExact /\ FlipsExact

(***************************************************************************)
(* Sizes, places and runs of columns.                                      *)
(***************************************************************************)
\* Every set of numbers has a least one.
LEMMA LeastNumber ==
  ASSUME NEW T \in SUBSET Nat, T # {}
  PROVE  \E n \in T : \A m \in T : n <= m
<1> DEFINE R == {ss \in Nat \X Nat : ss[1] < ss[2]}
<1>1. IsWellFoundedOn(R, Nat)
  BY NatLessThanWellFounded DEF OpToRel
<1> HIDE DEF R
<1>2. PICK n \in T : \A m \in T : ~ (<<m, n>> \in R)
  BY <1>1, WFMin
<1>3. \A m \in T : ~ (m < n)
  BY <1>2 DEF R
<1> QED BY <1>2, <1>3

\* Products of sizes are sizes, and grow with their factors.
LEMMA Products ==
  ASSUME NEW a \in Nat, NEW b \in Nat, NEW c \in Nat
  PROVE  /\ a * c \in Nat /\ (a + b) * c = a * c + b * c
         /\ a <= b => a * c <= b * c
         /\ a < b  => a * c + c <= b * c
<1>1. a * c \in Nat /\ b * c \in Nat /\ (a + b) * c = a * c + b * c
  OBVIOUS
<1>2. ASSUME a <= b PROVE a * c <= b * c
  <2>1. PICK d \in Nat : b = a + d
    <3>1. b - a \in Nat /\ b = a + (b - a)
      BY <1>2
    <3> QED BY <3>1
  <2>2. b * c = a * c + d * c /\ d * c \in Nat
    BY <2>1
  <2> QED BY <1>1, <2>2
<1>3. ASSUME a < b PROVE a * c + c <= b * c
  <2>1. PICK d \in Nat : b = a + 1 + d
    <3>1. b - (a + 1) \in Nat /\ b = a + 1 + (b - (a + 1))
      BY <1>3
    <3> QED BY <3>1
  <2>2. b * c = a * c + c + d * c /\ d * c \in Nat
    BY <2>1
  <2> QED BY <1>1, <2>2
<1> QED BY <1>1, <1>2, <1>3

\* Sizes of a layer.
LEMMA LayerSizes ==
  ASSUME NEW l, Layer(l)
  PROVE  /\ Size(l) \in {1, 2, 4} /\ IsSignedDataType(l.data_type) \in BOOLEAN
         /\ l.y_dim \in Nat /\ l.x_dim \in Nat /\ l.z_dim \in Nat /\ l.executions \in Nat
         /\ l.y_dim > 0 /\ l.x_dim > 0 /\ l.z_dim > 0 /\ l.executions > 0
         /\ ZBytes(l) \in Nat /\ ZBytes(l) > 0 /\ ZBytes(l) = l.z_dim * Size(l)
         /\ TensorBytes(l) \in Nat /\ TensorBytes(l) = (l.y_dim * l.x_dim) * ZBytes(l)
         /\ ActualSizeBytes(l) \in Nat /\ TensorBytes(l) <= ActualSizeBytes(l)
         /\ ActualSizeBytes(l) % Size(l) = 0
<1>1. /\ Size(l) \in {1, 2, 4} /\ IsSignedDataType(l.data_type) \in BOOLEAN
      /\ l.y_dim \in Nat /\ l.x_dim \in Nat /\ l.z_dim \in Nat /\ l.executions \in Nat
      /\ l.y_dim > 0 /\ l.x_dim > 0 /\ l.z_dim > 0 /\ l.executions > 0
  BY DEF Layer, Size, DataTypeSize, IsSignedDataType
<1>2. ZBytes(l) \in Nat /\ ZBytes(l) > 0 /\ ZBytes(l) = l.z_dim * Size(l)
  BY <1>1 DEF ZBytes
<1>3. l.y_dim * l.x_dim \in Nat
  BY <1>1
<1>4. TensorBytes(l) \in Nat /\ TensorBytes(l) = (l.y_dim * l.x_dim) * ZBytes(l)
  BY <1>2, <1>3 DEF TensorBytes
<1>5. ActualSizeBytes(l) \in Nat /\ TensorBytes(l) <= ActualSizeBytes(l)
  <2>1. PICK e \in Nat : l.executions = e + 1
    <3>1. l.executions - 1 \in Nat /\ l.executions = (l.executions - 1) + 1
      BY <1>1
    <3> QED BY <3>1
  <2>2. TensorBytes(l) * l.executions = TensorBytes(l) * e + TensorBytes(l)
        /\ TensorBytes(l) * e \in Nat
    BY <1>4, <2>1
  <2> QED BY <1>4, <2>2 DEF ActualSizeBytes
<1>6. ActualSizeBytes(l) % Size(l) = 0
  <2> DEFINE w == (l.y_dim * l.x_dim) * l.z_dim
  <2>1. w \in Nat /\ TensorBytes(l) = w * Size(l)
    BY <1>1, <1>2, <1>3, <1>4
  <2> HIDE DEF w
  <2>2. w * l.executions \in Nat /\ ActualSizeBytes(l) = (w * l.executions) * Size(l)
    BY <1>1, <2>1 DEF ActualSizeBytes
  <2>3. \A m \in Nat : (m * 1) % 1 = 0 /\ (m * 2) % 2 = 0 /\ (m * 4) % 4 = 0
    OBVIOUS
  <2> QED BY <1>1, <2>2, <2>3
<1> QED BY <1>1, <1>2, <1>4, <1>5, <1>6

\* A vector of the tensor and its bytes lie inside the tensor, and vectors
\* copied before lie before.
LEMMA VectorPlaces ==
  ASSUME NEW l, Layer(l), NEW row \in 0 .. l.y_dim - 1, NEW x \in 0 .. l.x_dim - 1
  PROVE  /\ Pos(l, row, x) \in Nat
         /\ Pos(l, row, x) * ZBytes(l) \in Nat
         /\ Pos(l, row, x) * ZBytes(l) + ZBytes(l) <= ActualSizeBytes(l)
<1>1. /\ l.y_dim \in Nat /\ l.x_dim \in Nat /\ ZBytes(l) \in Nat
      /\ TensorBytes(l) = (l.y_dim * l.x_dim) * ZBytes(l)
      /\ TensorBytes(l) <= ActualSizeBytes(l)
      /\ ActualSizeBytes(l) \in Nat /\ TensorBytes(l) \in Nat
  BY LayerSizes
<1>2. row \in Nat /\ x \in Nat /\ row < l.y_dim /\ x < l.x_dim
  BY <1>1
<1>3. row * l.x_dim + l.x_dim <= l.y_dim * l.x_dim /\ row * l.x_dim \in Nat
      /\ l.y_dim * l.x_dim \in Nat
  BY <1>1, <1>2, Products
<1>4. Pos(l, row, x) \in Nat /\ Pos(l, row, x) < l.y_dim * l.x_dim
  BY <1>1, <1>2, <1>3 DEF Pos
<1>5. Pos(l, row, x) * ZBytes(l) + ZBytes(l) <= (l.y_dim * l.x_dim) * ZBytes(l)
  BY <1>1, <1>3, <1>4, Products
<1>6. Pos(l, row, x) * ZBytes(l) \in Nat
  BY <1>1, <1>4
<1> QED BY <1>1, <1>4, <1>5, <1>6

LEMMA VectorOrder ==
  ASSUME NEW l, Layer(l), NEW row \in Nat, NEW x \in Nat, x < l.x_dim,
         NEW r \in Nat, NEW n \in Nat, row < r \/ (row = r /\ x < n)
  PROVE  Pos(l, row, x) * ZBytes(l) + ZBytes(l) <= Pos(l, r, n) * ZBytes(l)
<1>1. l.x_dim \in Nat /\ ZBytes(l) \in Nat
  BY LayerSizes
<1>2. Pos(l, row, x) \in Nat /\ Pos(l, r, n) \in Nat /\ Pos(l, row, x) < Pos(l, r, n)
  <2>1. row * l.x_dim \in Nat /\ r * l.x_dim \in Nat
    BY <1>1
  <2>2. row < r => row * l.x_dim + l.x_dim <= r * l.x_dim
    BY <1>1, Products
  <2> QED BY <1>1, <2>1, <2>2 DEF Pos
<1> QED BY <1>1, <1>2, Products

\* get_buf_idx yields an index for every coordinate of a layout.
LEMMA BufIdxNat ==
  ASSUME NEW l, Layer(l), l.has_layout,
         NEW row \in 0 .. l.y_dim - 1, NEW x \in 0 .. l.x_dim - 1
  PROVE  BufIdx(l, row, x) \in Nat /\ BufIdx(l, row, x) * Size(l) \in Nat
<1>1. /\ l.y_to_local_y_offset[row] \in Nat /\ l.x_to_local_y_row_size[x] \in Nat
      /\ l.x_to_local_byte[x] \in Nat
      /\ l.tile_byte_offset[l.y_to_tile_id[row] + l.x_to_tile_id[x]] \in Nat
  BY DEF Layer
<1>2. l.y_to_local_y_offset[row] * l.x_to_local_y_row_size[x] \in Nat
  BY <1>1
<1>3. BufIdx(l, row, x) \in Nat
  BY <1>1, <1>2 DEF BufIdx
<1> QED BY <1>3, LayerSizes

LEMMA ZPaddedInt == ASSUME NEW l, Layer(l), l.has_layout PROVE ZPadded(l) \in Int
<1>1. /\ Size(l) \in Nat /\ l.x_dim \in Nat /\ l.y_dim \in Nat /\ l.x_dim > 0 /\ l.y_dim > 0
  BY LayerSizes
<1>2. CASE l.x_dim > 1
  <2>1. BufIdx(l, 0, 1) \in Nat /\ BufIdx(l, 0, 0) \in Nat
    BY <1>1, <1>2, BufIdxNat
  <2> QED BY <1>1, <1>2, <2>1 DEF ZPadded
<1>3. CASE ~ (l.x_dim > 1) /\ l.y_dim > 1
  <2>1. BufIdx(l, 1, 0) \in Nat /\ BufIdx(l, 0, 0) \in Nat
    BY <1>1, <1>3, BufIdxNat
  <2> QED BY <1>1, <1>3, <2>1 DEF ZPadded
<1>4. CASE ~ (l.x_dim > 1) /\ ~ (l.y_dim > 1)
  BY <1>1, <1>4 DEF ZPadded
<1> QED BY <1>2, <1>3, <1>4

\* Every column starts a run of columns of its tile, which ends in the row.
LEMMA TileSizeExists ==
  ASSUME NEW l, Layer(l), NEW x \in 0 .. l.x_dim - 1
  PROVE  /\ TileSize(l, x) \in 1 .. l.x_dim - x
         /\ SameTile(l, x, TileSize(l, x))
<1>1. l.x_dim \in Nat /\ x \in Nat /\ x < l.x_dim
  BY LayerSizes
<1>2. SameTile(l, x, 1)
  <2>1. \A k \in x .. x + 1 - 1 : k = x
    BY <1>1
  <2> QED BY <2>1 DEF SameTile
<1> DEFINE T == {n \in Nat : n >= 1 /\ x + n < l.x_dim /\ ~ SameTile(l, x, n + 1)}
<1>3. \E n \in 1 .. l.x_dim - x : SameTile(l, x, n)
                                   /\ (x + n < l.x_dim => ~ SameTile(l, x, n + 1))
  <2>1. CASE T = {}
    <3>1. ASSUME NEW n \in Nat, n >= 1, x + n <= l.x_dim PROVE SameTile(l, x, n)
      <4>1. CASE n = 1
        BY <1>2, <4>1
      <4>2. CASE n > 1
        <5>1. n - 1 \in Nat /\ n - 1 >= 1 /\ x + (n - 1) < l.x_dim /\ (n - 1) + 1 = n
          BY <1>1, <3>1, <4>2
        <5> QED BY <2>1, <5>1
      <4> QED BY <3>1, <4>1, <4>2
    <3>2. l.x_dim - x \in 1 .. l.x_dim - x /\ x + (l.x_dim - x) = l.x_dim
      BY <1>1
    <3>3. SameTile(l, x, l.x_dim - x)
      BY <1>1, <3>1, <3>2
    <3> QED BY <1>1, <3>2, <3>3
  <2>2. CASE T # {}
    <3>1. PICK n \in T : \A m \in T : n <= m
      BY <2>2, LeastNumber
    <3> HIDE DEF T
    <3>2. n \in Nat /\ n >= 1 /\ x + n < l.x_dim /\ ~ SameTile(l, x, n + 1)
      BY <3>1 DEF T
    <3>3. SameTile(l, x, n)
      <4>1. CASE n = 1
        BY <1>2, <4>1
      <4>2. CASE n > 1
        <5>1. n - 1 \in Nat /\ n - 1 >= 1 /\ x + (n - 1) < l.x_dim /\ (n - 1) + 1 = n
          BY <1>1, <3>2, <4>2
        <5>2. n - 1 \notin T
          BY <3>1, <3>2
        <5> QED BY <5>1, <5>2 DEF T
      <4> QED BY <3>2, <4>1, <4>2
    <3>4. n \in 1 .. l.x_dim - x
      BY <1>1, <3>2
    <3> QED BY <3>2, <3>3, <3>4
  <2> QED BY <2>1, <2>2
<1> QED BY <1>3 DEF TileSize

\* Inside a run, one padded vector further is the next column.
LEMMA NextColumn ==
  ASSUME NEW l, Layer(l), l.has_layout, EvenlySpaced(l),
         NEW row \in 0 .. l.y_dim - 1, NEW x \in 0 .. l.x_dim - 1,
         NEW n \in Nat, n + 1 < TileSize(l, x)
  PROVE  BufIdx(l, row, x + n) * Size(l) + ZPadded(l) = BufIdx(l, row, x + (n + 1)) * Size(l)
<1>1. l.x_dim \in Nat /\ x \in Nat /\ TileSize(l, x) \in 1 .. l.x_dim - x
      /\ SameTile(l, x, TileSize(l, x)) /\ Size(l) \in {1, 2, 4}
  BY LayerSizes, TileSizeExists
<1>2. x + (n + 1) \in 1 .. l.x_dim - 1 /\ x + n \in 0 .. l.x_dim - 1
      /\ x + (n + 1) - 1 = x + n
  BY <1>1
<1>3. /\ l.x_to_tile_id[x + n] = l.x_to_tile_id[x]
      /\ l.x_to_tile_id[x + (n + 1)] = l.x_to_tile_id[x]
  BY <1>1 DEF SameTile
<1>4. (BufIdx(l, row, x + (n + 1)) - BufIdx(l, row, x + n)) * Size(l) = ZPadded(l)
  BY <1>2, <1>3 DEF EvenlySpaced
<1>5. BufIdx(l, row, x + (n + 1)) \in Nat /\ BufIdx(l, row, x + n) \in Nat
  BY <1>2, BufIdxNat
<1> HIDE DEF Size
<1> QED BY <1>1, <1>4, <1>5

\* The tile that starts at tileX ends in its row.
LEMMA WalkBounds ==
  ASSUME RelayoutInv, stage = "copy"
  PROVE  /\ Layer(layer) /\ layer.has_layout
         /\ layer.x_dim \in Nat /\ layer.y_dim \in Nat
         /\ y \in Nat /\ tileX \in Nat /\ lx \in Nat /\ dst \in Nat /\ source \in Int
         /\ y \in 0 .. layer.y_dim - 1 /\ tileX \in 0 .. layer.x_dim - 1
         /\ TileSize(layer, tileX) \in Nat /\ TileSize(layer, tileX) >= 1
         /\ tileX + TileSize(layer, tileX) <= layer.x_dim
         /\ lx <= TileSize(layer, tileX)
         /\ out \in [0 .. ActualSizeBytes(layer) - 1 -> Bytes]
         /\ dst = Pos(layer, y, tileX + lx) * ZBytes(layer)
<1>1. /\ Layer(layer) /\ layer.has_layout
      /\ y \in Nat /\ tileX \in Nat /\ lx \in Nat /\ dst \in Nat /\ source \in Int
      /\ y < layer.y_dim /\ tileX < layer.x_dim
      /\ lx <= TileSize(layer, tileX)
      /\ out \in [0 .. ActualSizeBytes(layer) - 1 -> Bytes]
      /\ dst = Pos(layer, y, tileX + lx) * ZBytes(layer)
  BY DEF RelayoutInv, RelayoutTypeOK, TileWalk
<1>2. layer.x_dim \in Nat /\ layer.y_dim \in Nat
  BY <1>1, LayerSizes
<1>3. y \in 0 .. layer.y_dim - 1 /\ tileX \in 0 .. layer.x_dim - 1
  BY <1>1, <1>2
<1>4. TileSize(layer, tileX) \in 1 .. layer.x_dim - tileX
  BY <1>1, <1>3, TileSizeExists
<1> QED BY <1>1, <1>2, <1>3, <1>4

LEMMA RelayoutInitInv == RelayoutInit => RelayoutInv
<1> SUFFICES ASSUME RelayoutInit PROVE RelayoutInv
  OBVIOUS
<1>1. stage = "idle" /\ layer \in Layers /\ Layer(layer)
  BY LayersAssumption DEF RelayoutInit
<1>2. RelayoutTypeOK
  BY <1>1 DEF RelayoutInit, RelayoutTypeOK, Stages
<1> QED BY <1>1, <1>2 DEF RelayoutInv, TileWalk, VectorsExact, FlipsExact

LEMMA BeginLayerInv ==
  ASSUME RelayoutInv, BeginLayer
  PROVE  RelayoutInv'
<1>1. PICK l \in Layers :
        /\ layer' = l
        /\ y' = 0 /\ tileX' = 0 /\ lx' = 0
        /\ IF l.has_layout
           THEN /\ stage' = "copy" /\ dst' = 0 /\ source' = BufIdx(l, 0, 0) * Size(l)
                /\ out' = [b \in 0 .. ActualSizeBytes(l) - 1 |-> Unset]
           ELSE /\ stage' = "sign" /\ dst' = 0 /\ source' = 0
                /\ out' = [b \in 0 .. ActualSizeBytes(l) - 1 |-> Copy(b)]
  BY DEF BeginLayer
<1>2. Layer(l)
  BY LayersAssumption
<1>3. /\ Size(l) \in {1, 2, 4} /\ ZBytes(l) \in Nat /\ ActualSizeBytes(l) \in Nat
      /\ l.x_dim \in Nat /\ l.y_dim \in Nat /\ l.x_dim > 0 /\ l.y_dim > 0
  BY <1>2, LayerSizes
<1>4. \A b \in Int : Unset \in Bytes /\ Copy(b) \in Bytes /\ ~ Unset.flipped
                     /\ ~ Copy(b).flipped /\ Copy(b).from = b
  BY DEF Unset, Copy, Bytes
<1>5. 0 \in 0 .. l.y_dim - 1 /\ 0 \in 0 .. l.x_dim - 1
  BY <1>3
<1>6. l.has_layout \in BOOLEAN
  BY <1>2 DEF Layer
<1>7. CASE l.has_layout
  <2>1. /\ layer' = l /\ y' = 0 /\ tileX' = 0 /\ lx' = 0 /\ stage' = "copy" /\ dst' = 0
        /\ source' = BufIdx(l, 0, 0) * Size(l)
        /\ out' = [b \in 0 .. ActualSizeBytes(l) - 1 |-> Unset]
    BY <1>1, <1>7
  <2>2. BufIdx(l, 0, 0) * Size(l) \in Nat
    BY <1>2, <1>5, <1>7, BufIdxNat
  <2>3. RelayoutTypeOK'
    BY <1>2, <1>4, <2>1, <2>2 DEF RelayoutTypeOK, Stages
  <2>4. TileSize(l, 0) \in 1 .. l.x_dim - 0
    BY <1>2, <1>5, TileSizeExists
  <2>5. Pos(l, 0, 0 + 0) * ZBytes(l) = 0
    BY <1>3 DEF Pos
  <2>6. TileWalk'
    BY <1>3, <1>7, <2>1, <2>4, <2>5 DEF TileWalk
  <2>7. VectorsExact'
    <3>1. \A row \in 0 .. l.y_dim - 1, x \in 0 .. l.x_dim - 1 : ~ CopiedTo(row, x)'
      BY <1>3, <2>1 DEF CopiedTo
    <3> QED BY <2>1, <3>1 DEF VectorsExact
  <2>8. FlipsExact'
    BY <1>4, <2>1 DEF FlipsExact
  <2> QED BY <2>3, <2>6, <2>7, <2>8 DEF RelayoutInv
<1>8. CASE ~ l.has_layout
  <2>1. /\ layer' = l /\ y' = 0 /\ tileX' = 0 /\ lx' = 0 /\ stage' = "sign" /\ dst' = 0
        /\ source' = 0
        /\ out' = [b \in 0 .. ActualSizeBytes(l) - 1 |-> Copy(b)]
    BY <1>1, <1>8
  <2>2. RelayoutTypeOK'
    BY <1>2, <1>4, <2>1 DEF RelayoutTypeOK, Stages
  <2>3. TileWalk'
    BY <2>1 DEF TileWalk
  <2>4. VectorsExact'
    <3>1. ASSUME NEW row \in 0 .. l.y_dim - 1, NEW x \in 0 .. l.x_dim - 1,
                 NEW c \in 0 .. ZBytes(l) - 1
          PROVE  out'[Pos(l, row, x) * ZBytes(l) + c].from = ChipVector(l, row, x) + c
      <4>1. /\ Pos(l, row, x) * ZBytes(l) \in Nat
            /\ Pos(l, row, x) * ZBytes(l) + ZBytes(l) <= ActualSizeBytes(l)
        BY <1>2, VectorPlaces
      <4>2. Pos(l, row, x) * ZBytes(l) + c \in 0 .. ActualSizeBytes(l) - 1
        BY <1>3, <4>1
      <4> QED BY <1>4, <1>8, <2>1, <4>2 DEF ChipVector
    <3> QED BY <2>1, <3>1 DEF VectorsExact
  <2>5. FlipsExact'
    <3>1. 0 % Size(l) = 0
      BY <1>3
    <3>2. \A b \in 0 .. ActualSizeBytes(l) - 1 : ~ out'[b].flipped /\ ~ (b < 0)
      BY <1>3, <1>4, <2>1
    <3> QED BY <2>1, <3>1, <3>2 DEF FlipsExact
  <2> QED BY <2>2, <2>3, <2>4, <2>5 DEF RelayoutInv
<1> QED BY <1>6, <1>7, <1>8

LEMMA CopyVectorInv ==
  ASSUME RelayoutInv, CopyVector
  PROVE  RelayoutInv'
<1>1. /\ stage = "copy" /\ lx < TileSize(layer, tileX)
      /\ out' = [b \in DOMAIN out |-> IF dst <= b /\ b < dst + ZBytes(layer)
                                      THEN Copy(source + (b - dst)) ELSE out[b]]
      /\ dst' = dst + ZBytes(layer)
      /\ source' = source + ZPadded(layer)
      /\ lx' = lx + 1
      /\ stage' = stage /\ layer' = layer /\ y' = y /\ tileX' = tileX
  BY DEF CopyVector
<1>2. /\ Layer(layer) /\ layer.has_layout
      /\ layer.x_dim \in Nat /\ layer.y_dim \in Nat
      /\ y \in Nat /\ tileX \in Nat /\ lx \in Nat /\ dst \in Nat /\ source \in Int
      /\ y \in 0 .. layer.y_dim - 1 /\ tileX \in 0 .. layer.x_dim - 1
      /\ TileSize(layer, tileX) \in Nat /\ TileSize(layer, tileX) >= 1
      /\ tileX + TileSize(layer, tileX) <= layer.x_dim
      /\ lx <= TileSize(layer, tileX)
      /\ out \in [0 .. ActualSizeBytes(layer) - 1 -> Bytes]
      /\ dst = Pos(layer, y, tileX + lx) * ZBytes(layer)
  BY <1>1, WalkBounds
<1>3. /\ Size(layer) \in {1, 2, 4} /\ ZBytes(layer) \in Nat /\ ActualSizeBytes(layer) \in Nat
      /\ ZPadded(layer) \in Int
  BY <1>2, LayerSizes, ZPaddedInt
<1>4. DOMAIN out = 0 .. ActualSizeBytes(layer) - 1
  BY <1>2
<1>5. tileX + lx \in 0 .. layer.x_dim - 1
  BY <1>1, <1>2
<1>6. \A b \in Int : Copy(b) \in Bytes /\ ~ Copy(b).flipped /\ Copy(b).from = b
  BY DEF Copy, Bytes
<1>7. out' \in [0 .. ActualSizeBytes(layer) - 1 -> Bytes]
  <2>1. \A b \in 0 .. ActualSizeBytes(layer) - 1 : source + (b - dst) \in Int
    BY <1>2, <1>3
  <2> QED BY <1>1, <1>2, <1>4, <1>6, <2>1
<1>8. RelayoutTypeOK'
  <2>1. dst \in Nat /\ ZBytes(layer) \in Nat /\ source \in Int /\ ZPadded(layer) \in Int
        /\ lx \in Nat
    BY <1>2, <1>3
  <2>2. dst + ZBytes(layer) \in Nat /\ source + ZPadded(layer) \in Int /\ lx + 1 \in Nat
    BY ONLY <2>1
  <2> QED BY <1>1, <1>2, <1>7, <2>2 DEF RelayoutTypeOK, Stages
<1>9. TileWalk'
  <2>1. dst' = Pos(layer, y, tileX + (lx + 1)) * ZBytes(layer)
    <3>1. y * layer.x_dim \in Nat
      BY <1>2
    <3>2. Pos(layer, y, tileX + lx) \in Nat
          /\ Pos(layer, y, tileX + (lx + 1)) = Pos(layer, y, tileX + lx) + 1
      BY <1>2, <3>1 DEF Pos
    <3>3. (Pos(layer, y, tileX + lx) + 1) * ZBytes(layer)
            = Pos(layer, y, tileX + lx) * ZBytes(layer) + ZBytes(layer)
      BY <1>3, <3>2, Products
    <3> QED BY <1>1, <1>2, <3>2, <3>3
  <2>2. ASSUME EvenlySpaced(layer), lx + 1 < TileSize(layer, tileX)
        PROVE  source' = BufIdx(layer, y, tileX + (lx + 1)) * Size(layer)
    <3>1. source = BufIdx(layer, y, tileX + lx) * Size(layer)
      BY <1>1, <2>2 DEF RelayoutInv, TileWalk
    <3>2. BufIdx(layer, y, tileX + lx) * Size(layer) + ZPadded(layer)
            = BufIdx(layer, y, tileX + (lx + 1)) * Size(layer)
      BY <1>2, <2>2, NextColumn
    <3> QED BY <1>1, <3>1, <3>2
  <2>3. lx + 1 <= TileSize(layer, tileX)
    BY <1>1, <1>2
  <2>4. y < layer.y_dim /\ tileX < layer.x_dim
    BY <1>2
  <2> QED BY <1>1, <1>2, <2>1, <2>2, <2>3, <2>4 DEF TileWalk
<1>10. VectorsExact'
  <2>1. ASSUME EvenlySpaced(layer),
               NEW row \in 0 .. layer.y_dim - 1, NEW x \in 0 .. layer.x_dim - 1,
               NEW c \in 0 .. ZBytes(layer) - 1,
               row < y \/ (row = y /\ x < tileX + (lx + 1))
        PROVE  out'[Pos(layer, row, x) * ZBytes(layer) + c].from
                 = ChipVector(layer, row, x) + c
    <3> DEFINE b == Pos(layer, row, x) * ZBytes(layer) + c
    <3>1. row \in Nat /\ x \in Nat /\ x < layer.x_dim /\ c \in Nat /\ c < ZBytes(layer)
      <4>1. layer.x_dim \in Nat /\ layer.y_dim \in Nat /\ ZBytes(layer) \in Nat
        BY <1>2, <1>3
      <4> QED BY ONLY <4>1
    <3>2. /\ Pos(layer, row, x) * ZBytes(layer) \in Nat
          /\ Pos(layer, row, x) * ZBytes(layer) + ZBytes(layer) <= ActualSizeBytes(layer)
      BY <1>2, VectorPlaces
    <3>3. b \in DOMAIN out
      BY <1>3, <1>4, <3>1, <3>2
    <3>4. CASE row < y \/ (row = y /\ x < tileX + lx)
      <4>1. Pos(layer, row, x) * ZBytes(layer) + ZBytes(layer) <= dst
        <5>1. tileX + lx \in Nat
          BY <1>2
        <5> QED BY <1>2, <3>1, <3>4, <5>1, VectorOrder
      <4>2. ~ (dst <= b)
        BY <1>2, <1>3, <3>1, <3>2, <4>1
      <4>3. out'[b] = out[b]
        BY <1>1, <3>3, <4>2
      <4>4. CopiedTo(row, x)
        BY <3>4 DEF CopiedTo
      <4>5. out[b].from = ChipVector(layer, row, x) + c
        BY <1>1, <2>1, <4>4 DEF RelayoutInv, VectorsExact
      <4> QED BY <4>3, <4>5
    <3>5. CASE row = y /\ x = tileX + lx
      <4>1. b = dst + c
        BY <1>2, <3>5
      <4> HIDE DEF b
      <4>2. dst \in Nat /\ ZBytes(layer) \in Nat
        BY <1>2, <1>3
      <4>3. dst <= b /\ b < dst + ZBytes(layer) /\ b - dst = c
        BY ONLY <3>1, <4>1, <4>2
      <4>4. source + c \in Int
        BY <1>2, <3>1
      <4>5. out'[b].from = source + c
        BY <1>1, <1>6, <3>3, <4>3, <4>4
      <4>6. source = BufIdx(layer, y, tileX + lx) * Size(layer)
        BY <1>1, <2>1 DEF RelayoutInv, TileWalk
      <4> QED BY <1>2, <3>5, <4>5, <4>6 DEF ChipVector, b
    <3>6. (row < y \/ (row = y /\ x < tileX + lx)) \/ (row = y /\ x = tileX + lx)
      BY <1>2, <2>1, <3>1
    <3> QED BY <3>4, <3>5, <3>6
  <2>2. \A row, x : CopiedTo(row, x)' => row < y \/ (row = y /\ x < tileX + (lx + 1))
    BY <1>1 DEF CopiedTo
  <2>3. VectorsExact' <=>
          (EvenlySpaced(layer) =>
             \A row \in 0 .. layer.y_dim - 1, x \in 0 .. layer.x_dim - 1,
                c \in 0 .. ZBytes(layer) - 1 :
               CopiedTo(row, x)' =>
                 out'[Pos(layer, row, x) * ZBytes(layer) + c].from
                   = ChipVector(layer, row, x) + c)
    BY <1>1, <1>2 DEF VectorsExact
  <2> QED BY <2>1, <2>2, <2>3
<1>11. FlipsExact'
  <2>1. ASSUME NEW b \in 0 .. ActualSizeBytes(layer) - 1
        PROVE  ~ out'[b].flipped
    <3>1. ~ out[b].flipped
      BY <1>1 DEF RelayoutInv, FlipsExact
    <3>2. source + (b - dst) \in Int
      BY <1>2, <1>3
    <3> QED BY <1>1, <1>4, <1>6, <3>1, <3>2
  <2> QED BY <1>1, <2>1 DEF FlipsExact
<1> QED BY <1>8, <1>9, <1>10, <1>11 DEF RelayoutInv

LEMMA NextTileInv ==
  ASSUME RelayoutInv, NextTile
  PROVE  RelayoutInv'
<1> DEFINE after == tileX + TileSize(layer, tileX)
<1>1. /\ stage = "copy" /\ lx = TileSize(layer, tileX) /\ lx' = 0
      /\ \/ /\ after < layer.x_dim
            /\ tileX' = after /\ source' = BufIdx(layer, y, after) * Size(layer)
            /\ stage' = stage /\ y' = y /\ dst' = dst
         \/ /\ after = layer.x_dim /\ y + 1 < layer.y_dim
            /\ y' = y + 1 /\ tileX' = 0 /\ source' = BufIdx(layer, y + 1, 0) * Size(layer)
            /\ stage' = stage /\ dst' = dst
         \/ /\ after = layer.x_dim /\ y + 1 = layer.y_dim
            /\ stage' = "sign" /\ tileX' = 0 /\ dst' = 0
            /\ y' = y /\ source' = source
      /\ layer' = layer /\ out' = out
  BY DEF NextTile
<1>2. /\ Layer(layer) /\ layer.has_layout
      /\ layer.x_dim \in Nat /\ layer.y_dim \in Nat
      /\ y \in Nat /\ tileX \in Nat /\ lx \in Nat /\ dst \in Nat /\ source \in Int
      /\ y \in 0 .. layer.y_dim - 1 /\ tileX \in 0 .. layer.x_dim - 1
      /\ TileSize(layer, tileX) \in Nat /\ TileSize(layer, tileX) >= 1
      /\ tileX + TileSize(layer, tileX) <= layer.x_dim
      /\ lx <= TileSize(layer, tileX)
      /\ out \in [0 .. ActualSizeBytes(layer) - 1 -> Bytes]
      /\ dst = Pos(layer, y, tileX + lx) * ZBytes(layer)
  BY <1>1, WalkBounds
<1>3. /\ Size(layer) \in {1, 2, 4} /\ ZBytes(layer) \in Nat /\ ActualSizeBytes(layer) \in Nat
      /\ layer.x_dim > 0 /\ layer.y_dim > 0
  BY <1>2, LayerSizes
<1>4. after \in Nat /\ after = tileX + lx /\ dst = Pos(layer, y, after) * ZBytes(layer)
  BY <1>1, <1>2
<1> HIDE DEF after
<1>5. \A b \in 0 .. ActualSizeBytes(layer) - 1 : ~ out[b].flipped
  BY <1>1 DEF RelayoutInv, FlipsExact
<1>6. CASE /\ after < layer.x_dim
           /\ tileX' = after /\ source' = BufIdx(layer, y, after) * Size(layer)
           /\ stage' = stage /\ y' = y /\ dst' = dst
  <2>1. after \in 0 .. layer.x_dim - 1
    BY <1>2, <1>4, <1>6
  <2>2. source' \in Int
    BY <1>2, <1>6, <2>1, BufIdxNat
  <2>3. RelayoutTypeOK'
    BY <1>1, <1>2, <1>4, <1>6, <2>2 DEF RelayoutTypeOK, Stages
  <2>4. TileSize(layer, after) \in 1 .. layer.x_dim - after
    BY <1>2, <2>1, TileSizeExists
  <2>5. 0 <= TileSize(layer, after) /\ after + 0 = after /\ y < layer.y_dim
    BY <1>2, <1>4, <2>4
  <2>6. TileWalk'
    BY <1>1, <1>2, <1>4, <1>6, <2>5 DEF TileWalk
  <2>7. VectorsExact'
    <3>1. \A row, x : CopiedTo(row, x)' => CopiedTo(row, x)
      BY <1>1, <1>4, <1>6, <2>5 DEF CopiedTo
    <3> QED BY <1>1, <1>6, <3>1 DEF RelayoutInv, VectorsExact
  <2>8. FlipsExact'
    BY <1>1, <1>5, <1>6 DEF FlipsExact
  <2> QED BY <2>3, <2>6, <2>7, <2>8 DEF RelayoutInv
<1>7. CASE /\ after = layer.x_dim /\ y + 1 < layer.y_dim
           /\ y' = y + 1 /\ tileX' = 0 /\ source' = BufIdx(layer, y + 1, 0) * Size(layer)
           /\ stage' = stage /\ dst' = dst
  <2>1. y + 1 \in 0 .. layer.y_dim - 1 /\ 0 \in 0 .. layer.x_dim - 1 /\ y + 1 \in Nat
    BY <1>2, <1>3, <1>7
  <2>2. source' \in Int
    BY <1>2, <1>7, <2>1, BufIdxNat
  <2>3. RelayoutTypeOK'
    BY <1>1, <1>2, <1>7, <2>1, <2>2 DEF RelayoutTypeOK, Stages
  <2>4. TileSize(layer, 0) \in 1 .. layer.x_dim - 0
    BY <1>2, <2>1, TileSizeExists
  <2>5. 0 <= TileSize(layer, 0) /\ 0 + 0 = 0
    BY <1>2, <2>4
  <2>6. Pos(layer, y, after) = Pos(layer, y + 1, 0)
    <3>1. y * layer.x_dim \in Nat /\ (y + 1) * layer.x_dim = y * layer.x_dim + layer.x_dim
      BY <1>2
    <3> QED BY <1>2, <1>7, <3>1 DEF Pos
  <2>7. TileWalk'
    BY <1>1, <1>2, <1>3, <1>4, <1>7, <2>5, <2>6 DEF TileWalk
  <2>8. VectorsExact'
    <3>1. ASSUME NEW row \in 0 .. layer.y_dim - 1, NEW x \in 0 .. layer.x_dim - 1,
                 CopiedTo(row, x)'
          PROVE  CopiedTo(row, x)
      <4>1. row < y + 1 \/ (row = y + 1 /\ x < 0 + 0)
        BY <1>1, <1>7, <3>1 DEF CopiedTo
      <4>2. row \in Nat /\ x \in Nat /\ x < layer.x_dim
        BY <1>2
      <4>3. row < y \/ (row = y /\ x < tileX + lx)
        BY <1>2, <1>4, <1>7, <4>1, <4>2
      <4> QED BY <4>3 DEF CopiedTo
    <3> QED BY <1>1, <1>7, <3>1 DEF RelayoutInv, VectorsExact
  <2>9. FlipsExact'
    BY <1>1, <1>5, <1>7 DEF FlipsExact
  <2> QED BY <2>3, <2>7, <2>8, <2>9 DEF RelayoutInv
<1>8. CASE /\ after = layer.x_dim /\ y + 1 = layer.y_dim
           /\ stage' = "sign" /\ tileX' = 0 /\ dst' = 0
           /\ y' = y /\ source' = source
  <2>1. RelayoutTypeOK'
    BY <1>1, <1>2, <1>8 DEF RelayoutTypeOK, Stages
  <2>2. TileWalk'
    BY <1>8 DEF TileWalk
  <2>3. VectorsExact'
    <3>1. ASSUME NEW row \in 0 .. layer.y_dim - 1, NEW x \in 0 .. layer.x_dim - 1
          PROVE  CopiedTo(row, x)
      <4>1. row \in Nat /\ x \in Nat /\ x < layer.x_dim /\ row < layer.y_dim
        BY <1>2
      <4>2. row < y \/ (row = y /\ x < tileX + lx)
        BY <1>2, <1>4, <1>8, <4>1
      <4> QED BY <4>2 DEF CopiedTo
    <3> QED BY <1>1, <1>8, <3>1 DEF RelayoutInv, VectorsExact
  <2>4. FlipsExact'
    <3>1. 0 % Size(layer) = 0
      BY <1>3
    <3>2. \A b \in 0 .. ActualSizeBytes(layer) - 1 : ~ (b < 0)
      BY <1>3
    <3> QED BY <1>1, <1>5, <1>8, <3>1, <3>2 DEF FlipsExact
  <2> QED BY <2>1, <2>2, <2>3, <2>4 DEF RelayoutInv
<1> QED BY <1>1, <1>6, <1>7, <1>8

\* Where a flip falls: at the top of the next element, and nowhere else.
LEMMA TopBytes ==
  ASSUME NEW s \in {1, 2}, NEW d \in Nat, d % s = 0
  PROVE  /\ (d + s) % s = 0 /\ (d + s - 1) % s = s - 1
         /\ \A b \in Nat : (b < d + s /\ b % s = s - 1)
                             <=> ((b < d /\ b % s = s - 1) \/ b = d + s - 1)
         /\ \A n \in Nat : n % s = 0 /\ d + s - 1 >= n => n <= d
<1>1. CASE s = 1
  BY <1>1
<1>2. CASE s = 2
  BY <1>2
<1> QED BY <1>1, <1>2

LEMMA SignedSizes == \A l : IsSignedDataType(l.data_type) => Size(l) \in {1, 2}
  BY DEF IsSignedDataType, Size, DataTypeSize

LEMMA FlipElementInv ==
  ASSUME RelayoutInv, FlipElement
  PROVE  RelayoutInv'
<1> DEFINE s == Size(layer)
           top == dst + s - 1
           n == ActualSizeBytes(layer)
<1>1. /\ stage = "sign" /\ IsSignedDataType(layer.data_type) /\ top < n
      /\ out' = [out EXCEPT ![top].flipped = ~ @]
      /\ dst' = dst + s
      /\ stage' = stage /\ layer' = layer /\ y' = y /\ tileX' = tileX /\ lx' = lx
      /\ source' = source
  BY DEF FlipElement, TopByte
<1>2. /\ Layer(layer) /\ dst \in Nat /\ dst % s = 0
      /\ y \in Nat /\ tileX \in Nat /\ lx \in Nat /\ source \in Int
      /\ out \in [0 .. n - 1 -> Bytes]
      /\ \A b \in 0 .. n - 1 : out[b].flipped <=> b < dst /\ b % s = s - 1
  BY <1>1 DEF RelayoutInv, RelayoutTypeOK, FlipsExact
<1>3. s \in {1, 2} /\ n \in Nat /\ ZBytes(layer) \in Nat
  BY <1>1, <1>2, SignedSizes, LayerSizes
<1> HIDE DEF s, n
<1>4. /\ (dst + s) % s = 0 /\ top % s = s - 1
      /\ \A b \in Nat : (b < dst + s /\ b % s = s - 1)
                          <=> ((b < dst /\ b % s = s - 1) \/ b = top)
  <2>1. dst \in Nat /\ dst % s = 0 /\ s \in {1, 2}
    BY <1>2, <1>3
  <2> QED BY ONLY <2>1, TopBytes
<1>5. top \in 0 .. n - 1 /\ ~ (top < dst) /\ dst + s \in Nat
  BY <1>1, <1>2, <1>3
<1> HIDE DEF top
<1>6. \A r \in Bytes : /\ [r EXCEPT !.flipped = ~ @] \in Bytes
                       /\ [r EXCEPT !.flipped = ~ @].from = r.from
                       /\ [r EXCEPT !.flipped = ~ @].flipped <=> ~ r.flipped
  BY DEF Bytes
<1>7. /\ out' \in [0 .. n - 1 -> Bytes]
      /\ \A b \in 0 .. n - 1 : /\ out'[b].from = out[b].from
                               /\ out'[b].flipped <=> IF b = top THEN ~ out[b].flipped
                                                      ELSE out[b].flipped
  <2>1. out' = [out EXCEPT ![top] = [out[top] EXCEPT !.flipped = ~ @]]
    BY <1>1
  <2>2. ASSUME NEW b \in 0 .. n - 1
        PROVE  out[b] \in Bytes /\ out'[b] = IF b = top THEN [out[top] EXCEPT !.flipped = ~ @]
                                             ELSE out[b]
    BY <1>2, <2>1
  <2>3. DOMAIN out' = 0 .. n - 1 /\ out' = [b \in DOMAIN out' |-> out'[b]]
    BY <1>2, <2>1
  <2>4. ASSUME NEW b \in 0 .. n - 1
        PROVE  /\ out'[b] \in Bytes /\ out'[b].from = out[b].from
               /\ out'[b].flipped <=> IF b = top THEN ~ out[b].flipped ELSE out[b].flipped
    <3>1. CASE b = top
      <4>1. out'[b] = [out[top] EXCEPT !.flipped = ~ @] /\ out[top] \in Bytes
        BY <2>2, <3>1
      <4> QED BY <1>6, <3>1, <4>1
    <3>2. CASE b # top
      BY <2>2, <3>2
    <3> QED BY <3>1, <3>2
  <2> QED BY <2>3, <2>4
<1>8. RelayoutTypeOK'
  BY <1>1, <1>2, <1>5, <1>7 DEF RelayoutTypeOK, Stages, n
<1>9. TileWalk'
  BY <1>1 DEF TileWalk
<1>10. VectorsExact'
  <2>1. ASSUME layer.has_layout => EvenlySpaced(layer),
               NEW row \in 0 .. layer.y_dim - 1, NEW x \in 0 .. layer.x_dim - 1,
               NEW c \in 0 .. ZBytes(layer) - 1
        PROVE  out'[Pos(layer, row, x) * ZBytes(layer) + c].from
                 = ChipVector(layer, row, x) + c
    <3>1. /\ Pos(layer, row, x) * ZBytes(layer) \in Nat
          /\ Pos(layer, row, x) * ZBytes(layer) + ZBytes(layer) <= n
      BY <1>2, VectorPlaces DEF n
    <3>2. Pos(layer, row, x) * ZBytes(layer) + c \in 0 .. n - 1
      BY <1>3, <3>1
    <3>3. out[Pos(layer, row, x) * ZBytes(layer) + c].from = ChipVector(layer, row, x) + c
      BY <1>1, <2>1 DEF RelayoutInv, VectorsExact, CopiedTo
    <3> QED BY <1>7, <3>2, <3>3
  <2> QED BY <1>1, <2>1 DEF VectorsExact
<1>11. FlipsExact'
  <2>1. ASSUME NEW b \in 0 .. n - 1
        PROVE  out'[b].flipped <=> b < dst + s /\ b % s = s - 1
    <3>1. b \in Nat
      BY <1>3
    <3>2. b = top => ~ out[b].flipped
      BY <1>2, <1>5
    <3> QED BY <1>2, <1>4, <1>7, <3>1, <3>2
  <2> QED BY <1>1, <1>4, <2>1 DEF FlipsExact, s, n
<1> QED BY <1>8, <1>9, <1>10, <1>11 DEF RelayoutInv

LEMMA FinishLayerInv ==
  ASSUME RelayoutInv, FinishLayer
  PROVE  RelayoutInv'
<1>1. /\ stage = "sign" /\ stage' = "done"
      /\ ~ IsSignedDataType(layer.data_type) \/ TopByte >= ActualSizeBytes(layer)
      /\ layer' = layer /\ y' = y /\ tileX' = tileX /\ lx' = lx
      /\ source' = source /\ dst' = dst /\ out' = out
  BY DEF FinishLayer
<1>2. /\ RelayoutTypeOK /\ VectorsExact /\ FlipsExact /\ Layer(layer) /\ dst \in Nat
      /\ dst % Size(layer) = 0
  BY <1>1 DEF RelayoutInv, RelayoutTypeOK, FlipsExact
<1>3. ActualSizeBytes(layer) \in Nat /\ ActualSizeBytes(layer) % Size(layer) = 0
  BY <1>2, LayerSizes
<1>4. IF IsSignedDataType(layer.data_type) THEN ActualSizeBytes(layer) <= dst ELSE dst = 0
  <2>1. CASE IsSignedDataType(layer.data_type)
    <3>1. Size(layer) \in {1, 2}
      BY <2>1, SignedSizes
    <3>2. dst + Size(layer) - 1 >= ActualSizeBytes(layer)
      BY <1>1, <2>1 DEF TopByte
    <3> QED BY <1>2, <1>3, <2>1, <3>1, <3>2, TopBytes
  <2>2. CASE ~ IsSignedDataType(layer.data_type)
    BY <1>1, <1>2, <2>2 DEF FlipsExact
  <2> QED BY <2>1, <2>2
<1>5. RelayoutTypeOK' /\ TileWalk'
  BY <1>1, <1>2 DEF RelayoutTypeOK, Stages, TileWalk
<1>6. VectorsExact'
  BY <1>1, <1>2 DEF VectorsExact, CopiedTo
<1>7. FlipsExact'
  BY <1>1, <1>2, <1>4 DEF FlipsExact
<1> QED BY <1>5, <1>6, <1>7 DEF RelayoutInv

\* The walk over a layer keeps the invariant.
THEOREM RelayoutInvariant == RelayoutSpec => []RelayoutInv
<1>1. ASSUME RelayoutInv, [RelayoutNext]_relayoutVars
      PROVE  RelayoutInv'
  <2>1. CASE BeginLayer   BY <1>1, <2>1, BeginLayerInv
  <2>2. CASE CopyVector   BY <1>1, <2>2, CopyVectorInv
  <2>3. CASE NextTile     BY <1>1, <2>3, NextTileInv
  <2>4. CASE FlipElement  BY <1>1, <2>4, FlipElementInv
  <2>5. CASE FinishLayer  BY <1>1, <2>5, FinishLayerInv
  <2>6. CASE UNCHANGED relayoutVars
    BY <1>1, <2>6 DEF relayoutVars, RelayoutInv, RelayoutTypeOK, TileWalk, VectorsExact,
                      FlipsExact, CopiedTo
  <2> QED BY <1>1, <2>1, <2>2, <2>3, <2>4, <2>5, <2>6 DEF RelayoutNext
<1> QED BY <1>1, RelayoutInitInv, PTL DEF RelayoutSpec

\* Every state of a conversion is well-typed: in particular the destination
\* keeps the size it was allocated with.
THEOREM RelayoutTyped == RelayoutSpec => []RelayoutTypeOK
<1>1. RelayoutInv => RelayoutTypeOK
  BY DEF RelayoutInv
<1> QED BY <1>1, RelayoutInvariant, PTL

\* A byte of an element, as a byte of its vector.
LEMMA ElementBytes ==
  ASSUME NEW l, Layer(l), NEW p \in Nat,
         NEW z \in 0 .. l.z_dim - 1, NEW k \in 0 .. Size(l) - 1
  PROVE  /\ z * Size(l) + k \in 0 .. ZBytes(l) - 1
         /\ (p * l.z_dim + z) * Size(l) + k = p * ZBytes(l) + (z * Size(l) + k)
         /\ (p * l.z_dim + z) * Size(l) + k \in Nat
         /\ ((p * l.z_dim + z) * Size(l) + k) % Size(l) = k
<1>1. /\ Size(l) \in {1, 2, 4} /\ l.z_dim \in Nat /\ ZBytes(l) = l.z_dim * Size(l)
  BY LayerSizes
<1>2. z \in Nat /\ k \in Nat /\ z < l.z_dim /\ k < Size(l) /\ Size(l) \in Nat
  BY <1>1
<1>3. p * l.z_dim \in Nat
  BY <1>1
<1> HIDE DEF Size
<1>4. z * Size(l) + k \in 0 .. ZBytes(l) - 1
  <2>1. z * Size(l) + Size(l) <= l.z_dim * Size(l) /\ z * Size(l) \in Nat
    BY <1>1, <1>2, Products
  <2> QED BY <1>1, <1>2, <2>1
<1>5. (p * l.z_dim + z) * Size(l) + k = p * ZBytes(l) + (z * Size(l) + k)
  <2>1. (p * l.z_dim + z) * Size(l) = (p * l.z_dim) * Size(l) + z * Size(l)
    BY <1>2, <1>3, Products
  <2>2. (p * l.z_dim) * Size(l) = p * ZBytes(l)
    BY <1>1, <1>2
  <2>3. p * ZBytes(l) \in Nat /\ z * Size(l) \in Nat
    BY <1>1, <1>2
  <2> QED BY <1>2, <2>1, <2>2, <2>3
<1>6. \A w \in Nat : /\ w * Size(l) + k \in Nat
                     /\ (w * Size(l) + k) % Size(l) = k
  <2>1. CASE Size(l) = 1  BY <1>2, <2>1
  <2>2. CASE Size(l) = 2  BY <1>2, <2>2
  <2>3. CASE Size(l) = 4  BY <1>2, <2>3
  <2> QED BY <1>1, <2>1, <2>2, <2>3
<1>7. p * l.z_dim + z \in Nat
  BY <1>2, <1>3
<1> QED BY <1>4, <1>5, <1>6, <1>7

\* In a finished layer every byte of the tensor is the one the layout names.
\* (TensorExact, of Relayout and TransformSignedDataType.)
THEOREM TensorIsExact == RelayoutSpec => []TensorExact
<1>1. ASSUME RelayoutInv PROVE TensorExact
  <2> SUFFICES ASSUME stage = "done", layer.executions = 1,
                      layer.has_layout => EvenlySpaced(layer),
                      NEW row \in 0 .. layer.y_dim - 1, NEW x \in 0 .. layer.x_dim - 1,
                      NEW z \in 0 .. layer.z_dim - 1, NEW k \in 0 .. Size(layer) - 1
               PROVE  out[HostByte(layer, row, x, z, k)] =
                        [from    |-> ChipByte(layer, row, x, z, k),
                         flipped |-> IsSignedDataType(layer.data_type) /\ k = Size(layer) - 1]
    BY DEF TensorExact
  <2> DEFINE p == Pos(layer, row, x)
             s == Size(layer)
             c == z * s + k
             b == HostByte(layer, row, x, z, k)
             n == ActualSizeBytes(layer)
  <2>1. /\ Layer(layer) /\ out \in [0 .. n - 1 -> Bytes] /\ dst \in Nat
    BY <1>1 DEF RelayoutInv, RelayoutTypeOK
  <2>2. /\ s \in {1, 2, 4} /\ n \in Nat /\ ZBytes(layer) \in Nat
        /\ IsSignedDataType(layer.data_type) \in BOOLEAN /\ layer.z_dim \in Nat
    BY <2>1, LayerSizes
  <2>3. p \in Nat /\ p * ZBytes(layer) \in Nat /\ p * ZBytes(layer) + ZBytes(layer) <= n
    BY <2>1, VectorPlaces
  <2>4. /\ c \in 0 .. ZBytes(layer) - 1
        /\ b = p * ZBytes(layer) + c /\ b \in Nat /\ b % s = k
    BY <2>1, <2>3, ElementBytes DEF HostByte, Pos
  <2>5. b \in 0 .. n - 1
    <3> HIDE DEF p, s, c, b, n
    <3> QED BY <2>2, <2>3, <2>4
  <2>6. out[b].from = ChipByte(layer, row, x, z, k)
    <3>1. out[p * ZBytes(layer) + c].from = ChipVector(layer, row, x) + c
      BY <1>1, <2>4 DEF RelayoutInv, VectorsExact, CopiedTo
    <3>2. ChipByte(layer, row, x, z, k) = ChipVector(layer, row, x) + c
      <4>1. CASE layer.has_layout
        <5>1. BufIdx(layer, row, x) \in Nat
          BY <2>1, <4>1, BufIdxNat
        <5>2. z \in Nat /\ k \in Nat /\ s \in Nat
          BY <2>2
        <5> HIDE DEF s
        <5>3. (BufIdx(layer, row, x) + z) * s = BufIdx(layer, row, x) * s + z * s
              /\ BufIdx(layer, row, x) * s \in Nat /\ z * s \in Nat
          BY <5>1, <5>2, Products
        <5>4. (BufIdx(layer, row, x) + z) * s + k = BufIdx(layer, row, x) * s + (z * s + k)
          BY <5>2, <5>3
        <5> QED BY <4>1, <5>4 DEF ChipByte, ChipVector, s
      <4>2. CASE ~ layer.has_layout
        <5>1. ChipByte(layer, row, x, z, k) = b /\ ChipVector(layer, row, x) = p * ZBytes(layer)
          BY <4>2 DEF ChipByte, HostByte, ChipVector
        <5> QED BY <2>4, <5>1
      <4>3. layer.has_layout \in BOOLEAN
        BY <2>1 DEF Layer
      <4> QED BY <4>1, <4>2, <4>3
    <3> QED BY <2>4, <3>1, <3>2
  <2>7. out[b].flipped <=> IsSignedDataType(layer.data_type) /\ k = s - 1
    <3>1. out[b].flipped <=> b < dst /\ b % s = s - 1
      BY <1>1, <2>5 DEF RelayoutInv, FlipsExact
    <3>2. IF IsSignedDataType(layer.data_type) THEN n <= dst ELSE dst = 0
      BY <1>1 DEF RelayoutInv, FlipsExact
    <3> HIDE DEF p, s, c, b, n
    <3>3. IsSignedDataType(layer.data_type) <=> b < dst
      BY <2>1, <2>2, <2>4, <2>5, <3>2
    <3> QED BY <2>4, <3>1, <3>3
  <2>8. out[b] \in Bytes
    BY <2>1, <2>5
  <2> HIDE DEF b
  <2>9. out[b].flipped \in BOOLEAN /\ out[b] = [from |-> out[b].from, flipped |-> out[b].flipped]
    BY <2>8 DEF Bytes
  <2>10. out[b].flipped = (IsSignedDataType(layer.data_type) /\ k = Size(layer) - 1)
    BY <2>2, <2>7, <2>9
  <2> QED BY <2>6, <2>9, <2>10 DEF b
<1> QED BY <1>1, RelayoutInvariant, PTL

-----------------------------------------------------------------------------

(***************************************************************************)
(* The parts side by side: each takes steps of its own specification.      *)
(***************************************************************************)
LEMMA EachByItself ==
  DataSpec => WalkSpec /\ RelayoutSpec /\ NmsSpec /\ PatchSpec /\ DeploySpec
<1>1. DataInit => WalkInit /\ RelayoutInit /\ NmsInit /\ PatchInit /\ DeployInit
  BY DEF DataInit
<1>2. ASSUME [DataNext]_<<path, walkVars, relayoutVars, nmsVars, patchVars, deployVars>>
      PROVE  /\ [WalkNext]_walkVars /\ [RelayoutNext]_relayoutVars /\ [NmsNext]_nmsVars
             /\ [PatchNext]_patchVars /\ [DeployNext]_deployVars
  BY <1>2 DEF DataNext
<1> QED  BY <1>1, <1>2, PTL DEF DataSpec, WalkSpec, RelayoutSpec, NmsSpec, PatchSpec, DeploySpec

\* The page walks, the deployment, the patching and the post-processing keep the
\* types of their data, for every value of their constants.
THEOREM DataTyped == DataSpec => []DataTypeOK
<1>1. WalkInv /\ RelayoutTypeOK /\ NmsInv /\ PatchTypeOK /\ DeployTypeOK => DataTypeOK
  BY DEF WalkInv, NmsInv, DataTypeOK
<1> QED  BY <1>1, EachByItself, WalkInvariant, RelayoutTyped, NmsInvariant, PatchTyped,
            DeployTyped, PTL
=============================================================================

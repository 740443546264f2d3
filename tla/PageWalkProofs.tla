--------------------------- MODULE PageWalkProofs ---------------------------
(***************************************************************************)
(* The page walks are exact for every size of the tables and every call:   *)
(* proofs about PageWalk.                                                  *)
(***************************************************************************)
EXTENDS PageWalk, TLAPS

(***************************************************************************)
(* Arithmetic.                                                             *)
(***************************************************************************)

\* A quotient and a remainder determine the number, and are determined by it.
LEMMA DivMod ==
  ASSUME NEW S \in Nat \ {0}, NEW p \in Nat
  PROVE  /\ p % S \in 0 .. S - 1
         /\ p \div S \in Nat
         /\ p = (S * (p \div S)) + (p % S)
  BY Z3

\* Inside one sub-table only the remainder moves.
LEMMA DivModShift ==
  ASSUME NEW S \in Nat \ {0}, NEW p \in Nat, NEW i \in Nat, (p % S) + i < S
  PROVE  /\ (p + i) % S = (p % S) + i
         /\ (p + i) \div S = p \div S
  BY Z3

\* Quotients grow with their numbers.
LEMMA DivMonotonic ==
  ASSUME NEW S \in Nat \ {0}, NEW p \in Nat, NEW q \in Nat, p <= q
  PROVE  p \div S <= q \div S
  BY Z3

\* A number below S * T has a quotient below T.
LEMMA DivBelow ==
  ASSUME NEW S \in Nat \ {0}, NEW T \in Nat \ {0}, NEW p \in Nat, p < T * S
  PROVE  p \div S < T
<1>1. p = (S * (p \div S)) + (p % S) /\ p % S \in 0 .. S - 1 /\ p \div S \in Nat
  BY DivMod
<1>2. SUFFICES ASSUME p \div S >= T PROVE FALSE  BY <1>1
<1>3. S * (p \div S) >= S * T  BY <1>1, <1>2, Z3
<1>4. S * T = T * S  BY Z3
<1>5. p >= T * S  BY <1>1, <1>3, <1>4, Z3
<1> QED  BY <1>5

\* A multiple of S that is smaller than S is zero.
LEMMA SmallMultiple ==
  ASSUME NEW S \in Nat \ {0}, NEW a \in Nat, NEW b \in Nat, a < b
  PROVE  S * b >= S * a + S
<1>1. b >= a + 1  OBVIOUS
<1>2. S * b >= S * (a + 1)  BY <1>1, Z3
<1>3. S * (a + 1) = S * a + S  BY Z3
<1> QED  BY <1>2, <1>3, Z3

\* A number that is q times S and r more, r below S, has the remainder r.
LEMMA ModUnique ==
  ASSUME NEW S \in Nat \ {0}, NEW n \in Nat, NEW q \in Nat, NEW r \in 0 .. S - 1,
         n = (S * q) + r
  PROVE  n % S = r
<1> DEFINE k == n \div S
           t == n % S
<1>1. t \in 0 .. S - 1 /\ k \in Nat /\ n = (S * k) + t  BY DivMod
<1> HIDE DEF k, t
<1>2. S * k \in Nat /\ S * q \in Nat  BY <1>1, Z3
<1>3. ASSUME k < q PROVE FALSE
  <2>1. S * q >= S * k + S  BY <1>1, <1>3, SmallMultiple
  <2> QED  BY <1>1, <1>2, <2>1
<1>4. ASSUME q < k PROVE FALSE
  <2>1. S * k >= S * q + S  BY <1>1, <1>4, SmallMultiple
  <2> QED  BY <1>1, <1>2, <2>1
<1>5. k = q  BY <1>1, <1>3, <1>4
<1>6. t = r  BY <1>1, <1>2, <1>5
<1> QED  BY <1>6 DEF t

\* Once around: S more than n has the same remainder as n.
LEMMA ModOnce ==
  ASSUME NEW S \in Nat \ {0}, NEW n \in Nat, NEW d \in Nat,
         (n % S) + d >= S, (n % S) + d < S + S
  PROVE  (n + d) % S = ((n % S) + d) - S
<1> DEFINE q == n \div S
           t == n % S
<1>1. t \in 0 .. S - 1 /\ q \in Nat /\ n = (S * q) + t /\ t + d >= S /\ t + d < S + S
  BY DivMod
<1> HIDE DEF q, t
<1>2. S * (q + 1) = (S * q) + S /\ S * q \in Nat  BY <1>1, Z3
<1>3. /\ n + d = (S * (q + 1)) + ((t + d) - S) /\ n + d \in Nat /\ q + 1 \in Nat
      /\ (t + d) - S \in 0 .. S - 1
  BY <1>1, <1>2
<1>4. (n + d) % S = (t + d) - S  BY <1>3, ModUnique
<1> QED  BY <1>4 DEF t

\* Going on from n by less than S, and around once at most.
LEMMA ModAround ==
  ASSUME NEW S \in Nat \ {0}, NEW n \in Nat, NEW d \in 0 .. S - 1
  PROVE  /\ n % S \in 0 .. S - 1
         /\ (n + d) % S \in 0 .. S - 1
         /\ (n % S) + d < S => (n + d) % S = (n % S) + d
         /\ (n % S) + d >= S => (n + d) % S = ((n % S) + d) - S
<1>1. n % S \in 0 .. S - 1  BY DivMod
<1>2. n + d \in Nat /\ d \in Nat  OBVIOUS
<1>3. (n + d) % S \in 0 .. S - 1  BY <1>2, DivMod
<1>4. ASSUME (n % S) + d < S PROVE (n + d) % S = (n % S) + d
  BY <1>2, <1>4, DivModShift
<1>5. ASSUME (n % S) + d >= S PROVE (n + d) % S = ((n % S) + d) - S
  <2>1. (n % S) + d < S + S  BY <1>1
  <2> QED  BY <1>2, <1>5, <2>1, ModOnce
<1> QED  BY <1>1, <1>3, <1>4, <1>5

LEMMA SizesPositive == RegisterSpan \in Nat \ {0} /\ UintSpan \in Nat \ {0}
  BY WalkSizesAssumption

\* The registers of a simple range are those at a distance from its first.
LEMMA RegisterAt ==
  ASSUME NEW c, c.first \in Nat, NEW j \in 0 .. RegisterSpan - 1
  PROVE  /\ Cell("simple", c.first + j) \in Cells
         /\ Cell("simple", c.first + j).space = "simple"
         /\ Distance(c, Cell("simple", c.first + j)) = j
<1> DEFINE t == c.first % RegisterSpan
           u == (c.first + j) % RegisterSpan
<1>1. /\ t \in 0 .. RegisterSpan - 1 /\ u \in 0 .. RegisterSpan - 1
      /\ t + j < RegisterSpan => u = t + j
      /\ t + j >= RegisterSpan => u = (t + j) - RegisterSpan
  BY ONLY SizesPositive, ModAround, c.first \in Nat, j \in 0 .. RegisterSpan - 1
<1>2. Cell("simple", c.first + j) = SimpleCell(u)  BY DEF Cell
<1>3. /\ SimpleCell(u) \in Cells /\ SimpleCell(u).space = "simple"
      /\ SimpleCell(u).index = u
  BY <1>1 DEF SimpleCell, Cells
<1>4. Distance(c, SimpleCell(u)) = IF t <= u THEN u - t ELSE u + RegisterSpan - t
  BY <1>3 DEF Distance
<1> HIDE DEF t, u
<1>5. (IF t <= u THEN u - t ELSE u + RegisterSpan - t) = j
  BY <1>1, SizesPositive
<1> QED  BY <1>2, <1>3, <1>4, <1>5

\* And each register is at one distance from it.
LEMMA DistanceOf ==
  ASSUME NEW c, c.first \in Nat, NEW x \in Cells, x.space = "simple"
  PROVE  /\ Distance(c, x) \in 0 .. RegisterSpan - 1
         /\ x = Cell("simple", c.first + Distance(c, x))
<1> DEFINE t == c.first % RegisterSpan
           d == Distance(c, x)
<1>1. t \in 0 .. RegisterSpan - 1  BY SizesPositive, DivMod
<1>2. x = SimpleCell(x.index) /\ x.index \in 0 .. RegisterSpan - 1  BY DEF Cells, SimpleCell
<1>3. d = IF t <= x.index THEN x.index - t ELSE x.index + RegisterSpan - t  BY DEF Distance
<1>4. /\ \A e \in 0 .. RegisterSpan - 1 :
           /\ t + e < RegisterSpan => (c.first + e) % RegisterSpan = t + e
           /\ t + e >= RegisterSpan => (c.first + e) % RegisterSpan = (t + e) - RegisterSpan
  BY SizesPositive, ModAround
<1> HIDE DEF t, d
<1>5. /\ d \in 0 .. RegisterSpan - 1
      /\ t + d < RegisterSpan => t + d = x.index
      /\ t + d >= RegisterSpan => (t + d) - RegisterSpan = x.index
  BY <1>1, <1>2, <1>3, SizesPositive
<1>6. (c.first + d) % RegisterSpan = x.index  BY <1>1, <1>4, <1>5, SizesPositive
<1>7. x = Cell("simple", c.first + d)  BY <1>2, <1>6 DEF Cell
<1> QED  BY <1>5, <1>7 DEF d

\* Two pages fewer than Span apart have different cells.
LEMMA CellsApart ==
  ASSUME NEW p \in Nat, NEW q \in Nat, p < q, q < p + Span
  PROVE  Cell("ext", p) # Cell("ext", q)
<1> USE WalkSizesAssumption
<1> DEFINE a == p \div SubPages
           b == q \div SubPages
<1>1. /\ a \in Nat /\ p % SubPages \in 0 .. SubPages - 1
      /\ p = SubPages * a + (p % SubPages)  BY DivMod
<1>2. /\ b \in Nat /\ q % SubPages \in 0 .. SubPages - 1
      /\ q = SubPages * b + (q % SubPages)  BY DivMod
<1> HIDE DEF a, b
<1>3. /\ a \div IndexSpan \in Nat /\ a % IndexSpan \in 0 .. IndexSpan - 1
      /\ a = IndexSpan * (a \div IndexSpan) + (a % IndexSpan)  BY <1>1, DivMod
<1>4. /\ b \div IndexSpan \in Nat /\ b % IndexSpan \in 0 .. IndexSpan - 1
      /\ b = IndexSpan * (b \div IndexSpan) + (b % IndexSpan)  BY <1>2, DivMod
<1>5. SUFFICES ASSUME a % IndexSpan = b % IndexSpan, p % SubPages = q % SubPages
               PROVE  FALSE
  BY DEF Cell, ExtCell, SubtableIdx, HostTableStart, a, b
<1> DEFINE m == a \div IndexSpan
           n == b \div IndexSpan
<1> HIDE DEF m, n
<1>6. a < b
  <2>1. SUFFICES ASSUME b <= a PROVE FALSE  BY <1>1, <1>2
  <2>2. SubPages * b <= SubPages * a  BY <1>1, <1>2, <2>1, Z3
  <2>a. SubPages * b \in Nat /\ SubPages * a \in Nat  BY <1>1, <1>2, Z3
  <2> QED  BY <1>1, <1>2, <1>5, <2>2, <2>a
<1>7. m < n
  <2>1. SUFFICES ASSUME n <= m PROVE FALSE  BY <1>3, <1>4 DEF m, n
  <2>2. IndexSpan * n <= IndexSpan * m  BY <1>3, <1>4, <2>1, Z3 DEF m, n
  <2>3. IndexSpan * n \in Nat /\ IndexSpan * m \in Nat  BY <1>3, <1>4, Z3 DEF m, n
  <2> QED  BY <1>3, <1>4, <1>5, <1>6, <2>2, <2>3 DEF m, n
<1>8. IndexSpan * n >= IndexSpan * m + IndexSpan
  BY <1>3, <1>4, <1>7, SmallMultiple DEF m, n
<1>9. b >= a + IndexSpan
  <2>1. IndexSpan * n \in Nat /\ IndexSpan * m \in Nat  BY <1>3, <1>4, Z3 DEF m, n
  <2> QED  BY <1>1, <1>2, <1>3, <1>4, <1>5, <1>8, <2>1 DEF m, n
<1>10. SubPages * b >= SubPages * (a + IndexSpan)  BY <1>1, <1>2, <1>9, Z3
<1>11. SubPages * (a + IndexSpan) = SubPages * a + Span  BY <1>1, Z3 DEF Span
<1>12. /\ SubPages * b \in Nat /\ SubPages * a \in Nat /\ Span \in Nat
  BY <1>1, <1>2, Z3 DEF Span
<1>13. SubPages * b >= SubPages * a + Span  BY <1>10, <1>11
<1>14. q >= p + Span  BY <1>1, <1>2, <1>5, <1>12, <1>13
<1> QED  BY <1>14, <1>12

\* The cell of a page behind another one in the same sub-table.
LEMMA CellInSubtable ==
  ASSUME NEW p \in Nat, NEW i \in Nat, HostTableStart(p) + i < SubPages
  PROVE  Cell("ext", p + i) = ExtCell(SubtableIdx(p), HostTableStart(p) + i)
  BY WalkSizesAssumption, DivModShift DEF Cell, SubtableIdx, HostTableStart

LEMMA IndexRanges ==
  ASSUME NEW p \in Nat
  PROVE  /\ SubtableIdx(p) \in 0 .. IndexSpan - 1
         /\ HostTableStart(p) \in 0 .. SubPages - 1
         /\ ExtCell(SubtableIdx(p), HostTableStart(p)) \in Cells
<1> USE WalkSizesAssumption
<1>1. p \div SubPages \in Nat  BY DivMod
<1>2. HostTableStart(p) \in 0 .. SubPages - 1  BY DivMod DEF HostTableStart
<1>3. SubtableIdx(p) \in 0 .. IndexSpan - 1  BY <1>1, DivMod DEF SubtableIdx
<1> QED  BY <1>2, <1>3 DEF ExtCell, Cells

(***************************************************************************)
(* Where the walk is: the inductive part that WalkExact rests on.          *)
(***************************************************************************)
Walking == phase \in {"map", "unmap", "alloc"}

WalkPosition ==
  Walking => /\ call.space = "ext"
             /\ at = call.first + done /\ left + done = PageCount(call)
             /\ phase # "unmap" => left > 0
             /\ phase = "unmap" <=> call.kind = "unmap"
             /\ phase = "alloc" <=> call.kind = "alloc"
             /\ phase = "alloc" => LastSubtable(call) < Regions

LEMMA PageCountNat ==
  ASSUME NEW c \in Calls
  PROVE  PageCount(c) \in Nat /\ (c.bytes > 0 => PageCount(c) > 0)
<1> USE WalkSizesAssumption
<1>1. c.bytes \in Nat  BY DEF Calls
<1>2. PageCount(c) \in Nat  BY <1>1, DivMod DEF PageCount
<1>3. ASSUME c.bytes > 0 PROVE PageCount(c) > 0
  <2>1. PageBytes \div PageBytes = 1  BY Z3
  <2>2. PageBytes \div PageBytes <= PageCount(c)
    BY <1>1, <1>3, DivMonotonic DEF PageCount
  <2> QED  BY <1>2, <2>1, <2>2
<1> QED  BY <1>2, <1>3

LEMMA RequestsAreCalls == Requests \subseteq Calls
<1>1. /\ Firsts \subseteq Nat
      /\ 0 .. PageBytes - 1 \subseteq Nat /\ 0 .. MaxBytes \subseteq Nat
  BY WalkSizesAssumption
<1> QED  BY <1>1 DEF Requests, Calls

LEMMA ChunkSize ==
  ASSUME at \in Nat, left \in Nat
  PROVE  /\ Chunk \in 0 .. left /\ (left > 0 => Chunk > 0)
         /\ HostTableStart(at) + Chunk <= SubPages
  BY WalkSizesAssumption, IndexRanges DEF Chunk

(***************************************************************************)
(* One chunk writes exactly the entries of its pages.                      *)
(***************************************************************************)
LEMMA ChunkWritten ==
  ASSUME WalkTypeOK, NEW n \in Nat, HostTableStart(at) + n <= SubPages,
         WriteSubtable(SubtableIdx(at), HostTableStart(at), n)
  PROVE  /\ tables' \in [Cells -> Values]
         /\ \A i \in 0 .. n - 1 : tables'[Cell("ext", at + i)] = Written(call, calls, done + i)
         /\ \A c \in Cells : (\A i \in 0 .. n - 1 : c # Cell("ext", at + i))
                               => tables'[c] = tables[c]
<1> USE WalkSizesAssumption DEF WalkTypeOK
<1> DEFINE s == SubtableIdx(at)
           h == HostTableStart(at)
           Hit(c) == c.space = "ext" /\ c.table = s /\ h <= c.index /\ c.index < h + n
<1>1. s \in 0 .. IndexSpan - 1 /\ h \in 0 .. SubPages - 1  BY IndexRanges
<1>2. tables' = [c \in Cells |-> IF Hit(c) THEN Written(call, calls, done + (c.index - h))
                                           ELSE tables[c]]
  BY DEF WriteSubtable
<1>3. \A i \in 0 .. n - 1 : Cell("ext", at + i) = ExtCell(s, h + i) /\ ExtCell(s, h + i) \in Cells
  <2> TAKE i \in 0 .. n - 1
  <2>1. h + i < SubPages /\ h + i \in 0 .. SubPages - 1 /\ i \in Nat  BY <1>1
  <2>2. Cell("ext", at + i) = ExtCell(s, h + i)  BY <2>1, CellInSubtable
  <2> QED  BY <1>1, <2>1, <2>2 DEF ExtCell, Cells
<1>4. ASSUME NEW c \in Cells, Hit(c)
      PROVE  c.index - h \in 0 .. n - 1 /\ c = Cell("ext", at + (c.index - h))
  <2>1. c.index \in Nat /\ c.index - h \in 0 .. n - 1  BY <1>1, <1>4 DEF Cells
  <2>2. c = ExtCell(s, c.index)  BY <1>4 DEF Cells, ExtCell
  <2>3. h + (c.index - h) = c.index  BY <1>1, <2>1
  <2> QED  BY <1>3, <2>1, <2>2, <2>3
<1>5. ASSUME NEW i \in 0 .. n - 1
      PROVE  tables'[Cell("ext", at + i)] = Written(call, calls, done + i)
  <2>1. Cell("ext", at + i) = ExtCell(s, h + i) /\ ExtCell(s, h + i) \in Cells  BY <1>3, <1>5
  <2>2. Hit(ExtCell(s, h + i)) /\ ExtCell(s, h + i).index - h = i  BY <1>1 DEF ExtCell
  <2> QED  BY <1>2, <2>1, <2>2
<1>6. ASSUME NEW c \in Cells, \A i \in 0 .. n - 1 : c # Cell("ext", at + i)
      PROVE  tables'[c] = tables[c]
  <2>1. ~ Hit(c)  BY <1>4, <1>6
  <2> QED  BY <1>2, <2>1
<1>7. ASSUME NEW c \in Cells, Hit(c) PROVE Written(call, calls, done + (c.index - h)) \in Values
  <2>1. c.index - h \in Nat  BY <1>4, <1>7
  <2> QED  BY <2>1 DEF Written, Values, None, Frame
<1> QED  BY <1>2, <1>5, <1>6, <1>7

(***************************************************************************)
(* A step that writes the next n pages exactly and counts them keeps the   *)
(* walk exact.                                                             *)
(***************************************************************************)
LEMMA ExactStep ==
  ASSUME WalkTypeOK, WalkPosition, WalkExact, Walking,
         NEW n \in 0 .. left, Advance(n),
         tables' \in [Cells -> Values],
         \A i \in 0 .. n - 1 : tables'[Cell("ext", at + i)] = Written(call, calls, done + i),
         \A c \in Cells : (\A i \in 0 .. n - 1 : c # Cell("ext", at + i))
                            => tables'[c] = tables[c]
  PROVE  WalkExact'
<1> USE DEF WalkTypeOK, Walking
<1>1. PageCount(call) \in Nat  BY PageCountNat
<1>2. /\ call' = call /\ calls' = calls /\ before' = before /\ done' = done + n
      /\ at = call.first + done /\ left + done = PageCount(call)
      /\ call.space = "ext" /\ call.first \in Nat
      /\ (phase' = "accepted" => n = left)
  BY DEF Advance, WalkPosition, Calls
<1> SUFFICES ASSUME PageCount(call) <= Span
             PROVE  /\ \A j \in 0 .. done + n - 1 :
                         tables'[Cell("ext", call.first + j)] = Written(call, calls, j)
                    /\ \A c \in Cells :
                         (\A j \in 0 .. done + n - 1 : c # Cell("ext", call.first + j))
                           => tables'[c] = before[c]
                    /\ phase' = "accepted" => done + n = PageCount(call)
  BY <1>2 DEF WalkExact, PageCount, Distinct, Span
<1>3. /\ \A j \in 0 .. done - 1 :
           tables[Cell("ext", call.first + j)] = Written(call, calls, j)
      /\ \A c \in Cells : (\A j \in 0 .. done - 1 : c # Cell("ext", call.first + j))
                            => tables[c] = before[c]
  BY <1>2 DEF WalkExact, Distinct
<1>4. ASSUME NEW j \in 0 .. done + n - 1
      PROVE  tables'[Cell("ext", call.first + j)] = Written(call, calls, j)
  <2>1. CASE j < done
    <3>1. \A i \in 0 .. n - 1 : Cell("ext", call.first + j) # Cell("ext", at + i)
      <4> TAKE i \in 0 .. n - 1
      <4>1. /\ call.first + j \in Nat /\ at + i \in Nat /\ call.first + j < at + i
            /\ at + i < call.first + j + PageCount(call)
        BY <1>1, <1>2, <2>1
      <4>2. at + i < (call.first + j) + Span
        BY <4>1, <1>1, WalkSizesAssumption DEF Span
      <4> QED  BY <4>1, <4>2, CellsApart
    <3>2. Cell("ext", call.first + j) \in Cells
      <4>1. call.first + j \in Nat  BY <1>2
      <4> QED  BY <4>1, IndexRanges DEF Cell
    <3> QED  BY <1>3, <2>1, <3>1, <3>2
  <2>2. CASE j >= done
    <3>1. j - done \in 0 .. n - 1 /\ at + (j - done) = call.first + j /\ done + (j - done) = j
      BY <1>2, <2>2
    <3> QED  BY <3>1
  <2> QED  BY <2>1, <2>2
<1>5. ASSUME NEW c \in Cells,
             \A j \in 0 .. done + n - 1 : c # Cell("ext", call.first + j)
      PROVE  tables'[c] = before[c]
  <2>1. \A i \in 0 .. n - 1 : c # Cell("ext", at + i)
    <3> TAKE i \in 0 .. n - 1
    <3>1. done + i \in 0 .. done + n - 1 /\ at + i = call.first + (done + i)  BY <1>2
    <3> QED  BY <1>5, <3>1
  <2>2. \A j \in 0 .. done - 1 : c # Cell("ext", call.first + j)  BY <1>5
  <2> QED  BY <1>3, <2>1, <2>2
<1> QED  BY <1>2, <1>4, <1>5

(***************************************************************************)
(* The inductive invariant and its steps.                                  *)
(***************************************************************************)
WalkInv == WalkTypeOK /\ WalkPosition /\ WalkExact /\ WalkStaysInside

LEMMA WalkInitInv == WalkInit => WalkInv
<1> SUFFICES ASSUME WalkInit PROVE WalkInv  OBVIOUS
<1> USE WalkSizesAssumption DEF WalkInit
<1>1. Fresh \in [Cells -> Values]
  BY DEF Fresh, Values, None, SubTable, Foreign, InTables, PageTableSize, Cells
<1>2. NoCall \in Calls  BY DEF NoCall, Calls, Kinds
<1>3. WalkTypeOK  BY <1>1, <1>2 DEF WalkTypeOK, Phases
<1> QED  BY <1>3 DEF WalkInv, WalkPosition, Walking, WalkExact, WalkStaysInside

LEMMA BeginExtInv ==
  ASSUME WalkInv, NEW c \in Requests, BeginExt(c)
  PROVE  WalkInv'
<1> USE DEF WalkInv, BeginExt, Begin
<1>1. c \in Calls /\ c.first \in Nat /\ c.bytes \in Nat  BY RequestsAreCalls DEF Calls
<1>2. PageCount(c) \in Nat /\ (c.bytes > 0 => PageCount(c) > 0)  BY <1>1, PageCountNat
<1>3. c.kind = "alloc" \/ c.kind = "cache" => c.bytes > 0  BY DEF Requests
<1>4. c.kind \in Kinds  BY DEF Requests
<1>5. phase' \in {"unmap", "refused", "alloc", "map"}  OBVIOUS
<1>6. WalkTypeOK'
  BY <1>1, <1>2, <1>5 DEF WalkTypeOK, Phases
<1>7. WalkPosition'
  <2>1. /\ phase' = "unmap" <=> c.kind = "unmap"
        /\ phase' = "alloc" => c.kind = "alloc" /\ LastSubtable(c) < Regions
        /\ phase' = "map" => c.kind # "alloc" /\ c.bytes > 0
    <3>1. LastSubtable(c) \in Nat \/ c.kind # "alloc"
      <4>1. c.kind = "alloc" => c.first + PageCount(c) - 1 \in Nat  BY <1>1, <1>2, <1>3
      <4> QED  BY <4>1, IndexRanges DEF LastSubtable
    <3> QED  BY <1>1, <3>1, <1>4, WalkSizesAssumption DEF Kinds
  <2>2. call' = c /\ at' = c.first /\ left' = PageCount(c) /\ done' = 0 /\ c.space = "ext"
    OBVIOUS
  <2>3. PageCount(c)' = PageCount(c) /\ LastSubtable(c)' = LastSubtable(c)
    BY DEF PageCount, LastSubtable, SubtableIdx
  <2>4. (PageCount(call) = PageCount(c))' /\ (LastSubtable(call) = LastSubtable(c))'
    BY <2>2
  <2>5. (phase' = "alloc" <=> c.kind = "alloc") \/ phase' = "refused"  BY <2>1
  <2> QED  BY <1>1, <1>2, <1>3, <1>5, <2>1, <2>2, <2>3, <2>4, <2>5 DEF WalkPosition, Walking
<1>8. WalkExact'  BY <1>5 DEF WalkExact
<1>9. WalkStaysInside'  BY DEF WalkStaysInside
<1> QED  BY <1>6, <1>7, <1>8, <1>9

\* A simple range whose sum does not wrap and passes the test is in the tables.
LEMMA InsideUnlessWrapped ==
  ASSUME NEW c \in Calls, NEW n \in Nat, (c.first % UintSpan) + n < UintSpan,
         ~((c.first + n) % UintSpan > PageTableSize),
         NEW x \in Cells, ~ InTables(x), x.space = "simple"
  PROVE  ~(Distance(c, x) < n)
<1> DEFINE s == c.first % UintSpan
           k == c.first \div UintSpan
           t == c.first % RegisterSpan
<1>1. c.first \in Nat  BY DEF Calls
<1>2. s \in Nat /\ k \in Nat /\ c.first = (UintSpan * k) + s
  <2>1. /\ s \in 0 .. UintSpan - 1 /\ k \in Nat
        /\ c.first = (UintSpan * k) + s
    BY ONLY <1>1, DivMod, SizesPositive
  <2> QED  BY <2>1, SizesPositive
<1>3. (c.first + n) % UintSpan = s + n  BY <1>1, DivModShift, SizesPositive
<1>4. s + n <= PageTableSize
  <2> HIDE DEF s
  <2> QED  BY <1>2, <1>3, WalkSizesAssumption DEF PageTableSize
<1>5. SUFFICES ASSUME n > 0 PROVE ~(Distance(c, x) < n)
  <2>1. Distance(c, x) \in Nat  BY <1>1, DistanceOf
  <2> QED  BY <2>1
<1>6. /\ PageTableSize <= RegisterSpan /\ PageTableSize \in Nat
      /\ x.index \in Nat /\ x.index >= PageTableSize
  BY WalkSizesAssumption DEF Cells, InTables, PageTableSize
<1>7. t = s
  <2> HIDE DEF s, k
  <2>1. s \in 0 .. RegisterSpan - 1  BY <1>2, <1>4, <1>5, <1>6, SizesPositive
  <2>2. UintSpan * k = RegisterSpan * (8 * k) /\ 8 * k \in Nat
    BY <1>2, WalkSizesAssumption, Z3
  <2>3. c.first = (RegisterSpan * (8 * k)) + s  BY <1>2, <2>2
  <2> QED  BY <1>1, <2>1, <2>2, <2>3, ModUnique, SizesPositive
<1>8. Distance(c, x) = IF t <= x.index THEN x.index - t ELSE x.index + RegisterSpan - t
  BY DEF Distance
<1> HIDE DEF s, t
<1> QED  BY <1>2, <1>4, <1>5, <1>6, <1>7, <1>8

LEMMA BeginSimpleInv ==
  ASSUME WalkInv, NEW c \in Requests, BeginSimple(c)
  PROVE  WalkInv'
<1> USE DEF WalkInv
<1>1. /\ c \in Calls /\ c.first \in Nat /\ c.bytes \in Nat /\ c.space = "simple"
      /\ c.kind \in Kinds
  BY RequestsAreCalls DEF Calls, BeginSimple, Requests
<1>2. PageCount(c) \in Nat  BY <1>1, PageCountNat
<1>3. /\ call' = c /\ before' = tables /\ calls' = calls + 1 /\ calls \in Nat
      /\ at' = c.first /\ left' = 0 /\ tables \in [Cells -> Values]
  BY DEF BeginSimple, WalkTypeOK
<1>4. PageCount(c)' = PageCount(c)  BY DEF PageCount
<1>5. CASE SimpleRefused(c)
  <2>1. done' = 0 /\ phase' = "refused" /\ tables' = tables  BY <1>5 DEF BeginSimple
  <2>2. WalkTypeOK'  BY <1>1, <1>2, <1>3, <2>1 DEF WalkTypeOK, Phases
  <2>3. WalkPosition'  BY <2>1 DEF WalkPosition, Walking
  <2>4. WalkExact'  BY <1>3, <2>1 DEF WalkExact
  <2>5. WalkStaysInside'  BY <1>3, <2>1 DEF WalkStaysInside
  <2> QED  BY <2>2, <2>3, <2>4, <2>5
<1>6. CASE ~ SimpleRefused(c)
  <2> DEFINE Hit(x) == x.space = "simple" /\ Distance(c, x) < PageCount(c)
  <2>1. /\ done' = PageCount(c) /\ phase' = "accepted"
        /\ tables' = [x \in Cells |-> IF Hit(x) THEN Written(c, calls + 1, Distance(c, x))
                                                ELSE tables[x]]
    BY <1>6 DEF BeginSimple
  <2>2. ASSUME NEW x \in Cells, Hit(x)
        PROVE  /\ Distance(c, x) \in 0 .. PageCount(c) - 1
               /\ x = Cell("simple", c.first + Distance(c, x))
    BY <1>1, <1>2, <2>2, DistanceOf, WalkSizesAssumption
  <2>3. ASSUME NEW x \in Cells, Hit(x)
        PROVE  Written(c, calls + 1, Distance(c, x)) \in Values
    <3>1. Distance(c, x) \in Nat  BY <1>2, <2>2, <2>3
    <3> QED  BY <1>3, <3>1 DEF Written, Values, None, Frame
  <2> HIDE DEF Hit
  <2>4. WalkTypeOK'
    BY <1>1, <1>2, <1>3, <2>1, <2>3 DEF WalkTypeOK, Phases
  <2>5. WalkPosition'  BY <2>1 DEF WalkPosition, Walking
  <2>6. WalkExact'
    <3>1. ASSUME PageCount(c) <= RegisterSpan, NEW j \in 0 .. PageCount(c) - 1
          PROVE  tables'[Cell("simple", c.first + j)] = Written(c, calls + 1, j)
      <4>1. j \in 0 .. RegisterSpan - 1  BY <1>2, <3>1, WalkSizesAssumption
      <4>2. /\ Cell("simple", c.first + j) \in Cells
            /\ Cell("simple", c.first + j).space = "simple"
            /\ Distance(c, Cell("simple", c.first + j)) = j
        BY <1>1, <4>1, RegisterAt
      <4>3. Hit(Cell("simple", c.first + j))  BY <1>2, <3>1, <4>2 DEF Hit
      <4> QED  BY <2>1, <4>2, <4>3
    <3>2. ASSUME NEW x \in Cells,
                 \A j \in 0 .. PageCount(c) - 1 : x # Cell("simple", c.first + j)
          PROVE  tables'[x] = tables[x]
      <4>1. ~ Hit(x)  BY <2>2, <3>2
      <4> QED  BY <2>1, <4>1
    <3>3. (PageCount(call) = PageCount(c))'  BY <1>3
    <3>4. Distinct(c.space)' = RegisterSpan  BY <1>1 DEF Distinct
    <3>5. Distinct(call.space)' = Distinct(c.space)'  BY <1>3
    <3> QED  BY <1>1, <1>3, <1>4, <2>1, <3>1, <3>2, <3>3, <3>4, <3>5 DEF WalkExact
  <2>7. WalkStaysInside'
    <3>1. Unchecked(c)' = Unchecked(c)  BY <1>4 DEF Unchecked, Span
    <3>2. SUFFICES ASSUME ~ Unchecked(c), NEW x \in Cells, ~ InTables(x)
                   PROVE  tables'[x] = tables[x]
      <4>1. Unchecked(call)' <=> Unchecked(c)  BY <1>3, <3>1, <1>4 DEF Unchecked, Span
      <4> QED  BY <1>3, <4>1 DEF WalkStaysInside, InTables, PageTableSize
    <3>3. c.kind # "cache" /\ (c.first % UintSpan) + PageCount(c) < UintSpan
      <4>1. c.first % UintSpan \in 0 .. UintSpan - 1  BY <1>1, DivMod, SizesPositive
      <4> QED  BY <1>1, <1>2, <3>2, <4>1, WalkSizesAssumption DEF Unchecked
    <3>4. ~ Hit(x)
      BY <1>1, <1>2, <1>6, <3>2, <3>3, InsideUnlessWrapped DEF SimpleRefused, Hit
    <3> QED  BY <2>1, <3>4
  <2> QED  BY <2>4, <2>5, <2>6, <2>7
<1> QED  BY <1>5, <1>6

\* Every chunk: the walk goes on from where the chunk ends.
LEMMA AdvancePosition ==
  ASSUME WalkTypeOK, WalkPosition, Walking, NEW n \in 0 .. left, Advance(n),
         tables' \in [Cells -> Values]
  PROVE  WalkTypeOK' /\ WalkPosition'
<1> USE DEF Advance, Walking
<1>1. /\ at \in Nat /\ left \in Nat /\ done \in Nat /\ call \in Calls
      /\ phase' = phase \/ phase' = "accepted"
  BY DEF WalkTypeOK
<1>2. WalkTypeOK'  BY <1>1 DEF WalkTypeOK, Phases
<1>3. PageCount(call)' = PageCount(call) /\ LastSubtable(call)' = LastSubtable(call)
  BY DEF PageCount, LastSubtable, SubtableIdx
<1>4. call.first \in Nat  BY <1>1 DEF Calls
<1>5. phase' = phase => n < left \/ phase = "accepted"  OBVIOUS
<1>6. PageCount(call) \in Nat  BY <1>1, PageCountNat
<1>7. WalkPosition'
  BY <1>1, <1>3, <1>4, <1>5, <1>6 DEF WalkPosition
<1> QED  BY <1>2, <1>7

LEMMA ExtMapRefuseInv ==
  ASSUME WalkInv, ExtMapRefuse
  PROVE  WalkInv'
<1> USE DEF WalkInv, ExtMapRefuse
<1>1. WalkTypeOK'  BY DEF WalkTypeOK, Phases
<1>2. WalkPosition'  BY DEF WalkPosition, Walking
<1>3. WalkExact'  BY DEF WalkExact, PageCount
<1>4. WalkStaysInside'  BY DEF WalkStaysInside, Unchecked, PageCount
<1> QED  BY <1>1, <1>2, <1>3, <1>4

\* A chunk that stays inside the pool disturbs nothing outside the tables.
LEMMA ChunkStaysInside ==
  ASSUME WalkInv, NEW n \in Nat, HostTableStart(at) + n <= SubPages,
         \A c \in Cells : (\A i \in 0 .. n - 1 : c # Cell("ext", at + i))
                            => tables'[c] = tables[c],
         call' = call, before' = before,
         ~ Unchecked(call) => SubtableIdx(at) < Regions
  PROVE  WalkStaysInside'
<1> USE DEF WalkInv
<1>1. SUFFICES ASSUME ~ Unchecked(call), NEW c \in Cells, ~ InTables(c)
               PROVE  tables'[c] = before[c]
  BY DEF WalkStaysInside, Unchecked, PageCount, Span
<1>2. at \in Nat  BY DEF WalkTypeOK
<1>3. \A i \in 0 .. n - 1 : c # Cell("ext", at + i)
  <2> TAKE i \in 0 .. n - 1
  <2>1. HostTableStart(at) + i < SubPages /\ i \in Nat
    BY <1>2, IndexRanges, WalkSizesAssumption
  <2>2. Cell("ext", at + i) = ExtCell(SubtableIdx(at), HostTableStart(at) + i)
    BY <1>2, <2>1, CellInSubtable
  <2>3. InTables(Cell("ext", at + i))  BY <1>1, <2>2 DEF InTables, ExtCell
  <2> QED  BY <1>1, <2>3
<1> QED  BY <1>1, <1>3 DEF WalkStaysInside

LEMMA ExtMapChunkInv ==
  ASSUME WalkInv, ExtMapChunk
  PROVE  WalkInv'
<1> USE DEF WalkInv, ExtMapChunk
<1>1. at \in Nat /\ left \in Nat /\ Walking  BY DEF WalkTypeOK, Walking
<1>2. Chunk \in 0 .. left /\ Chunk \in Nat /\ HostTableStart(at) + Chunk <= SubPages
  BY <1>1, ChunkSize
<1>3. /\ tables' \in [Cells -> Values]
      /\ \A i \in 0 .. Chunk - 1 : tables'[Cell("ext", at + i)] = Written(call, calls, done + i)
      /\ \A c \in Cells : (\A i \in 0 .. Chunk - 1 : c # Cell("ext", at + i))
                            => tables'[c] = tables[c]
  BY <1>2, ChunkWritten
<1>4. WalkTypeOK' /\ WalkPosition'  BY <1>1, <1>2, <1>3, AdvancePosition
<1>5. WalkExact'  BY <1>1, <1>2, <1>3, ExactStep
<1>6. WalkStaysInside'  BY <1>2, <1>3, ChunkStaysInside DEF Advance
<1> QED  BY <1>4, <1>5, <1>6

LEMMA ExtUnmapChunkInv ==
  ASSUME WalkInv, ExtUnmapChunk
  PROVE  WalkInv'
<1> USE DEF WalkInv, ExtUnmapChunk
<1>1. at \in Nat /\ left \in Nat /\ Walking  BY DEF WalkTypeOK, Walking
<1>2. Chunk \in 0 .. left /\ Chunk \in Nat /\ HostTableStart(at) + Chunk <= SubPages
  BY <1>1, ChunkSize
<1>3. /\ tables' \in [Cells -> Values]
      /\ \A i \in 0 .. Chunk - 1 : tables'[Cell("ext", at + i)] = Written(call, calls, done + i)
      /\ \A c \in Cells : (\A i \in 0 .. Chunk - 1 : c # Cell("ext", at + i))
                            => tables'[c] = tables[c]
  BY <1>2, ChunkWritten
<1>4. WalkTypeOK' /\ WalkPosition'  BY <1>1, <1>2, <1>3, AdvancePosition
<1>5. WalkExact'  BY <1>1, <1>2, <1>3, ExactStep
<1>6. Unchecked(call)  BY <1>1 DEF WalkPosition, Unchecked
<1>7. WalkStaysInside'  BY <1>2, <1>3, <1>6, ChunkStaysInside DEF Advance
<1> QED  BY <1>4, <1>5, <1>7

LEMMA AllocPageInv ==
  ASSUME WalkInv, AllocPage
  PROVE  WalkInv'
<1> USE DEF WalkInv, AllocPage
<1>1. at \in Nat /\ left \in Nat /\ Walking /\ call \in Calls /\ done \in Nat
  BY DEF WalkTypeOK, Walking
<1>2. /\ left > 0 /\ call.kind = "alloc" /\ call.space = "ext"
      /\ LastSubtable(call) < Regions /\ at = call.first + done
      /\ left + done = PageCount(call)
  BY <1>1 DEF WalkPosition
<1>3. 1 \in 0 .. left  BY <1>1, <1>2
<1>4. HostTableStart(at) + 1 <= SubPages /\ HostTableStart(at) \in Nat
  BY <1>1, IndexRanges, WalkSizesAssumption
<1>5. WriteSubtable(SubtableIdx(at), HostTableStart(at), 1)
  <2>1. ASSUME NEW c \in Cells
        PROVE  /\ c.space = "ext" /\ c.table = SubtableIdx(at)
                  /\ HostTableStart(at) <= c.index /\ c.index < HostTableStart(at) + 1
               <=> c = ExtCell(SubtableIdx(at), HostTableStart(at))
    BY <1>1, <1>4, WalkSizesAssumption DEF Cells, ExtCell
  <2>2. ASSUME NEW c \in Cells, c = ExtCell(SubtableIdx(at), HostTableStart(at))
        PROVE  Written(call, calls, done + (c.index - HostTableStart(at))) = Frame(calls, done)
    BY <1>1, <1>2, <1>4, <2>2 DEF Written, ExtCell
  <2>3. tables \in [Cells -> Values]  BY DEF WalkTypeOK
  <2> QED  BY <2>1, <2>2, <2>3 DEF WriteSubtable
<1>6. /\ tables' \in [Cells -> Values]
      /\ \A i \in 0 .. 1 - 1 : tables'[Cell("ext", at + i)] = Written(call, calls, done + i)
      /\ \A c \in Cells : (\A i \in 0 .. 1 - 1 : c # Cell("ext", at + i))
                            => tables'[c] = tables[c]
  BY <1>4, <1>5, ChunkWritten
<1>7. WalkTypeOK' /\ WalkPosition'  BY <1>1, <1>3, <1>6, AdvancePosition
<1>8. WalkExact'  BY <1>1, <1>3, <1>6, ExactStep
<1>9. ~ Unchecked(call) => SubtableIdx(at) < Regions
  <2>1. SUFFICES ASSUME ~ Unchecked(call) PROVE SubtableIdx(at) < Regions  OBVIOUS
  <2> DEFINE last == call.first + PageCount(call) - 1
  <2>2. call.first \in Nat /\ PageCount(call) \in Nat  BY <1>1, PageCountNat DEF Calls
  <2>3. Span \in Nat /\ call.first + PageCount(call) <= Span
    BY <1>2, <2>1, <2>2, WalkSizesAssumption DEF Unchecked, Span
  <2>4. last \in Nat /\ at <= last /\ last < Span  BY <1>1, <1>2, <2>2, <2>3
  <2>5. at \div SubPages <= last \div SubPages
    BY <1>1, <2>4, DivMonotonic, WalkSizesAssumption
  <2>6. last \div SubPages < IndexSpan
    BY <2>4, DivBelow, WalkSizesAssumption DEF Span
  <2>7. at \div SubPages \in Nat /\ last \div SubPages \in Nat
    BY <1>1, <2>4, DivMod, WalkSizesAssumption
  <2>8. \A q \in Nat : q < IndexSpan => q % IndexSpan = q  BY WalkSizesAssumption, Z3
  <2> HIDE DEF last
  <2>9. SubtableIdx(at) = at \div SubPages /\ SubtableIdx(last) = last \div SubPages
    BY <2>5, <2>6, <2>7, <2>8, WalkSizesAssumption DEF SubtableIdx
  <2>10. SubtableIdx(last) < Regions  BY <1>2 DEF LastSubtable, last
  <2> QED  BY <2>5, <2>7, <2>9, <2>10, WalkSizesAssumption
<1>10. WalkStaysInside'  BY <1>4, <1>6, <1>9, ChunkStaysInside DEF Advance
<1> QED  BY <1>7, <1>8, <1>10

LEMMA WalkNextInv == WalkInv /\ [WalkNext]_walkVars => WalkInv'
<1> SUFFICES ASSUME WalkInv, [WalkNext]_walkVars PROVE WalkInv'  OBVIOUS
<1>1. ASSUME NEW c \in Requests, BeginExt(c) PROVE WalkInv'  BY <1>1, BeginExtInv
<1>2. ASSUME NEW c \in Requests, BeginSimple(c) PROVE WalkInv'  BY <1>2, BeginSimpleInv
<1>3. CASE ExtMapRefuse  BY <1>3, ExtMapRefuseInv
<1>4. CASE ExtMapChunk  BY <1>4, ExtMapChunkInv
<1>5. CASE ExtUnmapChunk  BY <1>5, ExtUnmapChunkInv
<1>6. CASE AllocPage  BY <1>6, AllocPageInv
<1>7. CASE UNCHANGED walkVars
  BY <1>7 DEF walkVars, WalkInv, WalkTypeOK, WalkPosition, Walking, WalkExact,
              WalkStaysInside, Unchecked, PageCount, LastSubtable, Distinct
<1> QED  BY <1>1, <1>2, <1>3, <1>4, <1>5, <1>6, <1>7 DEF WalkNext

\* In every reachable state of the page walks, for tables of any size.
THEOREM WalkInvariant == WalkSpec => []WalkInv
  BY WalkInitInv, WalkNextInv, PTL DEF WalkSpec

\* Every walk writes exactly its range, whatever sub-table borders it crosses
\* (ApexExtMapBuffer, ApexPageTableUnmap, the loop of ALLOC_IO_BUFFERS).
THEOREM WalkIsExact == WalkSpec => []WalkExact
<1>1. WalkInv => WalkExact  BY DEF WalkInv
<1> QED  BY <1>1, WalkInvariant, PTL

\* Only the calls whose handler leaves a bound unchecked, or tests a sum that
\* has wrapped (Memory.c, startPte + pageCount), write outside the tables.
THEOREM WalkInside == WalkSpec => []WalkStaysInside
<1>1. WalkInv => WalkStaysInside  BY DEF WalkInv
<1> QED  BY <1>1, WalkInvariant, PTL

\* A page-aligned buffer is reachable to its last byte after a successful call.
THEOREM AlignedBufferCovered == WalkSpec => []BufferCovered
<1>1. WalkInv => BufferCovered
  <2> SUFFICES ASSUME WalkInv, phase = "accepted", call.kind # "unmap",
                      PageCount(call) <= Distinct(call.space), NEW b \in 0 .. call.bytes - 1
               PROVE  tables[Cell(call.space, call.first + (b \div PageBytes))] =
                        Frame(calls, b \div PageBytes)
    BY DEF BufferCovered
  <2> USE WalkSizesAssumption
  <2>1. call.bytes \in Nat /\ b \in Nat /\ b <= call.bytes - 1
    BY DEF WalkInv, WalkTypeOK, Calls
  <2>2. b \div PageBytes \in 0 .. PageCount(call) - 1
    <3>1. (b + PageBytes) \div PageBytes = (b \div PageBytes) + 1  BY <2>1, Z3
    <3>2. /\ b + PageBytes \in Nat /\ call.bytes + PageBytes - 1 \in Nat
          /\ b + PageBytes <= call.bytes + PageBytes - 1  BY <2>1
    <3>3. (b + PageBytes) \div PageBytes <= PageCount(call)
      BY <2>1, <3>2, DivMonotonic DEF PageCount
    <3>4. b \div PageBytes \in Nat  BY <2>1, DivMod
    <3>5. PageCount(call) \in Nat  BY PageCountNat DEF WalkInv, WalkTypeOK
    <3> QED  BY <3>1, <3>3, <3>4, <3>5
  <2>3. /\ done = PageCount(call)
        /\ \A j \in 0 .. done - 1 :
             tables[Cell(call.space, call.first + j)] = Written(call, calls, j)
    BY DEF WalkInv, WalkExact
  <2> QED  BY <2>2, <2>3 DEF Written
<1> QED  BY <1>1, WalkInvariant, PTL
=============================================================================

---------------------------- MODULE MCBufferMap ----------------------------
(* Values for model-checking BufferMap: three simple pages, one sub-table of  *)
(* two pages, two IO slots.                                                 *)
EXTENDS BufferInvariant

Range(space, first, count) == [space |-> space, first |-> first, count |-> count]

Simple0 == Range("simple", 0, 1)
Simple01 == Range("simple", 0, 2)
Simple2 == Range("simple", 2, 1)
Ext0    == Range("ext", 0, 1)
Ext1    == Range("ext", 1, 1)
Beyond  == Range("ext", 1, 2)           \* leaves the pool after one page

InsideRanges  == {Simple0, Ext0, Ext1}
AnyRanges     == {Simple01, Ext0, Beyond}

\* The runtime's request (both slots), and one for a single slot.
SlotRequests == {<<Simple2, Ext1>>, <<NoRange, Ext1>>}
NoRequests   == {}

\* What the theorems on granted slots and on caches ask of the clients, these
\* clients do.
ASSUME RequestsApart == SlotsApart
ASSUME SizesKnown    == SizesCover
=============================================================================

--------------------------- MODULE BufferMapProofs ---------------------------
(***************************************************************************)
(* Type correctness of BufferMap, for every client, and, for one handle at *)
(* a time, that no page table entry points to a freed common buffer.       *)
(***************************************************************************)
EXTENDS BufferInvariant, TLAPS

USE DEF Parties, Caches

\* The types the actions move between.
LEMMA Constants ==
  /\ SlotCount \in Nat /\ MaxBuffers \in Nat /\ MaxHandles \in Nat /\ MaxExtras \in Nat
  /\ NoRange \in Ranges
  /\ Nothing \in [buf : 0 .. MaxBuffers, at : Ranges]
  /\ \A r \in MapRanges : r \in Ranges
  /\ \A w \in AllocRequests : w \in [SlotIds -> Ranges]
BY SizesAssumption, RangesAssumption, AllocsAssumption
   DEF NoRange, Nothing, Ranges, Spaces, SlotIds

LEMMA WrittenType ==
  ASSUME TypeOK, NEW r, NEW b \in 0 .. MaxBuffers
  PROVE  Written(r, b) \in [Entries -> 0 .. Pool]
BY Constants DEF TypeOK, Written, Pool

\* A new buffer and its entries have the right types.
LEMMA NewBufferType ==
  ASSUME TypeOK, used < MaxBuffers, NEW r, NEW m \in {"pinned", "unpinned", "common"}
  PROVE  /\ used + 1 \in 0 .. MaxBuffers
         /\ Written(r, used + 1) \in [Entries -> 0 .. Pool]
         /\ Become(used + 1, m)
              \in [Buffers -> {"unused", "pinned", "unpinned", "common", "freed"}]
<1>1. used + 1 \in 0 .. MaxBuffers
  BY Constants DEF TypeOK
<1>2. Written(r, used + 1) \in [Entries -> 0 .. Pool]
  BY <1>1, WrittenType
<1>3. Become(used + 1, m) \in [Buffers -> {"unused", "pinned", "unpinned", "common", "freed"}]
  BY DEF TypeOK, Become
<1> QED BY <1>1, <1>2, <1>3

\* The two caches are a record and a function of their names.
LEMMA CachesType ==
  ASSUME NEW S, NEW a \in S, NEW b \in S
  PROVE  [param |-> a, bits |-> b] \in [Caches -> S]
OBVIOUS

\* Every step of BufferMap (all IOCTLs of Queue.c, the file cleanup of
\* Device.c) keeps the types.
LEMMA TypeStep ==
  ASSUME TypeOK, LoopInRange, [Next]_vars
  PROVE  TypeOK' /\ LoopInRange'
<1> USE Constants DEF TypeOK, LoopInRange, Labels, Buffers, tables, owners, inputs, Goto
<1>0. \A r, b : b \in 0 .. MaxBuffers => Written(r, b) \in [Entries -> 0 .. Pool]
  BY WrittenType
<1>b. \A r : Cleared(r) \in [Entries -> 0 .. Pool]
  <2>1. 0 \in 0 .. MaxBuffers
    OBVIOUS
  <2> QED BY <1>0, <2>1 DEF Cleared
<1>a. ASSUME used < MaxBuffers
      PROVE  /\ used + 1 \in 0 .. MaxBuffers
             /\ \A r : Written(r, used + 1) \in [Entries -> 0 .. Pool]
             /\ \A m \in {"pinned", "unpinned", "common"} : Become(used + 1, m)
                  \in [Buffers -> {"unused", "pinned", "unpinned", "common", "freed"}]
  BY <1>a, NewBufferType
<1>1. CASE Open
  BY <1>1 DEF Open
<1>2. CASE Close
  BY <1>2 DEF Close
<1>3. CASE MapKeep
  <2>1. model' \in 0 .. MaxBuffers /\ lastMap' \in Ranges /\ held' \in 0 .. MaxBuffers
    BY <1>3 DEF MapKeep
  <2>2. extras' \in Seq(Buffers) /\ Len(extras') <= MaxExtras
    <3>1. CASE model # 0 /\ Len(extras) < MaxExtras
      <4>1. model \in Buffers /\ extras' = Append(extras, model)
        BY <1>3, <3>1 DEF MapKeep
      <4> QED BY <3>1, <4>1
    <3>2. CASE ~(model # 0 /\ Len(extras) < MaxExtras)
      BY <1>3, <3>2 DEF MapKeep
    <3> QED BY <3>1, <3>2
  <2>3. mem' \in [Buffers -> {"unused", "pinned", "unpinned", "common", "freed"}]
    BY <1>3 DEF MapKeep, Become
  <2>4. pc' \in [Parties -> Labels] /\ LoopInRange'
    BY <1>3 DEF MapKeep
  <2> QED BY <1>3, <2>1, <2>2, <2>3, <2>4 DEF MapKeep
<1>4. CASE PinParam
  <2>1. entry' \in [Entries -> 0 .. Pool]
    <3>1. used + 1 \in 0 .. MaxBuffers /\ entry' = Written(arg, used + 1)
      BY <1>4 DEF PinParam
    <3> QED BY <1>0, <3>1
  <2>2. /\ used' \in 0 .. MaxBuffers /\ model' \in 0 .. MaxBuffers
        /\ mem' \in [Buffers -> {"unused", "pinned", "unpinned", "common", "freed"}]
    BY <1>4 DEF PinParam, Become
  <2>3. [lastMap EXCEPT !.count = bsPages] \in Ranges
    BY DEF Ranges
  <2>4. cache' \in [Caches -> [buf : 0 .. MaxBuffers, at : Ranges]]
    <3>1. /\ [buf |-> used + 1, at |-> arg] \in [buf : 0 .. MaxBuffers, at : Ranges]
          /\ [buf |-> model, at |-> [lastMap EXCEPT !.count = bsPages]]
               \in [buf : 0 .. MaxBuffers, at : Ranges]
      BY <1>4, <2>3 DEF PinParam
    <3>2. /\ cache["bits"] \in [buf : 0 .. MaxBuffers, at : Ranges]
          /\ cache' = [param |-> [buf |-> used + 1, at |-> arg], bits |-> cache'["bits"]]
          /\ \/ cache'["bits"] = cache["bits"]
             \/ cache'["bits"] = [buf |-> model, at |-> [lastMap EXCEPT !.count = bsPages]]
      BY <1>4 DEF PinParam
    <3> HIDE DEF TypeOK, Ranges
    <3> QED BY <3>1, <3>2, CachesType
  <2> QED BY <1>4, <2>1, <2>2, <2>4 DEF PinParam
<1>5. CASE PinFails
  BY <1>5, <1>0 DEF PinFails, Become
<1>6. CASE AllocDone
  BY <1>6 DEF AllocDone
<1>7. CASE Free
  BY <1>7 DEF Free
<1>8. CASE Drain
  BY <1>8 DEF Drain
<1>9. ASSUME NEW r \in MapRanges, MapPin(r) PROVE TypeOK' /\ LoopInRange'
  <2>1. /\ used < MaxBuffers /\ r \in Ranges /\ pc' = [pc EXCEPT !["ioctl"] = "keep"]
        /\ used' = used + 1 /\ mem' = Become(used + 1, "pinned")
        /\ entry' = Written(r, used + 1) /\ held' = used + 1 /\ arg' = r
        /\ UNCHANGED <<owners, handles, idx, bsPages, want, granted>>
    BY <1>9 DEF MapPin, MayMap
  <2> QED BY <2>1, <1>a
<1>10. ASSUME NEW r \in MapRanges, MapPartly(r) PROVE TypeOK' /\ LoopInRange'
  <2>1. /\ used < MaxBuffers
        /\ used' = used + 1 /\ mem' = Become(used + 1, "unpinned")
        /\ entry' = Written(r, used + 1)
        /\ UNCHANGED <<owners, handles, pc, idx, inputs, granted>>
    BY <1>10 DEF MapPartly, MayMap
  <2> QED BY <2>1, <1>a
<1>11. ASSUME NEW r \in MapRanges, Unmap(r) PROVE TypeOK' /\ LoopInRange'
  <2>1. entry' \in [Entries -> 0 .. Pool]
    BY <1>11, <1>b DEF Unmap
  <2> QED BY <1>11, <2>1 DEF Unmap
<1>12. ASSUME NEW r \in MapRanges, ParamCache(r) PROVE TypeOK' /\ LoopInRange'
  <2>1. BitstreamSizes \subseteq Nat
    BY BitstreamsAssumption
  <2> QED BY <1>12, <2>1 DEF ParamCache
<1>13. ASSUME NEW w \in AllocRequests, Alloc(w) PROVE TypeOK' /\ LoopInRange'
  BY <1>13 DEF Alloc
<1>14. ASSUME NEW i \in SlotIds, AllocSlot(i) PROVE TypeOK' /\ LoopInRange'
  <2>1. i \in 1 .. SlotCount /\ i = idx["ioctl"] /\ want[i] \in Ranges
    BY <1>14 DEF AllocSlot, Allocating, SlotIds
  <2>2. idx' \in [Parties -> 1 .. SlotCount + 1]
    BY <1>14, <2>1 DEF AllocSlot
  <2>3. pc' = pc /\ LoopInRange'
    BY <1>14 DEF AllocSlot, Allocating
  <2>4. UNCHANGED <<model, lastMap, extras, cache, handles, inputs, granted>>
    BY <1>14 DEF AllocSlot
  <2>5. CASE UNCHANGED <<tables, slot>>
    BY <2>2, <2>3, <2>4, <2>5
  <2>6. CASE ~ UNCHANGED <<tables, slot>>
    <3>1. /\ used < MaxBuffers /\ used' = used + 1 /\ mem' = Become(used + 1, "common")
          /\ entry' = Written(want[i], used + 1)
          /\ slot' = [slot EXCEPT ![i] = [buf |-> used + 1, at |-> want[i]]]
      BY <1>14, <2>6 DEF AllocSlot
    <3>2. slot' \in [SlotIds -> [buf : 0 .. MaxBuffers, at : Ranges]]
      <4> HIDE DEF Ranges
      <4> QED BY <1>a, <2>1, <3>1
    <3>3. /\ used' \in 0 .. MaxBuffers /\ entry' \in [Entries -> 0 .. Pool]
          /\ mem' \in [Buffers -> {"unused", "pinned", "unpinned", "common", "freed"}]
      BY <1>a, <3>1
    <3> QED BY <2>2, <2>3, <2>4, <3>2, <3>3
  <2> QED BY <2>5, <2>6
<1>15. ASSUME NEW i \in SlotIds, AllocFails(i) PROVE TypeOK' /\ LoopInRange'
  BY <1>15 DEF AllocFails, Allocating
<1>16. ASSUME NEW p \in Parties, Look(p) PROVE TypeOK' /\ LoopInRange'
  BY <1>16 DEF Look
<1>17. ASSUME NEW p \in Parties, Unpin(p) PROVE TypeOK' /\ LoopInRange'
  BY <1>17 DEF Unpin
<1>18. ASSUME NEW p \in Parties, SlotClear(p) PROVE TypeOK' /\ LoopInRange'
  <2>1. idx[p] \in 1 .. SlotCount
    BY <1>18 DEF SlotClear
  <2>2. CASE slot[idx[p]].buf = 0
    BY <1>18, <2>1, <2>2 DEF SlotClear
  <2>3. CASE slot[idx[p]].buf # 0
    <3>1. entry' \in [Entries -> 0 .. Pool]
      BY <1>18, <2>3, <1>0 DEF SlotClear
    <3>2. /\ pc' = [pc EXCEPT ![p] = "slotFree"] /\ idx' = idx
          /\ UNCHANGED <<mem, used, owners, handles, inputs, granted>>
      BY <1>18, <2>3 DEF SlotClear
    <3>3. pc' \in [Parties -> Labels] /\ LoopInRange'
      BY <2>1, <3>2 DEF SlotIds
    <3> QED BY <3>1, <3>2, <3>3
  <2> QED BY <2>2, <2>3
<1>19. ASSUME NEW p \in Parties, SlotFree(p) PROVE TypeOK' /\ LoopInRange'
  <2>1. idx[p] \in SlotIds /\ idx[p] \in 1 .. SlotCount
    BY <1>19 DEF SlotFree, SlotIds
  <2>2. idx' \in [Parties -> 1 .. SlotCount + 1]
    BY <1>19, <2>1 DEF SlotFree
  <2>3. slot' \in [SlotIds -> [buf : 0 .. MaxBuffers, at : Ranges]]
    BY <1>19, <2>1 DEF SlotFree
  <2>4. mem' \in [Buffers -> {"unused", "pinned", "unpinned", "common", "freed"}]
    BY <1>19 DEF SlotFree
  <2>5. pc' \in [Parties -> Labels] /\ LoopInRange' /\ granted' \subseteq SlotIds
    BY <1>19 DEF SlotFree
  <2> QED BY <1>19, <2>2, <2>3, <2>4, <2>5 DEF SlotFree
<1>20. ASSUME NEW p \in Parties, SlotsDone(p) PROVE TypeOK' /\ LoopInRange'
  BY <1>20 DEF SlotsDone
<1>21. ASSUME NEW p \in Parties, NEW c \in Caches, ClearCache(p, c)
       PROVE  TypeOK' /\ LoopInRange'
  <2>1. entry' \in [Entries -> 0 .. Pool]
    BY <1>21, <1>b DEF ClearCache
  <2>2. pc' \in [Parties -> Labels] /\ LoopInRange'
    BY <1>21 DEF ClearCache, AfterCache, UnpinLabel
  <2>3. idx' \in [Parties -> 1 .. SlotCount + 1]
    BY <1>21 DEF ClearCache
  <2> QED BY <1>21, <2>1, <2>2, <2>3 DEF ClearCache
<1>22. ASSUME NEW p \in Parties, NEW c \in Caches, UnpinCache(p, c)
       PROVE  TypeOK' /\ LoopInRange'
  BY <1>22 DEF UnpinCache, AfterCache, UnpinLabel
<1>23. CASE UNCHANGED vars
  BY <1>23 DEF vars
<1> QED
  BY <1>1, <1>2, <1>3, <1>4, <1>5, <1>6, <1>7, <1>8, <1>9, <1>10, <1>11, <1>12,
     <1>13, <1>14, <1>15, <1>16, <1>17, <1>18, <1>19, <1>20, <1>21, <1>22, <1>23
     DEF Next

\* Type correctness, for any client, any ranges and any number of slots, buffers
\* and handles that may overlap (Queue.c IOCTLs, Device.c file cleanup).
THEOREM TypeCorrect == Spec => []TypeOK
<1>1. Init => TypeOK /\ LoopInRange
  <2>1. Init => entry \in [Entries -> 0 .. Pool]
    BY Constants DEF Init, Pool
  <2> QED BY <2>1, Constants DEF Init, TypeOK, LoopInRange, Labels, Buffers
<1>2. TypeOK /\ LoopInRange /\ [Next]_vars => TypeOK' /\ LoopInRange'
  BY TypeStep
<1> QED BY <1>1, <1>2, PTL DEF Spec

(***************************************************************************)
(* No entry points to a freed common buffer: how a step changes memory.    *)
(***************************************************************************)

\* What every step but ALLOC's and SlotFree keeps, and what it may not undo.
MemoryInv == EntriesUsed /\ SlotsCommon /\ CommonEntriesOwned /\ NoFreedSlotEntry

\* The types the argument needs.
LEMMA MemoryTypes ==
  ASSUME TypeOK
  PROVE  /\ used \in Nat /\ used <= MaxBuffers /\ MaxBuffers \in Nat
         /\ Buffers = 1 .. MaxBuffers
         /\ mem \in [Buffers -> {"unused", "pinned", "unpinned", "common", "freed"}]
         /\ entry \in [Entries -> 0 .. Pool]
         /\ \A s \in SlotIds : slot[s].buf \in 0 .. MaxBuffers /\ slot[s].at \in Ranges
BY Constants DEF TypeOK, Buffers

\* A buffer pinned just now, with entries to it (MAP_BUFFER, PARAM_CACHE).
LEMMA NewPinned ==
  ASSUME SlotInv, used < MaxBuffers, NEW r, NEW m \in {"pinned", "unpinned"},
         used' = used + 1, mem' = Become(used + 1, m),
         entry' = Written(r, used + 1), slot' = slot
  PROVE  /\ MemoryInv'
         /\ \A b : b = used + 1 => Pinned(b)'
         /\ \A b \in 0 .. MaxBuffers : Pinned(b) => Pinned(b)'
<1>1. used + 1 \in Buffers /\ used \in Nat /\ MaxBuffers \in Nat /\ Buffers = 1 .. MaxBuffers
  BY MemoryTypes DEF SlotInv
<1>2. \A b \in Buffers : mem'[b] = IF b = used + 1 THEN m ELSE mem[b]
  BY MemoryTypes DEF SlotInv, Become
<1>3. \A x \in Entries : entry'[x] = used + 1 \/ entry'[x] = entry[x]
  BY DEF Written
<1>4. \A x \in Entries : entry[x] \in Buffers => entry[x] <= used
  BY DEF SlotInv, EntriesUsed
<1>5. EntriesUsed'
  BY <1>1, <1>3, <1>4 DEF EntriesUsed, Buffers
<1>6. SlotsCommon'
  BY <1>1, <1>2, MemoryTypes DEF SlotInv, SlotsCommon
<1>7. NoFreedSlotEntry'
  BY <1>1, <1>2, <1>3, <1>4 DEF SlotInv, NoFreedSlotEntry, Buffers
<1>8. CommonEntriesOwned'
  <2> SUFFICES ASSUME NEW x \in Entries, entry'[x] \in Buffers, mem'[entry'[x]] = "common"
               PROVE  Owned(x)'
    BY DEF CommonEntriesOwned, Buffers
  <2>1. entry'[x] = entry[x] /\ mem[entry[x]] = "common"
    BY <1>1, <1>2, <1>3, <1>4
  <2>2. Owned(x)
    BY <2>1 DEF SlotInv, CommonEntriesOwned
  <2> QED BY <2>1, <2>2 DEF Owned
<1>9. \A b : b = used + 1 => Pinned(b)'
  BY <1>1, <1>2 DEF Pinned
<1>10. ASSUME NEW b \in 0 .. MaxBuffers, Pinned(b) PROVE Pinned(b)'
  BY <1>1, <1>2, <1>10 DEF Pinned
<1> QED BY <1>5, <1>6, <1>7, <1>8, <1>9, <1>10 DEF MemoryInv

\* Entries are cleared (UNMAP_BUFFER, the caches, the slot loop).
LEMMA EntriesCleared ==
  ASSUME SlotInv, NEW r, entry' = Written(r, 0) \/ entry' = Cleared(r),
         UNCHANGED <<mem, used, slot>>
  PROVE  MemoryInv' /\ \A b : Pinned(b) => Pinned(b)'
<1>1. \A x \in Entries : entry'[x] = 0 \/ entry'[x] = entry[x]
  BY DEF Written, Cleared
<1>2. 0 \notin Buffers
  BY MemoryTypes DEF SlotInv
<1>3. EntriesUsed' /\ NoFreedSlotEntry' /\ CommonEntriesOwned'
  BY <1>1, <1>2 DEF SlotInv, EntriesUsed, CommonEntriesOwned, Owned, NoFreedSlotEntry, Buffers
<1>4. SlotsCommon'
  BY DEF SlotInv, SlotsCommon
<1> QED
  BY <1>3, <1>4 DEF MemoryInv, Pinned

\* Pages that no slot holds are unlocked.
LEMMA Unpinned ==
  ASSUME SlotInv, NEW B, \A b \in Buffers : b \in B => mem[b] \in {"pinned", "unpinned"},
         mem' = [b \in Buffers |-> IF b \in B THEN "unpinned" ELSE mem[b]],
         UNCHANGED <<entry, used, slot>>
  PROVE  MemoryInv' /\ \A b \in 0 .. MaxBuffers : Pinned(b) => Pinned(b)'
<1>1. /\ \A b \in Buffers : mem'[b] = "common" <=> mem[b] = "common"
      /\ \A b \in Buffers : mem'[b] = "freed" => mem[b] = "freed"
  BY DEF Buffers
<1>2. EntriesUsed' /\ CommonEntriesOwned' /\ NoFreedSlotEntry'
  BY <1>1 DEF SlotInv, EntriesUsed, CommonEntriesOwned, Owned, NoFreedSlotEntry, Buffers
<1>3. SlotsCommon'
  BY <1>1, MemoryTypes DEF SlotInv, SlotsCommon
<1>4. ASSUME NEW b \in 0 .. MaxBuffers, Pinned(b) PROVE Pinned(b)'
  BY <1>4, MemoryTypes DEF SlotInv, Pinned
<1> QED BY <1>2, <1>3, <1>4 DEF MemoryInv

\* Steps that move no buffer (the loops' bookkeeping, opening, closing).
LEMMA Untouched ==
  ASSUME SlotInv, UNCHANGED <<tables, owners, held>>
  PROVE  MemoryInv' /\ OthersPinned'
BY DEF SlotInv, MemoryInv, tables, owners, EntriesUsed, SlotsCommon, CommonEntriesOwned,
       Owned, NoFreedSlotEntry, OthersPinned, Pinned, Buffers

\* Without overlap only one party is at work.
LEMMA Alone ==
  ASSUME SlotInv, NEW p \in Parties, NEW q \in Parties, p # q, pc[p] # "idle"
  PROVE  pc[q] = "idle"
BY DEF SlotInv, Exclusive

\* Parties take turns (Queue.c's sequential queue, Device.c's file cleanup).
LEMMA ExclusiveStep ==
  ASSUME SlotInv, "overlap" \notin Use, [Next]_vars
  PROVE  Exclusive'
<1> USE DEF Exclusive, Goto
<1>1. /\ Exclusive /\ pc \in [Parties -> Labels] /\ handles \in Nat
      /\ idx \in [Parties -> 1 .. SlotCount + 1]
  BY Constants DEF SlotInv, TypeOK
<1>2. CASE Open
  BY <1>1, <1>2 DEF Open, Overlap
<1>3. CASE Close
  BY <1>1, <1>3 DEF Close, Overlap
<1>4. CASE MapKeep \/ PinParam \/ PinFails \/ AllocDone
  BY <1>1, <1>4 DEF MapKeep, PinParam, PinFails, AllocDone
<1>5. CASE Free \/ \E w \in AllocRequests : Alloc(w)
  BY <1>1, <1>5 DEF Free, Alloc, Dispatch
<1>6. CASE \E r \in MapRanges : MapPin(r) \/ MapPartly(r) \/ Unmap(r) \/ ParamCache(r)
  BY <1>1, <1>6 DEF MapPin, MapPartly, MayMap, Unmap, ParamCache, Dispatch
<1>7. CASE \E i \in SlotIds : AllocSlot(i) \/ AllocFails(i)
  BY <1>1, <1>7 DEF AllocSlot, AllocFails, Allocating
<1>8. CASE Drain
  BY <1>1, <1>8 DEF Drain
<1>9. ASSUME NEW p \in Parties, Look(p) PROVE Exclusive'
  BY <1>1, <1>9 DEF Look
<1>10. ASSUME NEW p \in Parties, Unpin(p) PROVE Exclusive'
  BY <1>1, <1>10 DEF Unpin
<1>11. ASSUME NEW p \in Parties, SlotClear(p) PROVE Exclusive'
  BY <1>1, <1>11 DEF SlotClear
<1>12. ASSUME NEW p \in Parties, SlotFree(p) \/ SlotsDone(p) PROVE Exclusive'
  BY <1>1, <1>12 DEF SlotFree, SlotsDone
<1>13. ASSUME NEW p \in Parties, NEW c \in Caches, ClearCache(p, c) \/ UnpinCache(p, c)
       PROVE  Exclusive'
  BY <1>1, <1>13 DEF ClearCache, UnpinCache, AfterCache, UnpinLabel
<1>14. CASE UNCHANGED vars
  BY <1>1, <1>14 DEF vars
<1> QED
  BY <1>2, <1>3, <1>4, <1>5, <1>6, <1>7, <1>8, <1>9, <1>10, <1>11, <1>12, <1>13, <1>14
     DEF Next

\* A step after which no slot loop is about to free owes nothing to
\* ClearedBeforeFree.
LEMMA NobodyFrees ==
  ASSUME \A p \in Parties : pc'[p] # "slotFree"
  PROVE  ClearedBeforeFree'
BY DEF ClearedBeforeFree

\* The owners keep what they hold pinned (LockedModelMdl, ExtraLockedMdls, the
\* caches and the MDL in hand).
LEMMA OwnersKept ==
  ASSUME SlotInv, \A b \in 0 .. MaxBuffers : Pinned(b) => Pinned(b)'
  PROVE  /\ \A b : b \in {model, held} => Pinned(b)'
         /\ \A k \in 1 .. Len(extras) : \A b : b = extras[k] => Pinned(b)'
         /\ \A c \in Caches : \A b : b = cache[c].buf => Pinned(b)'
<1>1. /\ model \in 0 .. MaxBuffers /\ held \in 0 .. MaxBuffers
      /\ \A k \in 1 .. Len(extras) : extras[k] \in 0 .. MaxBuffers
      /\ \A c \in Caches : cache[c].buf \in 0 .. MaxBuffers
  BY Constants DEF SlotInv, TypeOK, Buffers
<1> QED BY <1>1 DEF SlotInv, OthersPinned

\* MAP_BUFFER.
LEMMA MapStep ==
  ASSUME SlotInv, NEW r \in MapRanges, MapPin(r) \/ MapPartly(r) \/ Unmap(r)
  PROVE  MemoryInv' /\ OthersPinned' /\ ClearedBeforeFree'
<1>1. /\ pc["ioctl"] = "idle" /\ pc["close"] = "idle" /\ pc \in [Parties -> Labels]
  BY Constants DEF SlotInv, TypeOK, Exclusive, MapPin, MapPartly, Unmap, MayMap, Dispatch
<1>2. ClearedBeforeFree'
  <2>1. \A p \in Parties : pc'[p] # "slotFree"
    BY <1>1 DEF MapPin, MapPartly, Unmap, Goto
  <2> QED BY <2>1, NobodyFrees
<1>3. CASE MapPin(r)
  <2>1. /\ used < MaxBuffers /\ used' = used + 1 /\ mem' = Become(used + 1, "pinned")
        /\ entry' = Written(r, used + 1) /\ held' = used + 1
        /\ UNCHANGED <<model, extras, cache, slot>>
    BY <1>3 DEF MapPin, MayMap, owners
  <2>2. /\ MemoryInv' /\ \A b : b = used + 1 => Pinned(b)'
        /\ \A b \in 0 .. MaxBuffers : Pinned(b) => Pinned(b)'
    BY <2>1, NewPinned
  <2>3. OthersPinned'
    BY <2>1, <2>2, OwnersKept DEF OthersPinned
  <2> QED BY <1>2, <2>2, <2>3
<1>4. CASE MapPartly(r)
  <2>1. /\ used < MaxBuffers /\ used' = used + 1 /\ mem' = Become(used + 1, "unpinned")
        /\ entry' = Written(r, used + 1)
        /\ UNCHANGED <<model, extras, cache, slot, held>>
    BY <1>4 DEF MapPartly, MayMap, owners, inputs
  <2>2. MemoryInv' /\ \A b \in 0 .. MaxBuffers : Pinned(b) => Pinned(b)'
    BY <2>1, NewPinned
  <2>3. OthersPinned'
    BY <2>1, <2>2, OwnersKept DEF OthersPinned
  <2> QED BY <1>2, <2>2, <2>3
<1>5. CASE Unmap(r)
  <2>1. UNCHANGED <<mem, used, model, extras, cache, slot, held>>
    BY <1>5 DEF Unmap, owners, inputs
  <2>2. entry' = Cleared(r)
    BY <1>5 DEF Unmap
  <2>3. MemoryInv' /\ \A b : Pinned(b) => Pinned(b)'
    BY <2>1, <2>2, EntriesCleared
  <2> QED BY <1>2, <2>1, <2>3, OwnersKept DEF OthersPinned
<1> QED BY <1>3, <1>4, <1>5

\* The new MDL is stored; the one before goes to the extras or is unlocked.
LEMMA MapKeepStep ==
  ASSUME SlotInv, MapKeep
  PROVE  MemoryInv' /\ OthersPinned' /\ ClearedBeforeFree'
<1>1. ClearedBeforeFree'
  <2>1. pc["ioctl"] = "keep" /\ pc["close"] = "idle" /\ pc \in [Parties -> Labels]
    BY Alone DEF SlotInv, TypeOK, MapKeep
  <2>2. \A p \in Parties : pc'[p] # "slotFree"
    BY <2>1 DEF MapKeep, Goto
  <2> QED BY <2>2, NobodyFrees
<1>2. /\ model \in 0 .. MaxBuffers /\ extras \in Seq(Buffers) /\ Buffers = 1 .. MaxBuffers
      /\ Pinned(model) /\ Len(extras) \in Nat
  BY Constants DEF SlotInv, TypeOK, OthersPinned, Buffers
<1>3. /\ model' = held /\ held' = 0 /\ UNCHANGED <<entry, used, cache, slot>>
  BY DEF MapKeep
<1>4. CASE model # 0 /\ Len(extras) = MaxExtras
  <2>1. /\ mem' = [b \in Buffers |-> IF b \in {model} THEN "unpinned" ELSE mem[b]]
        /\ extras' = extras
    <3>1. mem' = [mem EXCEPT ![model] = "unpinned"] /\ extras' = extras
      BY <1>2, <1>4 DEF MapKeep, Become
    <3>2. DOMAIN mem = Buffers /\ mem = [b \in Buffers |-> mem[b]]
      BY MemoryTypes DEF SlotInv
    <3> QED BY <3>1, <3>2
  <2>2. \A b \in Buffers : b \in {model} => mem[b] \in {"pinned", "unpinned"}
    BY <1>2, <1>4 DEF Pinned
  <2>3. MemoryInv' /\ \A b \in 0 .. MaxBuffers : Pinned(b) => Pinned(b)'
    BY <1>3, <2>1, <2>2, Unpinned
  <2>4. \A b : b = 0 => Pinned(b)'
    BY DEF Pinned
  <2> QED BY <1>1, <1>3, <2>1, <2>3, <2>4, OwnersKept DEF OthersPinned
<1>5. CASE ~(model # 0 /\ Len(extras) = MaxExtras)
  <2>1. mem' = mem
    BY <1>5 DEF MapKeep
  <2>2. MemoryInv' /\ \A b : Pinned(b) => Pinned(b)'
    BY <1>3, <2>1 DEF SlotInv, MemoryInv, EntriesUsed, SlotsCommon, CommonEntriesOwned,
                      Owned, NoFreedSlotEntry, Pinned, Buffers
  <2>3. \A k \in 1 .. Len(extras') : extras'[k] = model \/
                                      (k \in 1 .. Len(extras) /\ extras'[k] = extras[k])
    <3>1. CASE extras' = extras
      BY <3>1
    <3>2. CASE extras' # extras
      <4>1. extras' = Append(extras, model) /\ model \in Buffers
        BY <1>2, <3>2 DEF MapKeep
      <4> QED BY <1>2, <4>1
    <3> QED BY <3>1, <3>2
  <2>4. \A b : b = 0 => Pinned(b)'
    BY DEF Pinned
  <2>5. \A k \in 1 .. Len(extras') : Pinned(extras[k])' 
    BY <1>2, <2>2, <2>3, OwnersKept
  <2> QED BY <1>1, <1>3, <2>2, <2>4, <2>5, OwnersKept DEF OthersPinned
<1> QED BY <1>4, <1>5

\* LockedModelMdl, a cache or all the extras are unlocked.
LEMMA UnpinStep ==
  ASSUME SlotInv, TypeOK',
         Drain \/ \E p \in Parties : Unpin(p) \/ \E c \in Caches : UnpinCache(p, c)
  PROVE  MemoryInv' /\ OthersPinned' /\ ClearedBeforeFree'
<1> USE DEF Goto
<1>0. pc \in [Parties -> Labels] /\ mem' \in [Buffers -> {"unused", "pinned", "unpinned", "common", "freed"}]
  BY DEF SlotInv, TypeOK
<1>z. \A b : b = 0 => Pinned(b)'
  BY DEF Pinned
<1>1. CASE Drain
  <2> DEFINE B == {b \in Buffers : \E k \in 1 .. Len(extras) : extras[k] = b}
  <2>1. mem' = [b \in Buffers |-> IF b \in B THEN "unpinned" ELSE mem[b]]
    BY <1>1 DEF Drain
  <2>2. \A b \in Buffers : b \in B => mem[b] \in {"pinned", "unpinned"}
    BY MemoryTypes DEF SlotInv, OthersPinned, Pinned
  <2>3. /\ UNCHANGED <<entry, used, model, cache, slot, held>>
        /\ Len(extras') = 0
    BY <1>1 DEF Drain, inputs
  <2> HIDE DEF B
  <2>4. MemoryInv' /\ \A b \in 0 .. MaxBuffers : Pinned(b) => Pinned(b)'
    BY <2>1, <2>2, <2>3, Unpinned
  <2>5. OthersPinned'
    BY <2>3, <2>4, OwnersKept DEF OthersPinned
  <2>6. \A p \in Parties : pc'[p] # "slotFree"
    BY <1>0, <1>1, Alone DEF Drain
  <2> QED BY <2>4, <2>5, <2>6, NobodyFrees
<1>2. ASSUME NEW p \in Parties, Unpin(p)
      PROVE  MemoryInv' /\ OthersPinned' /\ ClearedBeforeFree'
  <2>1. mem' = [b \in Buffers |-> IF b \in {model} THEN "unpinned" ELSE mem[b]]
    BY <1>2 DEF Unpin
  <2>2. \A b \in Buffers : b \in {model} => mem[b] \in {"pinned", "unpinned"}
    BY MemoryTypes DEF SlotInv, OthersPinned, Pinned
  <2>3. UNCHANGED <<entry, used, extras, cache, slot, held>> /\ model' = 0
    BY <1>2 DEF Unpin, inputs
  <2>4. MemoryInv' /\ \A b \in 0 .. MaxBuffers : Pinned(b) => Pinned(b)'
    BY <2>1, <2>2, <2>3, Unpinned
  <2>5. OthersPinned'
    BY <1>z, <2>3, <2>4, OwnersKept DEF OthersPinned
  <2>6. \A q \in Parties : pc'[q] # "slotFree"
    BY <1>0, <1>2, Alone DEF Unpin
  <2> QED BY <2>4, <2>5, <2>6, NobodyFrees
<1>3. ASSUME NEW p \in Parties, NEW c \in Caches, UnpinCache(p, c)
      PROVE  MemoryInv' /\ OthersPinned' /\ ClearedBeforeFree'
  <2>1. mem' = [b \in Buffers |-> IF b \in {cache[c].buf} THEN "unpinned" ELSE mem[b]]
    BY <1>3 DEF UnpinCache
  <2>2. \A b \in Buffers : b \in {cache[c].buf} => mem[b] \in {"pinned", "unpinned"}
    BY MemoryTypes DEF SlotInv, OthersPinned, Pinned
  <2>3. /\ UNCHANGED <<entry, used, model, extras, slot, held>>
        /\ cache' = [cache EXCEPT ![c] = Nothing]
    BY <1>3 DEF UnpinCache, inputs
  <2>4. MemoryInv' /\ \A b \in 0 .. MaxBuffers : Pinned(b) => Pinned(b)'
    BY <2>1, <2>2, <2>3, Unpinned
  <2>5. \A d \in Caches : cache'[d].buf \in {0, cache[d].buf}
    BY <2>3 DEF Nothing, SlotInv, TypeOK
  <2>6. OthersPinned'
    <3>1. \A d \in Caches : Pinned(cache[d].buf)'
      BY <1>z, <2>4, <2>5, OwnersKept
    <3> QED BY <2>3, <2>4, <3>1, OwnersKept DEF OthersPinned
  <2>7. \A q \in Parties : pc'[q] # "slotFree"
    BY <1>0, <1>3, Alone DEF UnpinCache, AfterCache, UnpinLabel
  <2> QED BY <2>4, <2>6, <2>7, NobodyFrees
<1> QED BY <1>1, <1>2, <1>3

\* PARAM_CACHE pins the parameters, or fails to.
LEMMA ParamStep ==
  ASSUME SlotInv, TypeOK', PinParam \/ PinFails
  PROVE  MemoryInv' /\ OthersPinned' /\ ClearedBeforeFree'
<1>1. ClearedBeforeFree'
  <2>1. pc["ioctl"] = "pin" /\ pc["close"] = "idle" /\ pc \in [Parties -> Labels]
    BY Alone DEF SlotInv, TypeOK, PinParam, PinFails
  <2>2. \A p \in Parties : pc'[p] # "slotFree"
    BY <2>1 DEF PinParam, PinFails, Goto
  <2> QED BY <2>2, NobodyFrees
<1>2. CASE PinParam
  <2>1. /\ used < MaxBuffers /\ used' = used + 1 /\ mem' = Become(used + 1, "pinned")
        /\ entry' = Written(arg, used + 1) /\ UNCHANGED <<extras, slot, held>>
        /\ model' \in {0, model} /\ cache'["param"].buf = used + 1
        /\ cache'["bits"].buf \in {model, cache["bits"].buf}
    BY <1>2 DEF PinParam, inputs
  <2>2. /\ MemoryInv' /\ \A b : b = used + 1 => Pinned(b)'
        /\ \A b \in 0 .. MaxBuffers : Pinned(b) => Pinned(b)'
    BY <2>1, NewPinned
  <2>3. \A b : b = 0 => Pinned(b)'
    BY DEF Pinned
  <2>4. \A c \in Caches : Pinned(cache[c].buf)'
    BY <2>1, <2>2, OwnersKept
  <2>5. OthersPinned'
    BY <2>1, <2>2, <2>3, <2>4, OwnersKept DEF OthersPinned
  <2> QED BY <1>1, <2>2, <2>5
<1>3. CASE PinFails
  <2>1. UNCHANGED <<model, extras, cache, slot, held>>
    BY <1>3 DEF PinFails, owners, inputs
  <2>2. CASE UNCHANGED tables
    <3>1. UNCHANGED <<tables, owners, held>>
      BY <1>3, <2>1, <2>2 DEF PinFails, owners
    <3> QED BY <1>1, <3>1, Untouched
  <2>3. CASE ~ UNCHANGED tables
    <3>1. /\ used < MaxBuffers /\ used' = used + 1 /\ mem' = Become(used + 1, "unpinned")
          /\ entry' = Written(arg, used + 1)
      BY <1>3, <2>3 DEF PinFails
    <3>2. MemoryInv' /\ \A b \in 0 .. MaxBuffers : Pinned(b) => Pinned(b)'
      BY <2>1, <3>1, NewPinned
    <3> QED BY <1>1, <2>1, <3>2, OwnersKept DEF OthersPinned
  <2> QED BY <2>2, <2>3
<1> QED BY <1>2, <1>3

\* A slot's common buffer is allocated and its range written (ALLOC_IO_BUFFERS).
LEMMA AllocStep ==
  ASSUME SlotInv, TypeOK', NEW i \in SlotIds, AllocSlot(i)
  PROVE  MemoryInv' /\ OthersPinned' /\ ClearedBeforeFree'
<1>1. ClearedBeforeFree'
  <2>1. pc["ioctl"] = "alloc" /\ pc["close"] = "idle" /\ pc' = pc
    BY Alone DEF AllocSlot, Allocating
  <2>2. \A p \in Parties : pc'[p] # "slotFree"
    BY <2>1
  <2> QED BY <2>2, NobodyFrees
<1>2. CASE UNCHANGED <<tables, slot>>
  <2>1. UNCHANGED <<tables, owners, held>>
    BY <1>2 DEF AllocSlot, owners, inputs
  <2> QED BY <1>1, <2>1, Untouched
<1>3. CASE ~ UNCHANGED <<tables, slot>>
  <2>1. /\ slot[i].buf = 0 /\ used < MaxBuffers /\ used' = used + 1
        /\ mem' = Become(used + 1, "common") /\ entry' = Written(want[i], used + 1)
        /\ slot' = [slot EXCEPT ![i] = [buf |-> used + 1, at |-> want[i]]]
        /\ UNCHANGED <<model, extras, cache, held>>
    BY <1>3 DEF AllocSlot, inputs
  <2>2. used + 1 \in Buffers /\ used \in Nat /\ MaxBuffers \in Nat /\ Buffers = 1 .. MaxBuffers
    BY <2>1, MemoryTypes DEF SlotInv
  <2>3. \A b \in Buffers : mem'[b] = IF b = used + 1 THEN "common" ELSE mem[b]
    BY <2>1, MemoryTypes DEF SlotInv, Become
  <2>4. /\ \A x \in Covers(want[i]) : x \in Entries => entry'[x] = used + 1
        /\ \A x \in Entries : x \notin Covers(want[i]) => entry'[x] = entry[x]
    BY <2>1 DEF Written
  <2>5. \A x \in Entries : entry[x] \in Buffers => entry[x] <= used
    BY DEF SlotInv, EntriesUsed
  <2>6. /\ slot'[i].buf = used + 1 /\ slot'[i].at = want[i]
        /\ \A s \in SlotIds : s # i => slot'[s] = slot[s]
    BY <2>1 DEF SlotInv, TypeOK
  <2>7. EntriesUsed'
    BY <2>1, <2>2, <2>4, <2>5 DEF EntriesUsed, Buffers
  <2>8. NoFreedSlotEntry'
    BY <2>2, <2>3, <2>4, <2>5 DEF SlotInv, NoFreedSlotEntry, Buffers
  <2>9. SlotsCommon'
    <3>1. \A s \in SlotIds : slot[s].buf \in 0 .. used
      BY MemoryTypes DEF SlotInv, SlotsCommon
    <3>2. ASSUME NEW s \in SlotIds, slot'[s].buf # 0
          PROVE  /\ slot'[s].buf <= used' /\ mem'[slot'[s].buf] = "common"
                 /\ \A t \in SlotIds : slot'[t].buf = slot'[s].buf => t = s
      <4>1. CASE s = i
        BY <2>1, <2>2, <2>3, <2>6, <3>1, <4>1
      <4>2. CASE s # i
        <5>1. /\ slot[s].buf # 0 /\ slot[s].buf <= used /\ mem[slot[s].buf] = "common"
              /\ \A t \in SlotIds : slot[t].buf = slot[s].buf => t = s
          BY <2>6, <3>2, <4>2 DEF SlotInv, SlotsCommon
        <5> QED BY <2>1, <2>2, <2>3, <2>6, <3>1, <4>2, <5>1
      <4> QED BY <4>1, <4>2
    <3> QED BY <3>2 DEF SlotsCommon
  <2>10. CommonEntriesOwned'
    <3> SUFFICES ASSUME NEW x \in Entries, entry'[x] \in Buffers, mem'[entry'[x]] = "common"
                 PROVE  Owned(x)'
      BY DEF CommonEntriesOwned, Buffers
    <3>1. CASE x \in Covers(want[i])
      BY <2>4, <2>6, <3>1 DEF Owned
    <3>2. CASE x \notin Covers(want[i])
      <4>1. entry'[x] = entry[x] /\ mem[entry[x]] = "common"
        BY <2>2, <2>3, <2>4, <2>5, <3>2
      <4>2. Owned(x)
        BY <4>1 DEF SlotInv, CommonEntriesOwned
      <4>3. PICK s \in SlotIds : slot[s].buf = entry[x] /\ x \in Covers(slot[s].at)
        BY <4>2 DEF Owned
      <4>4. s # i
        BY <2>1, <2>2, <4>1, <4>3
      <4> QED BY <2>6, <4>1, <4>3, <4>4 DEF Owned
    <3> QED BY <3>1, <3>2
  <2>11. \A b \in 0 .. MaxBuffers : Pinned(b) => Pinned(b)'
    BY <2>1, <2>2, <2>3 DEF Pinned
  <2>12. OthersPinned'
    BY <2>1, <2>11, OwnersKept DEF OthersPinned
  <2> QED BY <1>1, <2>7, <2>8, <2>9, <2>10, <2>12 DEF MemoryInv
<1> QED BY <1>2, <1>3

\* The entries of a cache are cleared before its pages are unlocked.
LEMMA ClearCacheStep ==
  ASSUME SlotInv, NEW p \in Parties, NEW c \in Caches, ClearCache(p, c)
  PROVE  MemoryInv' /\ OthersPinned' /\ ClearedBeforeFree'
<1>1. ClearedBeforeFree'
  <2>1. /\ pc[p] # "idle" /\ pc \in [Parties -> Labels]
        /\ \A q \in Parties : q # p => pc[q] = "idle"
    BY Alone DEF SlotInv, TypeOK, ClearCache
  <2>2. \A q \in Parties : pc'[q] # "slotFree"
    BY <2>1 DEF ClearCache, Goto, AfterCache, UnpinLabel
  <2> QED BY <2>2, NobodyFrees
<1>2. CASE cache[c].buf = 0
  <2>1. UNCHANGED <<tables, owners, held>>
    BY <1>2 DEF ClearCache, tables, inputs
  <2> QED BY <1>1, <2>1, Untouched
<1>3. CASE cache[c].buf # 0
  <2>1. /\ entry' = Cleared(cache[c].at)
        /\ UNCHANGED <<mem, used, slot, model, extras, cache, held>>
    BY <1>3 DEF ClearCache, owners, inputs
  <2>2. MemoryInv' /\ \A b : Pinned(b) => Pinned(b)'
    BY <2>1, EntriesCleared
  <2> QED BY <1>1, <2>1, <2>2, OwnersKept DEF OthersPinned
<1> QED BY <1>2, <1>3

\* The slot loop clears the entries of the range the slot remembers; by
\* CommonEntriesOwned that is every entry to its buffer.
LEMMA SlotClearStep ==
  ASSUME SlotInv, NEW p \in Parties, SlotClear(p)
  PROVE  MemoryInv' /\ OthersPinned' /\ ClearedBeforeFree'
<1>1. /\ pc[p] = "slots" /\ idx[p] \in SlotIds /\ pc \in [Parties -> Labels]
      /\ \A q \in Parties : q # p => pc[q] = "idle"
  BY Alone DEF SlotInv, TypeOK, SlotClear, SlotIds
<1>2. CASE slot[idx[p]].buf = 0
  <2>1. UNCHANGED <<tables, owners, held>> /\ pc' = pc
    BY <1>2 DEF SlotClear, tables, inputs
  <2>2. \A q \in Parties : pc'[q] # "slotFree"
    BY <1>1, <2>1
  <2> QED BY <2>1, <2>2, Untouched, NobodyFrees
<1>3. CASE slot[idx[p]].buf # 0
  <2> DEFINE i == idx[p]
  <2>1. /\ entry' = Written(slot[i].at, 0) /\ idx' = idx
        /\ pc' = [pc EXCEPT ![p] = "slotFree"]
        /\ UNCHANGED <<mem, used, slot, model, extras, cache, held>>
    BY <1>3 DEF SlotClear, owners, inputs, Goto
  <2>2. MemoryInv' /\ \A b : Pinned(b) => Pinned(b)'
    BY <2>1, EntriesCleared
  <2>3. OthersPinned'
    BY <2>1, <2>2, OwnersKept DEF OthersPinned
  <2>4. ASSUME NEW x \in Entries PROVE entry'[x] # slot[i].buf
    <3>1. slot[i].buf \in Buffers /\ mem[slot[i].buf] = "common"
      BY <1>1, <1>3, MemoryTypes DEF SlotInv, SlotsCommon
    <3>2. CASE x \in Covers(slot[i].at)
      BY <1>3, <2>1, <3>2 DEF Written
    <3>3. CASE x \notin Covers(slot[i].at)
      <4>1. entry'[x] = entry[x]
        BY <2>1, <3>3 DEF Written
      <4>2. ASSUME entry[x] = slot[i].buf PROVE FALSE
        <5>1. PICK s \in SlotIds : slot[s].buf = entry[x] /\ x \in Covers(slot[s].at)
          BY <3>1, <4>2 DEF SlotInv, CommonEntriesOwned, Owned
        <5>2. s = i
          BY <1>1, <1>3, <4>2, <5>1 DEF SlotInv, SlotsCommon
        <5> QED BY <3>3, <5>1, <5>2
      <4> QED BY <4>1, <4>2
    <3> QED BY <3>2, <3>3
  <2>5. ClearedBeforeFree'
    <3>1. \A q \in Parties : pc'[q] = "slotFree" => q = p
      BY <1>1, <2>1
    <3> QED BY <1>3, <2>1, <2>4, <3>1 DEF ClearedBeforeFree
  <2> QED BY <2>2, <2>3, <2>5
<1> QED BY <1>2, <1>3

\* Freeing a slot's buffer, which nothing points to any more.
LEMMA SlotFreeStep ==
  ASSUME SlotInv, NEW p \in Parties, SlotFree(p)
  PROVE  MemoryInv' /\ OthersPinned' /\ ClearedBeforeFree'
<1> DEFINE i == idx[p]
           f == slot[i].buf
<1>1. /\ pc[p] = "slotFree" /\ i \in SlotIds /\ pc \in [Parties -> Labels]
      /\ \A q \in Parties : q # p => pc[q] = "idle"
  BY Alone DEF SlotInv, TypeOK, SlotFree, LoopInRange
<1>2. f # 0 /\ \A x \in Entries : entry[x] # f
  BY <1>1 DEF SlotInv, ClearedBeforeFree
<1>3. f \in Buffers /\ mem[f] = "common"
  BY <1>1, <1>2, MemoryTypes DEF SlotInv, SlotsCommon
<1>4. /\ mem' = [b \in Buffers |-> IF b = f THEN "freed" ELSE mem[b]]
      /\ slot' = [slot EXCEPT ![i] = Nothing]
      /\ pc' = [pc EXCEPT ![p] = "slots"]
      /\ UNCHANGED <<entry, used, model, extras, cache, held>>
  BY DEF SlotFree, Goto, inputs
<1>5. /\ \A b \in Buffers : b # f => mem'[b] = mem[b]
      /\ \A s \in SlotIds : s # i => slot'[s] = slot[s]
      /\ slot'[i].buf = 0
  BY <1>1, <1>4 DEF SlotInv, TypeOK, Nothing
<1> HIDE DEF f, i
<1>6. EntriesUsed' /\ NoFreedSlotEntry'
  BY <1>2, <1>4, <1>5 DEF SlotInv, EntriesUsed, NoFreedSlotEntry, Buffers
<1>7. \A s \in SlotIds : s # i => slot[s].buf # f
  BY <1>1, <1>2 DEF SlotInv, SlotsCommon, f
<1>8. SlotsCommon'
  <2>1. ASSUME NEW s \in SlotIds, slot'[s].buf # 0
        PROVE  /\ slot'[s].buf <= used' /\ mem'[slot'[s].buf] = "common"
               /\ \A t \in SlotIds : slot'[t].buf = slot'[s].buf => t = s
    <3>1. s # i /\ slot'[s] = slot[s]
      BY <1>5, <2>1
    <3>2. slot[s].buf \in Buffers /\ slot[s].buf # f
      BY <1>7, <2>1, <3>1, MemoryTypes DEF SlotInv
    <3>3. /\ slot[s].buf <= used /\ mem[slot[s].buf] = "common"
          /\ \A t \in SlotIds : slot[t].buf = slot[s].buf => t = s
      BY <2>1, <3>1 DEF SlotInv, SlotsCommon
    <3> QED BY <1>4, <1>5, <2>1, <3>1, <3>2, <3>3
  <2> QED BY <2>1 DEF SlotsCommon
<1>9. CommonEntriesOwned'
  <2> SUFFICES ASSUME NEW x \in Entries, entry'[x] \in Buffers, mem'[entry'[x]] = "common"
               PROVE  Owned(x)'
    BY DEF CommonEntriesOwned, Buffers
  <2>1. entry'[x] = entry[x] /\ entry[x] # f /\ mem[entry[x]] = "common"
    BY <1>2, <1>4, <1>5
  <2>2. PICK s \in SlotIds : slot[s].buf = entry[x] /\ x \in Covers(slot[s].at)
    BY <2>1 DEF SlotInv, CommonEntriesOwned, Owned
  <2>3. s # i
    BY <2>1, <2>2 DEF f
  <2> QED BY <1>5, <2>1, <2>2, <2>3 DEF Owned
<1>10. OthersPinned'
  <2>1. \A b \in 0 .. MaxBuffers : Pinned(b) => Pinned(b)'
    BY <1>3, <1>4, <1>5, MemoryTypes DEF SlotInv, Pinned
  <2> QED BY <1>4, <2>1, OwnersKept DEF OthersPinned
<1>11. ClearedBeforeFree'
  <2>1. \A q \in Parties : pc'[q] # "slotFree"
    BY <1>1, <1>4
  <2> QED BY <2>1, NobodyFrees
<1> QED BY <1>6, <1>8, <1>9, <1>10, <1>11 DEF MemoryInv

\* The steps that move no buffer.
LEMMA OtherStep ==
  ASSUME SlotInv, TypeOK',
         \/ Open \/ Close \/ AllocDone \/ Free \/ UNCHANGED vars
         \/ \E r \in MapRanges : ParamCache(r)
         \/ \E w \in AllocRequests : Alloc(w)
         \/ \E i \in SlotIds : AllocFails(i)
         \/ \E p \in Parties : Look(p) \/ SlotsDone(p)
  PROVE  MemoryInv' /\ OthersPinned' /\ ClearedBeforeFree'
<1>1. /\ UNCHANGED <<tables, owners, held>>
      /\ \A p \in Parties : pc'[p] = "slotFree" => pc[p] = "slotFree" /\ idx'[p] = idx[p]
  <2>1. pc \in [Parties -> Labels] /\ idx \in [Parties -> 1 .. SlotCount + 1]
    BY DEF SlotInv, TypeOK
  <2>2. CASE Open \/ Close \/ AllocDone \/ UNCHANGED vars
    BY <2>1, <2>2 DEF Open, Close, AllocDone, vars, inputs, Goto
  <2>3. CASE Free \/ \E w \in AllocRequests : Alloc(w)
    BY <2>1, <2>3 DEF Free, Alloc, Dispatch, Goto
  <2>4. CASE \E r \in MapRanges : ParamCache(r)
    BY <2>1, <2>4 DEF ParamCache, Goto
  <2>5. CASE \E i \in SlotIds : AllocFails(i)
    BY <2>1, <2>5 DEF AllocFails, Allocating, inputs, Goto
  <2>6. CASE \E p \in Parties : Look(p) \/ SlotsDone(p)
    BY <2>1, <2>6 DEF Look, SlotsDone, inputs, Goto
  <2> QED BY <2>2, <2>3, <2>4, <2>5, <2>6
<1>2. ClearedBeforeFree'
  BY <1>1 DEF SlotInv, ClearedBeforeFree, tables, owners
<1> QED BY <1>1, <1>2, Untouched

\* SlotInv is inductive for one handle at a time.
LEMMA SlotStep ==
  ASSUME SlotInv, "overlap" \notin Use, [Next]_vars
  PROVE  SlotInv'
<1>1. TypeOK' /\ LoopInRange' /\ Exclusive'
  BY TypeStep, ExclusiveStep DEF SlotInv
<1>2. MemoryInv' /\ OthersPinned' /\ ClearedBeforeFree'
  BY <1>1, MapStep, MapKeepStep, UnpinStep, ParamStep, AllocStep, ClearCacheStep,
     SlotClearStep, SlotFreeStep, OtherStep DEF Next
<1> QED BY <1>1, <1>2 DEF SlotInv, MemoryInv

\* Slots, other owners and page tables agree, with one handle at a time, for any
\* ranges clients map over the slots (Queue.c, Device.c file cleanup).
THEOREM SlotInvHolds == "overlap" \notin Use => (Spec => []SlotInv)
<1> SUFFICES ASSUME "overlap" \notin Use PROVE Spec => []SlotInv
  OBVIOUS
<1>1. Init => SlotInv
  <2> SUFFICES ASSUME Init PROVE SlotInv
    OBVIOUS
  <2>1. TypeOK
    <3>1. entry \in [Entries -> 0 .. Pool]
      BY Constants DEF Init, Pool
    <3> QED BY <3>1, Constants DEF Init, TypeOK, Labels, Buffers
  <2>2. \A x \in Entries : entry[x] \notin Buffers
    BY Constants DEF Init, Pool, Buffers
  <2>3. \A s \in SlotIds : slot[s].buf = 0
    BY DEF Init, Nothing
  <2>4. OthersPinned
    BY DEF Init, OthersPinned, Pinned, Nothing
  <2>5. LoopInRange /\ Exclusive /\ ClearedBeforeFree
    BY DEF Init, LoopInRange, Exclusive, ClearedBeforeFree
  <2> QED
    BY <2>1, <2>2, <2>3, <2>4, <2>5
       DEF SlotInv, EntriesUsed, SlotsCommon, CommonEntriesOwned, NoFreedSlotEntry
<1>2. SlotInv /\ [Next]_vars => SlotInv'
  BY SlotStep
<1> QED BY <1>1, <1>2, PTL DEF Spec

\* No page table entry ever points to the freed common buffer of an IO slot,
\* whatever client ranges overlap the slot (ALLOC, FREE, alloc_io_fail, cleanup).
THEOREM FreedSlotsUnreachable == "overlap" \notin Use => (Spec => []NoFreedSlotEntry)
<1>1. SlotInv => NoFreedSlotEntry
  BY DEF SlotInv
<1> QED BY <1>1, SlotInvHolds, PTL

=============================================================================

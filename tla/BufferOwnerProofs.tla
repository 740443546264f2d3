-------------------------- MODULE BufferOwnerProofs --------------------------
(***************************************************************************)
(* For one handle at a time: every pinned or allocated buffer has exactly  *)
(* one owner and closing the last handle releases them all; a slot that    *)
(* was handed out stays mapped; cached pages lose their entries before     *)
(* they are unlocked; and clients that never call MAP_BUFFER leave no      *)
(* entry behind to memory that was released.                               *)
(***************************************************************************)
EXTENDS BufferMapProofs, FiniteSetTheorems

USE DEF Parties, Caches

\* The types the arguments need.
LEMMA OwnerTypes ==
  ASSUME SlotInv
  PROVE  /\ MaxBuffers \in Nat /\ SlotCount \in Nat /\ Buffers = 1 .. MaxBuffers
         /\ used \in 0 .. MaxBuffers
         /\ model \in 0 .. MaxBuffers /\ held \in 0 .. MaxBuffers
         /\ extras \in Seq(Buffers) /\ Len(extras) \in Nat
         /\ \A k \in 1 .. Len(extras) : extras[k] \in Buffers
         /\ \A c \in Caches : cache[c].buf \in 0 .. MaxBuffers
         /\ \A s \in SlotIds : slot[s].buf \in 0 .. MaxBuffers
         /\ pc \in [Parties -> Labels] /\ idx \in [Parties -> 1 .. SlotCount + 1]
         /\ DOMAIN cache = Caches /\ DOMAIN slot = SlotIds /\ DOMAIN mem = Buffers
BY Constants DEF SlotInv, TypeOK, Buffers

\* What the control lemmas need of a step's start.
LEMMA ControlTypes ==
  ASSUME SlotInv
  PROVE  /\ pc \in [Parties -> Labels] /\ idx \in [Parties -> 1 .. SlotCount + 1]
         /\ handles \in Nat /\ handles <= 1
         /\ DOMAIN cache = Caches /\ DOMAIN slot = SlotIds /\ SlotIds = 1 .. SlotCount
         /\ SlotCount \in Nat
         /\ pc["close"] # "idle" => handles = 0 /\ pc["ioctl"] = "idle"
BY Constants DEF SlotInv, TypeOK, Exclusive, SlotIds

\* The labels of the two parties: each runs its own part of the code.
LEMMA LabelsStep ==
  ASSUME SlotInv, PartyLabels, [Next]_vars
  PROVE  PartyLabels'
<1> USE ControlTypes DEF PartyLabels, Goto
<1>1. CASE Open \/ Close \/ MapKeep \/ PinParam \/ PinFails \/ AllocDone \/ Free \/ Drain
  BY <1>1 DEF Open, Close, MapKeep, PinParam, PinFails, AllocDone, Free, Drain
<1>2. CASE \E r \in MapRanges : MapPin(r) \/ MapPartly(r) \/ Unmap(r) \/ ParamCache(r)
  BY <1>2 DEF MapPin, MapPartly, Unmap, ParamCache
<1>3. CASE (\E w \in AllocRequests : Alloc(w))
           \/ \E i \in SlotIds : AllocSlot(i) \/ AllocFails(i)
  BY <1>3 DEF Alloc, AllocSlot, AllocFails
<1>4. ASSUME NEW p \in Parties,
             Look(p) \/ Unpin(p) \/ SlotClear(p) \/ SlotFree(p) \/ SlotsDone(p)
      PROVE  PartyLabels'
  BY <1>4 DEF Look, Unpin, SlotClear, SlotFree, SlotsDone
<1>5. ASSUME NEW p \in Parties, NEW c \in Caches, ClearCache(p, c) \/ UnpinCache(p, c)
      PROVE  PartyLabels'
  BY <1>5 DEF ClearCache, UnpinCache, AfterCache, UnpinLabel
<1>6. CASE UNCHANGED vars
  BY <1>6 DEF vars
<1> QED BY <1>1, <1>2, <1>3, <1>4, <1>5, <1>6 DEF Next

\* A cache is stored into only after it was released; one MDL is in the handler's
\* hands only between MAP_BUFFER's two steps.
LEMMA HandsStep ==
  ASSUME SlotInv, PartyLabels, HandsFree, [Next]_vars
  PROVE  HandsFree'
<1> USE ControlTypes DEF Goto
<1>1. CASE Open \/ Close \/ AllocDone \/ Free \/ Drain \/ UNCHANGED vars
  BY <1>1 DEF Open, Close, AllocDone, Free, Drain, owners, inputs, vars, Dispatch, HandsFree
<1>2. CASE MapKeep \/ PinFails
  BY <1>2 DEF MapKeep, PinFails, owners, inputs, PartyLabels, HandsFree
<1>3. CASE PinParam
  <2>1. /\ pc["ioctl"] = "pin" /\ pc' = [pc EXCEPT !["ioctl"] = "idle"] /\ held' = held
    BY <1>3 DEF PinParam, inputs
  <2>2. pc["close"] = "idle" /\ pc'["ioctl"] = "idle" /\ pc'["close"] = "idle"
    BY <2>1
  <2>3. held = 0
    BY <2>1 DEF HandsFree
  <2> QED BY <2>1, <2>2, <2>3 DEF HandsFree
<1>4. CASE \E r \in MapRanges : MapPin(r) \/ MapPartly(r) \/ Unmap(r) \/ ParamCache(r)
  BY <1>4 DEF MapPin, MapPartly, MayMap, Dispatch, Unmap, ParamCache, owners, inputs, HandsFree
<1>5. CASE (\E w \in AllocRequests : Alloc(w))
           \/ \E i \in SlotIds : AllocSlot(i) \/ AllocFails(i)
  BY <1>5 DEF Alloc, Dispatch, AllocSlot, AllocFails, Allocating, owners, inputs, HandsFree
<1>6. ASSUME NEW p \in Parties, Look(p) \/ SlotClear(p) \/ SlotFree(p) \/ SlotsDone(p)
      PROVE  HandsFree'
  BY <1>6 DEF Look, SlotClear, SlotFree, SlotsDone, owners, inputs, HandsFree
<1>7. ASSUME NEW p \in Parties, Unpin(p) PROVE HandsFree'
  BY <1>7 DEF Unpin, inputs, HandsFree
<1>8. ASSUME NEW p \in Parties, NEW c \in Caches, ClearCache(p, c) PROVE HandsFree'
  <2>1. /\ pc[p] = c /\ UNCHANGED <<cache, held>>
        /\ \A q \in Parties : q # p => pc'[q] = pc[q] /\ pc[q] = "idle"
    BY <1>8 DEF ClearCache, owners, inputs
  <2>2. pc'[p] = IF cache[c].buf = 0 THEN AfterCache(p, c) ELSE UnpinLabel[c]
    BY <1>8 DEF ClearCache
  <2>3. CASE c = "param"
    BY <2>1, <2>2, <2>3 DEF AfterCache, UnpinLabel, HandsFree
  <2>4. CASE c = "bits"
    BY <2>1, <2>2, <2>4 DEF AfterCache, UnpinLabel, HandsFree
  <2> QED BY <2>3, <2>4
<1>9. ASSUME NEW p \in Parties, NEW c \in Caches, UnpinCache(p, c) PROVE HandsFree'
  <2>1. /\ pc[p] = UnpinLabel[c] /\ cache' = [cache EXCEPT ![c] = Nothing] /\ held' = held
        /\ pc' = [pc EXCEPT ![p] = AfterCache(p, c)]
    BY <1>9 DEF UnpinCache, inputs
  <2>2. pc[p] # "idle" /\ pc[p] # "keep" /\ \A q \in Parties : q # p => pc[q] = "idle"
    BY <2>1 DEF UnpinLabel
  <2>3. /\ cache'[c].buf = 0 /\ \A d \in Caches : d # c => cache'[d] = cache[d]
        /\ pc'[p] = AfterCache(p, c) /\ \A q \in Parties : q # p => pc'[q] = "idle"
    BY <2>1, <2>2 DEF Nothing
  <2>4. held = 0
    BY <2>2 DEF HandsFree
  <2>5. CASE c = "param"
    BY <2>1, <2>3, <2>4, <2>5 DEF AfterCache, HandsFree
  <2>6. CASE c = "bits"
    <3>1. cache["param"].buf = 0
      BY <2>1, <2>6 DEF HandsFree, UnpinLabel
    <3> QED BY <2>1, <2>3, <2>4, <2>6, <3>1 DEF AfterCache, HandsFree
  <2> QED BY <2>5, <2>6
<1> QED BY <1>1, <1>2, <1>3, <1>4, <1>5, <1>6, <1>7, <1>8, <1>9 DEF Next

\* An open handle asks nothing of the cleanup.
LEMMA CleanupOpen ==
  ASSUME handles' # 0
  PROVE  CleanupOrder'
BY DEF CleanupOrder

\* Each step of the file cleanup leaves its owners empty behind it.
LEMMA CleanupStep ==
  ASSUME SlotInv, PartyLabels, CleanupOrder, "overlap" \notin Use, [Next]_vars
  PROVE  CleanupOrder'
<1> USE ControlTypes
<1>1. CASE Open
  BY <1>1, CleanupOpen DEF Open
<1>2. CASE Close
  BY <1>2 DEF Close, Overlap, Goto, CleanupOrder
<1>3. ASSUME handles # 0, handles' = handles PROVE CleanupOrder'
  BY <1>3, CleanupOpen
<1>4. CASE MapKeep \/ PinParam \/ PinFails \/ AllocDone \/ Free
  <2>1. handles # 0 /\ handles' = handles
    BY <1>4 DEF MapKeep, PinParam, PinFails, AllocDone, Free, Dispatch, CleanupOrder
  <2> QED BY <1>3, <2>1
<1>5. CASE \E r \in MapRanges : MapPin(r) \/ MapPartly(r) \/ Unmap(r) \/ ParamCache(r)
  <2>1. handles # 0 /\ handles' = handles
    BY <1>5 DEF MapPin, MapPartly, MayMap, Unmap, ParamCache, Dispatch
  <2> QED BY <1>3, <2>1
<1>6. CASE (\E w \in AllocRequests : Alloc(w))
           \/ \E i \in SlotIds : AllocSlot(i) \/ AllocFails(i)
  <2>1. handles # 0 /\ handles' = handles
    BY <1>6 DEF Alloc, Dispatch, AllocSlot, AllocFails, Allocating, CleanupOrder
  <2> QED BY <1>3, <2>1
<1>7. CASE Drain
  <2>1. /\ pc["close"] = "extras" /\ extras' = <<>> /\ pc'["close"] = "look"
        /\ pc'["ioctl"] = pc["ioctl"] /\ handles' = handles
    BY <1>7 DEF Drain, Goto
  <2> QED BY <2>1 DEF CleanupOrder
<1>8. ASSUME NEW p \in Parties,
             \/ Look(p) \/ Unpin(p) \/ SlotClear(p) \/ SlotFree(p) \/ SlotsDone(p)
             \/ \E c \in Caches : ClearCache(p, c) \/ UnpinCache(p, c)
      PROVE  CleanupOrder'
  <2>1. pc[p] # "idle" /\ handles' = handles
    BY <1>8 DEF Look, Unpin, SlotClear, SlotFree, SlotsDone, ClearCache, UnpinCache, UnpinLabel
  <2>2. CASE p = "ioctl"
    BY <1>3, <2>1, <2>2 DEF CleanupOrder
  <2>3. CASE p = "close"
    <3>1. handles = 0 /\ pc["ioctl"] = "idle" /\ (extras = <<>> \/ pc["close"] = "extras")
      BY <2>1, <2>3 DEF CleanupOrder
    <3>2. CASE Look("close")
      <4>1. /\ pc["close"] = "look" /\ UNCHANGED owners /\ pc'["ioctl"] = "idle"
            /\ pc'["close"] = IF model # 0 THEN "unpin" ELSE "param"
        BY <2>1, <2>3, <3>2 DEF Look, Goto
      <4> QED BY <2>1, <3>1, <4>1 DEF owners, CleanupOrder
    <3>3. CASE Unpin("close")
      <4>1. /\ pc["close"] = "unpin" /\ UNCHANGED <<extras, cache, slot>> /\ model' = 0
            /\ pc'["ioctl"] = "idle" /\ pc'["close"] = "param"
        BY <2>1, <2>3, <3>3 DEF Unpin, Goto
      <4> QED BY <2>1, <3>1, <4>1 DEF CleanupOrder
    <3>4. CASE SlotClear("close")
      <4>1. /\ pc["close"] = "slots" /\ UNCHANGED <<model, extras, cache, slot>>
            /\ pc'["ioctl"] = "idle"
            /\ \/ slot[idx["close"]].buf = 0 /\ idx'["close"] = idx["close"] + 1 /\ pc' = pc
               \/ idx'["close"] = idx["close"] /\ pc'["close"] = "slotFree"
        BY <2>1, <2>3, <3>4 DEF SlotClear, Goto, owners
      <4>2. \A s \in SlotIds : s < idx'["close"] => slot[s].buf = 0
        <5>1. \A s \in SlotIds : s < idx["close"] + 1 => s < idx["close"] \/ s = idx["close"]
          OBVIOUS
        <5> QED BY <2>1, <2>3, <4>1, <5>1 DEF CleanupOrder
      <4>3. pc'["close"] \in {"slots", "slotFree"}
        BY <4>1
      <4> QED BY <2>1, <2>3, <3>1, <4>1, <4>2, <4>3 DEF CleanupOrder
    <3>5. CASE SlotFree("close")
      <4>1. /\ pc["close"] = "slotFree" /\ UNCHANGED <<model, extras, cache>>
            /\ slot' = [slot EXCEPT ![idx["close"]] = Nothing]
            /\ pc'["ioctl"] = "idle" /\ pc'["close"] = "slots"
            /\ idx'["close"] = idx["close"] + 1
        BY <2>1, <2>3, <3>5 DEF SlotFree, Goto
      <4>2. \A s \in SlotIds : s < idx'["close"] => slot'[s].buf = 0
        <5>1. \A s \in SlotIds : s < idx["close"] + 1 => s < idx["close"] \/ s = idx["close"]
          OBVIOUS
        <5> QED BY <2>1, <2>3, <4>1, <5>1 DEF CleanupOrder, Nothing
      <4> QED BY <2>1, <3>1, <4>1, <4>2 DEF CleanupOrder
    <3>6. CASE SlotsDone("close")
      <4>1. /\ pc["close"] = "slots" /\ idx["close"] > SlotCount /\ UNCHANGED owners
            /\ pc'["ioctl"] = "idle" /\ pc'["close"] = "idle"
        BY <2>1, <2>3, <3>6 DEF SlotsDone, Goto
      <4>2. \A s \in SlotIds : s < idx["close"]
        BY <4>1
      <4> QED BY <2>1, <3>1, <4>1, <4>2 DEF owners, CleanupOrder
    <3>7. ASSUME NEW c \in Caches, ClearCache("close", c) PROVE CleanupOrder'
      <4>1. /\ pc["close"] = c /\ UNCHANGED <<model, extras, cache, slot>>
            /\ pc'["ioctl"] = "idle" /\ idx'["close"] = 1
            /\ pc'["close"] = IF cache[c].buf = 0 THEN AfterCache("close", c) ELSE UnpinLabel[c]
        BY <2>1, <2>3, <3>7 DEF ClearCache, Goto, owners
      <4>2. CASE c = "param"
        BY <2>1, <3>1, <4>1, <4>2 DEF CleanupOrder, AfterCache, UnpinLabel
      <4>3. CASE c = "bits"
        BY <2>1, <3>1, <4>1, <4>3 DEF CleanupOrder, AfterCache, UnpinLabel
      <4> QED BY <4>2, <4>3
    <3>8. ASSUME NEW c \in Caches, UnpinCache("close", c) PROVE CleanupOrder'
      <4>1. /\ pc["close"] = UnpinLabel[c] /\ UNCHANGED <<model, extras, slot, idx>>
            /\ cache' = [cache EXCEPT ![c] = Nothing]
            /\ pc'["ioctl"] = "idle" /\ pc'["close"] = AfterCache("close", c)
        BY <2>1, <2>3, <3>8 DEF UnpinCache, Goto
      <4>2. cache'[c].buf = 0 /\ \A d \in Caches : d # c => cache'[d] = cache[d]
        BY <4>1 DEF Nothing
      <4>3. CASE c = "param"
        BY <2>1, <3>1, <4>1, <4>2, <4>3 DEF CleanupOrder, AfterCache, UnpinLabel
      <4>4. CASE c = "bits"
        BY <2>1, <3>1, <4>1, <4>2, <4>4 DEF CleanupOrder, AfterCache, UnpinLabel
      <4> QED BY <4>3, <4>4
    <3> QED BY <1>8, <2>3, <3>2, <3>3, <3>4, <3>5, <3>6, <3>7, <3>8
  <2> QED BY <2>2, <2>3
<1>9. CASE UNCHANGED vars
  BY <1>9 DEF vars, owners, CleanupOrder
<1> QED BY <1>1, <1>2, <1>4, <1>5, <1>6, <1>7, <1>8, <1>9 DEF Next

\* Every owner's buffer has been used, so the next one is nobody's.
LEMMA NextIsFree ==
  ASSUME SlotInv
  PROVE  /\ model \in 0 .. used /\ held \in 0 .. used
         /\ \A k \in 1 .. Len(extras) : extras[k] \in 0 .. used
         /\ \A c \in Caches : cache[c].buf \in 0 .. used
         /\ \A s \in SlotIds : slot[s].buf \in 0 .. used
         /\ 0 .. used \subseteq 0 .. MaxBuffers /\ Buffers = 0 .. MaxBuffers \ {0}
         /\ used + 1 \notin 0 .. used /\ used + 1 # 0
         /\ used < MaxBuffers => used + 1 \in Buffers
<1>1. \A b \in 0 .. MaxBuffers : Pinned(b) => b \in 0 .. used
  BY OwnerTypes DEF Pinned
<1>2. /\ model \in 0 .. MaxBuffers /\ held \in 0 .. MaxBuffers
      /\ \A k \in 1 .. Len(extras) : extras[k] \in 1 .. MaxBuffers
      /\ \A c \in Caches : cache[c].buf \in 0 .. MaxBuffers
      /\ MaxBuffers \in Nat /\ used \in 0 .. MaxBuffers /\ Buffers = 1 .. MaxBuffers
  BY OwnerTypes
<1>3. Pinned(model) /\ Pinned(held) /\ \A c \in Caches : Pinned(cache[c].buf)
  BY DEF SlotInv, OthersPinned
<1>4. \A k \in 1 .. Len(extras) : extras[k] \in 0 .. used
  <2>1. \A k \in 1 .. Len(extras) : Pinned(extras[k])
    BY DEF SlotInv, OthersPinned
  <2>2. \A k \in 1 .. Len(extras) : extras[k] \in 0 .. MaxBuffers
    BY <1>2
  <2> QED BY <1>1, <2>1, <2>2
<1>5. \A s \in SlotIds : slot[s].buf \in 0 .. used
  <2>1. \A s \in SlotIds : slot[s].buf \in 0 .. MaxBuffers
    BY OwnerTypes
  <2>2. \A s \in SlotIds : slot[s].buf # 0 => slot[s].buf <= used
    BY DEF SlotInv, SlotsCommon
  <2> QED BY <1>2, <2>1, <2>2
<1>6. /\ 0 .. used \subseteq 0 .. MaxBuffers /\ Buffers = 0 .. MaxBuffers \ {0}
      /\ used + 1 \notin 0 .. used /\ used + 1 # 0
      /\ used < MaxBuffers => used + 1 \in Buffers
  BY <1>2
<1> QED BY <1>1, <1>2, <1>3, <1>4, <1>5, <1>6

\* Numbering a new buffer leaves the older ones as they are.
LEMMA OlderKept ==
  ASSUME SlotInv, NEW m,
         \A b \in Buffers : mem'[b] = IF b = used + 1 THEN m ELSE mem[b]
  PROVE  \A b \in 0 .. used : Live(b) => Live(b)'
<1> SUFFICES ASSUME NEW b \in 0 .. used, Live(b), b # 0 PROVE mem'[b] = "pinned"
  BY DEF Live
<1>1. b \in Buffers /\ b # used + 1
  BY NextIsFree
<1> QED BY <1>1 DEF Live

LEMMA NewIsNobodys ==
  ASSUME SlotInv, OwnersLive, UNCHANGED <<model, held, extras, cache>>, NEW m,
         \A b \in Buffers : mem'[b] = IF b = used + 1 THEN m ELSE mem[b]
  PROVE  OwnersLive'
<1>1. \A b \in 0 .. used : Live(b) => Live(b)'
  BY OlderKept
<1>2. Live(model)' /\ Live(held)'
  <2>1. model \in 0 .. used /\ held \in 0 .. used /\ Live(model) /\ Live(held)
    BY NextIsFree DEF OwnersLive
  <2> QED BY <1>1, <2>1 DEF Live
<1>3. \A k \in 1 .. Len(extras) : Live(extras[k])'
  <2>1. \A k \in 1 .. Len(extras) : extras[k] \in 0 .. used /\ Live(extras[k])
    BY NextIsFree DEF OwnersLive
  <2> QED BY <1>1, <2>1 DEF Live
<1>4. \A c \in Caches : Live(cache[c].buf)'
  <2>1. \A c \in Caches : cache[c].buf \in 0 .. used /\ Live(cache[c].buf)
    BY NextIsFree DEF OwnersLive
  <2> QED BY <1>1, <2>1 DEF Live
<1> QED BY <1>2, <1>3, <1>4 DEF OwnersLive

\* What OwnerInv says about buffers and their owners, without the control part.
OwnersAgree == OwnersLive /\ OwnersApart /\ NothingLeaks

\* Steps that change neither an owner nor what became of a buffer.
LEMMA OwnersSame ==
  ASSUME OwnersAgree, UNCHANGED <<mem, model, held, extras, cache, slot>>
  PROVE  OwnersAgree'
BY DEF OwnersAgree, OwnersLive, Live, OwnersApart, NothingLeaks, HasOwner, Buffers

LEMMA OwnersSameStep ==
  ASSUME OwnersAgree,
         \/ Open \/ Close \/ AllocDone \/ Free \/ UNCHANGED vars
         \/ \E r \in MapRanges : Unmap(r) \/ ParamCache(r)
         \/ \E w \in AllocRequests : Alloc(w)
         \/ \E i \in SlotIds : AllocFails(i)
         \/ \E p \in Parties : \/ Look(p) \/ SlotClear(p) \/ SlotsDone(p)
                               \/ \E c \in Caches : ClearCache(p, c)
  PROVE  OwnersAgree'
<1>1. UNCHANGED <<mem, model, held, extras, cache, slot>>
  BY DEF Open, Close, AllocDone, Free, vars, Unmap, ParamCache, Alloc, AllocFails,
         Look, SlotClear, SlotsDone, ClearCache, tables, owners, inputs
<1> QED BY <1>1, OwnersSame

\* MAP_BUFFER pins a new buffer, or pins and gives it up again.
LEMMA MapOwners ==
  ASSUME SlotInv, HandsFree, OwnersAgree, NEW r \in MapRanges, MapPin(r) \/ MapPartly(r)
  PROVE  OwnersAgree'
<1> USE OwnerTypes DEF OwnersAgree
<1>1. used < MaxBuffers /\ held = 0
  BY DEF MapPin, MapPartly, MayMap, Dispatch, HandsFree
<1>2. used + 1 \in Buffers /\ used + 1 # 0
  BY <1>1, NextIsFree
<1>a. /\ model # used + 1 /\ \A k \in 1 .. Len(extras) : extras[k] # used + 1
      /\ \A c \in Caches : cache[c].buf # used + 1
  BY NextIsFree
<1>3. CASE MapPin(r)
  <2>1. /\ held' = used + 1 /\ UNCHANGED <<model, extras, cache, slot>>
        /\ \A b \in Buffers : mem'[b] = IF b = used + 1 THEN "pinned" ELSE mem[b]
    BY <1>3 DEF MapPin, Become, owners
  <2>2. OwnersLive'
    <3>1. \A b \in 0 .. used : Live(b) => Live(b)'
      BY <2>1, OlderKept
    <3>2. /\ model \in 0 .. used /\ Live(model)
          /\ \A k \in 1 .. Len(extras) : extras[k] \in 0 .. used /\ Live(extras[k])
          /\ \A c \in Caches : cache[c].buf \in 0 .. used /\ Live(cache[c].buf)
      BY NextIsFree DEF OwnersLive
    <3>3. Live(held)'
      BY <1>2, <2>1 DEF Live
    <3>4. \A k \in 1 .. Len(extras) : Live(extras[k])'
      BY <2>1, <3>1, <3>2 DEF Live
    <3> QED BY <2>1, <3>1, <3>2, <3>3, <3>4 DEF OwnersLive, Live
  <2>3. OwnersApart'
    BY <1>a, <1>1, <2>1 DEF OwnersApart
  <2>4. NothingLeaks'
    <3>1. ASSUME NEW b \in Buffers, HasOwner(b) PROVE HasOwner(b)'
      <4>1. b # 0 /\ held = 0
        BY <1>1, NextIsFree
      <4>2. \/ model = b \/ \E k \in 1 .. Len(extras) : extras[k] = b
            \/ \E c \in Caches : cache[c].buf = b
        BY <3>1, <4>1 DEF HasOwner
      <4> QED BY <2>1, <4>2 DEF HasOwner
    <3>2. \A b : b = used + 1 => HasOwner(b)'
      BY <2>1 DEF HasOwner
    <3> QED BY <2>1, <3>1, <3>2 DEF NothingLeaks, Buffers
  <2> QED BY <2>2, <2>3, <2>4
<1>4. CASE MapPartly(r)
  <2>1. /\ UNCHANGED <<model, held, extras, cache, slot>>
        /\ \A b \in Buffers : mem'[b] = IF b = used + 1 THEN "unpinned" ELSE mem[b]
    BY <1>4 DEF MapPartly, Become, owners, inputs
  <2>2. OwnersLive'
    BY <2>1, NewIsNobodys
  <2>3. OwnersApart'
    BY <2>1 DEF OwnersApart
  <2>4. NothingLeaks'
    <3>1. \A b : HasOwner(b) => HasOwner(b)'
      BY <2>1 DEF HasOwner
    <3> QED BY <2>1, <3>1 DEF NothingLeaks, Buffers
  <2> QED BY <2>2, <2>3, <2>4
<1> QED BY <1>3, <1>4

\* The mapped MDL becomes LockedModelMdl, the previous one an extra or unlocked.
LEMMA MapKeepOwners ==
  ASSUME SlotInv, OwnersAgree, MapKeep
  PROVE  OwnersAgree'
<1> USE OwnerTypes DEF OwnersAgree
<1>1. model' = held /\ held' = 0 /\ UNCHANGED <<cache, slot>>
  BY DEF MapKeep
<1>2. CASE model = 0
  <2>1. UNCHANGED <<extras, mem>>
    BY <1>2 DEF MapKeep
  <2> QED BY <1>1, <1>2, <2>1
          DEF OwnersLive, Live, OwnersApart, NothingLeaks, HasOwner
<1>3. CASE model # 0 /\ Len(extras) < MaxExtras
  <2>1. /\ mem' = mem /\ Len(extras') = Len(extras) + 1 /\ extras'[Len(extras) + 1] = model
        /\ \A k \in 1 .. Len(extras) : extras'[k] = extras[k]
    <3>1. /\ model \in Buffers /\ extras \in Seq(Buffers)
          /\ extras' = Append(extras, model) /\ mem' = mem
      BY <1>3 DEF MapKeep
    <3>2. Len(extras') = Len(extras) + 1
      BY <3>1
    <3>3. extras'[Len(extras) + 1] = model
      BY <3>1
    <3>4. \A k \in 1 .. Len(extras) : extras'[k] = extras[k]
      BY <3>1
    <3> QED BY <3>1, <3>2, <3>3, <3>4
  <2>2. \A k \in 1 .. Len(extras') : k = Len(extras) + 1 \/ k \in 1 .. Len(extras)
    <3>1. Len(extras) \in Nat /\ Len(extras') = Len(extras) + 1
      BY <2>1
    <3>2. \A n \in Nat : \A k \in 1 .. n + 1 : k = n + 1 \/ k \in 1 .. n
      OBVIOUS
    <3> QED BY <3>1, <3>2
  <2>3. OwnersLive'
    BY <1>1, <1>3, <2>1, <2>2 DEF OwnersLive, Live
  <2>4. OwnersApart'
    <3>1. \A k \in 1 .. Len(extras') :
             \/ k = Len(extras) + 1 /\ extras'[k] = model
             \/ k \in 1 .. Len(extras) /\ extras'[k] = extras[k]
      BY <2>1, <2>2
    <3>2. held # 0 => /\ \A k \in 1 .. Len(extras') : extras'[k] # held
                      /\ \A c \in Caches : cache[c].buf # held
      BY <1>3, <3>1 DEF OwnersApart
    <3>3. \A c \in Caches : cache[c].buf # 0 =>
            /\ \A k \in 1 .. Len(extras') : extras'[k] # cache[c].buf
            /\ \A d \in Caches : cache[d].buf = cache[c].buf => d = c
      BY <1>3, <3>1 DEF OwnersApart
    <3>4. \A k, l \in 1 .. Len(extras') : extras'[k] = extras'[l] => k = l
      BY <1>3, <3>1 DEF OwnersApart
    <3> QED BY <1>1, <3>2, <3>3, <3>4 DEF OwnersApart
  <2>5. NothingLeaks'
    <3>1. ASSUME NEW b \in Buffers, HasOwner(b) PROVE HasOwner(b)'
      <4>1. Len(extras) + 1 \in 1 .. Len(extras') /\ 1 .. Len(extras) \subseteq 1 .. Len(extras')
        BY <2>1
      <4> QED BY <1>1, <2>1, <3>1, <4>1 DEF HasOwner
    <3> QED BY <1>1, <2>1, <3>1 DEF NothingLeaks, Buffers
  <2> QED BY <2>3, <2>4, <2>5
<1>4. CASE model # 0 /\ Len(extras) = MaxExtras
  <2>1. /\ extras' = extras
        /\ \A b \in Buffers : mem'[b] = IF b = model THEN "unpinned" ELSE mem[b]
    BY <1>4, Constants DEF MapKeep, Become
  <2>2. OwnersLive'
    <3>1. \A b \in Buffers : b # model /\ Live(b) => Live(b)'
      BY <2>1 DEF Live
    <3>2. /\ \A k \in 1 .. Len(extras) : extras[k] # model /\ Live(extras[k])
          /\ \A c \in Caches : cache[c].buf # model /\ Live(cache[c].buf)
          /\ held # model /\ Live(held)
      BY <1>4 DEF OwnersLive, OwnersApart
    <3>3. \A k \in 1 .. Len(extras) : Live(extras[k])'
      BY <1>1, <2>1, <3>1, <3>2 DEF Live
    <3>4. Live(model)' /\ Live(held)'
      BY <1>1, <2>1, <3>2 DEF Live
    <3>5. \A c \in Caches : Live(cache[c].buf)'
      BY <1>1, <2>1, <3>2 DEF Live
    <3> QED BY <2>1, <3>3, <3>4, <3>5 DEF OwnersLive
  <2>3. OwnersApart'
    BY <1>1, <2>1 DEF OwnersApart
  <2>4. NothingLeaks'
    BY <1>1, <1>4, <2>1 DEF NothingLeaks, HasOwner, OwnersLive, Live
  <2> QED BY <2>2, <2>3, <2>4
<1>5. Len(extras) <= MaxExtras /\ MaxExtras \in Nat
  BY Constants DEF SlotInv, TypeOK
<1> QED BY <1>2, <1>3, <1>4, <1>5

\* UNMAP_BUFFER and the cleanup unlock LockedModelMdl.
LEMMA UnpinOwners ==
  ASSUME SlotInv, OwnersAgree, NEW p \in Parties, Unpin(p)
  PROVE  OwnersAgree'
<1> USE OwnerTypes DEF OwnersAgree
<1>1. /\ model' = 0 /\ UNCHANGED <<held, extras, cache, slot>>
      /\ \A b \in Buffers : mem'[b] = IF b = model THEN "unpinned" ELSE mem[b]
  BY DEF Unpin, inputs
<1>2. OwnersLive'
  <2>1. \A k \in 1 .. Len(extras) : extras[k] # model /\ Live(extras[k])
    BY DEF OwnersLive, OwnersApart
  <2>2. \A k \in 1 .. Len(extras) : Live(extras[k])'
    BY <1>1, <2>1 DEF Live
  <2>3. Live(model)' /\ Live(held)'
    BY <1>1 DEF Live, OwnersLive, OwnersApart
  <2>4. \A c \in Caches : Live(cache[c].buf)'
    BY <1>1 DEF Live, OwnersLive, OwnersApart
  <2> QED BY <1>1, <2>2, <2>3, <2>4 DEF OwnersLive
<1>3. OwnersApart'
  BY <1>1 DEF OwnersApart
<1>4. NothingLeaks'
  BY <1>1 DEF NothingLeaks, HasOwner
<1> QED BY <1>2, <1>3, <1>4

\* A cache is released.
LEMMA UnpinCacheOwners ==
  ASSUME SlotInv, OwnersAgree, NEW p \in Parties, NEW c \in Caches, UnpinCache(p, c)
  PROVE  OwnersAgree'
<1> USE OwnerTypes DEF OwnersAgree
<1>1. /\ cache'[c].buf = 0 /\ \A d \in Caches : d # c => cache'[d] = cache[d]
      /\ UNCHANGED <<model, held, extras, slot>>
      /\ \A b \in Buffers : mem'[b] = IF b = cache[c].buf THEN "unpinned" ELSE mem[b]
  BY DEF UnpinCache, inputs, Nothing
<1>2. \A d \in Caches : cache'[d].buf # 0 =>
         d # c /\ cache'[d].buf = cache[d].buf /\ cache[d].buf # cache[c].buf
  BY <1>1 DEF OwnersApart
<1>3. OwnersLive'
  <2>1. \A k \in 1 .. Len(extras) : extras[k] # 0 => extras[k] # cache[c].buf
    BY DEF OwnersApart
  <2>2. \A k \in 1 .. Len(extras) : Live(extras[k])'
    BY <1>1, <2>1 DEF OwnersLive, Live
  <2>3. Live(model)' /\ Live(held)'
    <3>1. Live(model) /\ Live(held)
      BY DEF OwnersLive
    <3>2. model # 0 => model # cache[c].buf
      BY DEF OwnersApart
    <3>3. held # 0 => held # cache[c].buf
      BY DEF OwnersApart
    <3> QED BY <1>1, <3>1, <3>2, <3>3 DEF Live
  <2>4. \A d \in Caches : Live(cache[d].buf)'
    <3>1. \A d \in Caches : Live(cache[d].buf)
      BY DEF OwnersLive
    <3>2. \A d \in Caches : cache'[d].buf # 0 => mem'[cache[d].buf] = mem[cache[d].buf]
      BY <1>1, <1>2
    <3> QED BY <1>2, <3>1, <3>2 DEF Live
  <2> QED BY <1>1, <2>2, <2>3, <2>4 DEF OwnersLive
<1>4. OwnersApart'
  <2>1. model # 0 => \A d \in Caches : cache'[d].buf # model
    BY <1>2 DEF OwnersApart
  <2>2. held # 0 => \A d \in Caches : cache'[d].buf # held
    BY <1>2 DEF OwnersApart
  <2>3. \A e \in Caches : cache'[e].buf # 0 =>
          /\ \A k \in 1 .. Len(extras) : extras[k] # cache'[e].buf
          /\ \A d \in Caches : cache'[d].buf = cache'[e].buf => d = e
    BY <1>2 DEF OwnersApart
  <2> QED BY <1>1, <2>1, <2>2, <2>3 DEF OwnersApart
<1>5. NothingLeaks'
  <2>1. ASSUME NEW b \in Buffers, HasOwner(b), b # cache[c].buf PROVE HasOwner(b)'
    BY <1>1, <2>1 DEF HasOwner
  <2> QED BY <1>1, <2>1 DEF NothingLeaks, Buffers
<1> QED BY <1>3, <1>4, <1>5

\* PARAM_CACHE pins the parameters and takes over the bitstream mapped last.
LEMMA ParamOwners ==
  ASSUME SlotInv, HandsFree, OwnersAgree, PinParam
  PROVE  OwnersAgree'
<1> USE OwnerTypes DEF OwnersAgree
<1> DEFINE hand == model # 0 /\ bsPages > 0
<1>1. /\ used < MaxBuffers /\ held = 0 /\ cache["param"].buf = 0 /\ cache["bits"].buf = 0
      /\ used + 1 \in Buffers /\ used + 1 # 0
  BY NextIsFree DEF PinParam, HandsFree
<1>2. /\ UNCHANGED <<held, extras, slot>>
      /\ \A b \in Buffers : mem'[b] = IF b = used + 1 THEN "pinned" ELSE mem[b]
      /\ cache'["param"].buf = used + 1
      /\ \/ hand /\ cache'["bits"].buf = model /\ model' = 0
         \/ ~ hand /\ cache'["bits"].buf = 0 /\ model' = model
  BY <1>1 DEF PinParam, Become, inputs
<1>3. model <= used /\ \A k \in 1 .. Len(extras) : extras[k] <= used
  BY NextIsFree
<1> HIDE DEF hand
<1>4. CASE hand
  <2>1. /\ held' = 0 /\ model' = 0 /\ cache'["bits"].buf = model /\ model # 0
        /\ \A c \in Caches : cache'[c].buf \in {used + 1, model}
    BY <1>1, <1>2, <1>4 DEF hand
  <2>2. OwnersLive'
    <3>1. \A k \in 1 .. Len(extras) : extras[k] # used + 1 /\ Live(extras[k])
      BY NextIsFree DEF OwnersLive
    <3>2. Live(model) /\ model # used + 1
      BY NextIsFree DEF OwnersLive
    <3>3. \A k \in 1 .. Len(extras) : Live(extras[k])'
      BY <1>2, <3>1 DEF Live
    <3>4. \A c \in Caches : Live(cache[c].buf)'
      BY <1>1, <1>2, <2>1, <3>2 DEF Live
    <3> QED BY <1>2, <2>1, <3>3, <3>4 DEF OwnersLive, Live
  <2>3. OwnersApart'
    <3>1. \A k \in 1 .. Len(extras) : extras[k] # used + 1 /\ extras[k] # model
      BY <1>3, <2>1 DEF OwnersApart
    <3>2. model # used + 1
      BY <1>3
    <3>3. \A c, d \in Caches : cache'[d].buf = cache'[c].buf => d = c
      BY <1>2, <2>1, <3>2
    <3> QED BY <1>2, <2>1, <3>1, <3>3 DEF OwnersApart
  <2>4. NothingLeaks'
    <3>1. ASSUME NEW b \in Buffers, HasOwner(b) PROVE HasOwner(b)'
      <4>1. b # 0 /\ \A c \in Caches : cache[c].buf = 0
        BY <1>1, NextIsFree
      <4>2. model = b \/ \E k \in 1 .. Len(extras) : extras[k] = b
        BY <1>1, <3>1, <4>1 DEF HasOwner
      <4> QED BY <1>2, <2>1, <4>2 DEF HasOwner
    <3>2. \A b : b = used + 1 => HasOwner(b)'
      BY <1>2 DEF HasOwner
    <3> QED BY <1>2, <3>1, <3>2 DEF NothingLeaks, Buffers
  <2> QED BY <2>2, <2>3, <2>4
<1>5. CASE ~ hand
  <2>1. /\ held' = 0 /\ model' = model /\ cache'["bits"].buf = 0
        /\ \A c \in Caches : cache'[c].buf \in {used + 1, 0}
    BY <1>1, <1>2, <1>5
  <2>2. OwnersLive'
    BY <1>1, <1>2, <1>3, <2>1 DEF OwnersLive, Live
  <2>3. OwnersApart'
    <3>1. \A k \in 1 .. Len(extras) : extras[k] # used + 1
      BY <1>3
    <3>2. model # used + 1
      BY <1>3
    <3>3. \A c, d \in Caches : cache'[c].buf # 0 /\ cache'[d].buf = cache'[c].buf => d = c
      BY <1>2, <2>1
    <3>4. model # 0 => \A c \in Caches : cache'[c].buf # model
      BY <2>1, <3>2
    <3>5. \A c \in Caches : cache'[c].buf # 0 =>
             \A k \in 1 .. Len(extras) : extras[k] # cache'[c].buf
      BY <2>1, <3>1
    <3> QED BY <1>2, <2>1, <3>3, <3>4, <3>5 DEF OwnersApart
  <2>4. NothingLeaks'
    <3>1. ASSUME NEW b \in Buffers, HasOwner(b) PROVE HasOwner(b)'
      <4>1. b # 0 /\ \A c \in Caches : cache[c].buf = 0
        BY <1>1, NextIsFree
      <4>2. model = b \/ \E k \in 1 .. Len(extras) : extras[k] = b
        BY <1>1, <3>1, <4>1 DEF HasOwner
      <4> QED BY <1>2, <2>1, <4>2 DEF HasOwner
    <3>2. \A b : b = used + 1 => HasOwner(b)'
      BY <1>2 DEF HasOwner
    <3> QED BY <1>2, <3>1, <3>2 DEF NothingLeaks, Buffers
  <2> QED BY <2>2, <2>3, <2>4
<1> QED BY <1>4, <1>5

LEMMA PinFailsOwners ==
  ASSUME SlotInv, OwnersAgree, PinFails
  PROVE  OwnersAgree'
<1> USE OwnerTypes
<1>1. UNCHANGED <<model, held, extras, cache, slot>>
  BY DEF PinFails, owners, inputs
<1>2. CASE mem' = mem
  BY <1>1, <1>2, OwnersSame
<1>3. CASE mem' # mem
  <2>1. /\ used + 1 \in Buffers
        /\ \A b \in Buffers : mem'[b] = IF b = used + 1 THEN "unpinned" ELSE mem[b]
    BY <1>3, NextIsFree DEF PinFails, Become, tables
  <2>2. OwnersLive'
    BY <1>1, <2>1, NewIsNobodys DEF OwnersAgree
  <2>3. OwnersApart'
    BY <1>1, <2>1 DEF OwnersAgree, OwnersApart
  <2>4. NothingLeaks'
    <3>1. \A b : HasOwner(b) => HasOwner(b)'
      BY <1>1 DEF HasOwner
    <3> QED BY <1>1, <2>1, <3>1 DEF OwnersAgree, NothingLeaks, Buffers
  <2> QED BY <2>2, <2>3, <2>4 DEF OwnersAgree
<1> QED BY <1>2, <1>3

\* A slot takes a new common buffer.
LEMMA AllocOwners ==
  ASSUME SlotInv, OwnersAgree, NEW i \in SlotIds, AllocSlot(i)
  PROVE  OwnersAgree'
<1> USE OwnerTypes
<1>1. UNCHANGED <<model, held, extras, cache>>
  BY DEF AllocSlot, inputs
<1>2. CASE UNCHANGED <<mem, slot>>
  BY <1>1, <1>2, OwnersSame
<1>3. CASE ~ UNCHANGED <<mem, slot>>
  <2>1. /\ used + 1 \in Buffers /\ slot[i].buf = 0 /\ slot'[i].buf = used + 1
        /\ \A s \in SlotIds : s # i => slot'[s] = slot[s]
        /\ \A b \in Buffers : mem'[b] = IF b = used + 1 THEN "common" ELSE mem[b]
    BY <1>3, NextIsFree DEF AllocSlot, Become, tables
  <2>2. OwnersLive'
    BY <1>1, <2>1, NewIsNobodys DEF OwnersAgree
  <2>3. OwnersApart'
    BY <1>1 DEF OwnersAgree, OwnersApart
  <2>4. NothingLeaks'
    <3>1. \A b \in Buffers : HasOwner(b) => HasOwner(b)'
      BY <1>1 DEF HasOwner
    <3>2. ASSUME NEW b \in Buffers, NEW s \in SlotIds, slot[s].buf = b
          PROVE  \E t \in SlotIds : slot'[t].buf = b
      <4>1. s # i
        BY <2>1, <3>2
      <4> QED BY <2>1, <3>2, <4>1
    <3> QED BY <2>1, <3>1, <3>2 DEF OwnersAgree, NothingLeaks, Buffers
  <2> QED BY <2>2, <2>3, <2>4 DEF OwnersAgree
<1> QED BY <1>2, <1>3

\* A slot's common buffer is freed.
LEMMA SlotFreeOwners ==
  ASSUME SlotInv, OwnersAgree, NEW p \in Parties, SlotFree(p)
  PROVE  OwnersAgree'
<1> USE OwnerTypes
<1> DEFINE i == idx[p]
           f == slot[i].buf
<1>1. i \in SlotIds /\ f # 0
  BY DEF SlotFree, SlotInv, LoopInRange, ClearedBeforeFree
<1>2. mem[f] = "common" /\ f \in Buffers
  BY <1>1 DEF SlotInv, SlotsCommon
<1>3. /\ UNCHANGED <<model, held, extras, cache>>
      /\ slot'[i].buf = 0 /\ \A s \in SlotIds : s # i => slot'[s] = slot[s]
      /\ \A b \in Buffers : mem'[b] = IF b = f THEN "freed" ELSE mem[b]
  BY <1>1 DEF SlotFree, inputs, Nothing
<1> HIDE DEF f, i
<1>4. OwnersLive'
  BY <1>2, <1>3 DEF OwnersAgree, OwnersLive, Live
<1>5. OwnersApart'
  BY <1>3 DEF OwnersAgree, OwnersApart
<1>6. NothingLeaks'
  <2>1. \A b \in Buffers : HasOwner(b) => HasOwner(b)'
    BY <1>3 DEF HasOwner
  <2>2. ASSUME NEW b \in Buffers, b # f, NEW s \in SlotIds, slot[s].buf = b
        PROVE  \E t \in SlotIds : slot'[t].buf = b
    BY <1>3, <2>2 DEF f
  <2> QED BY <1>3, <2>1, <2>2 DEF OwnersAgree, NothingLeaks, Buffers
<1> QED BY <1>4, <1>5, <1>6 DEF OwnersAgree

\* The file cleanup unlocks the extras.
LEMMA DrainOwners ==
  ASSUME SlotInv, OwnersAgree, Drain
  PROVE  OwnersAgree'
<1> USE OwnerTypes DEF OwnersAgree
<1> DEFINE inExtras(b) == \E k \in 1 .. Len(extras) : extras[k] = b
<1>1. /\ UNCHANGED <<model, held, cache, slot>> /\ extras' = <<>> /\ Len(extras') = 0
      /\ \A b \in Buffers : mem'[b] = IF inExtras(b) THEN "unpinned" ELSE mem[b]
  BY DEF Drain, inputs
<1>2. /\ model # 0 => ~ inExtras(model)
      /\ held # 0 => ~ inExtras(held)
      /\ \A c \in Caches : cache[c].buf # 0 => ~ inExtras(cache[c].buf)
  BY DEF OwnersApart
<1>3. OwnersLive'
  <2> HIDE DEF inExtras
  <2> QED BY <1>1, <1>2 DEF OwnersLive, Live
<1>4. OwnersApart'
  BY <1>1 DEF OwnersApart
<1>5. NothingLeaks'
  BY <1>1 DEF NothingLeaks, HasOwner
<1> QED BY <1>3, <1>4, <1>5

\* OwnerInv is inductive for one handle at a time.
LEMMA OwnerStep ==
  ASSUME SlotInv, OwnerInv, "overlap" \notin Use, [Next]_vars
  PROVE  OwnerInv'
<1>1. PartyLabels' /\ HandsFree' /\ CleanupOrder'
  BY LabelsStep, HandsStep, CleanupStep DEF OwnerInv
<1>2. OwnersAgree'
  <2>1. OwnersAgree /\ HandsFree
    BY DEF OwnerInv, OwnersAgree
  <2> QED
    BY <2>1, OwnersSameStep, MapOwners, MapKeepOwners, UnpinOwners, UnpinCacheOwners,
       ParamOwners, PinFailsOwners, AllocOwners, SlotFreeOwners, DrainOwners DEF Next
<1> QED BY <1>1, <1>2 DEF OwnerInv, OwnersAgree

\* Who owns what, in every reachable state with one handle at a time: the owners
\* of Queue.c hold live buffers, never the same one twice, and the file cleanup
\* of Device.c empties them one after the other.
THEOREM OwnerInvHolds == "overlap" \notin Use => (Spec => []OwnerInv)
<1> SUFFICES ASSUME "overlap" \notin Use PROVE Spec => []OwnerInv
  OBVIOUS
<1>1. Init => OwnerInv
  <2> SUFFICES ASSUME Init PROVE OwnerInv
    OBVIOUS
  <2>1. /\ model = 0 /\ held = 0 /\ extras = <<>> /\ Len(extras) = 0
        /\ \A c \in Caches : cache[c].buf = 0
        /\ \A s \in SlotIds : slot[s].buf = 0
        /\ \A p \in Parties : pc[p] = "idle"
        /\ \A b \in Buffers : mem[b] = "unused"
    BY DEF Init, Nothing
  <2>2. PartyLabels /\ HandsFree /\ CleanupOrder
    BY <2>1 DEF PartyLabels, HandsFree, CleanupOrder
  <2>3. OwnersLive /\ OwnersApart /\ NothingLeaks
    BY <2>1 DEF OwnersLive, Live, OwnersApart, NothingLeaks
  <2> QED BY <2>2, <2>3 DEF OwnerInv
<1>2. SlotInv /\ OwnerInv /\ [Next]_vars => OwnerInv'
  BY OwnerStep
<1>3. Spec => []SlotInv
  BY SlotInvHolds
<1> QED BY <1>1, <1>2, <1>3, PTL DEF Spec

\* A set with at most one element has one element or none.
LEMMA CountOne ==
  ASSUME NEW S, \A x, y \in S : x = y
  PROVE  Cardinality(S) = IF S = {} THEN 0 ELSE 1
<1>1. CASE S = {}
  BY <1>1, FS_EmptySet
<1>2. CASE S # {}
  <2>1. PICK x : x \in S
    BY <1>2
  <2>2. S = {x}
    BY <2>1
  <2> QED BY <1>2, <2>2, FS_Singleton
<1> QED BY <1>1, <1>2

\* In every reachable state each pinned or allocated buffer is in exactly one
\* place and every other buffer in none: nothing leaks, nothing is unlocked or
\* freed twice (LockedModelMdl, ExtraLockedMdls, the caches and IOSlots of Queue.c).
THEOREM EveryBufferOwnedOnce == "overlap" \notin Use => (Spec => []OneOwner)
<1>1. ASSUME SlotInv, OwnerInv PROVE OneOwner
  <2> SUFFICES ASSUME NEW b \in Buffers
               PROVE  Cardinality({c \in Caches : cache[c].buf = b})
                      + Cardinality({s \in SlotIds : slot[s].buf = b})
                      + Cardinality({k \in 1 .. Len(extras) : extras[k] = b})
                      + (IF model = b THEN 1 ELSE 0) + (IF held = b THEN 1 ELSE 0)
                      = IF mem[b] \in {"pinned", "common"} THEN 1 ELSE 0
    BY DEF OneOwner
  <2> DEFINE C == {c \in Caches : cache[c].buf = b}
             S == {s \in SlotIds : slot[s].buf = b}
             K == {k \in 1 .. Len(extras) : extras[k] = b}
  <2>0. b # 0
    BY <1>1, NextIsFree
  <2>1. Cardinality(C) = IF C = {} THEN 0 ELSE 1
    <3>1. \A c, d \in C : c = d
      BY <1>1, <2>0 DEF OwnerInv, OwnersApart
    <3> HIDE DEF C
    <3> QED BY <3>1, CountOne
  <2>2. Cardinality(S) = IF S = {} THEN 0 ELSE 1
    <3>1. \A s, t \in S : s = t
      BY <1>1, <2>0 DEF SlotInv, SlotsCommon
    <3> HIDE DEF S
    <3> QED BY <3>1, CountOne
  <2>3. Cardinality(K) = IF K = {} THEN 0 ELSE 1
    <3>1. \A k, l \in K : k = l
      BY <1>1 DEF OwnerInv, OwnersApart
    <3> HIDE DEF K
    <3> QED BY <3>1, CountOne
  <2>4. /\ C # {} => mem[b] = "pinned" /\ K = {} /\ model # b /\ held # b
        /\ K # {} => mem[b] = "pinned" /\ C = {} /\ model # b /\ held # b
        /\ model = b => mem[b] = "pinned" /\ C = {} /\ K = {} /\ held # b
        /\ held = b => mem[b] = "pinned" /\ C = {} /\ K = {} /\ model # b
    BY <1>1, <2>0 DEF OwnerInv, OwnersApart, OwnersLive, Live
  <2>5. S # {} => mem[b] = "common"
    BY <1>1, <2>0 DEF SlotInv, SlotsCommon
  <2>6. /\ mem[b] = "pinned" => C # {} \/ K # {} \/ model = b \/ held = b
        /\ mem[b] = "common" => S # {}
    BY <1>1 DEF OwnerInv, NothingLeaks, HasOwner
  <2> HIDE DEF C, S, K
  <2>7. Cardinality(C) + Cardinality(S) + Cardinality(K)
          + (IF model = b THEN 1 ELSE 0) + (IF held = b THEN 1 ELSE 0)
        = IF mem[b] \in {"pinned", "common"} THEN 1 ELSE 0
    BY <2>1, <2>2, <2>3, <2>4, <2>5, <2>6
  <2> QED BY <2>7 DEF C, S, K
<1>2. "overlap" \notin Use => (Spec => []SlotInv) /\ (Spec => []OwnerInv)
  BY SlotInvHolds, OwnerInvHolds
<1> QED BY <1>1, <1>2, PTL

\* When the last handle is closed and its cleanup is through, no buffer is
\* pinned or allocated any more (Device.c file cleanup).
THEOREM CloseReleases == "overlap" \notin Use => (Spec => []CloseReleasesAll)
<1>1. ASSUME SlotInv, OwnerInv PROVE CloseReleasesAll
  <2> SUFFICES ASSUME handles = 0, \A p \in Parties : pc[p] = "idle", NEW b \in Buffers
               PROVE  mem[b] \notin {"pinned", "common"}
    BY DEF CloseReleasesAll
  <2>1. /\ model = 0 /\ extras = <<>> /\ held = 0
        /\ \A c \in Caches : cache[c].buf = 0
        /\ \A s \in SlotIds : slot[s].buf = 0
    BY <1>1 DEF OwnerInv, CleanupOrder, HandsFree
  <2>2. b # 0
    BY <1>1, NextIsFree
  <2> QED BY <1>1, <2>1, <2>2 DEF OwnerInv, NothingLeaks, HasOwner
<1>2. "overlap" \notin Use => (Spec => []SlotInv) /\ (Spec => []OwnerInv)
  BY SlotInvHolds, OwnerInvHolds
<1> QED BY <1>1, <1>2, PTL

(***************************************************************************)
(* A slot that was handed out stays mapped.                                *)
(***************************************************************************)

\* What the hand-over of PARAM_CACHE records is a range a client answers for.
LEMMA HandOver ==
  ASSUME RangesKnown, PinParam, model # 0
  PROVE  [lastMap EXCEPT !.count = bsPages] \in ClientRanges
<1>1. bsPages \in BitstreamSizes /\ lastMap \in MapRanges
  BY DEF PinParam, RangesKnown, ParamLabels
<1> QED BY <1>1 DEF ClientRanges

\* Every range the driver keeps was given by a client.
LEMMA RangesStep ==
  ASSUME SlotInv, RangesKnown, [Next]_vars
  PROVE  RangesKnown'
<1> USE ControlTypes DEF Goto
<1>1. CASE Open \/ Close \/ AllocDone \/ Free \/ Drain \/ UNCHANGED vars
  BY <1>1 DEF Open, Close, AllocDone, Free, Drain, owners, inputs, vars, Dispatch,
              RangesKnown, ParamLabels
<1>2. CASE MapKeep
  <2>1. /\ lastMap' = arg /\ arg \in MapRanges /\ pc'["ioctl"] = "idle"
        /\ UNCHANGED <<cache, slot>>
    BY <1>2 DEF MapKeep, RangesKnown
  <2> QED BY <2>1 DEF RangesKnown, ParamLabels
<1>3. CASE PinFails
  BY <1>3 DEF PinFails, owners, inputs, RangesKnown, ParamLabels
<1>4. CASE PinParam
  <2>1. /\ pc["ioctl"] = "pin" /\ pc'["ioctl"] = "idle" /\ UNCHANGED <<lastMap, slot>>
        /\ cache'["param"].at = arg /\ model' \in {0, model}
        /\ \/ model # 0 /\ cache'["bits"].at = [lastMap EXCEPT !.count = bsPages]
           \/ cache'["bits"] = cache["bits"]
    BY <1>4 DEF PinParam
  <2>2. arg \in ClientRanges
    BY <2>1 DEF RangesKnown, ParamLabels, ClientRanges
  <2>3. cache'["bits"].buf # 0 => cache'["bits"].at \in ClientRanges
    BY <1>4, <2>1, HandOver DEF RangesKnown
  <2> QED BY <2>1, <2>2, <2>3 DEF RangesKnown, ParamLabels
<1>5. ASSUME NEW r \in MapRanges, MapPin(r) \/ MapPartly(r) \/ Unmap(r) PROVE RangesKnown'
  BY <1>5 DEF MapPin, MapPartly, MayMap, Dispatch, Unmap, owners, inputs, RangesKnown,
              ParamLabels
<1>6. ASSUME NEW r \in MapRanges, ParamCache(r) PROVE RangesKnown'
  BY <1>6 DEF ParamCache, owners, RangesKnown, ParamLabels
<1>7. ASSUME NEW w \in AllocRequests, Alloc(w) PROVE RangesKnown'
  BY <1>7 DEF Alloc, owners, RangesKnown, ParamLabels
<1>8. ASSUME NEW i \in SlotIds, AllocSlot(i) PROVE RangesKnown'
  <2>1. /\ pc["ioctl"] = "alloc" /\ UNCHANGED <<pc, model, lastMap, cache, arg, bsPages, want>>
        /\ slot' = slot \/ slot' = [slot EXCEPT ![i] = [buf |-> used + 1, at |-> want[i]]]
    BY <1>8 DEF AllocSlot, Allocating, inputs, tables
  <2>2. want \in AllocRequests
    BY <2>1 DEF RangesKnown
  <2>3. \A s \in SlotIds : slot'[s] = slot[s] \/ slot'[s].at = want[s]
    BY <2>1
  <2>4. \A s \in SlotIds : slot'[s].buf # 0 => \E w \in AllocRequests : slot'[s].at = w[s]
    BY <2>2, <2>3 DEF RangesKnown
  <2> QED BY <2>1, <2>4 DEF RangesKnown, ParamLabels
<1>9. ASSUME NEW i \in SlotIds, AllocFails(i) PROVE RangesKnown'
  BY <1>9 DEF AllocFails, owners, inputs, RangesKnown, ParamLabels
<1>10. ASSUME NEW p \in Parties, Look(p) \/ Unpin(p) \/ SlotClear(p) \/ SlotsDone(p)
       PROVE  RangesKnown'
  BY <1>10 DEF Look, Unpin, SlotClear, SlotsDone, owners, inputs, RangesKnown, ParamLabels
<1>11. ASSUME NEW p \in Parties, SlotFree(p) PROVE RangesKnown'
  <2>1. /\ pc[p] = "slotFree" /\ pc' = [pc EXCEPT ![p] = "slots"]
        /\ UNCHANGED <<model, lastMap, cache, arg, bsPages, want>>
        /\ slot' = [slot EXCEPT ![idx[p]] = Nothing]
    BY <1>11 DEF SlotFree, inputs
  <2>2. \A s \in SlotIds : slot'[s] = slot[s] \/ slot'[s].buf = 0
    BY <2>1 DEF Nothing
  <2>3. pc'["ioctl"] = pc["ioctl"] \/ pc'["ioctl"] = "slots"
    BY <2>1
  <2> QED BY <2>1, <2>2, <2>3 DEF RangesKnown, ParamLabels
<1>12. ASSUME NEW p \in Parties, NEW c \in Caches, ClearCache(p, c) PROVE RangesKnown'
  <2>1. /\ UNCHANGED <<model, lastMap, cache, slot, arg, bsPages, want>> /\ pc[p] = c
        /\ pc'[p] = IF cache[c].buf = 0 THEN AfterCache(p, c) ELSE UnpinLabel[c]
        /\ \A q \in Parties : q # p => pc'[q] = pc[q]
    BY <1>12 DEF ClearCache, owners, inputs
  <2>2. \/ pc'["ioctl"] = pc["ioctl"]
        \/ pc["ioctl"] \in ParamLabels /\ pc'["ioctl"] \in ParamLabels
    <3>1. CASE p = "close"
      BY <2>1, <3>1
    <3>2. CASE p = "ioctl"
      <4>1. AfterCache("ioctl", c) \in {"bits", "pin"} /\ UnpinLabel[c] \in {"unpinParam", "unpinBits"}
        BY DEF AfterCache, UnpinLabel
      <4>2. pc["ioctl"] \in ParamLabels /\ pc'["ioctl"] \in {"bits", "pin", "unpinParam", "unpinBits"}
        BY <2>1, <3>2, <4>1 DEF ParamLabels
      <4> QED BY <4>2 DEF ParamLabels
    <3> QED BY <3>1, <3>2
  <2> QED BY <2>1, <2>2 DEF RangesKnown, ParamLabels
<1>13. ASSUME NEW p \in Parties, NEW c \in Caches, UnpinCache(p, c) PROVE RangesKnown'
  <2>1. /\ UNCHANGED <<model, lastMap, slot, arg, bsPages, want>> /\ pc[p] = UnpinLabel[c]
        /\ pc'[p] = AfterCache(p, c) /\ \A q \in Parties : q # p => pc'[q] = pc[q]
        /\ cache' = [cache EXCEPT ![c] = Nothing]
    BY <1>13 DEF UnpinCache, inputs
  <2>2. \/ pc'["ioctl"] = pc["ioctl"]
        \/ pc["ioctl"] \in ParamLabels /\ pc'["ioctl"] \in ParamLabels
    <3>1. CASE p = "close"
      BY <2>1, <3>1
    <3>2. CASE p = "ioctl"
      <4>1. AfterCache("ioctl", c) \in {"bits", "pin"} /\ UnpinLabel[c] \in {"unpinParam", "unpinBits"}
        BY DEF AfterCache, UnpinLabel
      <4>2. pc["ioctl"] \in ParamLabels /\ pc'["ioctl"] \in {"bits", "pin", "unpinParam", "unpinBits"}
        BY <2>1, <3>2, <4>1 DEF ParamLabels
      <4> QED BY <4>2 DEF ParamLabels
    <3> QED BY <3>1, <3>2
  <2>3. \A d \in Caches : cache'[d] = cache[d] \/ cache'[d].buf = 0
    BY <2>1 DEF Nothing
  <2> QED BY <2>1, <2>2, <2>3 DEF RangesKnown, ParamLabels
<1> QED
  BY <1>1, <1>2, <1>3, <1>4, <1>5, <1>6, <1>7, <1>8, <1>9, <1>10, <1>11, <1>12, <1>13 DEF Next

\* ALLOC hands out slots that hold a buffer; freeing a slot takes it back.
LEMMA GrantsStep ==
  ASSUME SlotInv, GrantsHeld, [Next]_vars
  PROVE  GrantsHeld'
<1> USE ControlTypes DEF Goto
<1>1. CASE Open \/ Close \/ MapKeep \/ PinParam \/ PinFails \/ Free \/ Drain \/ UNCHANGED vars
  BY <1>1 DEF Open, Close, MapKeep, PinParam, PinFails, Free, Drain, owners, inputs, vars,
              GrantsHeld
<1>2. CASE AllocDone
  <2>1. /\ pc["ioctl"] = "alloc" /\ idx["ioctl"] > SlotCount /\ pc'["ioctl"] = "idle"
        /\ granted' = granted \cup {s \in SlotIds : want[s].count # 0} /\ slot' = slot
    BY <1>2 DEF AllocDone, owners
  <2>2. \A s \in SlotIds : s < idx["ioctl"]
    BY <2>1
  <2> QED BY <2>1, <2>2 DEF GrantsHeld
<1>3. CASE \E r \in MapRanges : MapPin(r) \/ MapPartly(r) \/ Unmap(r) \/ ParamCache(r)
  BY <1>3 DEF MapPin, MapPartly, MayMap, Dispatch, Unmap, ParamCache, owners, GrantsHeld
<1>4. CASE \E w \in AllocRequests : Alloc(w)
  BY <1>4 DEF Alloc, owners, GrantsHeld
<1>5. ASSUME NEW i \in SlotIds, AllocSlot(i) PROVE GrantsHeld'
  <2>1. /\ pc["ioctl"] = "alloc" /\ i = idx["ioctl"] /\ UNCHANGED <<pc, want, granted>>
        /\ idx'["ioctl"] = i + 1
        /\ \/ want[i].count = 0 /\ slot' = slot
           \/ slot' = [slot EXCEPT ![i] = [buf |-> used + 1, at |-> want[i]]]
    BY <1>5 DEF AllocSlot, Allocating, inputs
  <2>2. used + 1 # 0
    BY NextIsFree
  <2>3. \A s \in SlotIds : slot'[s] = slot[s] \/ slot'[s].buf # 0
    BY <2>1, <2>2
  <2>4. want[i].count # 0 => slot'[i].buf # 0
    BY <2>1, <2>2
  <2>5. \A s \in SlotIds : s < i + 1 => s < i \/ s = i
    OBVIOUS
  <2> QED BY <2>1, <2>3, <2>4, <2>5 DEF GrantsHeld, SlotInv, TypeOK
<1>6. CASE \E i \in SlotIds : AllocFails(i)
  BY <1>6 DEF AllocFails, owners, GrantsHeld
<1>7. ASSUME NEW p \in Parties, Look(p) \/ Unpin(p) \/ SlotClear(p) \/ SlotsDone(p)
      PROVE  GrantsHeld'
  BY <1>7 DEF Look, Unpin, SlotClear, SlotsDone, owners, inputs, GrantsHeld
<1>8. ASSUME NEW p \in Parties, SlotFree(p) PROVE GrantsHeld'
  <2>1. /\ pc[p] = "slotFree" /\ pc'[p] = "slots" /\ granted' = granted \ {idx[p]}
        /\ slot' = [slot EXCEPT ![idx[p]] = Nothing] /\ want' = want
        /\ \A q \in Parties : q # p => pc'[q] = pc[q] /\ pc[q] = "idle"
    BY <1>8 DEF SlotFree, inputs
  <2>2. pc'["ioctl"] # "alloc"
    BY <2>1
  <2>3. \A s \in granted' : s \in SlotIds /\ s # idx[p] /\ slot'[s] = slot[s]
    BY <2>1 DEF SlotInv, TypeOK
  <2> QED BY <2>1, <2>2, <2>3 DEF GrantsHeld
<1>9. ASSUME NEW p \in Parties, NEW c \in Caches, ClearCache(p, c) \/ UnpinCache(p, c)
      PROVE  GrantsHeld'
  <2>1. /\ UNCHANGED <<slot, want, granted>> /\ pc[p] # "alloc" /\ pc'[p] # "alloc"
        /\ \A q \in Parties : q # p => pc'[q] = pc[q] /\ pc[q] = "idle"
    BY <1>9 DEF ClearCache, UnpinCache, AfterCache, UnpinLabel, owners, inputs
  <2>2. pc'["ioctl"] # "alloc"
    BY <2>1
  <2> QED BY <2>1, <2>2 DEF GrantsHeld
<1> QED BY <1>1, <1>2, <1>3, <1>4, <1>5, <1>6, <1>7, <1>8, <1>9 DEF Next

\* No step but the slot loop's own unsettles a slot, and none but it settles one.
LEMMA SettledStep ==
  ASSUME SlotInv, [Next]_vars, \A p \in Parties : ~ SlotFree(p)
  PROVE  \A s \in SlotIds : Settled(s)' => Settled(s)
<1> USE ControlTypes DEF Goto, Settled
<1>1. \A p \in Parties : pc[p] = "slotFree" => pc'[p] = "slotFree" /\ idx'[p] = idx[p]
  <2> SUFFICES ASSUME NEW p \in Parties, pc[p] = "slotFree"
               PROVE  pc'[p] = "slotFree" /\ idx'[p] = idx[p]
    OBVIOUS
  <2>0. \A q \in Parties : q # p => pc[q] = "idle"
    BY Alone
  <2>1. CASE Open \/ Close \/ MapKeep \/ PinParam \/ PinFails \/ AllocDone \/ Free \/ Drain
             \/ UNCHANGED vars
    BY <2>0, <2>1 DEF Open, Close, MapKeep, PinParam, PinFails, AllocDone, Free, Drain,
                      Dispatch, vars
  <2>2. CASE \E r \in MapRanges : MapPin(r) \/ MapPartly(r) \/ Unmap(r) \/ ParamCache(r)
    BY <2>0, <2>2 DEF MapPin, MapPartly, MayMap, Dispatch, Unmap, ParamCache
  <2>3. CASE (\E w \in AllocRequests : Alloc(w))
             \/ \E i \in SlotIds : AllocSlot(i) \/ AllocFails(i)
    BY <2>0, <2>3 DEF Alloc, Dispatch, AllocSlot, AllocFails, Allocating
  <2>4. CASE \E q \in Parties : Look(q) \/ Unpin(q) \/ SlotClear(q) \/ SlotsDone(q)
    BY <2>0, <2>4 DEF Look, Unpin, SlotClear, SlotsDone
  <2>5. CASE \E q \in Parties, c \in Caches : ClearCache(q, c) \/ UnpinCache(q, c)
    BY <2>0, <2>5 DEF ClearCache, UnpinCache, UnpinLabel
  <2> QED BY <2>1, <2>2, <2>3, <2>4, <2>5 DEF Next
<1> QED BY <1>1

\* A client's range is written: slots kept clear of it keep their entries.
LEMMA ClearOfWrites ==
  ASSUME SlotsMapped, slot' = slot, \A s \in SlotIds : Settled(s)' => Settled(s),
         NEW r \in ClientRanges, NEW b,
         entry' \in {entry, Written(r, b)}
  PROVE  SlotsMapped'
<1> SUFFICES ASSUME NEW s \in SlotIds, slot[s].buf # 0, Settled(s), KeptClear(s),
                    NEW x \in Covers(slot[s].at)
             PROVE  entry'[x] = slot[s].buf
  BY DEF SlotsMapped, KeptClear
<1>1. x \in Entries /\ x \notin Covers(r) /\ entry[x] = slot[s].buf
  BY DEF SlotsMapped, KeptClear, Covers
<1> QED BY <1>1 DEF Written

\* Nothing is written, no slot changes.
LEMMA NothingWritten ==
  ASSUME SlotsMapped, UNCHANGED <<slot, entry>>,
         \A s \in SlotIds : Settled(s)' => Settled(s)
  PROVE  SlotsMapped'
BY DEF SlotsMapped, KeptClear

\* The ranges of two slots do not meet.
LEMMA SlotRangesApart ==
  ASSUME SlotsApart, RangesKnown, NEW s \in SlotIds, NEW t \in SlotIds, s # t,
         slot[s].buf # 0, NEW r, \/ slot[t].buf # 0 /\ r = slot[t].at
                                 \/ want \in AllocRequests /\ r = want[t]
  PROVE  Covers(r) \cap Covers(slot[s].at) = {}
<1>1. PICK v \in AllocRequests : slot[s].at = v[s]
  BY DEF RangesKnown
<1>2. PICK w \in AllocRequests : r = w[t]
  BY DEF RangesKnown
<1> QED BY <1>1, <1>2 DEF SlotsApart

\* A slot is allocated: its whole range is written, no other slot's is touched.
LEMMA AllocMapped ==
  ASSUME SlotInv, SlotsApart, RangesKnown, SlotsMapped, NEW i \in SlotIds, AllocSlot(i),
         \A s \in SlotIds : Settled(s)' => Settled(s)
  PROVE  SlotsMapped'
<1>1. CASE UNCHANGED <<tables, slot>>
  BY <1>1, NothingWritten DEF tables
<1>2. CASE ~ UNCHANGED <<tables, slot>>
  <2>1. /\ pc["ioctl"] = "alloc" /\ entry' = Written(want[i], used + 1)
        /\ slot' = [slot EXCEPT ![i] = [buf |-> used + 1, at |-> want[i]]]
    BY <1>2 DEF AllocSlot, Allocating
  <2>2. want \in AllocRequests
    BY <2>1 DEF RangesKnown
  <2>3. /\ slot'[i] = [buf |-> used + 1, at |-> want[i]]
        /\ \A s \in SlotIds : s # i => slot'[s] = slot[s]
    BY <2>1, OwnerTypes
  <2> SUFFICES ASSUME NEW s \in SlotIds, slot'[s].buf # 0, Settled(s)', KeptClear(s)',
                      NEW x \in Covers(slot'[s].at)
               PROVE  entry'[x] = slot'[s].buf
    BY DEF SlotsMapped
  <2>4. x \in Entries
    BY DEF Covers
  <2>5. CASE s = i
    BY <2>1, <2>3, <2>4, <2>5 DEF Written
  <2>6. CASE s # i
    <3>1. Covers(want[i]) \cap Covers(slot[s].at) = {}
      BY <2>2, <2>3, <2>6, SlotRangesApart
    <3>2. entry[x] = slot[s].buf
      BY <2>3, <2>6 DEF SlotsMapped, KeptClear
    <3> QED BY <2>1, <2>3, <2>4, <2>6, <3>1, <3>2 DEF Written
  <2> QED BY <2>5, <2>6
<1> QED BY <1>1, <1>2

\* The slot loop clears the entries of the slot it is at, and of no other.
LEMMA SlotClearMapped ==
  ASSUME SlotInv, SlotsApart, RangesKnown, SlotsMapped, NEW p \in Parties, SlotClear(p),
         \A s \in SlotIds : Settled(s)' => Settled(s)
  PROVE  SlotsMapped'
<1> USE ControlTypes
<1>1. slot' = slot
  BY DEF SlotClear, owners
<1>2. CASE slot[idx[p]].buf = 0
  BY <1>1, <1>2, NothingWritten DEF SlotClear
<1>3. CASE slot[idx[p]].buf # 0
  <2>1. /\ entry' = Written(slot[idx[p]].at, 0) /\ pc'[p] = "slotFree" /\ idx' = idx
        /\ idx[p] \in SlotIds
    BY <1>3 DEF SlotClear, Goto
  <2> SUFFICES ASSUME NEW s \in SlotIds, slot[s].buf # 0, Settled(s)', KeptClear(s),
                      NEW x \in Covers(slot[s].at)
               PROVE  entry'[x] = slot[s].buf
    BY <1>1 DEF SlotsMapped, KeptClear
  <2>2. s # idx[p]
    BY <2>1 DEF Settled
  <2>3. Covers(slot[idx[p]].at) \cap Covers(slot[s].at) = {}
    BY <1>3, <2>1, <2>2, SlotRangesApart
  <2>4. x \in Entries /\ entry[x] = slot[s].buf
    BY DEF SlotsMapped, Covers
  <2> QED BY <2>1, <2>3, <2>4 DEF Written
<1> QED BY <1>2, <1>3

\* The freed slot holds nothing; the others were settled before.
LEMMA SlotFreeMapped ==
  ASSUME SlotInv, SlotsMapped, NEW p \in Parties, SlotFree(p)
  PROVE  SlotsMapped'
<1> USE ControlTypes
<1>1. /\ pc[p] = "slotFree" /\ entry' = entry
      /\ slot' = [slot EXCEPT ![idx[p]] = Nothing]
      /\ \A q \in Parties : q # p => pc[q] = "idle"
  BY DEF SlotFree
<1> SUFFICES ASSUME NEW s \in SlotIds, slot'[s].buf # 0, KeptClear(s)',
                    NEW x \in Covers(slot'[s].at)
             PROVE  entry'[x] = slot'[s].buf
  BY DEF SlotsMapped
<1>2. s # idx[p] /\ slot'[s] = slot[s]
  BY <1>1 DEF Nothing
<1>3. Settled(s)
  BY <1>1, <1>2 DEF Settled
<1> QED BY <1>1, <1>2, <1>3 DEF SlotsMapped, KeptClear

\* Writes to the page tables touch client ranges, or the slot they are about.
LEMMA SlotsMappedStep ==
  ASSUME SlotInv, SlotsApart, RangesKnown, SlotsMapped, [Next]_vars
  PROVE  SlotsMapped'
<1>1. ASSUME NEW p \in Parties, SlotFree(p) PROVE SlotsMapped'
  BY <1>1, SlotFreeMapped
<1>2. ASSUME \A p \in Parties : ~ SlotFree(p) PROVE SlotsMapped'
  <2>1. \A s \in SlotIds : Settled(s)' => Settled(s)
    BY <1>2, SettledStep
  <2>2. ASSUME UNCHANGED <<slot, entry>> PROVE SlotsMapped'
    BY <2>1, <2>2, NothingWritten
  <2>3. ASSUME slot' = slot, NEW r \in ClientRanges, NEW b, entry' \in {entry, Written(r, b)}
        PROVE  SlotsMapped'
    BY <2>1, <2>3, ClearOfWrites
  <2>4. CASE \/ Open \/ Close \/ MapKeep \/ AllocDone \/ Free \/ Drain \/ UNCHANGED vars
             \/ \E r \in MapRanges : ParamCache(r)
             \/ \E w \in AllocRequests : Alloc(w)
             \/ \E i \in SlotIds : AllocFails(i)
             \/ \E p \in Parties : Look(p) \/ Unpin(p) \/ SlotsDone(p)
             \/ \E p \in Parties, c \in Caches : UnpinCache(p, c)
    <3>1. UNCHANGED <<slot, entry>>
      BY <2>4 DEF Open, Close, MapKeep, AllocDone, Free, Drain, vars, ParamCache, Alloc,
                  AllocFails, Look, Unpin, SlotsDone, UnpinCache, tables, owners
    <3> QED BY <2>2, <3>1
  <2>5. CASE PinParam \/ PinFails
    <3>1. slot' = slot /\ entry' \in {entry, Written(arg, used + 1)}
      BY <2>5 DEF PinParam, PinFails, owners, tables
    <3>2. arg \in ClientRanges
      BY <2>5 DEF PinParam, PinFails, RangesKnown, ParamLabels, ClientRanges
    <3> QED BY <2>3, <3>1, <3>2
  <2>6. ASSUME NEW r \in MapRanges, MapPin(r) \/ MapPartly(r) PROVE SlotsMapped'
    <3>1. slot' = slot /\ entry' \in {entry, Written(r, used + 1)}
      BY <2>6 DEF MapPin, MapPartly, owners
    <3> QED BY <2>3, <2>6, <3>1 DEF ClientRanges
  <2>7. ASSUME NEW r \in MapRanges, Unmap(r) PROVE SlotsMapped'
    <3>1. slot' = slot /\ entry' \in {entry, Written(r, 0)}
      BY <2>7 DEF Unmap, Cleared, owners
    <3> QED BY <2>3, <2>7, <3>1 DEF ClientRanges
  <2>8. ASSUME NEW p \in Parties, NEW c \in Caches, ClearCache(p, c) PROVE SlotsMapped'
    <3>1. CASE cache[c].buf = 0
      BY <2>2, <2>8, <3>1 DEF ClearCache, owners
    <3>2. CASE cache[c].buf # 0
      <4>1. cache[c].at \in ClientRanges
        BY <3>2 DEF RangesKnown
      <4>2. slot' = slot /\ entry' \in {entry, Written(cache[c].at, 0)}
        BY <2>8, <3>2 DEF ClearCache, Cleared, owners
      <4> QED BY <2>3, <4>1, <4>2
    <3> QED BY <3>1, <3>2
  <2>9. ASSUME NEW i \in SlotIds, AllocSlot(i) PROVE SlotsMapped'
    BY <2>1, <2>9, AllocMapped
  <2>10. ASSUME NEW p \in Parties, SlotClear(p) PROVE SlotsMapped'
    BY <2>1, <2>10, SlotClearMapped
  <2> QED
    BY <1>2, <2>4, <2>5, <2>6, <2>7, <2>8, <2>9, <2>10 DEF Next
<1> QED BY <1>1, <1>2

\* A slot that ALLOC_IO_BUFFERS handed out has its buffer and stays mapped page
\* for page until it is freed, whatever ranges clear of it are mapped, unmapped
\* and cached with whatever bitstream sizes, as long as those too end clear of
\* it and no request puts one slot over another (Queue.c).
THEOREM GrantedSlotsStayMapped ==
  "overlap" \notin Use /\ SlotsApart => (Spec => []GrantedSlotMapped)
<1> SUFFICES ASSUME "overlap" \notin Use, SlotsApart PROVE Spec => []GrantedSlotMapped
  OBVIOUS
<1>1. Init => GrantInv
  <2> SUFFICES ASSUME Init PROVE GrantInv
    OBVIOUS
  <2>1. /\ lastMap = NoRange /\ model = 0 /\ granted = {}
        /\ \A c \in Caches : cache[c].buf = 0
        /\ \A s \in SlotIds : slot[s].buf = 0
        /\ pc["ioctl"] = "idle"
    BY DEF Init, Nothing
  <2> QED BY <2>1 DEF GrantInv, RangesKnown, ParamLabels, SlotsMapped, GrantsHeld
<1>2. SlotInv /\ GrantInv /\ [Next]_vars => GrantInv'
  BY RangesStep, SlotsMappedStep, GrantsStep DEF GrantInv
<1>3. SlotInv /\ GrantInv => GrantedSlotMapped
  <2> SUFFICES ASSUME SlotInv, GrantInv, NEW s \in granted
               PROVE  /\ slot[s].buf # 0
                      /\ (\A p \in Parties : pc[p] # "slotFree") /\ KeptClear(s)
                           => \A x \in Covers(slot[s].at) : entry[x] = slot[s].buf
    BY DEF GrantedSlotMapped, KeptClear
  <2>1. s \in SlotIds
    BY DEF SlotInv, TypeOK
  <2>2. slot[s].buf # 0
    BY DEF GrantInv, GrantsHeld
  <2> QED BY <2>1, <2>2 DEF GrantInv, SlotsMapped, Settled
<1>4. Spec => []SlotInv
  BY SlotInvHolds
<1> QED BY <1>1, <1>2, <1>3, <1>4, PTL DEF Spec

(***************************************************************************)
(* No entry to a cached buffer is left when its pages are unlocked.        *)
(***************************************************************************)

\* What the steps below start from.
CacheStart ==
  /\ SlotInv /\ OwnerInv /\ RangesKnown /\ CacheInv /\ "overlap" \notin Use
  /\ SizesCover \/ NothingMapped

\* Writing a new buffer into the page tables, or clearing entries, enters no
\* older buffer anywhere.
LEMMA OlderEntered ==
  ASSUME SlotInv, NEW b \in 0 .. used, NEW r, EnteredWithin(b, r), b # 0,
         \A x \in Entries : entry'[x] \in {0, used + 1, entry[x]},
         NEW x \in Entries, entry'[x] = b
  PROVE  x \in Covers(r)
<1>1. b # used + 1
  BY NextIsFree
<1>2. entry[x] = b
  BY <1>1
<1> QED BY <1>2 DEF EnteredWithin

\* The owners keep what they have, or let it go.
LEMMA EnteredSame ==
  ASSUME SlotInv, OwnersEntered,
         model' \in {0, model}, lastMap' = lastMap,
         held' = held, held = 0 \/ arg' = arg,
         \A c \in Caches : cache'[c] = cache[c] \/ cache'[c].buf = 0,
         \A x \in Entries : entry'[x] \in {0, used + 1, entry[x]}
  PROVE  OwnersEntered'
<1>1. EnteredWithin(model, lastMap)'
  <2>1. model \in 0 .. used /\ EnteredWithin(model, lastMap)
    BY NextIsFree DEF OwnersEntered
  <2> QED BY <2>1, OlderEntered DEF EnteredWithin
<1>2. EnteredWithin(held, arg)'
  <2>1. held \in 0 .. used /\ EnteredWithin(held, arg)
    BY NextIsFree DEF OwnersEntered
  <2> QED BY <2>1, OlderEntered DEF EnteredWithin
<1>3. \A c \in Caches : EnteredWithin(cache[c].buf, cache[c].at)'
  <2> SUFFICES ASSUME NEW c \in Caches PROVE EnteredWithin(cache[c].buf, cache[c].at)'
    OBVIOUS
  <2>1. cache[c].buf \in 0 .. used /\ EnteredWithin(cache[c].buf, cache[c].at)
    BY NextIsFree DEF OwnersEntered
  <2> QED BY <2>1, OlderEntered DEF EnteredWithin
<1> QED BY <1>1, <1>2, <1>3 DEF OwnersEntered

\* Clearing a range, refused or not, enters nothing.
LEMMA OnlyCleared ==
  ASSUME NEW r, entry' \in {entry, Written(r, 0), Cleared(r)}
  PROVE  \A x \in Entries : entry'[x] \in {0, used + 1, entry[x]}
BY DEF Written, Cleared

\* The steps after which no owner has a buffer or a range it did not have.
LEMMA EnteredOther ==
  ASSUME CacheStart,
         \/ Open \/ Close \/ AllocDone \/ Free \/ Drain \/ PinFails \/ UNCHANGED vars
         \/ \E r \in MapRanges : MapPartly(r) \/ Unmap(r) \/ ParamCache(r)
         \/ \E w \in AllocRequests : Alloc(w)
         \/ \E i \in SlotIds : AllocSlot(i) \/ AllocFails(i)
         \/ \E p \in Parties : \/ Look(p) \/ Unpin(p)
                               \/ SlotClear(p) \/ SlotFree(p) \/ SlotsDone(p)
                               \/ \E c \in Caches : ClearCache(p, c) \/ UnpinCache(p, c)
  PROVE  /\ \A x \in Entries : entry'[x] \in {0, used + 1, entry[x]}
         /\ \A c \in Caches : cache'[c] = cache[c] \/ cache'[c].buf = 0
         /\ OwnersEntered'
<1> USE DEF CacheStart
<1>1. \A x \in Entries : entry'[x] \in {0, used + 1, entry[x]}
  <2>1. CASE \/ Open \/ Close \/ AllocDone \/ Free \/ Drain \/ UNCHANGED vars
             \/ \E r \in MapRanges : ParamCache(r)
             \/ \E w \in AllocRequests : Alloc(w)
             \/ \E i \in SlotIds : AllocFails(i)
             \/ \E p \in Parties : Look(p) \/ Unpin(p) \/ SlotFree(p) \/ SlotsDone(p)
             \/ \E p \in Parties, c \in Caches : UnpinCache(p, c)
    <3>1. entry' = entry
      BY <2>1 DEF Open, Close, AllocDone, Free, Drain, vars, ParamCache, Alloc, AllocFails,
                  Look, Unpin, SlotFree, SlotsDone, UnpinCache, tables
    <3> QED BY <3>1
  <2>2. CASE PinFails \/ \E r \in MapRanges : MapPartly(r)
    BY <2>2 DEF PinFails, MapPartly, tables, Written
  <2>3. CASE \E i \in SlotIds : AllocSlot(i)
    BY <2>3 DEF AllocSlot, tables, Written
  <2>4. CASE \E r \in MapRanges : Unmap(r)
    BY <2>4, OnlyCleared DEF Unmap
  <2>5. CASE \E p \in Parties : SlotClear(p)
    BY <2>5, OnlyCleared DEF SlotClear
  <2>6. CASE \E p \in Parties, c \in Caches : ClearCache(p, c)
    BY <2>6, OnlyCleared DEF ClearCache
  <2> QED BY <2>1, <2>2, <2>3, <2>4, <2>5, <2>6
<1>2. \A c \in Caches : cache'[c] = cache[c] \/ cache'[c].buf = 0
  <2>1. CASE \E p \in Parties, c \in Caches : UnpinCache(p, c)
    BY <2>1, ControlTypes DEF UnpinCache, Nothing
  <2>2. CASE ~ \E p \in Parties, c \in Caches : UnpinCache(p, c)
    <3>1. cache' = cache
      BY <2>2 DEF Open, Close, AllocDone, Free, Drain, PinFails, vars, MapPartly, Unmap,
                  ParamCache, Alloc, AllocSlot, AllocFails, Look, Unpin, SlotClear,
                  SlotFree, SlotsDone, ClearCache, owners
    <3> QED BY <3>1
  <2> QED BY <2>1, <2>2
<1>3. model' \in {0, model} /\ lastMap' = lastMap /\ held' = held
  BY DEF Open, Close, AllocDone, Free, Drain, PinFails, vars, MapPartly, Unmap,
         ParamCache, Alloc, AllocSlot, AllocFails, Look, Unpin, SlotClear,
         SlotFree, SlotsDone, ClearCache, UnpinCache, owners, inputs
<1>4. held = 0 \/ arg' = arg
  <2>1. CASE \E r \in MapRanges : ParamCache(r)
    BY <2>1 DEF ParamCache, Dispatch, OwnerInv, HandsFree
  <2>2. CASE ~ \E r \in MapRanges : ParamCache(r)
    BY <2>2 DEF Open, Close, AllocDone, Free, Drain, PinFails, vars, MapPartly, Unmap,
                Alloc, AllocSlot, AllocFails, Look, Unpin, SlotClear,
                SlotFree, SlotsDone, ClearCache, UnpinCache, inputs
  <2> QED BY <2>1, <2>2
<1> QED BY <1>1, <1>2, <1>3, <1>4, EnteredSame DEF CacheInv

\* MAP_BUFFER enters its new buffer in the range it was given, and keeps both.
LEMMA EnteredMap ==
  ASSUME CacheStart, NEW r \in MapRanges, MapPin(r)
  PROVE  OwnersEntered'
<1>1. /\ entry' = Written(r, used + 1) /\ held' = used + 1 /\ arg' = r
      /\ UNCHANGED <<model, lastMap, cache>>
  BY DEF MapPin, owners
<1>2. \A x \in Entries : entry'[x] \in {0, used + 1, entry[x]}
  BY <1>1 DEF Written
<1>3. EnteredWithin(held, arg)'
  <2> SUFFICES ASSUME NEW x \in Entries, entry'[x] = used + 1 PROVE x \in Covers(r)
    BY <1>1 DEF EnteredWithin
  <2>1. entry[x] # used + 1
    <3> SUFFICES ASSUME entry[x] = used + 1 PROVE FALSE
      OBVIOUS
    <3>1. used < MaxBuffers /\ used \in 0 .. MaxBuffers
      BY OwnerTypes DEF MapPin, MayMap, CacheStart
    <3>2. entry[x] \in Buffers
      BY <3>1, NextIsFree DEF CacheStart
    <3>3. entry[x] <= used
      BY <3>2 DEF CacheStart, SlotInv, EntriesUsed
    <3> QED BY <3>1, <3>3
  <2> QED BY <1>1, <2>1 DEF Written
<1>4. EnteredWithin(model, lastMap)'
  <2>1. model \in 0 .. used /\ EnteredWithin(model, lastMap)
    BY NextIsFree DEF CacheStart, CacheInv, OwnersEntered
  <2> QED BY <1>1, <1>2, <2>1, OlderEntered DEF EnteredWithin, CacheStart
<1>5. \A c \in Caches : EnteredWithin(cache[c].buf, cache[c].at)'
  <2> SUFFICES ASSUME NEW c \in Caches PROVE EnteredWithin(cache[c].buf, cache[c].at)'
    OBVIOUS
  <2>1. cache[c].buf \in 0 .. used /\ EnteredWithin(cache[c].buf, cache[c].at)
    BY NextIsFree DEF CacheStart, CacheInv, OwnersEntered
  <2> QED BY <1>1, <1>2, <2>1, OlderEntered DEF EnteredWithin, CacheStart
<1> QED BY <1>3, <1>4, <1>5 DEF OwnersEntered

\* The mapped MDL becomes LockedModelMdl, its range LastMapBufferDeviceVA.
LEMMA EnteredKeep ==
  ASSUME CacheStart, MapKeep
  PROVE  OwnersEntered'
<1>1. /\ model' = held /\ held' = 0 /\ lastMap' = arg
      /\ UNCHANGED <<entry, cache, arg>>
  BY DEF MapKeep
<1> QED BY <1>1 DEF CacheStart, CacheInv, OwnersEntered, EnteredWithin

\* A bitstream stated in full covers what was mapped and can be cleared.
LEMMA HandOverCovers ==
  ASSUME CacheStart, PinParam, model # 0, bsPages > 0,
         NEW r, r = [lastMap EXCEPT !.count = bsPages]
  PROVE  Covers(lastMap) \subseteq Covers(r) /\ (r.space = "simple" => InRange(r))
<1>1. /\ lastMap \in MapRanges /\ bsPages \in BitstreamSizes
      /\ lastMap \in Ranges /\ bsPages \in Nat
  BY BitstreamsAssumption, RangesAssumption
     DEF PinParam, CacheStart, RangesKnown, ParamLabels
<1>2. /\ bsPages >= lastMap.count
      /\ lastMap.space = "simple" => lastMap.first + bsPages <= Limit("simple")
  BY <1>1 DEF CacheStart, SizesCover, NothingMapped
<1>3. /\ r.space = lastMap.space /\ r.first = lastMap.first /\ r.count = bsPages
      /\ lastMap.first \in Nat /\ lastMap.count \in Nat
  BY <1>1 DEF Ranges
<1>4. \A n \in Nat : n < lastMap.first + lastMap.count => n < r.first + r.count
  BY <1>1, <1>2, <1>3
<1>5. \A x \in Entries : x[2] \in Nat
  BY Constants DEF Entries
<1>6. Covers(lastMap) \subseteq Covers(r)
  BY <1>3, <1>4, <1>5 DEF Covers
<1> QED BY <1>2, <1>3, <1>6 DEF InRange

\* PARAM_CACHE stores both caches with ranges that hold all their entries.
LEMMA EnteredParam ==
  ASSUME CacheStart, PinParam
  PROVE  OwnersEntered' /\ CachesInRange'
<1>1. /\ entry' = Written(arg, used + 1) /\ UNCHANGED <<lastMap, held, arg>>
      /\ cache'["param"] = [buf |-> used + 1, at |-> arg]
      /\ model' \in {0, model} /\ held = 0 /\ InRange(arg) /\ used < MaxBuffers
      /\ cache["bits"].buf = 0
  BY DEF PinParam, inputs, CacheStart, OwnerInv, HandsFree
<1>2. \A x \in Entries : entry'[x] \in {0, used + 1, entry[x]}
  BY <1>1 DEF Written
<1>3. EnteredWithin(cache["param"].buf, cache["param"].at)'
  <2> SUFFICES ASSUME NEW x \in Entries, entry'[x] = used + 1 PROVE x \in Covers(arg)
    BY <1>1 DEF EnteredWithin
  <2>1. entry[x] # used + 1
    <3> SUFFICES ASSUME entry[x] = used + 1 PROVE FALSE
      OBVIOUS
    <3>1. used \in 0 .. MaxBuffers
      BY OwnerTypes DEF CacheStart
    <3>2. entry[x] \in Buffers
      BY <1>1, NextIsFree DEF CacheStart
    <3>3. entry[x] <= used
      BY <3>2 DEF CacheStart, SlotInv, EntriesUsed
    <3> QED BY <3>1, <3>3
  <2> QED BY <1>1, <2>1 DEF Written
<1>4. model \in 0 .. used /\ EnteredWithin(model, lastMap)
  BY NextIsFree DEF CacheStart, CacheInv, OwnersEntered
<1>5. EnteredWithin(model, lastMap)' /\ EnteredWithin(held, arg)'
  BY <1>1, <1>2, <1>4, OlderEntered DEF EnteredWithin, CacheStart
<1>6. /\ EnteredWithin(cache["bits"].buf, cache["bits"].at)'
      /\ cache'["bits"].buf # 0 /\ cache'["bits"].at.space = "simple"
           => InRange(cache'["bits"].at)
  <2>1. CASE model # 0 /\ bsPages > 0
    <3> DEFINE r == [lastMap EXCEPT !.count = bsPages]
    <3>1. cache'["bits"] = [buf |-> model, at |-> r]
      BY <2>1 DEF PinParam
    <3> HIDE DEF r
    <3>2. Covers(lastMap) \subseteq Covers(r) /\ (r.space = "simple" => InRange(r))
      BY <2>1, HandOverCovers DEF r
    <3>3. \A x \in Entries : entry'[x] = model => x \in Covers(r)
      BY <1>2, <1>4, <2>1, <3>2, OlderEntered DEF CacheStart
    <3> QED BY <3>1, <3>2, <3>3 DEF EnteredWithin
  <2>2. CASE ~(model # 0 /\ bsPages > 0)
    <3>1. cache'["bits"] = cache["bits"]
      BY <2>2 DEF PinParam
    <3> QED BY <1>1, <3>1 DEF EnteredWithin
  <2> QED BY <2>1, <2>2
<1>7. OwnersEntered'
  BY <1>3, <1>5, <1>6 DEF OwnersEntered
<1>8. CachesInRange'
  BY <1>1, <1>6 DEF CachesInRange, InRange, Limit
<1> QED BY <1>7, <1>8

\* Nobody is about to unlock a cache.
LEMMA NobodyReleases ==
  ASSUME \A p \in Parties : pc'[p] \notin {"unpinParam", "unpinBits"}
  PROVE  CachesClearedFirst'
BY DEF CachesClearedFirst, UnpinLabel

\* Clearing a cache's range clears every entry to its buffer.
LEMMA ClearCacheClears ==
  ASSUME CacheStart, NEW p \in Parties, NEW c \in Caches, ClearCache(p, c)
  PROVE  CachesClearedFirst'
<1>0. SlotInv /\ pc \in [Parties -> Labels]
  BY ControlTypes DEF CacheStart
<1>1. /\ pc[p] # "idle" /\ \A q \in Parties : q # p => pc'[q] = pc[q] /\ pc[q] = "idle"
  BY <1>0, Alone DEF ClearCache, Goto, CacheStart
<1>2. CASE cache[c].buf = 0
  <2>1. pc'[p] \in {"bits", "slots", "pin"}
    BY <1>0, <1>2 DEF ClearCache, AfterCache, Goto
  <2> QED BY <1>1, <2>1, NobodyReleases
<1>3. CASE cache[c].buf # 0
  <2>1. pc'[p] = UnpinLabel[c] /\ entry' = Cleared(cache[c].at) /\ cache' = cache
    BY <1>0, <1>3 DEF ClearCache, owners, Goto
  <2>2. entry' = Written(cache[c].at, 0)
    BY <1>3, <2>1 DEF Cleared, CacheStart, CacheInv, CachesInRange
  <2>3. \A x \in Entries : entry'[x] # cache[c].buf
    BY <1>3, <2>2 DEF Written, CacheStart, CacheInv, OwnersEntered, EnteredWithin
  <2>4. /\ UnpinLabel[c] # "idle"
        /\ \A d \in Caches : UnpinLabel[d] # "idle" /\ (UnpinLabel[d] = UnpinLabel[c] => d = c)
    BY DEF UnpinLabel
  <2>5. \A q \in Parties, d \in Caches : pc'[q] = UnpinLabel[d] => d = c
    BY <1>1, <2>1, <2>4
  <2> QED BY <1>3, <2>1, <2>3, <2>5 DEF CachesClearedFirst
<1> QED BY <1>2, <1>3

\* Before a cache is unlocked every entry to it was cleared.
LEMMA ClearedStep ==
  ASSUME CacheStart, [Next]_vars
  PROVE  CachesClearedFirst'
<1>0. /\ SlotInv /\ PartyLabels /\ "overlap" \notin Use /\ pc \in [Parties -> Labels]
      /\ pc["close"] # "idle" => handles = 0 /\ pc["ioctl"] = "idle"
  BY ControlTypes DEF CacheStart, OwnerInv
<1> USE DEF Goto
<1>1. CASE Open \/ UNCHANGED vars
  <2>1. UNCHANGED <<entry, cache, pc>>
    BY <1>1 DEF Open, vars, tables, owners
  <2> QED BY <2>1 DEF CacheStart, CacheInv, CachesClearedFirst
<1>2. CASE Close \/ MapKeep \/ PinParam \/ PinFails \/ AllocDone \/ Free \/ Drain
  <2>1. \A p \in Parties : pc'[p] \notin {"unpinParam", "unpinBits"}
    BY <1>0, <1>2 DEF Close, Overlap, MapKeep, PinParam, PinFails, AllocDone, Free,
                      Dispatch, Drain
  <2> QED BY <2>1, NobodyReleases
<1>3. CASE \/ \E r \in MapRanges : MapPin(r) \/ MapPartly(r) \/ Unmap(r) \/ ParamCache(r)
           \/ \E w \in AllocRequests : Alloc(w)
           \/ \E i \in SlotIds : AllocSlot(i) \/ AllocFails(i)
  <2>1. \A p \in Parties : pc'[p] \notin {"unpinParam", "unpinBits"}
    BY <1>0, <1>3 DEF MapPin, MapPartly, MayMap, Unmap, ParamCache, Alloc, Dispatch,
                      AllocSlot, AllocFails, Allocating
  <2> QED BY <2>1, NobodyReleases
<1>4. ASSUME NEW p \in Parties,
             Look(p) \/ Unpin(p) \/ SlotClear(p) \/ SlotFree(p) \/ SlotsDone(p)
      PROVE  CachesClearedFirst'
  <2>1. /\ pc[p] # "idle" /\ \A q \in Parties : q # p => pc'[q] = pc[q]
        /\ pc'[p] \in {"unpin", "param", "idle", "slots", "slotFree"}
    BY <1>0, <1>4 DEF Look, Unpin, SlotClear, SlotFree, SlotsDone
  <2> QED BY <1>0, <2>1, NobodyReleases
<1>5. ASSUME NEW p \in Parties, NEW c \in Caches, UnpinCache(p, c) PROVE CachesClearedFirst'
  <2>1. /\ pc[p] # "idle" /\ \A q \in Parties : q # p => pc'[q] = pc[q]
        /\ pc'[p] \in {"bits", "slots", "pin"}
    BY <1>0, <1>5 DEF UnpinCache, UnpinLabel, AfterCache
  <2> QED BY <1>0, <2>1, NobodyReleases
<1>6. ASSUME NEW p \in Parties, NEW c \in Caches, ClearCache(p, c) PROVE CachesClearedFirst'
  BY <1>6, ClearCacheClears
<1> QED BY <1>1, <1>2, <1>3, <1>4, <1>5, <1>6 DEF Next

\* CacheInv is inductive for clients that state their bitstreams in full, and for
\* clients that map none.
LEMMA CacheStep ==
  ASSUME CacheStart, [Next]_vars
  PROVE  CacheInv'
<1>1. CachesClearedFirst'
  BY ClearedStep
<1>2. CASE PinParam
  BY <1>1, <1>2, EnteredParam DEF CacheInv
<1>3. CASE MapKeep \/ \E r \in MapRanges : MapPin(r)
  <2>1. cache' = cache
    BY <1>3 DEF MapKeep, MapPin, owners
  <2>2. CachesInRange'
    BY <2>1 DEF CacheStart, CacheInv, CachesInRange, InRange, Limit
  <2> QED BY <1>1, <1>3, <2>2, EnteredKeep, EnteredMap DEF CacheInv
<1>4. CASE ~(PinParam \/ MapKeep \/ \E r \in MapRanges : MapPin(r))
  <2>1. /\ \A c \in Caches : cache'[c] = cache[c] \/ cache'[c].buf = 0
        /\ OwnersEntered'
    BY <1>4, EnteredOther DEF Next
  <2>2. CachesInRange'
    BY <2>1 DEF CacheStart, CacheInv, CachesInRange, InRange, Limit
  <2> QED BY <1>1, <2>1, <2>2 DEF CacheInv
<1> QED BY <1>2, <1>3, <1>4

\* Nothing is owned at first.
LEMMA CacheInit ==
  ASSUME Init
  PROVE  RangesKnown /\ CacheInv
<1>1. /\ lastMap = NoRange /\ model = 0 /\ held = 0
      /\ \A c \in Caches : cache[c].buf = 0
      /\ \A s \in SlotIds : slot[s].buf = 0
      /\ \A p \in Parties : pc[p] = "idle"
  BY DEF Init, Nothing
<1>2. RangesKnown
  BY <1>1 DEF RangesKnown, ParamLabels
<1>3. CacheInv
  BY <1>1 DEF CacheInv, OwnersEntered, EnteredWithin, CachesInRange, CachesClearedFirst,
              UnpinLabel
<1> QED BY <1>2, <1>3

\* When PARAM_CACHE or the file cleanup unlocks the cached parameters or the
\* cached bitstream, the page tables name their pages nowhere (the MUST of
\* Queue.c's comment on PARAM_CACHE), whatever clients have mapped, cached and
\* allocated before, when the bitstream sizes they state cover what they mapped.
THEOREM CachesAreClearedFirst ==
  "overlap" \notin Use /\ SizesCover => (Spec => []CachesClearedFirst)
<1> SUFFICES ASSUME "overlap" \notin Use, SizesCover PROVE Spec => []CachesClearedFirst
  OBVIOUS
<1>1. Init => RangesKnown /\ CacheInv
  BY CacheInit
<1>2. SlotInv /\ OwnerInv /\ RangesKnown /\ CacheInv /\ [Next]_vars
        => RangesKnown' /\ CacheInv'
  BY RangesStep, CacheStep DEF CacheStart
<1>3. (Spec => []SlotInv) /\ (Spec => []OwnerInv)
  BY SlotInvHolds, OwnerInvHolds
<1>4. CacheInv => CachesClearedFirst
  BY DEF CacheInv
<1> QED BY <1>1, <1>2, <1>3, <1>4, PTL DEF Spec

(***************************************************************************)
(* Clients that never call MAP_BUFFER leave no dangling entry.             *)
(***************************************************************************)

\* Nothing but the caches and the slots ever owns a buffer.
LEMMA NothingMappedStep ==
  ASSUME SlotInv, PartyLabels, NothingMapped, "map" \notin Use, [Next]_vars
  PROVE  NothingMapped'
<1> USE ControlTypes DEF NothingMapped, Goto
<1>1. CASE Open \/ Close \/ MapKeep \/ PinParam \/ PinFails \/ AllocDone \/ Free \/ Drain
           \/ UNCHANGED vars
  BY <1>1 DEF Open, Close, MapKeep, PinParam, PinFails, AllocDone, Free, Drain, vars,
              owners, inputs
<1>2. CASE \E r \in MapRanges : MapPin(r) \/ MapPartly(r) \/ Unmap(r) \/ ParamCache(r)
  BY <1>2 DEF MapPin, MapPartly, MayMap, Unmap, ParamCache, owners
<1>3. CASE (\E w \in AllocRequests : Alloc(w))
           \/ \E i \in SlotIds : AllocSlot(i) \/ AllocFails(i)
  BY <1>3 DEF Alloc, AllocSlot, AllocFails, Allocating, owners, inputs
<1>4. ASSUME NEW p \in Parties,
             Look(p) \/ Unpin(p) \/ SlotClear(p) \/ SlotFree(p) \/ SlotsDone(p)
      PROVE  NothingMapped'
  <2>1. /\ model' \in {0, model} /\ UNCHANGED <<held, extras>>
        /\ pc'[p] # "keep" /\ \A q \in Parties : q # p => pc'[q] = pc[q]
    BY <1>4 DEF Look, Unpin, SlotClear, SlotFree, SlotsDone, owners, inputs
  <2> QED BY <2>1
<1>5. ASSUME NEW p \in Parties, NEW c \in Caches, ClearCache(p, c) \/ UnpinCache(p, c)
      PROVE  NothingMapped'
  <2>1. /\ UNCHANGED <<model, held, extras>>
        /\ pc'[p] # "keep" /\ \A q \in Parties : q # p => pc'[q] = pc[q]
    BY <1>5 DEF ClearCache, UnpinCache, AfterCache, UnpinLabel, owners, inputs
  <2> QED BY <2>1
<1> QED BY <1>1, <1>2, <1>3, <1>4, <1>5 DEF Next

\* Entries are at most cleared, no page is unlocked that an entry names.
LEMMA NothingLetGo ==
  ASSUME SlotInv, NoDanglingEntry,
         \A x \in Entries : entry'[x] \in {0, entry[x]},
         \A x \in Entries : entry[x] \in Buffers => mem'[entry[x]] = mem[entry[x]]
  PROVE  NoDanglingEntry'
<1> SUFFICES ASSUME NEW x \in Entries, entry'[x] \in Buffers
             PROVE  mem'[entry'[x]] \in {"pinned", "common"}
  BY DEF NoDanglingEntry, Buffers
<1>1. entry'[x] = entry[x]
  BY NextIsFree
<1> QED BY <1>1 DEF NoDanglingEntry

\* A new buffer is mapped.
LEMMA NewIsValid ==
  ASSUME SlotInv, NoDanglingEntry, used < MaxBuffers, NEW r,
         NEW m \in {"pinned", "common"},
         mem' = Become(used + 1, m), entry' = Written(r, used + 1)
  PROVE  NoDanglingEntry'
<1> SUFFICES ASSUME NEW x \in Entries, entry'[x] \in Buffers
             PROVE  mem'[entry'[x]] \in {"pinned", "common"}
  BY DEF NoDanglingEntry, Buffers
<1>1. used + 1 \in Buffers /\ DOMAIN mem = Buffers
  BY NextIsFree, OwnerTypes
<1>2. CASE entry'[x] = used + 1
  BY <1>1, <1>2 DEF Become
<1>3. CASE entry'[x] # used + 1
  <2>1. entry'[x] = entry[x] /\ entry[x] \in Buffers
    BY <1>3 DEF Written
  <2> QED BY <1>1, <1>3, <2>1 DEF Become, NoDanglingEntry
<1> QED BY <1>2, <1>3

\* No step of such a client leaves an entry to memory that is no longer locked.
LEMMA DanglingStep ==
  ASSUME CacheStart, NothingMapped, NeverMaps, NoDanglingEntry, [Next]_vars
  PROVE  NoDanglingEntry'
<1> USE DEF CacheStart
<1>1. CASE \/ Open \/ Close \/ MapKeep \/ AllocDone \/ Free \/ UNCHANGED vars
           \/ \E r \in MapRanges : MapPin(r) \/ MapPartly(r) \/ Unmap(r) \/ ParamCache(r)
           \/ \E w \in AllocRequests : Alloc(w)
           \/ \E i \in SlotIds : AllocFails(i)
           \/ \E p \in Parties : Look(p) \/ SlotsDone(p)
  <2>1. UNCHANGED <<entry, mem>>
    BY <1>1 DEF Open, Close, MapKeep, AllocDone, Free, vars, MapPin, MapPartly, MayMap,
                Unmap, ParamCache, Alloc, AllocFails, Look, SlotsDone, tables,
                NothingMapped, NeverMaps
  <2> QED BY <2>1, NothingLetGo
<1>2. CASE Drain
  <2>1. /\ entry' = entry /\ Len(extras) = 0
        /\ mem' = [b \in Buffers |->
                     IF \E k \in 1 .. Len(extras) : extras[k] = b THEN "unpinned" ELSE mem[b]]
    BY <1>2 DEF Drain, NothingMapped
  <2>2. \A b \in Buffers : mem'[b] = mem[b]
    BY <2>1
  <2> QED BY <2>1, <2>2, NothingLetGo
<1>3. CASE PinFails
  <2>1. InRange(arg)
    BY <1>3 DEF PinFails, RangesKnown, ParamLabels, NeverMaps
  <2>2. UNCHANGED <<entry, mem>>
    BY <1>3, <2>1 DEF PinFails, tables
  <2> QED BY <2>2, NothingLetGo
<1>4. CASE PinParam
  BY <1>4, NewIsValid DEF PinParam
<1>5. ASSUME NEW i \in SlotIds, AllocSlot(i) PROVE NoDanglingEntry'
  <2>1. CASE UNCHANGED tables
    BY <2>1, NothingLetGo DEF tables
  <2>2. CASE ~ UNCHANGED tables
    <3>1. used < MaxBuffers /\ mem' = Become(used + 1, "common")
          /\ entry' = Written(want[i], used + 1)
      BY <1>5, <2>2 DEF AllocSlot
    <3> QED BY <3>1, NewIsValid
  <2> QED BY <2>1, <2>2
<1>6. ASSUME NEW p \in Parties, SlotClear(p) PROVE NoDanglingEntry'
  <2>1. mem' = mem /\ \A x \in Entries : entry'[x] \in {0, entry[x]}
    BY <1>6 DEF SlotClear, Written
  <2> QED BY <2>1, NothingLetGo
<1>7. ASSUME NEW p \in Parties, NEW c \in Caches, ClearCache(p, c) PROVE NoDanglingEntry'
  <2>1. mem' = mem /\ \A x \in Entries : entry'[x] \in {0, entry[x]}
    BY <1>7 DEF ClearCache, Cleared, Written
  <2> QED BY <2>1, NothingLetGo
<1>8. ASSUME NEW p \in Parties, Unpin(p) PROVE NoDanglingEntry'
  <2>1. entry' = entry /\ \A b \in Buffers : b # 0 => mem'[b] = mem[b]
    BY <1>8 DEF Unpin, NothingMapped
  <2> QED BY <2>1, NextIsFree, NothingLetGo
<1>9. ASSUME NEW p \in Parties, SlotFree(p) PROVE NoDanglingEntry'
  <2>1. /\ entry' = entry /\ \A x \in Entries : entry[x] # slot[idx[p]].buf
        /\ mem' = [b \in Buffers |-> IF b = slot[idx[p]].buf THEN "freed" ELSE mem[b]]
    BY <1>9 DEF SlotFree, SlotInv, ClearedBeforeFree
  <2> QED BY <2>1, NothingLetGo
<1>10. ASSUME NEW p \in Parties, NEW c \in Caches, UnpinCache(p, c) PROVE NoDanglingEntry'
  <2>1. /\ entry' = entry /\ \A x \in Entries : entry[x] # cache[c].buf
        /\ mem' = [b \in Buffers |-> IF b = cache[c].buf THEN "unpinned" ELSE mem[b]]
    BY <1>10 DEF UnpinCache, CacheInv, CachesClearedFirst
  <2> QED BY <2>1, NothingLetGo
<1> QED BY <1>1, <1>2, <1>3, <1>4, <1>5, <1>6, <1>7, <1>8, <1>9, <1>10 DEF Next

\* For clients that never call MAP_BUFFER and cache parameters inside the tables,
\* no page table entry ever points to memory that was unlocked or freed (Queue.c
\* PARAM_CACHE, ALLOC, FREE, alloc_io_fail; Device.c file cleanup).
THEOREM NothingDangles ==
  "overlap" \notin Use /\ NeverMaps => (Spec => []NoDanglingEntry)
<1> SUFFICES ASSUME "overlap" \notin Use, NeverMaps PROVE Spec => []NoDanglingEntry
  OBVIOUS
<1>1. Init => RangesKnown /\ CacheInv /\ NothingMapped /\ NoDanglingEntry
  <2> SUFFICES ASSUME Init PROVE NothingMapped /\ NoDanglingEntry
    BY CacheInit
  <2>1. \A x \in Entries : entry[x] \notin Buffers
    BY Constants DEF Init, Pool, Buffers
  <2> QED BY <2>1 DEF Init, NothingMapped, NoDanglingEntry
<1>2. SlotInv /\ OwnerInv /\ RangesKnown /\ CacheInv /\ NothingMapped /\ NoDanglingEntry
        /\ [Next]_vars
        => RangesKnown' /\ CacheInv' /\ NothingMapped' /\ NoDanglingEntry'
  BY RangesStep, CacheStep, NothingMappedStep, DanglingStep
     DEF CacheStart, OwnerInv, NeverMaps
<1>3. (Spec => []SlotInv) /\ (Spec => []OwnerInv)
  BY SlotInvHolds, OwnerInvHolds
<1> QED BY <1>1, <1>2, <1>3, PTL DEF Spec
=============================================================================

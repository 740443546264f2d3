----------------------------- MODULE BufferMap -----------------------------
(***************************************************************************)
(* Who pins memory for the chip, and what the chip's page tables say.      *)
(*                                                                         *)
(* A buffer is either user memory pinned by an MDL (MAP_BUFFER,            *)
(* PARAM_CACHE) or a common buffer of an IO slot (ALLOC_IO_BUFFERS).  The  *)
(* driver keeps each pinned buffer in one of its owners - LockedModelMdl,  *)
(* ExtraLockedMdls, the cached parameters, the cached bitstream, the slots *)
(* - and writes its pages into the simple page table (chip registers) or   *)
(* the extended one (the pool behind the last Regions registers).          *)
(*                                                                         *)
(* IOCTLs are served one at a time; the cleanup of a file object runs      *)
(* beside them when another handle is open.                                *)
(***************************************************************************)
EXTENDS Naturals, Sequences, FiniteSets

CONSTANTS
  SlotCount,    \* IO_SLOT_COUNT
  SimplePages,  \* first extended register (6144)
  Regions,      \* extended registers (2048), one sub-table each
  SubPages,     \* entries of a sub-table (512)
  MaxExtras,    \* APEX_MAX_EXTRA_LOCKED_MDLS
  MaxBuffers,   \* bound on the buffers ever pinned or allocated
  MaxHandles,   \* bound on handles open at once
  MapRanges,    \* device ranges clients pass to MAP, UNMAP and PARAM_CACHE
  BitstreamSizes, \* BitstreamSize clients pass to PARAM_CACHE, in pages
  AllocRequests,\* what clients ask ALLOC_IO_BUFFERS for
  Use           \* what clients do, a subset of Uses

(***************************************************************************)
(* map      : IOCTL_MAP_BUFFER and IOCTL_UNMAP_BUFFER, in any order and of *)
(*            any range                                                    *)
(* param    : IOCTL_PARAM_CACHE                                            *)
(* alloc    : IOCTL_ALLOC_IO_BUFFERS and IOCTL_FREE_IO_BUFFERS             *)
(* overlap  : a handle may close while another one is in use               *)
(***************************************************************************)
Uses == {"map", "param", "alloc", "overlap"}

\* A device range: space, first page, number of pages.  Page numbers and counts
\* that do not fit 32 bits, and what extended calls write beyond the pool, are
\* PageWalk's subject.
Spaces == {"simple", "ext"}
Ranges == [space : Spaces, first : Nat, count : Nat]
NoRange == [space |-> "simple", first |-> 0, count |-> 0]

ASSUME SizesAssumption ==
  /\ SlotCount \in Nat /\ SimplePages \in Nat /\ Regions \in Nat
  /\ SubPages \in Nat \ {0} /\ MaxExtras \in Nat /\ MaxBuffers \in Nat
  /\ MaxHandles \in Nat
ASSUME RangesAssumption  == MapRanges \subseteq Ranges
ASSUME BitstreamsAssumption == BitstreamSizes \subseteq Nat
ASSUME AllocsAssumption  == AllocRequests \subseteq [1 .. SlotCount -> Ranges]
ASSUME UseAssumption     == Use \subseteq Uses

SlotIds == 1 .. SlotCount
Buffers == 1 .. MaxBuffers
Pool    == MaxBuffers + 1   \* what an extended register points to

Limit(space) == IF space = "simple" THEN SimplePages + Regions ELSE Regions * SubPages

\* Every page table entry there is.
Entries == {"simple"} \X (0 .. SimplePages + Regions - 1)
             \cup {"ext"} \X (0 .. Regions * SubPages - 1)

Covers(r)  == {x \in Entries : x[1] = r.space /\ r.first <= x[2]
                                              /\ x[2] < r.first + r.count}
InRange(r) == r.first + r.count <= Limit(r.space)

\* No buffer, nowhere.
Nothing == [buf |-> 0, at |-> NoRange]
Caches  == {"param", "bits"}
Parties == {"ioctl", "close"}

VARIABLES
  entry,   \* page tables: buffer each entry points to, 0 when invalid
  mem,     \* what became of each buffer
  used,    \* number of buffers so far
  model,   \* LockedModelMdl
  lastMap, \* LastMapBufferDeviceVA (the count is the client's knowledge)
  extras,  \* ExtraLockedMdls
  cache,   \* CachedParamMdl and CachedParamBitstreamMdl with their ranges
  slot,    \* IOSlots
  handles, \* number of open handles
  pc,      \* where the IOCTL handler and the file cleanup are
  idx,     \* their loop index over the slots
  arg,     \* input range of the IOCTL
  held,    \* buffer the IOCTL has pinned and not yet stored
  bsPages, \* BitstreamSize of PARAM_CACHE in pages
  want,    \* request of ALLOC_IO_BUFFERS
  granted  \* history: slots a successful ALLOC has handed out

tables == <<entry, mem, used>>
owners == <<model, lastMap, extras, cache, slot>>
inputs == <<arg, held, bsPages, want>>
vars   == <<tables, owners, handles, pc, idx, inputs, granted>>

Labels == {"idle", "keep", "look", "unpin", "param", "unpinParam", "bits",
           "unpinBits", "pin", "alloc", "slots", "slotFree", "extras"}

TypeOK ==
  /\ entry \in [Entries -> 0 .. Pool]
  /\ mem \in [Buffers -> {"unused", "pinned", "unpinned", "common", "freed"}]
  /\ used \in 0 .. MaxBuffers
  /\ model \in 0 .. MaxBuffers
  /\ lastMap \in Ranges
  /\ extras \in Seq(Buffers) /\ Len(extras) <= MaxExtras
  /\ cache \in [Caches -> [buf : 0 .. MaxBuffers, at : Ranges]]
  /\ slot \in [SlotIds -> [buf : 0 .. MaxBuffers, at : Ranges]]
  /\ handles \in 0 .. MaxHandles
  /\ pc \in [Parties -> Labels]
  /\ idx \in [Parties -> 1 .. SlotCount + 1]
  /\ arg \in Ranges /\ held \in 0 .. MaxBuffers /\ bsPages \in Nat
  /\ want \in [SlotIds -> Ranges]
  /\ granted \subseteq SlotIds

\* After ApexPageTableInit: simple entries invalid, every extended register
\* pointing into the zeroed pool.
Init ==
  /\ entry = [x \in Entries |->
                IF x[1] = "simple" /\ x[2] >= SimplePages THEN Pool ELSE 0]
  /\ mem = [b \in Buffers |-> "unused"] /\ used = 0
  /\ model = 0 /\ lastMap = NoRange /\ extras = <<>>
  /\ cache = [c \in Caches |-> Nothing]
  /\ slot = [s \in SlotIds |-> Nothing]
  /\ handles = 0
  /\ pc = [p \in Parties |-> "idle"] /\ idx = [p \in Parties |-> 1]
  /\ arg = NoRange /\ held = 0 /\ bsPages = 0
  /\ want = [s \in SlotIds |-> NoRange]
  /\ granted = {}

Written(r, b) == [x \in Entries |-> IF x \in Covers(r) THEN b ELSE entry[x]]

\* ApexPageTableUnmap refuses a simple range beyond the table as a whole; of an
\* extended one it clears what lies inside the pool.
Cleared(r) == IF r.space = "simple" /\ ~InRange(r) THEN entry ELSE Written(r, 0)

Become(b, m)  == [mem EXCEPT ![b] = m]
Goto(p, l)    == pc' = [pc EXCEPT ![p] = l]

(***************************************************************************)
(* Handles.                                                                *)
(***************************************************************************)
Overlap == "overlap" \in Use

Open ==
  /\ handles < MaxHandles
  /\ Overlap \/ (handles = 0 /\ pc["close"] = "idle")
  /\ handles' = handles + 1
  /\ UNCHANGED <<tables, owners, pc, idx, inputs, granted>>

Close ==
  /\ handles > 0 /\ pc["close"] = "idle"
  /\ Overlap \/ pc["ioctl"] = "idle"
  /\ handles' = handles - 1
  /\ Goto("close", "extras")
  /\ UNCHANGED <<tables, owners, idx, inputs, granted>>

Dispatch == pc["ioctl"] = "idle" /\ handles > 0

(***************************************************************************)
(* IOCTL_MAP_BUFFER.  A call whose pages cannot be locked, or whose simple *)
(* range exceeds the table, changes nothing.                               *)
(***************************************************************************)
MayMap == Dispatch /\ "map" \in Use /\ used < MaxBuffers

MapPin(r) ==
  /\ MayMap /\ InRange(r)
  /\ used' = used + 1
  /\ mem' = Become(used + 1, "pinned")
  /\ entry' = Written(r, used + 1)
  /\ held' = used + 1 /\ arg' = r
  /\ Goto("ioctl", "keep")
  /\ UNCHANGED <<owners, handles, idx, bsPages, want, granted>>

\* The sub-tables inside the pool are written before the recursion meets the
\* first one outside; the pages are unlocked, the entries stay.
MapPartly(r) ==
  /\ MayMap /\ r.space = "ext" /\ ~InRange(r)
  /\ used' = used + 1
  /\ mem' = Become(used + 1, "unpinned")
  /\ entry' = Written(r, used + 1)
  /\ UNCHANGED <<owners, handles, pc, idx, inputs, granted>>

\* Mutant: the bound of ExtraLockedMdls is not tested.
MapKeepAlways ==
  /\ pc["ioctl"] = "keep"
  /\ extras' = IF model = 0 THEN extras ELSE Append(extras, model)
  /\ model' = held /\ held' = 0
  /\ lastMap' = arg
  /\ Goto("ioctl", "idle")
  /\ UNCHANGED <<mem, entry, used, cache, slot, handles, idx, arg, bsPages, want, granted>>

\* The previous MDL moves to the extras, or is unlocked when they are full.
MapKeep ==
  /\ pc["ioctl"] = "keep"
  /\ \/ model = 0 /\ UNCHANGED <<extras, mem>>
     \/ model # 0 /\ Len(extras) < MaxExtras
        /\ extras' = Append(extras, model) /\ UNCHANGED mem
     \/ model # 0 /\ Len(extras) = MaxExtras
        /\ mem' = Become(model, "unpinned") /\ UNCHANGED extras
  /\ model' = held /\ held' = 0
  /\ lastMap' = arg
  /\ Goto("ioctl", "idle")
  /\ UNCHANGED <<entry, used, cache, slot, handles, idx, arg, bsPages, want, granted>>

(***************************************************************************)
(* IOCTL_UNMAP_BUFFER: clear the range, then unlock whatever               *)
(* LockedModelMdl is, whether or not the range was valid.                  *)
(***************************************************************************)
Unmap(r) ==
  /\ Dispatch /\ "map" \in Use
  /\ r.space = "ext" => InRange(r)
  /\ entry' = Cleared(r)
  /\ Goto("ioctl", "look")
  /\ UNCHANGED <<mem, used, owners, handles, idx, inputs, granted>>

\* LockedModelMdl is tested, then unlocked, freed and set to NULL; the file
\* cleanup runs the same code.
Look(p) ==
  /\ pc[p] = "look"
  /\ Goto(p, IF model # 0 THEN "unpin" ELSE IF p = "close" THEN "param" ELSE "idle")
  /\ UNCHANGED <<tables, owners, handles, idx, inputs, granted>>

Unpin(p) ==
  /\ pc[p] = "unpin"
  /\ mem' = [b \in Buffers |-> IF b = model THEN "unpinned" ELSE mem[b]]
  /\ model' = 0
  /\ Goto(p, IF p = "close" THEN "param" ELSE "idle")
  /\ UNCHANGED <<entry, used, lastMap, extras, cache, slot, handles, idx, inputs, granted>>

(***************************************************************************)
(* IOCTL_PARAM_CACHE, and the release of the caches it shares with the     *)
(* file cleanup: entries first, pages second.  The size of the bitstream   *)
(* is whatever the client states, compared with nothing.                   *)
(***************************************************************************)
ParamCache(r) ==
  /\ Dispatch /\ "param" \in Use /\ used < MaxBuffers
  /\ r.space = "simple" => InRange(r)
  /\ arg' = r
  /\ bsPages' \in BitstreamSizes
  /\ Goto("ioctl", "param")
  /\ UNCHANGED <<tables, owners, handles, idx, held, want, granted>>

UnpinLabel == [param |-> "unpinParam", bits |-> "unpinBits"]
AfterCache(p, c) == IF c = "param" THEN "bits"
                    ELSE IF p = "close" THEN "slots" ELSE "pin"

ClearCache(p, c) ==
  /\ pc[p] = c
  /\ IF cache[c].buf = 0
     THEN Goto(p, AfterCache(p, c)) /\ UNCHANGED entry
     ELSE Goto(p, UnpinLabel[c]) /\ entry' = Cleared(cache[c].at)
  /\ idx' = [idx EXCEPT ![p] = 1]
  /\ UNCHANGED <<mem, used, owners, handles, inputs, granted>>

UnpinCache(p, c) ==
  /\ pc[p] = UnpinLabel[c]
  /\ mem' = [b \in Buffers |-> IF b = cache[c].buf THEN "unpinned" ELSE mem[b]]
  /\ cache' = [cache EXCEPT ![c] = Nothing]
  /\ Goto(p, AfterCache(p, c))
  /\ UNCHANGED <<entry, used, model, lastMap, extras, slot, handles, idx, inputs, granted>>

\* Mutant: LockedModelMdl is not set to NULL after the hand-over.
PinParamShared ==
  /\ pc["ioctl"] = "pin" /\ used < MaxBuffers /\ InRange(arg)
  /\ used' = used + 1
  /\ mem' = Become(used + 1, "pinned")
  /\ entry' = Written(arg, used + 1)
  /\ cache' = [param |-> [buf |-> used + 1, at |-> arg],
               bits  |-> IF model # 0 /\ bsPages > 0
                         THEN [buf |-> model, at |-> [lastMap EXCEPT !.count = bsPages]]
                         ELSE cache["bits"]]
  /\ Goto("ioctl", "idle")
  /\ UNCHANGED <<model, lastMap, extras, slot, handles, idx, inputs, granted>>

\* Mutants: the hand-over records device address 0, as it once did, or a page
\* too many.
PinParamAtZero ==
  /\ pc["ioctl"] = "pin" /\ used < MaxBuffers /\ InRange(arg)
  /\ used' = used + 1
  /\ mem' = Become(used + 1, "pinned")
  /\ entry' = Written(arg, used + 1)
  /\ LET hand == model # 0 /\ bsPages > 0
     IN  /\ cache' = [param |-> [buf |-> used + 1, at |-> arg],
                      bits  |-> IF hand
                                THEN [buf |-> model, at |-> [NoRange EXCEPT !.count = bsPages]]
                                ELSE cache["bits"]]
         /\ model' = IF hand THEN 0 ELSE model
  /\ Goto("ioctl", "idle")
  /\ UNCHANGED <<lastMap, extras, slot, handles, idx, inputs, granted>>

PinParamOneMore ==
  /\ pc["ioctl"] = "pin" /\ used < MaxBuffers /\ InRange(arg)
  /\ used' = used + 1
  /\ mem' = Become(used + 1, "pinned")
  /\ entry' = Written(arg, used + 1)
  /\ LET hand == model # 0 /\ bsPages > 0
     IN  /\ cache' = [param |-> [buf |-> used + 1, at |-> arg],
                      bits  |-> IF hand
                                THEN [buf |-> model, at |-> [lastMap EXCEPT !.count = bsPages + 1]]
                                ELSE cache["bits"]]
         /\ model' = IF hand THEN 0 ELSE model
  /\ Goto("ioctl", "idle")
  /\ UNCHANGED <<lastMap, extras, slot, handles, idx, inputs, granted>>

\* The new parameters are pinned and mapped; the bitstream mapped last changes
\* hands, with the size the caller gives and the address MAP_BUFFER recorded.
PinParam ==
  /\ pc["ioctl"] = "pin" /\ used < MaxBuffers /\ InRange(arg)
  /\ used' = used + 1
  /\ mem' = Become(used + 1, "pinned")
  /\ entry' = Written(arg, used + 1)
  /\ LET hand == model # 0 /\ bsPages > 0
     IN  /\ cache' = [param |-> [buf |-> used + 1, at |-> arg],
                      bits  |-> IF hand
                                THEN [buf |-> model, at |-> [lastMap EXCEPT !.count = bsPages]]
                                ELSE cache["bits"]]
         /\ model' = IF hand THEN 0 ELSE model
  /\ Goto("ioctl", "idle")
  /\ UNCHANGED <<lastMap, extras, slot, handles, idx, inputs, granted>>

\* The pages cannot be locked, or the range leaves the pool half way.
PinFails ==
  /\ pc["ioctl"] = "pin"
  /\ \/ UNCHANGED tables
     \/ /\ ~InRange(arg) /\ used < MaxBuffers
        /\ used' = used + 1
        /\ mem' = Become(used + 1, "unpinned")
        /\ entry' = Written(arg, used + 1)
  /\ Goto("ioctl", "idle")
  /\ UNCHANGED <<owners, handles, idx, inputs, granted>>

(***************************************************************************)
(* IOCTL_ALLOC_IO_BUFFERS: slot after slot, a slot of size 0 is skipped.   *)
(***************************************************************************)
Alloc(w) ==
  /\ Dispatch /\ "alloc" \in Use
  /\ want' = w
  /\ idx' = [idx EXCEPT !["ioctl"] = 1]
  /\ Goto("ioctl", "alloc")
  /\ UNCHANGED <<tables, owners, handles, arg, held, bsPages, granted>>

Allocating(i) == pc["ioctl"] = "alloc" /\ i = idx["ioctl"] /\ i <= SlotCount

AllocSlot(i) ==
  /\ Allocating(i)
  /\ \/ want[i].count = 0 /\ UNCHANGED <<tables, slot>>
     \/ /\ want[i].count # 0 /\ slot[i].buf = 0 /\ InRange(want[i])
        /\ used < MaxBuffers
        /\ used' = used + 1
        /\ mem' = Become(used + 1, "common")
        /\ entry' = Written(want[i], used + 1)
        /\ slot' = [slot EXCEPT ![i] = [buf |-> used + 1, at |-> want[i]]]
  /\ idx' = [idx EXCEPT !["ioctl"] = i + 1]
  /\ UNCHANGED <<model, lastMap, extras, cache, handles, pc, inputs, granted>>

\* Slot taken (DEVICE_BUSY), no memory, or range out of bounds: alloc_io_fail
\* releases every slot there is.
AllocFails(i) ==
  /\ Allocating(i) /\ want[i].count # 0
  /\ idx' = [idx EXCEPT !["ioctl"] = 1]
  /\ Goto("ioctl", "slots")
  /\ UNCHANGED <<tables, owners, handles, inputs, granted>>

AllocDone ==
  /\ pc["ioctl"] = "alloc" /\ idx["ioctl"] > SlotCount
  /\ granted' = granted \cup {s \in SlotIds : want[s].count # 0}
  /\ Goto("ioctl", "idle")
  /\ UNCHANGED <<tables, owners, handles, idx, inputs>>

(***************************************************************************)
(* IOCTL_FREE_IO_BUFFERS, and the slot loop it shares with alloc_io_fail   *)
(* and the file cleanup.                                                   *)
(***************************************************************************)
Free ==
  /\ Dispatch /\ "alloc" \in Use
  /\ idx' = [idx EXCEPT !["ioctl"] = 1]
  /\ want' = [s \in SlotIds |-> NoRange]
  /\ Goto("ioctl", "slots")
  /\ UNCHANGED <<tables, owners, handles, arg, held, bsPages, granted>>

\* Mutant: the slot's entries are not cleared.
SlotClearNot(p) ==
  LET i == idx[p]
  IN  /\ pc[p] = "slots" /\ i <= SlotCount
      /\ IF slot[i].buf = 0
         THEN idx' = [idx EXCEPT ![p] = i + 1] /\ UNCHANGED pc
         ELSE Goto(p, "slotFree") /\ UNCHANGED idx
      /\ UNCHANGED <<tables, owners, handles, inputs, granted>>

SlotClear(p) ==
  LET i == idx[p]
  IN  /\ pc[p] = "slots" /\ i <= SlotCount
      /\ IF slot[i].buf = 0
         THEN idx' = [idx EXCEPT ![p] = i + 1] /\ UNCHANGED <<entry, pc>>
         ELSE entry' = Written(slot[i].at, 0) /\ Goto(p, "slotFree") /\ UNCHANGED idx
      /\ UNCHANGED <<mem, used, owners, handles, inputs, granted>>

SlotFree(p) ==
  LET i == idx[p]
  IN  /\ pc[p] = "slotFree"
      /\ mem' = [b \in Buffers |-> IF b = slot[i].buf THEN "freed" ELSE mem[b]]
      /\ slot' = [slot EXCEPT ![i] = Nothing]
      /\ granted' = granted \ {i}
      /\ idx' = [idx EXCEPT ![p] = i + 1]
      /\ Goto(p, "slots")
      /\ UNCHANGED <<entry, used, model, lastMap, extras, cache, handles, inputs>>

SlotsDone(p) ==
  /\ pc[p] = "slots" /\ idx[p] > SlotCount
  /\ Goto(p, "idle")
  /\ UNCHANGED <<tables, owners, handles, idx, inputs, granted>>

\* Mutant: the extras are forgotten without being unlocked.
DrainForgets ==
  /\ pc["close"] = "extras"
  /\ extras' = <<>>
  /\ Goto("close", "look")
  /\ UNCHANGED <<tables, model, lastMap, cache, slot, handles, idx, inputs, granted>>

\* npudriverEvtFileCleanup begins with the extras; Look follows.
Drain ==
  /\ pc["close"] = "extras"
  /\ mem' = [b \in Buffers |->
               IF \E k \in 1 .. Len(extras) : extras[k] = b THEN "unpinned" ELSE mem[b]]
  /\ extras' = <<>>
  /\ Goto("close", "look")
  /\ UNCHANGED <<entry, used, model, lastMap, cache, slot, handles, idx, inputs, granted>>

Next ==
  \/ Open \/ Close \/ MapKeep \/ PinParam \/ PinFails \/ AllocDone \/ Free \/ Drain
  \/ \E r \in MapRanges : MapPin(r) \/ MapPartly(r) \/ Unmap(r) \/ ParamCache(r)
  \/ \E w \in AllocRequests : Alloc(w)
  \/ \E i \in SlotIds : AllocSlot(i) \/ AllocFails(i)
  \/ \E p \in Parties : \/ Look(p) \/ Unpin(p) \/ SlotClear(p) \/ SlotFree(p) \/ SlotsDone(p)
                        \/ \E c \in Caches : ClearCache(p, c) \/ UnpinCache(p, c)

Spec == Init /\ [][Next]_vars

(***************************************************************************)
(* Properties.                                                             *)
(***************************************************************************)

\* PARAM_CACHE's comment: entries are cleared before pages are unlocked,
\* otherwise the chip walks stale PFNs into pages the OS has reclaimed.  At
\* every step every valid entry points to pinned or allocated memory.
NoDanglingEntry ==
  \A x \in Entries : entry[x] \in Buffers => mem[entry[x]] \in {"pinned", "common"}

\* Whatever else clients map over it, no entry ever points to the freed common
\* buffer of an IO slot.
NoFreedSlotEntry ==
  \A x \in Entries : entry[x] \in Buffers => mem[entry[x]] # "freed"

\* Every buffer that is pinned or allocated has exactly one owner, and every
\* owner's buffer is still pinned: nothing leaks, nothing is released twice.
OneOwner ==
  LET places(b) == Cardinality({c \in Caches : cache[c].buf = b})
                   + Cardinality({s \in SlotIds : slot[s].buf = b})
                   + Cardinality({k \in 1 .. Len(extras) : extras[k] = b})
                   + (IF model = b THEN 1 ELSE 0) + (IF held = b THEN 1 ELSE 0)
  IN  \A b \in Buffers :
        places(b) = IF mem[b] \in {"pinned", "common"} THEN 1 ELSE 0

\* Closing the last handle releases everything (PLAN_CONTIG_ALLOC.md: nothing
\* leaks when an application just closes): no PROCESS_HAS_LOCKED_PAGES.
CloseReleasesAll ==
  (handles = 0 /\ \A p \in Parties : pc[p] = "idle")
     => \A b \in Buffers : mem[b] \notin {"pinned", "common"}

\* Every range the driver writes or clears at a client's word.
ClientRanges ==
  MapRanges \cup {[r EXCEPT !.count = n] : r \in MapRanges, n \in BitstreamSizes}

\* Once handed out, a slot has its buffer and, when clients neither map over it
\* nor state a bitstream that reaches into it, stays mapped page for page until
\* it is freed, whatever else they map, cache and free beside it.
GrantedSlotMapped ==
  \A s \in granted :
    /\ slot[s].buf # 0
    /\ (\A p \in Parties : pc[p] # "slotFree")
       /\ (\A r \in ClientRanges : Covers(r) \cap Covers(slot[s].at) = {})
       => \A x \in Covers(slot[s].at) : entry[x] = slot[s].buf

\* When PARAM_CACHE or the file cleanup is about to unlock the cached parameters
\* or the cached bitstream, no entry points to their pages any more, however
\* many buffers clients have mapped and handed over in between.
CachesClearedFirst ==
  \A p \in Parties, c \in Caches :
    pc[p] = UnpinLabel[c] => cache[c].buf # 0 /\ \A x \in Entries : entry[x] # cache[c].buf

\* PLAN_INFER_NEW.md: slots are invalidated only by FREE_IO_BUFFERS, which wants
\* none, or when the handle closes.
SlotsKeptUntilFreed ==
  [][\/ granted \subseteq granted'
     \/ pc["close"] = "slotFree"
     \/ \A s \in SlotIds : want[s] = NoRange]_vars
=============================================================================

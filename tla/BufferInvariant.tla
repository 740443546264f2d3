--------------------------- MODULE BufferInvariant ---------------------------
(***************************************************************************)
(* Why no page table entry outlives the common buffer it points to: the    *)
(* inductive invariant behind NoFreedSlotEntry, for one handle at a time.  *)
(* The slot loop clears only the range the slot remembers, so the          *)
(* invariant says that every entry to a common buffer lies in the range of *)
(* the slot that owns it, and that no other owner can have the buffer.     *)
(***************************************************************************)
EXTENDS BufferMap

\* A slot loop that is about to free is at a slot.
LoopInRange == \A p \in Parties : pc[p] = "slotFree" => idx[p] \in SlotIds

\* Without overlap a file cleanup runs alone.
Exclusive ==
  /\ handles <= 1
  /\ pc["close"] # "idle" => handles = 0 /\ pc["ioctl"] = "idle"

\* Buffers are numbered in order of creation.
EntriesUsed == \A x \in Entries : entry[x] \in Buffers => entry[x] <= used

\* What an owner other than a slot holds has been pinned, not allocated.
Pinned(b) == b # 0 => b <= used /\ mem[b] \in {"pinned", "unpinned"}

OthersPinned ==
  /\ Pinned(model) /\ Pinned(held)
  /\ \A k \in 1 .. Len(extras) : Pinned(extras[k])
  /\ \A c \in Caches : Pinned(cache[c].buf)

\* Each slot holds a common buffer of its own.
SlotsCommon ==
  \A s \in SlotIds : slot[s].buf # 0 =>
    /\ slot[s].buf <= used /\ mem[slot[s].buf] = "common"
    /\ \A t \in SlotIds : slot[t].buf = slot[s].buf => t = s

Owned(x) == \E s \in SlotIds : slot[s].buf = entry[x] /\ x \in Covers(slot[s].at)

CommonEntriesOwned ==
  \A x \in Entries :
    entry[x] \in Buffers /\ mem[entry[x]] = "common" => Owned(x)

\* Between clearing a slot's entries and freeing its buffer nothing points to it.
ClearedBeforeFree ==
  \A p \in Parties : pc[p] = "slotFree" =>
    /\ slot[idx[p]].buf # 0
    /\ \A x \in Entries : entry[x] # slot[idx[p]].buf

\* The invariant proved inductive for every Use without overlap.
\* Slots (Queue.c ALLOC, FREE, alloc_io_fail; Device.c file cleanup), the other
\* owners and both page tables agree with each other in every state.
SlotInv ==
  /\ TypeOK /\ LoopInRange /\ Exclusive /\ EntriesUsed /\ OthersPinned
  /\ SlotsCommon /\ CommonEntriesOwned /\ ClearedBeforeFree /\ NoFreedSlotEntry

(***************************************************************************)
(* Why nothing leaks and nothing is released twice: the inductive          *)
(* invariant behind OneOwner.                                              *)
(***************************************************************************)
PartyLabels ==
  /\ pc["ioctl"] # "extras"
  /\ pc["close"] \notin {"keep", "pin", "alloc"}

\* MAP_BUFFER alone holds an MDL between two steps; PARAM_CACHE stores into
\* caches it has released.
HandsFree ==
  /\ held # 0 => pc["ioctl"] = "keep"
  /\ \A p \in Parties : pc[p] \in {"bits", "unpinBits", "pin"} => cache["param"].buf = 0
  /\ pc["ioctl"] = "pin" => cache["bits"].buf = 0

Live(b) == b # 0 => mem[b] = "pinned"

OwnersLive ==
  /\ Live(model) /\ Live(held)
  /\ \A k \in 1 .. Len(extras) : Live(extras[k])
  /\ \A c \in Caches : Live(cache[c].buf)

\* No two owners hold the same buffer.
OwnersApart ==
  /\ model # 0 => /\ model # held
                  /\ \A k \in 1 .. Len(extras) : extras[k] # model
                  /\ \A c \in Caches : cache[c].buf # model
  /\ held # 0 => /\ \A k \in 1 .. Len(extras) : extras[k] # held
                 /\ \A c \in Caches : cache[c].buf # held
  /\ \A c \in Caches : cache[c].buf # 0 =>
       /\ \A k \in 1 .. Len(extras) : extras[k] # cache[c].buf
       /\ \A d \in Caches : cache[d].buf = cache[c].buf => d = c
  /\ \A k, l \in 1 .. Len(extras) : extras[k] = extras[l] => k = l

HasOwner(b) ==
  \/ model = b \/ held = b
  \/ \E k \in 1 .. Len(extras) : extras[k] = b
  \/ \E c \in Caches : cache[c].buf = b

NothingLeaks ==
  \A b \in Buffers :
    /\ mem[b] = "pinned" => HasOwner(b)
    /\ mem[b] = "common" => \E s \in SlotIds : slot[s].buf = b

\* The order of the file cleanup, and what is left once it is through.
CleanupOrder ==
  handles = 0 =>
    /\ pc["ioctl"] = "idle"
    /\ pc["close"] # "extras" => extras = <<>>
    /\ pc["close"] \notin {"extras", "look", "unpin"} => model = 0
    /\ pc["close"] \in {"bits", "unpinBits", "slots", "slotFree", "idle"}
         => cache["param"].buf = 0
    /\ pc["close"] \in {"slots", "slotFree", "idle"} => cache["bits"].buf = 0
    /\ pc["close"] \in {"unpinBits", "slots", "slotFree"}
         => \A s \in SlotIds : s < idx["close"] => slot[s].buf = 0
    /\ pc["close"] = "idle" => \A s \in SlotIds : slot[s].buf = 0

OwnerInv ==
  PartyLabels /\ HandsFree /\ OwnersLive /\ OwnersApart /\ NothingLeaks /\ CleanupOrder

(***************************************************************************)
(* Where the ranges in the driver's state come from, and why a slot that   *)
(* clients keep clear of stays mapped: behind GrantedSlotMapped.           *)
(***************************************************************************)
ParamLabels == {"param", "unpinParam", "bits", "unpinBits", "pin"}

RangesKnown ==
  /\ pc["ioctl"] \in ParamLabels \cup {"keep"} => arg \in MapRanges
  /\ lastMap \in MapRanges \cup {NoRange}
  /\ model # 0 => lastMap \in MapRanges
  /\ pc["ioctl"] \in ParamLabels => bsPages \in BitstreamSizes
  /\ \A c \in Caches : cache[c].buf # 0 => cache[c].at \in ClientRanges
  /\ \A s \in SlotIds : slot[s].buf # 0 => \E w \in AllocRequests : slot[s].at = w[s]
  /\ pc["ioctl"] = "alloc" => want \in AllocRequests

\* No slot loop is between clearing and freeing slot s.
Settled(s) == \A p \in Parties : ~(pc[p] = "slotFree" /\ idx[p] = s)

KeptClear(s) == \A r \in ClientRanges : Covers(r) \cap Covers(slot[s].at) = {}

SlotsMapped ==
  \A s \in SlotIds : slot[s].buf # 0 /\ Settled(s) /\ KeptClear(s) =>
    \A x \in Covers(slot[s].at) : entry[x] = slot[s].buf

GrantsHeld ==
  /\ \A s \in granted : slot[s].buf # 0
  /\ pc["ioctl"] = "alloc" =>
       \A s \in SlotIds : s < idx["ioctl"] /\ want[s].count # 0 => slot[s].buf # 0

GrantInv == RangesKnown /\ SlotsMapped /\ GrantsHeld

\* What the theorem asks of the clients: no request puts one slot over another.
SlotsApart ==
  \A v, w \in AllocRequests : \A i, j \in SlotIds :
    i # j => Covers(v[i]) \cap Covers(w[j]) = {}

(***************************************************************************)
(* Why no entry to a cached buffer is left when its pages are unlocked:    *)
(* what LockedModelMdl, the MAP_BUFFER in hand and the caches hold is      *)
(* entered in the page tables nowhere but in the range kept with it.       *)
(* Behind CachesClearedFirst.                                              *)
(***************************************************************************)
EnteredWithin(b, r) == b # 0 => \A x \in Entries : entry[x] = b => x \in Covers(r)

OwnersEntered ==
  /\ EnteredWithin(model, lastMap) /\ EnteredWithin(held, arg)
  /\ \A c \in Caches : EnteredWithin(cache[c].buf, cache[c].at)

\* Cached ranges that ApexPageTableUnmap does not refuse.
CachesInRange ==
  \A c \in Caches : cache[c].buf # 0 /\ cache[c].at.space = "simple" => InRange(cache[c].at)

CacheInv == OwnersEntered /\ CachesInRange /\ CachesClearedFirst

\* What the theorem asks of the clients: the bitstream they state is at least as
\* long as what they mapped, and ends inside the simple page table.
SizesCover ==
  \A r \in MapRanges, n \in BitstreamSizes :
    n # 0 => n >= r.count /\ (r.space = "simple" => r.first + n <= Limit("simple"))

\* Clients that never call MAP_BUFFER, and what they leave empty.
NeverMaps == "map" \notin Use /\ \A r \in MapRanges : InRange(r)

NothingMapped == model = 0 /\ held = 0 /\ extras = <<>> /\ pc["ioctl"] # "keep"
=============================================================================

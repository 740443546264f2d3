# npu_driver: a verification project

`npu_driver` is a Windows kernel driver (KMDF) for a Coral Apex TPU, with a
runtime DLL (`npu_runtime`) and test consoles on top of it. This directory holds
TLA+ models of the driver's core, the TLC configurations that check them, and
theorems about them that TLAPS has checked.

## 1. Inventory

| Component (source) | State it keeps | Operations | Model |
|---|---|---|---|
| Inference completion (`Queue.c` IOCTL_INFER_NEW, `Device.c` ISR and DPC) | `InferCompleteEvent`, `IsrSeenPendingBits`, `DescRingTail`, the ring, `LastScHostIntCount`; on the chip: tail register, run statuses, pending bits, error status | infer, ISR per MSI-X vector, DPC per vector | `InferCompletion`, `InferService` |
| Buffer ownership and page tables (`Queue.c` MAP, UNMAP, PARAM_CACHE, ALLOC, FREE; `Memory.c`; `Device.c` file cleanup) | `LockedModelMdl`, `ExtraLockedMdls`, cached parameters and bitstream, `IOSlots`, simple and extended page tables | the five IOCTLs and the cleanup of a file object | `BufferMap` |
| Page table walks (`Memory.c` ApexExtMapBuffer and the recursion of ApexPageTableUnmap, `Queue.c` ALLOC) | the entries of both tables | map, unmap, cache, alloc: from a range to entries | `PageWalk` |
| Device lifecycle (`Device.c` Create, Prepare, Release; `Memory.c` table set-up and cleanup) | pointers of the device context, DMA adapter, saved MSI-X table, `DescRingTail`; the chip's configuration | PrepareHardware in 19 steps, ReleaseHardware in four, file cleanup after a stop | `Lifecycle` |
| Runtime DLL (`npu_runtime.cpp`) | handle, pointers to mapped slots | init, infer, free, temperature | `Session`, `Deployment` |
| Model file (`apex_model_fb.hpp`, `apex_model.hpp`) | bitstreams, parameters, fields to patch | load, patch (four patchers), dump | `ModelPatch`, `Deployment` |
| Relayout (`apex_postprocess.hpp`) | destination buffer | tile walk, sign flip | `OutputRelayout` |
| SSD post-processing (`apex_ssd_postprocess.hpp`) | candidates | threshold, sort, suppression | `SsdNms` |
| Temperature (`Queue.c`, `Hardware.h`) | none | one register read, one formula | `Lifecycle` |
| Test consoles | - | sequential clients | clients of `BufferMap`, `Session`, `Deployment` |
| Legacy inference (IOCTL_INFER, `npudriverEvtInterruptDpc`) | - | compiled out or not registered | dead code |
| Diagnostics, FlatBuffers, generated schema | - | logging, vendored code | not modelled |

**How they interact.** An application opens the device, maps its bitstream
(MAP), hands parameters over (PARAM_CACHE), has the driver allocate the IO slots
(ALLOC) and then calls INFER_NEW for each image. The runtime and `infer_test_console` use
the slots alone: they load a model file, ask for one slot per piece of it at
device addresses fixed in their source, copy the pieces in, write the same addresses into the
bitstreams, and turn what the chip leaves in the output slots into tensors and detections. IOCTLs are served one at a time:
the default queue is sequential. Three things run beside the IOCTL being served:
the chip, the interrupt path (ISR then DPC, independently on each MSI-X vector),
and the cleanup of another file object. They share the device context, without a
lock, and the chip's registers.

**What is hard.**
 - The handler and the DPCs share one event and one word of accumulated interrupt
   bits. The handler resets them in two stores; a DPC samples the bits once, then
   four run-status registers one after the other, then decides.
 - SC_HOST_0, the only interrupt that says "done", reaches the host before OUTFEED
   has written the results, and is the last one to come.
 - A call that times out leaves its descriptor with the chip.
 - Pages are locked and unlocked by one set of variables and made visible to the
   chip by another; they must change in the right order on every path, error paths
   and closing included.
 - All of it is device-wide, while handles are per application: FREE, a failed ALLOC and the
   cleanup of any handle release whoever's slots there are.
 - PrepareHardware acquires, programs the chip, resets it in the middle and may fail at any
   step; it cleans nothing up, ReleaseHardware does, by looking at pointers. A handle may stay open
   over a stop.
 - Loader, client, driver and patchers must agree on addresses and sizes that none of them checks.
 - Index arithmetic at borders: sub-tables, tiles, bit fields that do not start at a byte.

**What makes each component correct.**
 - Completion: success is reported after the results of this very call are in the
   slots; the chip works on one call at a time; every submitted descriptor is
   fetched, in order; every call is answered without the time-out.
 - Buffers: every pinned page has exactly one owner; closing releases all; no valid
   page table entry points to memory that was unlocked or freed; a slot handed out
   stays mapped until it is freed.
 - Walks: exactly the entries of the range are written, each with its own frame, none outside
   the tables.
 - Lifecycle: no memory is lost or freed twice whatever fails; a start leaves the chip
   configured for the memory of this very start; nothing touches registers that are not mapped.
 - Runtime: a client alone with the device keeps its slots and shows the detections of its own
   last image; the chip never works in memory taken back under it; nothing is left behind; every
   request returns.
 - Model file: every address in a bitstream leads to the slot it was meant for; patching
   changes the fields and nothing else.
 - Post-processing: the tensor holds the element the layout names at every coordinate; no
   detection is lost, none is reported twice.

## 2. Modules

| Module | Role |
|---|---|
| `InferCompletion` | handler, chip, ISR, DPC; the properties |
| `InferService` | abstract specification: what IOCTL_INFER_NEW promises its caller |
| `InferInvariant` | the inductive invariants `CleanInv`, `CalmInv` and `RingInv` |
| `InferCompletionProofs` | theorems |
| `MCInfer` | values for TLC |
| `BufferMap` | owners, page tables, IOCTLs, file cleanup; the properties |
| `BufferInvariant` | the inductive invariants `SlotInv`, `OwnerInv`, `GrantInv` and `CacheInv`, and what theorems ask of clients |
| `BufferMapProofs` | theorems: types, and slots against the page tables |
| `BufferOwnerProofs` | theorems: who owns each buffer, which entries lead to it |
| `MCBufferMap` | values for TLC, and that they meet what theorems ask of clients |
| `PageWalk`, `PageWalkProofs` | walks over both page tables, with their theorems |
| `Lifecycle`, `LifecycleProofs`, `MCLifecycle` | PrepareHardware, ReleaseHardware, a handle that outlives a stop; temperature formula |
| `Session`, `SessionProofs`, `MCSession` | clients of the runtime over one device, with queue, slots and chip |
| `Deployment` | from a model file to patched bitstreams in slots |
| `ModelPatch` | field admission, patchers and dump, bit by bit |
| `DeploymentProofs` | theorems about `Deployment` and `ModelPatch` |
| `OutputRelayout` | tile walk and sign flip |
| `SsdNms` | non-maximum suppression |
| `MCDataPaths` | the five sequential modules `PageWalk`, `ModelPatch`, `Deployment`, `OutputRelayout`, `SsdNms` side by side, and their values |
| `DataPathProofs` | theorems about `OutputRelayout`, `SsdNms` and the five side by side |

Operators under a comment `Mutant:` are deliberately wrong forms of the definition
that follows or precedes them. No behaviour uses them: putting one in place of
its original must make a run fail, and shows that the property watches that code.

### InferCompletion

One call is `Begin` (checks passed, KeClearEvent), `ZeroSeen`, `Arm`, with an EXE1_BS
slot `PushExe1` and `ZeroSeen` again, `Submit` (the descriptor goes to the ring), `Doorbell`, `Snapshot`,
then `Wake` and `Check`, or `TimeOut`. Each is one access to shared state: the chip may fetch between a
descriptor and its doorbell. `Check` reads the
error registers in one step: they are sticky or stable by then in every
environment with a success promise.

The ISR is two actions, `IsrRead` (read WIRE_INT_PENDING, OR it into
IsrSeenPendingBits) and `IsrAck` (write the sources and WIRE_INT_PENDING, queue the
DPC): the chip may raise a bit in between. A DPC is `DpcStart` (sample the bits), four
`DpcReadGate`, then `DpcSettle` (all four again, up to `SettlePolls` times),
`DpcComplete` or `DpcDefer`. Each vector has its own ISR and its own DPC; a DPC is
queued at most once and does not run beside itself.

The chip is external, modelled from how the code uses it:
 - it fetches descriptors in order from `head` to the tail register and raises IQ_INT;
 - the engines start together some time after the fetch and read kIdle until then;
 - the scalar core raises SC_HOST_0 once per bitstream, before it becomes idle and
   possibly before OUTFEED is;
 - a pending bit that is up raises no second message; acknowledging takes it down
   together with its source, in one step;
 - a fatal error is raised at most once, and the driver never clears its status;
 - a halted engine runs again when RUN_CONTROL is written.

`Env` names what else may happen: `timeout`, `halt`, `fault`, `exe1`, `backToBack` (a call
starts while interrupts of the previous one are still serviced), `slowDrain` (OUTFEED
outlasts the DPC's 2 ms), `ringFull` (a call starts although all but one place of the ring is taken,
after as many time-outs; the driver does not look). Every run and theorem says which.

### InferService

Calls are served one at a time; success is answered after the call's own results
are in the slots; after a fatal error nothing is answered with success.
`InferCompletion` implements it under the mapping calls = `req`, serving =
(`hpc` # "idle"), results = `slot`, broken = `hibErr`, answer = `outcome`.

### BufferMap

A buffer is a number; `mem` says what became of it (pinned, unpinned, common,
freed). `entry` is both page tables at once: the buffer each entry points to.
`model`, `extras`, `cache`, `slot` are the driver's owners, `held` the MDL that
ApexPageTableMap has locked and not yet stored.

 - MAP is `MapPin` (lock, write entries) and `MapKeep` (the previous MDL moves to the extras, or
   is unlocked when they are full), or `MapPartly` (an extended range leaves the pool
   half way: the sub-tables before stay written). Calls that fail earlier change nothing.
 - UNMAP is `Unmap` (clear the range given), `Look` and `Unpin` (unlock LockedModelMdl).
 - PARAM_CACHE is `ParamCache`, `ClearCache` and `UnpinCache` for parameters and bitstream,
   `PinParam` or `PinFails`.
 - ALLOC is `Alloc`, `AllocSlot` per slot, `AllocDone`, or `AllocFails` and the slot loop;
   FREE is `Free` and the slot loop (`SlotClear`, `SlotFree`, `SlotsDone`).
 - File cleanup is `Close`, `Drain`, then `Look`, `Unpin`, the caches and the slot loop.

`Use` says which IOCTLs clients call, and `overlap` that a handle may close while another is used. A
client that maps may do so in any order, with any range of `MapRanges`, unmap any of them and close
at any time. The consoles need that: `npu_test_console` maps exe0 (319), maps again (405), unmaps one (542) and closes
with the other outstanding; `add_model_test_console` unmaps (423) a range other than the one it mapped first (278);
`Memory.c:451` expects several maps per open. The runtime and `infer_test_console` never call MAP or
PARAM_CACHE. The bitstream size a client states to PARAM_CACHE is any of `BitstreamSizes`, whatever was mapped.

Abstractions: the loop over the extras is one step; one file cleanup runs at a
time; only the sizes that matter are kept (ranges in pages; a stated bitstream of 2^44 bytes or more, whose page count
is truncated to 32 bits, is left out). Not given as inputs:
extended UNMAP ranges beyond the pool and simple PARAM_CACHE ranges beyond the
table, since what they overwrite is not modelled. The input, output and scratch
MDLs of the legacy path are never set by live code. The entries of the ring and
the status block lie apart from every client range and are left out.

### PageWalk

A call has a kind, a space and a range. Simple ranges are one step, as under `PageTableLock`;
an extended MAP or UNMAP takes a step per level of the recursion (`ExtMapChunk`, `ExtUnmapChunk`), ALLOC a
step per page (`AllocPage`). Entries outside the tables exist and hold a foreign value, so that a
missing bound test shows. Page numbers are added modulo 2^32 (`UintSpan`) and register offsets, eight bytes a page,
reach 2^29 registers (`RegisterSpan`), as in the code. `Unchecked` names the calls whose handlers leave a
bound out: UNMAP of an extended range, PARAM_CACHE of a simple one, an ALLOC that runs
over the end of the 34-bit space, and any call on a simple range that runs over page 2^32 - 1, whose sum wraps and
passes the test (`Memory.c:291`, `414`, `Queue.c:2451`). `BufferMap` takes each walk as one step; this module is why it may.

### Lifecycle

One action per step of PrepareHardware that can fail or that changes what a later one relies on.
`Reset` wipes any subset of what the reset may wipe (its polls only warn). After
`failed` the framework calls ReleaseHardware; a stop and a removal do the same. `LosePower` covers a
sleep of the machine: the driver registers no D0 callbacks, so nothing is written again,
and `StartedIsReady` speaks of chips that kept their power (`powered`). One slot and `LockedModelMdl`
stand for what a handle owns; a file cleanup checks `PageTableBase` before it touches
registers (`CheckSlot`). `Overlap` would let a file cleanup run beside a PnP callback.

### Session

A client opens, asks ALLOC, patches, and then per image loads, asks INFER_NEW, reads; it leaves through
FREE and CloseHandle or dies at any point outside an IOCTL (a pending IOCTL keeps the process).
IOCTLs wait in one FIFO; file cleanup does not. Slots are taken as one set with one owner, what
`BufferMap` shows slot by slot; an inference is `Submit` and one of three answers, what `InferCompletion`
shows in detail. The chip executes jobs in order through the slots as they are at that moment. A job
whose caller was told of a failure is `abandoned` and may finish late. Requests that carry the addresses
of another process's slots may pass (`Submit` asks for live slots, not for one's own): addresses
are all the driver compares.

`clean` and `shared` are history: the first says that the image was loaded when the chip had no job and the
client was alone, the second that the last client to open met another one. They state
what the code needs from its users and does not enforce; without them the properties fail, and this
is not hypothetical: a refused second ALLOC (`Queue.c:2378`) releases the first client's slots, and
PLAN_INFER_NEW.md:257 promises otherwise (`buffers_refused` shows it for one client).

### Deployment

`LoadFails`, `ReadExe0`, `ReadExe1` are LoadModel; `AcceptModel`, `AskSlots`, `GrantSlot` per slot, then copies and patching, in
the order of `npu_runtime_init_face_ssd` and `infer_test_console`, whose addresses are those of the source.
Sizes are pages. `Fits` says that no piece outgrows the gap behind its slot, which no code
checks; `Supported` that the model is of the kind the clients are written for (two outputs of different
names at most, parameters of exe0 together with a parameter cache): the runtime writes address
0 for the parameters of a STAND_ALONE model and gives them no slot. `infer_test_console` faults on such a
model while it verifies its copies (`ConsoleFaults`).

### ModelPatch

Bits are known by where they came from. Load, patch and dump run field by field. The loader
admits a field whose first four bytes fit although patchers handle eight: `PatchInside` needs `FieldsEndInside`
for two of the four. Negative offsets pass the signed test of the loader too (`apex_model_fb.hpp:266`,
`apex_model.hpp:199`) and make a patcher write before the bitstream; they are not among the inputs. The legacy patcher drops the bit part of an offset and is exact for byte-aligned fields only.

### OutputRelayout and SsdNms

The walk of Relayout step by step (one z vector each), the top bits after it. `EvenlySpaced` is what the
walk assumes of a layout: the distance of columns 0 and 1 holds in every tile. The suppression sees any
sorted order of the candidates, since std::sort is not stable, and any symmetric relation of boxes in place
of an IoU above the threshold.

## 3. Runs

A run that ends in "violation" shows that the code does not do what a comment or
document of the repository says; each is a finding in `PROJECT.json`.

| Run | Bounds | Shows |
|---|---|---|
| `infer_calm` | 2 calls, 2 vectors, ring 2, 1 settle poll, fault, slowDrain, ringFull | types, no early success, one call in flight, refinement of `InferService` |
| `infer_perils` | 2 calls, 1 vector, ring 3, timeout, halt, backToBack | the proof's invariant `CleanInv`; clean calls keep the promise |
| `infer_cache` | 3 calls, 1 vector, ring 3, exe1, timeout | two descriptors per doorbell and those of timed-out calls: what is announced is in the ring, in order, also between ring write and doorbell; results in order |
| `infer_live` | 3 calls, 2 vectors, no peril, fairness | every call is answered by an interrupt |
| `buffers_all` | 4 buffers, 2 slots, 1 extra, 1 handle, every IOCTL, a range that leaves the pool, bitstreams of 2 pages or none over mappings of 1 or 2 | types, the proof's invariant `SlotInv`, one owner each, no entry to freed common buffers, granted slots stay mapped, closing releases all, cached pages lose their entries before they are unlocked |
| `infer_late_timeout` | 2 calls | violation: the completion of a timed-out call completes the next one |
| `infer_late_exe1` | 1 call is enough | violation: SC_HOST_0 of exe1 completes the call before exe0 ran |
| `buffers_close` | 1 buffer is enough | violation: after MAP and close, entries point to unlocked pages |
| `buffers_refused` | ALLOC and FREE only | violation: a second ALLOC that is refused frees the slots of the first |
| `data_paths` | below | walks, patching, deployment, relayout and suppression against their reference definitions |
| `lifecycle` | 9 blocks, allocation of the lowest or highest free one, 2 MSI-X addresses, ring 2 | starts, failed starts, stops, power losses, a handle over all of them |
| `session` | a runtime client and a console, 3 images | ownership, own detections, chip in live slots, nothing left, every request returns |

**Why the bounds are enough to be interesting.** Two calls let anything left behind by the
first meet the second; two vectors let two DPCs run beside each other and beside
the reset. The ring is as small as the number of descriptors outstanding at once allows, so
that its index wraps; in `infer_cache` it is smaller (three places for six descriptors), so that
three waiting at once read as none, as 256 do in the code, and the next call writes over them. A call that
starts on a ring already full (`ringFull`) is left to the proof. One extra MDL makes the list overflow at the third MAP, as the 17th does
in the code. Three simple pages and a sub-table of two leave room for a buffer, a stated size that
reaches beyond it, a slot that neither touches, and in `buffers_all` a range that leaves the pool.

`data_paths` runs one module at a time, so that its state space is a sum. Walks: two calls over two
sub-tables of two pages in an index space of four, buffers of up to nine bytes in two-byte pages: a range
spans up to three sub-tables, leaves the pool, wraps; simple ranges begin at each of the five registers an
offset reaches, behind them, and at the last of the forty page numbers, where the sum wraps; the second call meets
entries of the first. Patching: bytes of two bits, words of two bytes, fields at bit offsets with and without a
remainder, two fields of one bitstream. Relayout: tiles of equal and different width, one column,
one element, padded and unpadded vectors, one- and two-byte elements. Suppression: three anchors, two
classes, three scores, every relation of boxes. Deployment: the model the layout was made for
(`infer_test_console.cpp:149`), and all that differ from it in one or two pieces: missing, as large as the
gap allows, one page larger.

`lifecycle` has one block more than there are pointers; reusing the lowest free block at once brings
a freed block back into another role, reusing the highest keeps old entries apart. `session` needs two
clients to disturb each other, and three images for one to be left behind, the next to take its
completion, and another after that.

**Deadlock** is checked in `lifecycle` and `session`, whose systems never rest for good: a device can always be
stopped or started, a client opened or closed. In the other runs a driver without callers rests, and
the bounds on calls, buffers and inputs stop the model.

**Fairness.** `FairSpec` assumes that the handler runs on once it may (a thread), that the chip fetches,
starts, raises SC_HOST_0 and finishes its engines, and that delivered interrupts and queued DPCs run
(the operating system). Nothing obliges an application to call. The wait's time-out
has no fairness: it is no part of an answer by interrupt. In an environment without `slowDrain` the
DPC's settle poll ends only by seeing OUTFEED idle, which states the document's 2 ms bound.
`EveryCallAnswered` does not hold for a second call once fatal errors or exe1 are possible: the ISR
acknowledges what it read some time before, and an edge raised in between is lost
(hazard at `Device.c:1505`). `SuccessIsComplete` does not hold with `backToBack` either: a second DPC of the
previous call may set the event between KeClearEvent and the reset of the bits
(hazard at `Queue.c:487`); `CleanCallIsComplete` is what remains. A DPC that has consumed SC_HOST_0 and gives up after its 2 ms is not evaluated again
when OUTFEED is slower than that (`Device.c:1626` counts on another MSI-X that DPC_NEW_GUIDE.md:60
does not promise): that is why `slowDrain` is not in the environment of this run.

`SessionSpec` assumes only that the driver works off its queue: WF of `Serve` for each client, the
framework dispatching the next request when one returns, and the wait of INFER_NEW ending after its
time-out at the latest. Nothing is assumed of the chip, nor of clients.

## 4. Proofs

`InferCompletionProofs` proves, for every set of vectors, number of calls, ring size above one
and number of settle polls:

 1. `TypeCorrect`: `Spec => []TypeOK`.
 2. `CleanInvHolds`: `CleanInv` is invariant when `exe1` is not in `Env`.
 3. `CleanCallCompletes`: `CleanCallIsComplete`, from 2, in the same environments.
 4. `CalmSuccessIsComplete`, `CalmOneCallInFlight`: `SuccessIsComplete` and `OneCallInFlight` for every
    call when `Env` holds at most `fault` and `slowDrain`; and `CalmImplementsService`: there `Spec` implements `InferService`.
 5. `RingInvHolds`, and from it `PendingStaysInOrder` (`RingHoldsPending`) and the action property `ResultsNeverGoBack`
    (`ResultsInOrder`), in every environment but `exe1` together with `ringFull` (`RoomForExe1`).

*Why an invariant is needed.* `CleanCallIsComplete` speaks of the moment the event is set. That it
is set late enough depends on what is on its way: a pending bit, a message, a captured
word, a queued DPC, locals of a DPC that has read two gates of four. `CleanInv` follows a
clean call through its stages - at rest, queued, fetched, running, done - and says
of each what the interrupt path may carry. Fetched: the gates read idle, so SC_HOST_0 must be
nowhere. Running: SC_HOST_0 may be anywhere once it has fired; a DPC that knows of it and
has read a gate idle has read an engine that is done (`SampleHolds`), because an engine does not
start again before the next call; so four idle gates mean that OUTFEED has drained. A fatal
error or a halted engine may set the event early, but then the handler's own check
sees it (`FatalIsSticky`, `Halted`). `CalmInv` adds that the chip is at rest between calls, so that
in a calm environment every call is clean. The refinement follows: `Begin` is InferService's
`Call`, the chip's drain of OUTFEED its `Compute`, a fatal error its `Break` and `Check` one of its two answers, with
success only after the drain; every other step stutters.

The ring needs another invariant, since it must hold where calls time out and nothing is clean.
`DescRingTail` counts descriptors and the doorbell carries the count modulo the ring size, but the chip only knows
its place in the ring. `RingInv` says that *some* count n of descriptors (`FetchedUpTo`), not more than what was announced and
less than a ring behind, agrees with that place: the descriptors from n on are in the ring, what the
chip works on and what it has drained was submitted before n. When the ring overflows, the witness jumps by a
ring's length and the invariant still holds: descriptors are lost, never reordered, and a later call's
results are never followed by an earlier one's. What the lost call sees is its time-out. A single descriptor always
has a place, since at most all but one are waiting. With EXE1_BS a call writes two, and on a ring with one place left the
second (`Queue.c:655`) lands on the oldest descriptor the chip has been told of; until the doorbell (661) the chip may
fetch it in place of the older one, and both properties are false. `RoomForExe1` excludes just that.

`BufferMapProofs` proves, for every number of slots, pages, sub-tables, extras and buffers, and all
ranges clients may use:

 6. `TypeCorrect`: `Spec => []TypeOK`, also with overlapping handles.
 7. `SlotInvHolds`: `SlotInv` is invariant when `overlap` is not in `Use`.
 8. `FreedSlotsUnreachable`: `NoFreedSlotEntry`, from 7.

*Why an invariant is needed.* A slot loop clears only the range its slot remembers. That this is
every entry to the slot's buffer is `CommonEntriesOwned`; that no other owner unlocks or
moves the buffer is `OthersPinned` and `SlotsCommon`; that nobody writes an entry between the
clearing and the freeing is `Exclusive`, and this is where the theorem needs one handle at a time.

`BufferOwnerProofs`, for the same constants, with one handle at a time:

 9. `OwnerInvHolds`, and from it `EveryBufferOwnedOnce` (`OneOwner`) and `CloseReleases` (`CloseReleasesAll`).
 10. `GrantedSlotsStayMapped` (`GrantedSlotMapped`), for clients whose ALLOC requests do not put one slot over another (`SlotsApart`).
 11. `CachesAreClearedFirst` (`CachesClearedFirst`), for clients that map and unmap as they like and state bitstreams no
     shorter than what they mapped (`SizesCover`); `NothingDangles` (`NoDanglingEntry`), for clients that never
     call MAP and give PARAM_CACHE ranges inside the tables (`NeverMaps`), as the runtime and `infer_test_console`.

*Why invariants are needed.* `OneOwner` says that each buffer is in one place; that a step keeps it so depends on which places
are empty when it stores: MAP alone holds an MDL between two steps, PARAM_CACHE stores into caches it has
released, the extras overflow only when full (`HandsFree`, `OwnersApart`), and the file cleanup must have
emptied the earlier owners when it comes to the later ones (`CleanupOrder`). `OneOwner` is then proved by
cases over the owner; `CloseReleasesAll` is the last stage of `CleanupOrder`. A slot stays
mapped because every range the driver remembers was once a request's (`RangesKnown`), hence clear of the slot, and the slot
loops alone touch slots (`SlotsMapped`, `GrantsHeld`); "clear of the slot" includes every size of bitstream a client
states, since releasing a cache clears as many pages as were stated. Cached pages lose their entries before they are
unlocked because what LockedModelMdl, the MAP in hand and the caches hold is entered nowhere but in the range kept
with it (`OwnersEntered`), which covers what was mapped and is one ApexPageTableUnmap does not refuse (`CachesInRange`).
Without MAP every buffer but a slot's is a cached one, so nothing dangles at all (`CacheInv`, `SlotInv` and `NothingMapped`);
with MAP it is false, as `buffers_close` shows. Without the
`SlotsApart` of 10 a slot takes its neighbour's entries (hazard at `Queue.c:2451`). No hypothesis is empty:
`MCBufferMap` asserts `SlotsApart` and `SizesCover` for the runs, and
`NeverMaps` holds of every `Use` without `map` and ranges inside the tables. A bitstream stated shorter than it was mapped is outside `SizesCover`:
releasing it leaves its last entries behind. For owners and slots (9, 10) any size may be stated.

`PageWalkProofs`, for every page size, sub-table size, pool, index space and range:

 12. `WalkInvariant`, and from it `WalkIsExact`, `WalkInside`, `AlignedBufferCovered`. *The invariant* adds to the properties where a walk
    stands (`WalkPosition`): what is written and what is left make up the range, and ALLOC's later pages lie at or below the last
    sub-table, which is the only one it tests. Division and remainder at a sub-table's border are lemmas of their
    own (`DivModShift` and its neighbours).

`DeploymentProofs`, for any set of model files, and for any byte and word size and any fields:

 13. `DeployInvariant`, `DeployTyped`, `AddressesBacked`. *The invariant* says of each step what has been asked, granted, copied and patched;
     that later slots do not reach into earlier ones follows from `Fits`.
 14. `PatchInvariant`, and from it `PatchedInside` (`PatchInside`), `PatchedExactly` (`PatchExact`) and `DumpShowsWritten` (`ShownIsWritten`). *The invariant*
     speaks of the patches done so far: a bit no patch has hit is untouched, one that a single patch has hit is what that patch
     writes (`BitsPatched`), and the dump has the last field read for each place and half (`DumpShown`). The properties are its
     last state; that a masked read-modify-write of a shifted window changes the field's bits and no others is bit arithmetic on top.

`DataPathProofs`, for any layers, anchors, classes, scores and boxes:

 15. `NmsInvariant`, `DetectionsApart`, `DetectionsComplete`. *The invariant*: kept places ascend; every marked place has a
     kept suppressor before it; every place behind the pass is kept or marked.
 16. `RelayoutInvariant`, `RelayoutTyped`, and from them `TensorIsExact` (`TensorExact`). *The invariant* ties the walk to the coordinates: in the copy,
     `dst` is the place of vector (y, tileX + lx) in the tensor and, when the layout is evenly spaced, `source` is the
     chip's place of it (`TileWalk`); vectors before it are copied (`VectorsExact`); top bytes before `dst` are flipped in the
     second pass and no other byte is (`FlipsExact`). That a run of columns of one tile always ends inside the row (`TileSizeExists`) is
     an induction over its length, done with the least counterexample (`LeastNumber`).
 17. `DataTyped`: `DataTypeOK` of the five modules side by side.

`LifecycleProofs`, for any memory, any allocator and ring size, with file cleanup not beside a PnP callback (`~Overlap`):

 18. `LifecycleInvariant`, and from it all six invariants of the run; `TemperatureInverse` for the formula. *The invariant* lists, per step of
     PrepareHardware, which pointers are NULL and which are set (`PhaseNull`, `PhaseSet`), what the reset may have
     wiped and what was written since (`ChipPhase`, `EntryPhase`), and what a handle may hold (`FilePhase`).

`SessionProofs`, for any number of clients and images:

 19. `SessionTypeCorrect`, `SessionInvariant`, `SlotsKept`, `OwnDetections`, `ChipStaysInSlots`, `NothingLeft`. *The invariant*: while nobody met another client's
     handle, at most one handle is open (`Alone`) and slots that live are its own (`Held`, `Patched`); a clean call has one job at most,
     its own, on its own image, and the event is not set before that job has drained (`Calm`).

The assumptions are those on the constants, named in each module and evaluated by TLC in the runs, and the environment
each theorem names. Every safety property of every passing run is a theorem under these hypotheses.

**Only model-checked:** liveness (`EveryCallAnswered`, `EveryRequestReturns`), which is out of the prover's reach, as is ENABLED. The
runs that end in a violation are TLC's too. What recursive definitions compute over data of any length cannot be
proved here; `MCDataPaths` alone uses one (sums over tile sizes), to build the layouts of the run.

## 5. Plan

Done: completion, buffers, walks, lifecycle, sessions, deployment and post-processing, with the proofs above.

Next, in this order:
 1. A weaker hypothesis than one handle at a time for `OneOwner` and `NoFreedSlotEntry`: which pairs of IOCTL and file cleanup are harmless
    beside each other.
 2. `StartedIsReady` for a handle that outlives a stop, with the DMA adapter each allocation belongs to.
 3. A fetch counter in `InferCompletion`, to state which descriptors an overflow loses, not only that the rest stay in order.

## 6. Not modelled

 - Register values without influence on control (tile configuration, credits, clock gating) and
   diagnostics: most of `Device.c` behind the interrupt routines and large parts of the INFER_NEW handler read
   registers and log them.
 - The legacy inference path: the body of IOCTL_INFER is compiled out, IOCTL_INFER_WITH_PARAM does nothing, the older DPC is not
   registered.
 - `npu_test_console` and `add_model_test_console`: clients of that path and of structures `Public.h` no longer has.
 - Box decoding, dequantisation, image decoding and resizing: floating point and library calls.
 - FlatBuffers, its generated schema and headers: about 15,000 of the 25,700 lines under `src/`, third-party or
   generated. Of the other 10,700 some 1,400 are the compiled-out body of IOCTL_INFER, 1,000 the two older
   consoles, and about 2,500 dumps and logging (the end of `Device.c`, most of `infer_test_console.cpp`, comments
   and tables of constants in the headers). The models stand for about 4,000 lines, most of what is left.
 - What the chip does with registers overwritten by ranges outside the tables, a file cleanup beside a PnP callback
   (`Overlap`), and user mappings of the slots undone in the context of another process (`Queue.c` FREE and file
   cleanup call MmUnmapLockedPages for whoever's slots there are). DMA itself is modelled only as far as
   results reach the slots.

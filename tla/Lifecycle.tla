----------------------------- MODULE Lifecycle -----------------------------
(***************************************************************************)
(* Starting and stopping the device: PrepareHardware, with every step of   *)
(* it that may fail, ReleaseHardware, and the cleanup of a file object     *)
(* that outlives a stop.                                                   *)
(*                                                                         *)
(* PrepareHardware allocates as it goes and programs the chip as it goes,  *)
(* and resets the chip in the middle, so that some registers are written   *)
(* twice.  It gives nothing back when it fails: the framework then calls   *)
(* ReleaseHardware, which frees whatever pointer is not NULL.  The device  *)
(* context, and the slots of a handle that stays open, outlive a stop.     *)
(*                                                                         *)
(* External: the operating system (memory, MSI-X addresses, the order of   *)
(* the callbacks, IOCTLs only while started) and the chip.                 *)
(***************************************************************************)
EXTENDS Integers, FiniteSets

CONSTANTS
  Blocks,    \* memory and mappings the operating system can hand out
  NoBlock,   \* NULL; in a page table entry: not valid
  Pick(_),   \* blocks an allocation may return, of those that are free
  Messages,  \* MSI-X addresses the operating system may assign
  NoMessage, \* what a reset leaves in the chip's MSI-X table
  RingSize,  \* instruction queue entries (256)
  Overlap    \* whether a file cleanup may run beside a PnP callback

ASSUME BlocksAssumption   == NoBlock \notin Blocks
ASSUME PickAssumption     == \A free \in SUBSET Blocks : Pick(free) \subseteq free
ASSUME MessagesAssumption == NoMessage \notin Messages
ASSUME RingAssumption     == RingSize \in Nat \ {0}
ASSUME OverlapAssumption  == Overlap \in BOOLEAN

\* The pointers of the device context: the two BARs, the page table memory,
\* the extended pool, ring and status block, the slots (one stands for all)
\* and LockedModelMdl.
Pointers == {"bar2", "bar0", "ptbl", "pool", "ring", "status", "slot", "model"}

\* Page table entries: 4096, 4097, the extended registers, and those of the slot.
Entries == {"ring", "status", "pool", "slot"}

\* What one reset may or may not wipe.
Wipes == {"table", "msix", "queue", "engines"}

Steps == {"stopped", "bar0", "dma", "save", "table", "pool", "lock", "reset",
          "rewrite", "ring", "status", "queue", "engines", "started", "failed",
          "releaseRing", "releaseStatus", "releaseBars"}

VARIABLES
  pnp,     \* where PrepareHardware or ReleaseHardware is
  ptr,     \* the pointers
  live,    \* blocks handed out and not given back
  adapter, \* whether DmaAdapter is set
  saved,   \* SavedMsixTable, NoMessage until MsixTableSaved
  tail,    \* DescRingTail
  entry,   \* page table entries: block each points to
  chip,    \* the chip's other registers
  os,      \* MSI-X address the operating system has assigned
  powered, \* history: the chip kept its power since PrepareHardware began
  file     \* the handle, and where its cleanup is

\* The chip's registers: MSI-X table and its mask, queue enable and tail, run
\* controls, thermal sensor, DMA pause.
Chips == [msix : Messages \cup {NoMessage}, masked : BOOLEAN, enabled : BOOLEAN,
          tail : 0 .. RingSize - 1, running : BOOLEAN, sensor : BOOLEAN, paused : BOOLEAN]

driver        == <<pnp, ptr, live, adapter, saved, tail>>
lifecycleVars == <<driver, entry, chip, os, powered, file>>

LifecycleTypeOK ==
  /\ pnp \in Steps
  /\ ptr \in [Pointers -> Blocks \cup {NoBlock}]
  /\ live \subseteq Blocks
  /\ adapter \in BOOLEAN
  /\ saved \in Messages \cup {NoMessage}
  /\ tail \in 0 .. RingSize - 1
  /\ entry \in [Entries -> Blocks \cup {NoBlock}]
  /\ chip \in Chips
  /\ os \in Messages \cup {NoMessage}
  /\ powered \in BOOLEAN
  /\ file \in {"closed", "open", "check", "clear", "free"}

NoEntries == [e \in Entries |-> NoBlock]
PowerOn   == [msix |-> NoMessage, masked |-> TRUE, enabled |-> FALSE, tail |-> 0,
              running |-> FALSE, sensor |-> FALSE, paused |-> FALSE]

LifecycleInit ==
  /\ pnp = "stopped"
  /\ ptr = [p \in Pointers |-> NoBlock]
  /\ live = {}
  /\ adapter = FALSE
  /\ saved = NoMessage
  /\ tail = 0
  /\ entry = NoEntries
  /\ chip = PowerOn
  /\ os = NoMessage
  /\ powered = TRUE
  /\ file = "closed"

IsNull(p) == ptr[p] = NoBlock

Alloc(p) ==
  \E b \in Pick(Blocks \ live) :
    /\ live' = live \cup {b}
    /\ ptr' = [ptr EXCEPT ![p] = b]

\* Each of the pointers in ps that is not NULL: freed, then set to NULL.
Free(ps) ==
  /\ live' = live \ {ptr[p] : p \in ps}
  /\ ptr' = [p \in Pointers |-> IF p \in ps THEN NoBlock ELSE ptr[p]]

Go(from, to) == pnp = from /\ pnp' = to

(***************************************************************************)
(* PrepareHardware.  First the resources: either BAR may be missing or     *)
(* fail to map, which nothing reports.  The operating system has written   *)
(* the MSI-X table before.                                                 *)
(***************************************************************************)
MapBar2 ==
  /\ Go("stopped", "bar0")
  /\ Overlap \/ file \in {"closed", "open"}
  /\ \E m \in Messages : os' = m /\ chip' = [chip EXCEPT !.msix = m]
  /\ powered' = TRUE
  /\ Alloc("bar2") \/ UNCHANGED <<ptr, live>>
  /\ UNCHANGED <<adapter, saved, tail, entry, file>>

MapBar0 ==
  /\ Go("bar0", "dma")
  /\ Alloc("bar0") \/ UNCHANGED <<ptr, live>>
  /\ UNCHANGED <<adapter, saved, tail, entry, chip, os, powered, file>>

\* WdfDmaEnablerCreate fails, or there is no adapter.
DmaFails ==
  /\ Go("dma", "failed")
  /\ adapter' \in {adapter, FALSE}
  /\ UNCHANGED <<ptr, live, saved, tail, entry, chip, os, powered, file>>

DmaReady ==
  /\ Go("dma", "save")
  /\ adapter' = TRUE
  /\ UNCHANGED <<ptr, live, saved, tail, entry, chip, os, powered, file>>

SaveMsix ==
  /\ Go("save", "table")
  /\ saved' = IF IsNull("bar2") THEN saved ELSE chip.msix
  /\ UNCHANGED <<ptr, live, adapter, tail, entry, chip, os, powered, file>>

\* ApexPageTableInit: no BAR2, or no memory for the table.
TableFails ==
  /\ Go("table", "failed")
  /\ UNCHANGED <<ptr, live, adapter, saved, tail, entry, chip, os, powered, file>>

\* Mutant: the simple registers keep what a start before has written.
MutTableReady ==
  /\ Go("table", "pool")
  /\ ~ IsNull("bar2")
  /\ Alloc("ptbl")
  /\ UNCHANGED <<adapter, saved, tail, entry, chip, os, powered, file>>

\* The simple registers, which the ring and the status block use too, are cleared.
TableReady ==
  /\ Go("table", "pool")
  /\ ~ IsNull("bar2")
  /\ Alloc("ptbl")
  /\ entry' = [NoEntries EXCEPT !["pool"] = entry["pool"]]
  /\ UNCHANGED <<adapter, saved, tail, chip, os, powered, file>>

PoolFails ==
  /\ Go("pool", "failed")
  /\ Free({"ptbl"})
  /\ UNCHANGED <<adapter, saved, tail, entry, chip, os, powered, file>>

PoolReady ==
  /\ Go("pool", "lock")
  /\ Alloc("pool")
  /\ entry' = [entry EXCEPT !["pool"] = ptr'["pool"]]
  /\ UNCHANGED <<adapter, saved, tail, chip, os, powered, file>>

\* No spinlock: the extended registers keep pointing to the pool given back.
LockFails ==
  /\ Go("lock", "failed")
  /\ Free({"ptbl", "pool"})
  /\ UNCHANGED <<adapter, saved, tail, entry, chip, os, powered, file>>

LockReady ==
  /\ Go("lock", "reset")
  /\ UNCHANGED <<ptr, live, adapter, saved, tail, entry, chip, os, powered, file>>

(***************************************************************************)
(* DMA pause, then enter and quit reset.  Every poll only warns, so the    *)
(* reset may have wiped some of the registers, all of them or none.        *)
(***************************************************************************)
Wiped(c, w) ==
  [msix    |-> IF "msix" \in w THEN NoMessage ELSE c.msix,
   masked  |-> c.masked \/ "msix" \in w,
   enabled |-> c.enabled /\ "queue" \notin w,
   tail    |-> IF "queue" \in w THEN 0 ELSE c.tail,
   running |-> c.running /\ "engines" \notin w,
   sensor  |-> c.sensor,
   paused  |-> TRUE]

Reset ==
  /\ Go("reset", "rewrite")
  /\ \E w \in SUBSET Wipes :
       /\ chip' = Wiped(chip, w)
       /\ entry' = IF "table" \in w THEN NoEntries ELSE entry
  /\ UNCHANGED <<ptr, live, adapter, saved, tail, os, powered, file>>

\* Mutant: the extended registers are not written again.
MutRewrite ==
  /\ Go("rewrite", "ring")
  /\ chip' = [chip EXCEPT !.paused = FALSE, !.masked = FALSE,
                          !.msix = IF saved = NoMessage THEN @ ELSE saved]
  /\ UNCHANGED <<ptr, live, adapter, saved, tail, entry, os, powered, file>>

\* What the reset may have wiped: DMA runs again, extended registers, MSI-X
\* table and its mask bits.
Rewrite ==
  /\ Go("rewrite", "ring")
  /\ chip' = [chip EXCEPT !.paused = FALSE, !.masked = FALSE,
                          !.msix = IF saved = NoMessage THEN @ ELSE saved]
  /\ entry' = IF IsNull("pool") THEN entry ELSE [entry EXCEPT !["pool"] = ptr["pool"]]
  /\ UNCHANGED <<ptr, live, adapter, saved, tail, os, powered, file>>

RingFails ==
  /\ Go("ring", "failed")
  /\ UNCHANGED <<ptr, live, adapter, saved, tail, entry, chip, os, powered, file>>

RingReady ==
  /\ Go("ring", "status")
  /\ Alloc("ring")
  /\ entry' = [entry EXCEPT !["ring"] = ptr'["ring"]]
  /\ tail' = 0
  /\ UNCHANGED <<adapter, saved, chip, os, powered, file>>

\* Mutant: DescRingBase keeps the ring that was given back.
MutStatusFails ==
  /\ Go("status", "failed")
  /\ live' = live \ {ptr["ring"]}
  /\ UNCHANGED <<ptr, adapter, saved, tail, entry, chip, os, powered, file>>

\* The ring is given back; its entry stays valid.
StatusFails ==
  /\ Go("status", "failed")
  /\ Free({"ring"})
  /\ UNCHANGED <<adapter, saved, tail, entry, chip, os, powered, file>>

StatusReady ==
  /\ Go("status", "queue")
  /\ Alloc("status")
  /\ entry' = [entry EXCEPT !["status"] = ptr'["status"]]
  /\ UNCHANGED <<adapter, saved, tail, chip, os, powered, file>>

\* The queue's registers; the driver's tail follows the chip's.
QueueOn ==
  /\ Go("queue", "engines")
  /\ tail' = chip.tail
  /\ chip' = [chip EXCEPT !.enabled = TRUE]
  /\ UNCHANGED <<ptr, live, adapter, saved, entry, os, powered, file>>

\* Run controls, interrupt enables, thermal sensor.
EnginesOn ==
  /\ Go("engines", "started")
  /\ chip' = [chip EXCEPT !.running = TRUE, !.sensor = TRUE]
  /\ UNCHANGED <<ptr, live, adapter, saved, tail, entry, os, powered, file>>

(***************************************************************************)
(* ReleaseHardware: after a stop or the removal of the device, with the    *)
(* handle open or closed, and after a failed PrepareHardware.              *)
(***************************************************************************)
\* ApexPageTableCleanup.
ReleaseTable ==
  /\ pnp \in {"started", "failed"}
  /\ Overlap \/ file \in {"closed", "open"}
  /\ pnp' = "releaseRing"
  /\ Free({"model", "pool", "ptbl"})
  /\ entry' = IF IsNull("pool") \/ IsNull("bar2")
              THEN entry ELSE [entry EXCEPT !["pool"] = NoBlock]
  /\ UNCHANGED <<adapter, saved, tail, chip, os, powered, file>>

ReleaseRing ==
  /\ Go("releaseRing", "releaseStatus")
  /\ Free({"ring"})
  /\ UNCHANGED <<adapter, saved, tail, entry, chip, os, powered, file>>

\* Mutant: the status block is forgotten.
MutReleaseStatus ==
  /\ Go("releaseStatus", "releaseBars")
  /\ UNCHANGED <<ptr, live, adapter, saved, tail, entry, chip, os, powered, file>>

ReleaseStatus ==
  /\ Go("releaseStatus", "releaseBars")
  /\ Free({"status"})
  /\ UNCHANGED <<adapter, saved, tail, entry, chip, os, powered, file>>

ReleaseBars ==
  /\ Go("releaseBars", "stopped")
  /\ Free({"bar2", "bar0"})
  /\ UNCHANGED <<adapter, saved, tail, entry, chip, os, powered, file>>

\* The chip loses its registers: a stop that cuts the power, or a sleep of the
\* machine, after which no callback of the driver writes them again.
LosePower ==
  /\ pnp \in {"stopped", "started"}
  /\ chip' = PowerOn
  /\ entry' = NoEntries
  /\ powered' = FALSE
  /\ UNCHANGED <<driver, os, file>>

(***************************************************************************)
(* The handle.  IOCTLs reach the driver only while the device is started.  *)
(***************************************************************************)
Serving == pnp = "started" /\ file = "open"

Open ==
  /\ pnp = "started" /\ file = "closed"
  /\ file' = "open"
  /\ UNCHANGED <<driver, entry, chip, os, powered>>

\* IOCTL_ALLOC_IO_BUFFERS and IOCTL_FREE_IO_BUFFERS.
Grant ==
  /\ Serving /\ IsNull("slot")
  /\ Alloc("slot")
  /\ entry' = [entry EXCEPT !["slot"] = ptr'["slot"]]
  /\ UNCHANGED <<pnp, adapter, saved, tail, chip, os, powered, file>>

TakeBack ==
  /\ Serving /\ ~ IsNull("slot")
  /\ Free({"slot"})
  /\ entry' = [entry EXCEPT !["slot"] = NoBlock]
  /\ UNCHANGED <<pnp, adapter, saved, tail, chip, os, powered, file>>

\* IOCTL_MAP_BUFFER.
MapModel ==
  /\ Serving /\ IsNull("model")
  /\ Alloc("model")
  /\ UNCHANGED <<pnp, adapter, saved, tail, entry, chip, os, powered, file>>

\* Mutant: the tail does not wrap.
MutSubmit ==
  /\ Serving
  /\ tail' = tail + 1
  /\ chip' = [chip EXCEPT !.tail = tail']
  /\ UNCHANGED <<pnp, ptr, live, adapter, saved, entry, os, powered, file>>

\* IOCTL_INFER_NEW: the descriptor goes to DescRingTail, the doorbell is the
\* tail behind it.
Submit ==
  /\ Serving
  /\ tail' = (tail + 1) % RingSize
  /\ chip' = [chip EXCEPT !.tail = tail']
  /\ UNCHANGED <<pnp, ptr, live, adapter, saved, entry, os, powered, file>>

\* File cleanup: the locked model, then the slot.
Close ==
  /\ file = "open"
  /\ Overlap \/ pnp \in {"started", "stopped"}
  /\ file' = "check"
  /\ Free({"model"})
  /\ UNCHANGED <<pnp, adapter, saved, tail, entry, chip, os, powered>>

\* Mutant: ApexPageTableUnmap does not look at PageTableBase.
MutCheckSlot ==
  /\ file = "check"
  /\ file' = IF IsNull("slot") THEN "closed" ELSE "clear"
  /\ UNCHANGED <<driver, entry, chip, os, powered>>

\* ApexPageTableUnmap writes no register once PageTableBase is NULL.
CheckSlot ==
  /\ file = "check"
  /\ file' = IF IsNull("slot") THEN "closed"
             ELSE IF IsNull("ptbl") THEN "free" ELSE "clear"
  /\ UNCHANGED <<driver, entry, chip, os, powered>>

ClearSlot ==
  /\ file = "clear"
  /\ file' = "free"
  /\ entry' = [entry EXCEPT !["slot"] = NoBlock]
  /\ UNCHANGED <<driver, chip, os, powered>>

FreeSlot ==
  /\ file = "free"
  /\ file' = "closed"
  /\ Free({"slot"})
  /\ UNCHANGED <<pnp, adapter, saved, tail, entry, chip, os, powered>>

Prepare ==
  \/ MapBar2 \/ MapBar0 \/ DmaFails \/ DmaReady \/ SaveMsix
  \/ TableFails \/ TableReady \/ PoolFails \/ PoolReady \/ LockFails \/ LockReady
  \/ Reset \/ Rewrite
  \/ RingFails \/ RingReady \/ StatusFails \/ StatusReady \/ QueueOn \/ EnginesOn

Release == ReleaseTable \/ ReleaseRing \/ ReleaseStatus \/ ReleaseBars

Client == \/ Open \/ Grant \/ TakeBack \/ MapModel \/ Submit
          \/ Close \/ CheckSlot \/ ClearSlot \/ FreeSlot

LifecycleNext == Prepare \/ Release \/ LosePower \/ Client

LifecycleSpec == LifecycleInit /\ [][LifecycleNext]_lifecycleVars

(***************************************************************************)
(* Properties.                                                             *)
(***************************************************************************)

\* Every block handed out is behind exactly one pointer, and no pointer
\* outlives its block, whatever step of PrepareHardware failed and however
\* often the device was started: what ReleaseHardware, the next
\* PrepareHardware and the file cleanup free by looking at the pointers alone
\* is freed once, and nothing is lost.
EveryBlockAccounted ==
  /\ live = {ptr[p] : p \in Pointers} \ {NoBlock}
  /\ \A p, q \in Pointers : ptr[p] = ptr[q] /\ p # q => IsNull(p)

\* A stopped device holds no memory but the slots of a handle that is still
\* open (ReleaseHardware after any failure, then the file cleanup).
StoppedHoldsNothing ==
  pnp = "stopped" => live \subseteq {ptr["slot"]} /\ (file = "closed" => live = {})

\* Once PrepareHardware has succeeded, and as long as the chip keeps its power,
\* the instruction queue runs on the ring and status block of this start, the
\* extended registers lead to the pool of this start, interrupts go where the
\* operating system wants them, the two tails agree, and nothing the reset
\* wiped or the pause stopped has been forgotten.
StartedIsReady ==
  pnp = "started" /\ powered =>
    /\ \A e \in {"ring", "status", "pool"} : ~ IsNull(e) /\ entry[e] = ptr[e]
    /\ chip.msix = os /\ ~ chip.masked
    /\ chip.enabled /\ chip.tail = tail
    /\ chip.running /\ chip.sensor /\ ~ chip.paused

\* The chip works on a started device's tables: every valid entry leads to the
\* buffer it is meant for, although failed and released starts leave entries to
\* freed buffers behind and the reset may not wipe them.
NoStrayEntry ==
  pnp \in {"ring", "status", "queue", "engines", "started"} =>
    \A e \in Entries : entry[e] \in {NoBlock, ptr[e]}

\* Registers are written only through a mapped BAR2: by PrepareHardware after
\* the page table was set up, by IOCTLs, and by a file cleanup that may come
\* after the device was removed.
TouchesMapped ==
  \/ file = "clear"
  \/ pnp \in {"pool", "lock", "reset", "rewrite", "ring", "status", "queue",
              "engines", "started"}
  => ~ IsNull("bar2")

(***************************************************************************)
(* IOCTL_GET_TEMPERATURE: Hardware.h, in thousandths of a degree, and back *)
(* with the truncating division of C.                                      *)
(***************************************************************************)
AdcValues == 0 .. 1023

adc_to_millic(adc) == (662 - adc) * 250 + 550

Truncated(a, b) == IF a >= 0 THEN a \div b ELSE - ((- a) \div b)

millic_to_adc(millic) == Truncated(550 - millic, 250) + 662
=============================================================================

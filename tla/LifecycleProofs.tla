-------------------------- MODULE LifecycleProofs --------------------------
(***************************************************************************)
(* Starting and stopping neither loses nor frees twice, and a started      *)
(* device is ready, for any memory, any allocator, any number of starts    *)
(* and any step of PrepareHardware that fails.                             *)
(***************************************************************************)
EXTENDS Lifecycle, TLAPS

(***************************************************************************)
(* The steps of PrepareHardware after the table, the pool, the rewrite,    *)
(* the ring, the status block; a started device is behind all of them.     *)
(***************************************************************************)
AfterStatus  == {"queue", "engines", "started"}
AfterRing    == {"status"} \cup AfterStatus
AfterRewrite == {"ring"} \cup AfterRing
AfterPool    == {"lock", "reset", "rewrite"} \cup AfterRewrite
AfterTable   == {"pool"} \cup AfterPool
Before       == {"stopped", "bar0", "dma", "save", "table"}
Releasing    == {"releaseRing", "releaseStatus", "releaseBars"}

\* Which pointers are certain to be NULL.
PhaseNull ==
  /\ pnp = "stopped" => IsNull("bar2")
  /\ pnp \in {"stopped", "bar0"} => IsNull("bar0")
  /\ pnp \in Before \cup Releasing => IsNull("ptbl")
  /\ pnp \in Before \cup {"pool"} \cup Releasing => IsNull("pool")
  /\ pnp \notin AfterRing \cup {"releaseRing"} => IsNull("ring")
  /\ pnp \notin AfterStatus \cup {"releaseRing", "releaseStatus"} => IsNull("status")
  /\ pnp # "started" => IsNull("model")

\* Which are certain not to be.
PhaseSet ==
  /\ pnp \in AfterTable  => ~ IsNull("bar2") /\ ~ IsNull("ptbl")
  /\ pnp \in AfterPool   => ~ IsNull("pool")
  /\ pnp \in AfterRing   => ~ IsNull("ring")
  /\ pnp \in AfterStatus => ~ IsNull("status")

\* The handle's cleanup and the PnP callbacks exclude each other.
FilePhase ==
  /\ file = "closed" => IsNull("slot")
  /\ file # "open" => IsNull("model")
  /\ file \notin {"closed", "open"} => pnp \in {"started", "stopped"}
  /\ file = "clear" => pnp = "started"

\* The chip still is, or is again, what the step before made it.
Kept(steps) == pnp \in steps /\ (pnp = "started" => powered)

ChipPhase ==
  /\ pnp \in {"bar0", "dma", "save"} => chip.msix = os
  /\ pnp = "table" /\ ~ IsNull("bar2") => saved = os
  /\ pnp \notin {"stopped"} => os \in Messages
  /\ pnp \in AfterTable => saved = os
  /\ Kept(AfterRewrite) => chip.msix = os /\ ~ chip.masked /\ ~ chip.paused
  /\ Kept({"engines", "started"}) => chip.enabled /\ chip.tail = tail
  /\ pnp = "started" /\ powered => chip.running /\ chip.sensor

EntryPhase ==
  /\ pnp \in AfterTable => \A e \in {"ring", "status", "slot"} : entry[e] \in {NoBlock, ptr[e]}
  /\ pnp \in AfterPool => entry["pool"] \in {NoBlock, ptr["pool"]}
  /\ Kept(AfterRewrite) => entry["pool"] = ptr["pool"]
  /\ Kept(AfterRing) => entry["ring"] = ptr["ring"]
  /\ Kept(AfterStatus) => entry["status"] = ptr["status"]
  /\ pnp = "started" /\ file = "free" => entry["slot"] = NoBlock

LifecycleInv ==
  /\ LifecycleTypeOK
  /\ EveryBlockAccounted
  /\ PhaseNull
  /\ PhaseSet
  /\ FilePhase
  /\ ChipPhase
  /\ EntryPhase

LEMMA AllocFacts ==
  ASSUME LifecycleTypeOK, EveryBlockAccounted, NEW p \in Pointers, IsNull(p), Alloc(p)
  PROVE  /\ EveryBlockAccounted'
         /\ live' \subseteq Blocks
         /\ ptr' \in [Pointers -> Blocks \cup {NoBlock}]
         /\ ptr'[p] # NoBlock
         /\ \A q \in Pointers \ {p} : ptr'[q] = ptr[q]
<1>1. PICK b \in Blocks \ live : live' = live \cup {b} /\ ptr' = [ptr EXCEPT ![p] = b]
  BY PickAssumption DEF Alloc, LifecycleTypeOK
<1>2. /\ ptr' \in [Pointers -> Blocks \cup {NoBlock}] /\ ptr'[p] = b /\ b # NoBlock
      /\ \A q \in Pointers \ {p} : ptr'[q] = ptr[q]
  BY <1>1, BlocksAssumption DEF LifecycleTypeOK
<1>3. \A q \in Pointers : ptr[q] # b
  BY <1>1, <1>2 DEF EveryBlockAccounted
<1>4. live' = {ptr'[q] : q \in Pointers} \ {NoBlock}
  BY <1>1, <1>2 DEF EveryBlockAccounted, IsNull
<1>5. \A q, r \in Pointers : ptr'[q] = ptr'[r] /\ q # r => ptr'[q] = NoBlock
  BY <1>2, <1>3 DEF EveryBlockAccounted, IsNull
<1> QED  BY <1>1, <1>2, <1>4, <1>5 DEF EveryBlockAccounted, IsNull, LifecycleTypeOK

LEMMA FreeFacts ==
  ASSUME LifecycleTypeOK, EveryBlockAccounted, NEW ps \in SUBSET Pointers, Free(ps)
  PROVE  /\ EveryBlockAccounted'
         /\ live' \subseteq Blocks
         /\ ptr' \in [Pointers -> Blocks \cup {NoBlock}]
         /\ \A p \in ps : ptr'[p] = NoBlock
         /\ \A p \in Pointers \ ps : ptr'[p] = ptr[p]
<1>1. /\ ptr' \in [Pointers -> Blocks \cup {NoBlock}]
      /\ \A p \in ps : ptr'[p] = NoBlock
      /\ \A p \in Pointers \ ps : ptr'[p] = ptr[p]
  BY DEF Free, LifecycleTypeOK
<1>2. live' = {ptr'[p] : p \in Pointers} \ {NoBlock}
  BY <1>1 DEF Free, EveryBlockAccounted, IsNull
<1>3. \A p, q \in Pointers : ptr'[p] = ptr'[q] /\ p # q => ptr'[p] = NoBlock
  BY <1>1 DEF EveryBlockAccounted, IsNull
<1> QED  BY <1>1, <1>2, <1>3 DEF EveryBlockAccounted, IsNull, Free, LifecycleTypeOK

LEMMA PowerOnIsChip == PowerOn \in Chips
<1>1. 0 \in 0 .. RingSize - 1  BY RingAssumption
<1> QED  BY <1>1 DEF PowerOn, Chips

LEMMA WipedIsChip ==
  ASSUME NEW c \in Chips, NEW w \in SUBSET Wipes
  PROVE  Wiped(c, w) \in Chips
<1>1. /\ c.msix \in Messages \cup {NoMessage} /\ c.tail \in 0 .. RingSize - 1
      /\ 0 \in 0 .. RingSize - 1
  BY RingAssumption DEF Chips
<1>2. c.masked \in BOOLEAN /\ c.enabled \in BOOLEAN /\ c.running \in BOOLEAN /\ c.sensor \in BOOLEAN
  BY DEF Chips
<1> DEFINE m == IF "msix" \in w THEN NoMessage ELSE c.msix
           t == IF "queue" \in w THEN 0 ELSE c.tail
           k == c.masked \/ "msix" \in w
           e == c.enabled /\ "queue" \notin w
           r == c.running /\ "engines" \notin w
<1>3. m \in Messages \cup {NoMessage} /\ t \in 0 .. RingSize - 1  BY <1>1
<1>4. k \in BOOLEAN /\ e \in BOOLEAN /\ r \in BOOLEAN  BY <1>2, Zenon
<1>5. Wiped(c, w) = [msix |-> m, masked |-> k, enabled |-> e, tail |-> t, running |-> r,
                     sensor |-> c.sensor, paused |-> TRUE]
  BY DEF Wiped
<1> HIDE DEF m, t, k, e, r
<1> QED  BY <1>2, <1>3, <1>4, <1>5 DEF Chips

LEMMA LifecycleInitInv == LifecycleInit => LifecycleInv
<1> SUFFICES ASSUME LifecycleInit PROVE LifecycleInv  OBVIOUS
<1> USE DEF LifecycleInit
<1>1. LifecycleTypeOK
  <2>1. PowerOn \in Chips  BY PowerOnIsChip
  <2>2. NoEntries \in [Entries -> Blocks \cup {NoBlock}]  BY DEF NoEntries
  <2>3. 0 \in 0 .. RingSize - 1  BY RingAssumption
  <2> QED  BY <2>1, <2>2, <2>3 DEF LifecycleTypeOK, Steps
<1>2. EveryBlockAccounted  BY DEF EveryBlockAccounted, IsNull
<1>3. PhaseNull /\ PhaseSet /\ FilePhase
  BY DEF PhaseNull, PhaseSet, FilePhase, IsNull, Pointers, AfterTable, AfterPool, AfterRewrite,
         AfterRing, AfterStatus
<1>4. ChipPhase /\ EntryPhase
  BY DEF ChipPhase, EntryPhase, Kept, AfterTable, AfterPool, AfterRewrite, AfterRing, AfterStatus
<1> QED  BY <1>1, <1>2, <1>3, <1>4 DEF LifecycleInv

LEMMA PrepareInv ==
  ASSUME LifecycleInv, ~ Overlap, Prepare
  PROVE  LifecycleInv'
<1> USE RingAssumption, MessagesAssumption, BlocksAssumption
    DEF LifecycleInv, Go, IsNull, Steps, Pointers, Entries, Kept, Chips,
        AfterTable, AfterPool, AfterRewrite, AfterRing, AfterStatus, Before, Releasing
<1>1. CASE MapBar2
  <2>1. /\ EveryBlockAccounted' /\ live' \subseteq Blocks
        /\ ptr' \in [Pointers -> Blocks \cup {NoBlock}]
        /\ \A q \in Pointers \ {"bar2"} : ptr'[q] = ptr[q]
    <3>1. CASE Alloc("bar2")  BY <1>1, <3>1, AllocFacts DEF MapBar2, PhaseNull
    <3>2. CASE UNCHANGED <<ptr, live>>
      BY <3>2 DEF EveryBlockAccounted, LifecycleTypeOK
    <3> QED  BY <1>1, <3>1, <3>2 DEF MapBar2
  <2>2. LifecycleTypeOK'  BY <1>1, <2>1 DEF MapBar2, LifecycleTypeOK
  <2>3. PhaseNull' /\ PhaseSet' /\ FilePhase'
    BY <1>1, <2>1 DEF MapBar2, PhaseNull, PhaseSet, FilePhase
  <2>4. ChipPhase'
    BY <1>1, <2>1 DEF MapBar2, ChipPhase, PhaseSet, LifecycleTypeOK
  <2>5. EntryPhase'
    BY <1>1, <2>1 DEF MapBar2, EntryPhase, PhaseNull, PhaseSet, LifecycleTypeOK
  <2> QED  BY <2>1, <2>2, <2>3, <2>4, <2>5
<1>2. CASE MapBar0
  <2>1. /\ EveryBlockAccounted' /\ live' \subseteq Blocks
        /\ ptr' \in [Pointers -> Blocks \cup {NoBlock}]
        /\ \A q \in Pointers \ {"bar0"} : ptr'[q] = ptr[q]
    <3>1. CASE Alloc("bar0")  BY <1>2, <3>1, AllocFacts DEF MapBar0, PhaseNull
    <3>2. CASE UNCHANGED <<ptr, live>>
      BY <3>2 DEF EveryBlockAccounted, LifecycleTypeOK
    <3> QED  BY <1>2, <3>1, <3>2 DEF MapBar0
  <2>2. LifecycleTypeOK'  BY <1>2, <2>1 DEF MapBar0, LifecycleTypeOK
  <2>3. PhaseNull' /\ PhaseSet' /\ FilePhase'
    BY <1>2, <2>1 DEF MapBar0, PhaseNull, PhaseSet, FilePhase
  <2>4. ChipPhase'
    BY <1>2, <2>1 DEF MapBar0, ChipPhase, PhaseSet, LifecycleTypeOK
  <2>5. EntryPhase'
    BY <1>2, <2>1 DEF MapBar0, EntryPhase, PhaseNull, PhaseSet, LifecycleTypeOK
  <2> QED  BY <2>1, <2>2, <2>3, <2>4, <2>5
<1>3. CASE DmaFails
  <2>1. EveryBlockAccounted' /\ UNCHANGED <<ptr, live>>
    BY <1>3 DEF DmaFails, EveryBlockAccounted
  <2>2. LifecycleTypeOK'
    <3>1. adapter' \in BOOLEAN  BY <1>3, Zenon DEF DmaFails, LifecycleTypeOK
    <3> QED  BY <1>3, <2>1, <3>1 DEF DmaFails, LifecycleTypeOK
  <2>3. PhaseNull' /\ PhaseSet' /\ FilePhase'
    BY <1>3, <2>1 DEF DmaFails, PhaseNull, PhaseSet, FilePhase
  <2>4. ChipPhase'
    BY <1>3, <2>1 DEF DmaFails, ChipPhase, PhaseSet, LifecycleTypeOK
  <2>5. EntryPhase'
    BY <1>3, <2>1 DEF DmaFails, EntryPhase, PhaseNull, PhaseSet, LifecycleTypeOK
  <2> QED  BY <2>1, <2>2, <2>3, <2>4, <2>5
<1>4. CASE DmaReady
  <2>1. EveryBlockAccounted' /\ UNCHANGED <<ptr, live>>
    BY <1>4 DEF DmaReady, EveryBlockAccounted
  <2>2. LifecycleTypeOK'  BY <1>4, <2>1 DEF DmaReady, LifecycleTypeOK
  <2>3. PhaseNull' /\ PhaseSet' /\ FilePhase'
    BY <1>4, <2>1 DEF DmaReady, PhaseNull, PhaseSet, FilePhase
  <2>4. ChipPhase'
    BY <1>4, <2>1 DEF DmaReady, ChipPhase, PhaseSet, LifecycleTypeOK
  <2>5. EntryPhase'
    BY <1>4, <2>1 DEF DmaReady, EntryPhase, PhaseNull, PhaseSet, LifecycleTypeOK
  <2> QED  BY <2>1, <2>2, <2>3, <2>4, <2>5
<1>5. CASE SaveMsix
  <2>1. EveryBlockAccounted' /\ UNCHANGED <<ptr, live>>
    BY <1>5 DEF SaveMsix, EveryBlockAccounted
  <2>2. LifecycleTypeOK'  BY <1>5, <2>1 DEF SaveMsix, LifecycleTypeOK
  <2>3. PhaseNull' /\ PhaseSet' /\ FilePhase'
    BY <1>5, <2>1 DEF SaveMsix, PhaseNull, PhaseSet, FilePhase
  <2>4. ChipPhase'
    BY <1>5, <2>1 DEF SaveMsix, ChipPhase, PhaseSet, LifecycleTypeOK
  <2>5. EntryPhase'
    BY <1>5, <2>1 DEF SaveMsix, EntryPhase, PhaseNull, PhaseSet, LifecycleTypeOK
  <2> QED  BY <2>1, <2>2, <2>3, <2>4, <2>5
<1>6. CASE TableFails
  <2>1. EveryBlockAccounted' /\ UNCHANGED <<ptr, live>>
    BY <1>6 DEF TableFails, EveryBlockAccounted
  <2>2. LifecycleTypeOK'  BY <1>6, <2>1 DEF TableFails, LifecycleTypeOK
  <2>3. PhaseNull' /\ PhaseSet' /\ FilePhase'
    BY <1>6, <2>1 DEF TableFails, PhaseNull, PhaseSet, FilePhase
  <2>4. ChipPhase'
    BY <1>6, <2>1 DEF TableFails, ChipPhase, PhaseSet, LifecycleTypeOK
  <2>5. EntryPhase'
    BY <1>6, <2>1 DEF TableFails, EntryPhase, PhaseNull, PhaseSet, LifecycleTypeOK
  <2> QED  BY <2>1, <2>2, <2>3, <2>4, <2>5
<1>7. CASE TableReady
  <2>1. /\ EveryBlockAccounted' /\ live' \subseteq Blocks
        /\ ptr' \in [Pointers -> Blocks \cup {NoBlock}] /\ ptr'["ptbl"] # NoBlock
        /\ \A q \in Pointers \ {"ptbl"} : ptr'[q] = ptr[q]
    BY <1>7, AllocFacts DEF TableReady, PhaseNull
  <2>2. LifecycleTypeOK'  BY <1>7, <2>1 DEF TableReady, NoEntries, LifecycleTypeOK
  <2>3. PhaseNull' /\ PhaseSet' /\ FilePhase'
    BY <1>7, <2>1 DEF TableReady, NoEntries, PhaseNull, PhaseSet, FilePhase
  <2>4. ChipPhase'
    BY <1>7, <2>1 DEF TableReady, NoEntries, ChipPhase, PhaseSet, LifecycleTypeOK
  <2>5. EntryPhase'
    BY <1>7, <2>1 DEF TableReady, NoEntries, EntryPhase, PhaseNull, PhaseSet, LifecycleTypeOK
  <2> QED  BY <2>1, <2>2, <2>3, <2>4, <2>5
<1>8. CASE PoolFails
  <2>1. /\ EveryBlockAccounted' /\ live' \subseteq Blocks
        /\ ptr' \in [Pointers -> Blocks \cup {NoBlock}]
        /\ \A p \in {"ptbl"} : ptr'[p] = NoBlock
        /\ \A p \in Pointers \ {"ptbl"} : ptr'[p] = ptr[p]
    <3>1. {"ptbl"} \in SUBSET Pointers  OBVIOUS
    <3> QED  BY <1>8, <3>1, FreeFacts DEF PoolFails
  <2>2. LifecycleTypeOK'  BY <1>8, <2>1 DEF PoolFails, LifecycleTypeOK
  <2>3. PhaseNull' /\ PhaseSet' /\ FilePhase'
    BY <1>8, <2>1 DEF PoolFails, PhaseNull, PhaseSet, FilePhase
  <2>4. ChipPhase'
    BY <1>8, <2>1 DEF PoolFails, ChipPhase, PhaseSet, LifecycleTypeOK
  <2>5. EntryPhase'
    BY <1>8, <2>1 DEF PoolFails, EntryPhase, PhaseNull, PhaseSet, LifecycleTypeOK
  <2> QED  BY <2>1, <2>2, <2>3, <2>4, <2>5
<1>9. CASE PoolReady
  <2>1. /\ EveryBlockAccounted' /\ live' \subseteq Blocks
        /\ ptr' \in [Pointers -> Blocks \cup {NoBlock}] /\ ptr'["pool"] # NoBlock
        /\ \A q \in Pointers \ {"pool"} : ptr'[q] = ptr[q]
    BY <1>9, AllocFacts DEF PoolReady, PhaseNull
  <2>2. LifecycleTypeOK'  BY <1>9, <2>1 DEF PoolReady, LifecycleTypeOK
  <2>3. PhaseNull' /\ PhaseSet' /\ FilePhase'
    BY <1>9, <2>1 DEF PoolReady, PhaseNull, PhaseSet, FilePhase
  <2>4. ChipPhase'
    BY <1>9, <2>1 DEF PoolReady, ChipPhase, PhaseSet, LifecycleTypeOK
  <2>5. EntryPhase'
    BY <1>9, <2>1 DEF PoolReady, EntryPhase, PhaseNull, PhaseSet, LifecycleTypeOK
  <2> QED  BY <2>1, <2>2, <2>3, <2>4, <2>5
<1>10. CASE LockFails
  <2>1. /\ EveryBlockAccounted' /\ live' \subseteq Blocks
        /\ ptr' \in [Pointers -> Blocks \cup {NoBlock}]
        /\ \A p \in {"ptbl", "pool"} : ptr'[p] = NoBlock
        /\ \A p \in Pointers \ {"ptbl", "pool"} : ptr'[p] = ptr[p]
    <3>1. {"ptbl", "pool"} \in SUBSET Pointers  OBVIOUS
    <3> QED  BY <1>10, <3>1, FreeFacts DEF LockFails
  <2>2. LifecycleTypeOK'  BY <1>10, <2>1 DEF LockFails, LifecycleTypeOK
  <2>3. PhaseNull' /\ PhaseSet' /\ FilePhase'
    BY <1>10, <2>1 DEF LockFails, PhaseNull, PhaseSet, FilePhase
  <2>4. ChipPhase'
    BY <1>10, <2>1 DEF LockFails, ChipPhase, PhaseSet, LifecycleTypeOK
  <2>5. EntryPhase'
    BY <1>10, <2>1 DEF LockFails, EntryPhase, PhaseNull, PhaseSet, LifecycleTypeOK
  <2> QED  BY <2>1, <2>2, <2>3, <2>4, <2>5
<1>11. CASE LockReady
  <2>1. EveryBlockAccounted' /\ UNCHANGED <<ptr, live>>
    BY <1>11 DEF LockReady, EveryBlockAccounted
  <2>2. LifecycleTypeOK'  BY <1>11, <2>1 DEF LockReady, LifecycleTypeOK
  <2>3. PhaseNull' /\ PhaseSet' /\ FilePhase'
    BY <1>11, <2>1 DEF LockReady, PhaseNull, PhaseSet, FilePhase
  <2>4. ChipPhase'
    BY <1>11, <2>1 DEF LockReady, ChipPhase, PhaseSet, LifecycleTypeOK
  <2>5. EntryPhase'
    BY <1>11, <2>1 DEF LockReady, EntryPhase, PhaseNull, PhaseSet, LifecycleTypeOK
  <2> QED  BY <2>1, <2>2, <2>3, <2>4, <2>5
<1>12. CASE Reset
  <2>1. EveryBlockAccounted' /\ UNCHANGED <<ptr, live>>
    BY <1>12 DEF Reset, Wiped, NoEntries, EveryBlockAccounted
  <2>2. LifecycleTypeOK'
    <3>1. PICK w \in SUBSET Wipes : /\ chip' = Wiped(chip, w)
                                    /\ entry' = IF "table" \in w THEN NoEntries ELSE entry
      BY <1>12 DEF Reset
    <3>2. chip' \in Chips  BY <3>1, WipedIsChip DEF LifecycleTypeOK
    <3> QED  BY <1>12, <2>1, <3>1, <3>2 DEF Reset, NoEntries, LifecycleTypeOK
  <2>3. PhaseNull' /\ PhaseSet' /\ FilePhase'
    BY <1>12, <2>1 DEF Reset, Wiped, NoEntries, PhaseNull, PhaseSet, FilePhase
  <2>4. ChipPhase'
    BY <1>12, <2>1 DEF Reset, Wiped, NoEntries, ChipPhase, PhaseSet, LifecycleTypeOK
  <2>5. EntryPhase'
    BY <1>12, <2>1 DEF Reset, Wiped, NoEntries, EntryPhase, PhaseNull, PhaseSet, LifecycleTypeOK
  <2> QED  BY <2>1, <2>2, <2>3, <2>4, <2>5
<1>13. CASE Rewrite
  <2>1. EveryBlockAccounted' /\ UNCHANGED <<ptr, live>>
    BY <1>13 DEF Rewrite, EveryBlockAccounted
  <2>2. LifecycleTypeOK'  BY <1>13, <2>1 DEF Rewrite, LifecycleTypeOK
  <2>3. PhaseNull' /\ PhaseSet' /\ FilePhase'
    BY <1>13, <2>1 DEF Rewrite, PhaseNull, PhaseSet, FilePhase
  <2>4. ChipPhase'
    BY <1>13, <2>1 DEF Rewrite, ChipPhase, PhaseSet, LifecycleTypeOK
  <2>5. EntryPhase'
    BY <1>13, <2>1 DEF Rewrite, EntryPhase, PhaseNull, PhaseSet, LifecycleTypeOK
  <2> QED  BY <2>1, <2>2, <2>3, <2>4, <2>5
<1>14. CASE RingFails
  <2>1. EveryBlockAccounted' /\ UNCHANGED <<ptr, live>>
    BY <1>14 DEF RingFails, EveryBlockAccounted
  <2>2. LifecycleTypeOK'  BY <1>14, <2>1 DEF RingFails, LifecycleTypeOK
  <2>3. PhaseNull' /\ PhaseSet' /\ FilePhase'
    BY <1>14, <2>1 DEF RingFails, PhaseNull, PhaseSet, FilePhase
  <2>4. ChipPhase'
    BY <1>14, <2>1 DEF RingFails, ChipPhase, PhaseSet, LifecycleTypeOK
  <2>5. EntryPhase'
    BY <1>14, <2>1 DEF RingFails, EntryPhase, PhaseNull, PhaseSet, LifecycleTypeOK
  <2> QED  BY <2>1, <2>2, <2>3, <2>4, <2>5
<1>15. CASE RingReady
  <2>1. /\ EveryBlockAccounted' /\ live' \subseteq Blocks
        /\ ptr' \in [Pointers -> Blocks \cup {NoBlock}] /\ ptr'["ring"] # NoBlock
        /\ \A q \in Pointers \ {"ring"} : ptr'[q] = ptr[q]
    BY <1>15, AllocFacts DEF RingReady, PhaseNull
  <2>2. LifecycleTypeOK'  BY <1>15, <2>1 DEF RingReady, LifecycleTypeOK
  <2>3. PhaseNull' /\ PhaseSet' /\ FilePhase'
    BY <1>15, <2>1 DEF RingReady, PhaseNull, PhaseSet, FilePhase
  <2>4. ChipPhase'
    BY <1>15, <2>1 DEF RingReady, ChipPhase, PhaseSet, LifecycleTypeOK
  <2>5. EntryPhase'
    BY <1>15, <2>1 DEF RingReady, EntryPhase, PhaseNull, PhaseSet, LifecycleTypeOK
  <2> QED  BY <2>1, <2>2, <2>3, <2>4, <2>5
<1>16. CASE StatusFails
  <2>1. /\ EveryBlockAccounted' /\ live' \subseteq Blocks
        /\ ptr' \in [Pointers -> Blocks \cup {NoBlock}]
        /\ \A p \in {"ring"} : ptr'[p] = NoBlock
        /\ \A p \in Pointers \ {"ring"} : ptr'[p] = ptr[p]
    <3>1. {"ring"} \in SUBSET Pointers  OBVIOUS
    <3> QED  BY <1>16, <3>1, FreeFacts DEF StatusFails
  <2>2. LifecycleTypeOK'  BY <1>16, <2>1 DEF StatusFails, LifecycleTypeOK
  <2>3. PhaseNull' /\ PhaseSet' /\ FilePhase'
    BY <1>16, <2>1 DEF StatusFails, PhaseNull, PhaseSet, FilePhase
  <2>4. ChipPhase'
    BY <1>16, <2>1 DEF StatusFails, ChipPhase, PhaseSet, LifecycleTypeOK
  <2>5. EntryPhase'
    BY <1>16, <2>1 DEF StatusFails, EntryPhase, PhaseNull, PhaseSet, LifecycleTypeOK
  <2> QED  BY <2>1, <2>2, <2>3, <2>4, <2>5
<1>17. CASE StatusReady
  <2>1. /\ EveryBlockAccounted' /\ live' \subseteq Blocks
        /\ ptr' \in [Pointers -> Blocks \cup {NoBlock}] /\ ptr'["status"] # NoBlock
        /\ \A q \in Pointers \ {"status"} : ptr'[q] = ptr[q]
    BY <1>17, AllocFacts DEF StatusReady, PhaseNull
  <2>2. LifecycleTypeOK'  BY <1>17, <2>1 DEF StatusReady, LifecycleTypeOK
  <2>3. PhaseNull' /\ PhaseSet' /\ FilePhase'
    BY <1>17, <2>1 DEF StatusReady, PhaseNull, PhaseSet, FilePhase
  <2>4. ChipPhase'
    BY <1>17, <2>1 DEF StatusReady, ChipPhase, PhaseSet, LifecycleTypeOK
  <2>5. EntryPhase'
    BY <1>17, <2>1 DEF StatusReady, EntryPhase, PhaseNull, PhaseSet, LifecycleTypeOK
  <2> QED  BY <2>1, <2>2, <2>3, <2>4, <2>5
<1>18. CASE QueueOn
  <2>1. EveryBlockAccounted' /\ UNCHANGED <<ptr, live>>
    BY <1>18 DEF QueueOn, EveryBlockAccounted
  <2>2. LifecycleTypeOK'  BY <1>18, <2>1 DEF QueueOn, LifecycleTypeOK
  <2>3. PhaseNull' /\ PhaseSet' /\ FilePhase'
    BY <1>18, <2>1 DEF QueueOn, PhaseNull, PhaseSet, FilePhase
  <2>4. ChipPhase'
    BY <1>18, <2>1 DEF QueueOn, ChipPhase, PhaseSet, LifecycleTypeOK
  <2>5. EntryPhase'
    BY <1>18, <2>1 DEF QueueOn, EntryPhase, PhaseNull, PhaseSet, LifecycleTypeOK
  <2> QED  BY <2>1, <2>2, <2>3, <2>4, <2>5
<1>19. CASE EnginesOn
  <2>1. EveryBlockAccounted' /\ UNCHANGED <<ptr, live>>
    BY <1>19 DEF EnginesOn, EveryBlockAccounted
  <2>2. LifecycleTypeOK'  BY <1>19, <2>1 DEF EnginesOn, LifecycleTypeOK
  <2>3. PhaseNull' /\ PhaseSet' /\ FilePhase'
    BY <1>19, <2>1 DEF EnginesOn, PhaseNull, PhaseSet, FilePhase
  <2>4. ChipPhase'
    BY <1>19, <2>1 DEF EnginesOn, ChipPhase, PhaseSet, LifecycleTypeOK
  <2>5. EntryPhase'
    BY <1>19, <2>1 DEF EnginesOn, EntryPhase, FilePhase, PhaseNull, PhaseSet, LifecycleTypeOK
  <2> QED  BY <2>1, <2>2, <2>3, <2>4, <2>5
<1> QED  BY <1>1, <1>2, <1>3, <1>4, <1>5, <1>6, <1>7, <1>8, <1>9, <1>10, <1>11, <1>12, <1>13, <1>14, <1>15, <1>16, <1>17, <1>18, <1>19 DEF Prepare

LEMMA ReleaseInv ==
  ASSUME LifecycleInv, ~ Overlap, Release
  PROVE  LifecycleInv'
<1> USE RingAssumption, MessagesAssumption, BlocksAssumption
    DEF LifecycleInv, Go, IsNull, Steps, Pointers, Entries, Kept, Chips,
        AfterTable, AfterPool, AfterRewrite, AfterRing, AfterStatus, Before, Releasing
<1>1. CASE ReleaseTable
  <2>1. /\ EveryBlockAccounted' /\ live' \subseteq Blocks
        /\ ptr' \in [Pointers -> Blocks \cup {NoBlock}]
        /\ \A p \in {"model", "pool", "ptbl"} : ptr'[p] = NoBlock
        /\ \A p \in Pointers \ {"model", "pool", "ptbl"} : ptr'[p] = ptr[p]
    <3>1. {"model", "pool", "ptbl"} \in SUBSET Pointers  OBVIOUS
    <3> QED  BY <1>1, <3>1, FreeFacts DEF ReleaseTable
  <2>2. LifecycleTypeOK'  BY <1>1, <2>1 DEF ReleaseTable, LifecycleTypeOK
  <2>3. PhaseNull' /\ PhaseSet' /\ FilePhase'
    BY <1>1, <2>1 DEF ReleaseTable, PhaseNull, PhaseSet, FilePhase
  <2>4. ChipPhase'
    BY <1>1, <2>1 DEF ReleaseTable, ChipPhase, PhaseSet, LifecycleTypeOK
  <2>5. EntryPhase'
    BY <1>1, <2>1 DEF ReleaseTable, EntryPhase, PhaseNull, PhaseSet, LifecycleTypeOK
  <2> QED  BY <2>1, <2>2, <2>3, <2>4, <2>5
<1>2. CASE ReleaseRing
  <2>1. /\ EveryBlockAccounted' /\ live' \subseteq Blocks
        /\ ptr' \in [Pointers -> Blocks \cup {NoBlock}]
        /\ \A p \in {"ring"} : ptr'[p] = NoBlock
        /\ \A p \in Pointers \ {"ring"} : ptr'[p] = ptr[p]
    <3>1. {"ring"} \in SUBSET Pointers  OBVIOUS
    <3> QED  BY <1>2, <3>1, FreeFacts DEF ReleaseRing
  <2>2. LifecycleTypeOK'  BY <1>2, <2>1 DEF ReleaseRing, LifecycleTypeOK
  <2>3. PhaseNull' /\ PhaseSet' /\ FilePhase'
    BY <1>2, <2>1 DEF ReleaseRing, PhaseNull, PhaseSet, FilePhase
  <2>4. ChipPhase'
    BY <1>2, <2>1 DEF ReleaseRing, ChipPhase, PhaseSet, LifecycleTypeOK
  <2>5. EntryPhase'
    BY <1>2, <2>1 DEF ReleaseRing, EntryPhase, PhaseNull, PhaseSet, LifecycleTypeOK
  <2> QED  BY <2>1, <2>2, <2>3, <2>4, <2>5
<1>3. CASE ReleaseStatus
  <2>1. /\ EveryBlockAccounted' /\ live' \subseteq Blocks
        /\ ptr' \in [Pointers -> Blocks \cup {NoBlock}]
        /\ \A p \in {"status"} : ptr'[p] = NoBlock
        /\ \A p \in Pointers \ {"status"} : ptr'[p] = ptr[p]
    <3>1. {"status"} \in SUBSET Pointers  OBVIOUS
    <3> QED  BY <1>3, <3>1, FreeFacts DEF ReleaseStatus
  <2>2. LifecycleTypeOK'  BY <1>3, <2>1 DEF ReleaseStatus, LifecycleTypeOK
  <2>3. PhaseNull' /\ PhaseSet' /\ FilePhase'
    BY <1>3, <2>1 DEF ReleaseStatus, PhaseNull, PhaseSet, FilePhase
  <2>4. ChipPhase'
    BY <1>3, <2>1 DEF ReleaseStatus, ChipPhase, PhaseSet, LifecycleTypeOK
  <2>5. EntryPhase'
    BY <1>3, <2>1 DEF ReleaseStatus, EntryPhase, PhaseNull, PhaseSet, LifecycleTypeOK
  <2> QED  BY <2>1, <2>2, <2>3, <2>4, <2>5
<1>4. CASE ReleaseBars
  <2>1. /\ EveryBlockAccounted' /\ live' \subseteq Blocks
        /\ ptr' \in [Pointers -> Blocks \cup {NoBlock}]
        /\ \A p \in {"bar2", "bar0"} : ptr'[p] = NoBlock
        /\ \A p \in Pointers \ {"bar2", "bar0"} : ptr'[p] = ptr[p]
    <3>1. {"bar2", "bar0"} \in SUBSET Pointers  OBVIOUS
    <3> QED  BY <1>4, <3>1, FreeFacts DEF ReleaseBars
  <2>2. LifecycleTypeOK'  BY <1>4, <2>1 DEF ReleaseBars, LifecycleTypeOK
  <2>3. PhaseNull' /\ PhaseSet' /\ FilePhase'
    BY <1>4, <2>1 DEF ReleaseBars, PhaseNull, PhaseSet, FilePhase
  <2>4. ChipPhase'
    BY <1>4, <2>1 DEF ReleaseBars, ChipPhase, PhaseSet, LifecycleTypeOK
  <2>5. EntryPhase'
    BY <1>4, <2>1 DEF ReleaseBars, EntryPhase, PhaseNull, PhaseSet, LifecycleTypeOK
  <2> QED  BY <2>1, <2>2, <2>3, <2>4, <2>5
<1> QED  BY <1>1, <1>2, <1>3, <1>4 DEF Release

LEMMA ClientInv ==
  ASSUME LifecycleInv, ~ Overlap, Client
  PROVE  LifecycleInv'
<1> USE RingAssumption, MessagesAssumption, BlocksAssumption
    DEF LifecycleInv, Go, IsNull, Steps, Pointers, Entries, Kept, Chips,
        AfterTable, AfterPool, AfterRewrite, AfterRing, AfterStatus, Before, Releasing
<1>1. CASE Open
  <2>1. EveryBlockAccounted' /\ UNCHANGED <<ptr, live>>
    BY <1>1 DEF Open, driver, Serving, EveryBlockAccounted
  <2>2. LifecycleTypeOK'  BY <1>1, <2>1 DEF Open, driver, Serving, LifecycleTypeOK
  <2>3. PhaseNull' /\ PhaseSet' /\ FilePhase'
    BY <1>1, <2>1 DEF Open, driver, Serving, PhaseNull, PhaseSet, FilePhase
  <2>4. ChipPhase'
    BY <1>1, <2>1 DEF Open, driver, Serving, ChipPhase, PhaseSet, LifecycleTypeOK
  <2>5. EntryPhase'
    BY <1>1, <2>1 DEF Open, driver, Serving, EntryPhase, PhaseNull, PhaseSet, LifecycleTypeOK
  <2> QED  BY <2>1, <2>2, <2>3, <2>4, <2>5
<1>2. CASE Grant
  <2>1. /\ EveryBlockAccounted' /\ live' \subseteq Blocks
        /\ ptr' \in [Pointers -> Blocks \cup {NoBlock}] /\ ptr'["slot"] # NoBlock
        /\ \A q \in Pointers \ {"slot"} : ptr'[q] = ptr[q]
    BY <1>2, AllocFacts DEF Grant, PhaseNull
  <2>2. LifecycleTypeOK'  BY <1>2, <2>1 DEF Grant, Serving, LifecycleTypeOK
  <2>3. PhaseNull' /\ PhaseSet' /\ FilePhase'
    BY <1>2, <2>1 DEF Grant, Serving, PhaseNull, PhaseSet, FilePhase
  <2>4. ChipPhase'
    BY <1>2, <2>1 DEF Grant, Serving, ChipPhase, PhaseSet, LifecycleTypeOK
  <2>5. EntryPhase'
    BY <1>2, <2>1 DEF Grant, Serving, EntryPhase, PhaseNull, PhaseSet, LifecycleTypeOK
  <2> QED  BY <2>1, <2>2, <2>3, <2>4, <2>5
<1>3. CASE TakeBack
  <2>1. /\ EveryBlockAccounted' /\ live' \subseteq Blocks
        /\ ptr' \in [Pointers -> Blocks \cup {NoBlock}]
        /\ \A p \in {"slot"} : ptr'[p] = NoBlock
        /\ \A p \in Pointers \ {"slot"} : ptr'[p] = ptr[p]
    <3>1. {"slot"} \in SUBSET Pointers  OBVIOUS
    <3> QED  BY <1>3, <3>1, FreeFacts DEF TakeBack
  <2>2. LifecycleTypeOK'  BY <1>3, <2>1 DEF TakeBack, Serving, LifecycleTypeOK
  <2>3. PhaseNull' /\ PhaseSet' /\ FilePhase'
    BY <1>3, <2>1 DEF TakeBack, Serving, PhaseNull, PhaseSet, FilePhase
  <2>4. ChipPhase'
    BY <1>3, <2>1 DEF TakeBack, Serving, ChipPhase, PhaseSet, LifecycleTypeOK
  <2>5. EntryPhase'
    BY <1>3, <2>1 DEF TakeBack, Serving, EntryPhase, PhaseNull, PhaseSet, LifecycleTypeOK
  <2> QED  BY <2>1, <2>2, <2>3, <2>4, <2>5
<1>4. CASE MapModel
  <2>1. /\ EveryBlockAccounted' /\ live' \subseteq Blocks
        /\ ptr' \in [Pointers -> Blocks \cup {NoBlock}] /\ ptr'["model"] # NoBlock
        /\ \A q \in Pointers \ {"model"} : ptr'[q] = ptr[q]
    BY <1>4, AllocFacts DEF MapModel, PhaseNull
  <2>2. LifecycleTypeOK'  BY <1>4, <2>1 DEF MapModel, Serving, LifecycleTypeOK
  <2>3. PhaseNull' /\ PhaseSet' /\ FilePhase'
    BY <1>4, <2>1 DEF MapModel, Serving, PhaseNull, PhaseSet, FilePhase
  <2>4. ChipPhase'
    BY <1>4, <2>1 DEF MapModel, Serving, ChipPhase, PhaseSet, LifecycleTypeOK
  <2>5. EntryPhase'
    BY <1>4, <2>1 DEF MapModel, Serving, EntryPhase, PhaseNull, PhaseSet, LifecycleTypeOK
  <2> QED  BY <2>1, <2>2, <2>3, <2>4, <2>5
<1>5. CASE Submit
  <2>1. EveryBlockAccounted' /\ UNCHANGED <<ptr, live>>
    BY <1>5 DEF Submit, Serving, EveryBlockAccounted
  <2>2. LifecycleTypeOK'  BY <1>5, <2>1 DEF Submit, Serving, LifecycleTypeOK
  <2>3. PhaseNull' /\ PhaseSet' /\ FilePhase'
    BY <1>5, <2>1 DEF Submit, Serving, PhaseNull, PhaseSet, FilePhase
  <2>4. ChipPhase'
    BY <1>5, <2>1 DEF Submit, Serving, ChipPhase, PhaseSet, LifecycleTypeOK
  <2>5. EntryPhase'
    BY <1>5, <2>1 DEF Submit, Serving, EntryPhase, PhaseNull, PhaseSet, LifecycleTypeOK
  <2> QED  BY <2>1, <2>2, <2>3, <2>4, <2>5
<1>6. CASE Close
  <2>1. /\ EveryBlockAccounted' /\ live' \subseteq Blocks
        /\ ptr' \in [Pointers -> Blocks \cup {NoBlock}]
        /\ \A p \in {"model"} : ptr'[p] = NoBlock
        /\ \A p \in Pointers \ {"model"} : ptr'[p] = ptr[p]
    <3>1. {"model"} \in SUBSET Pointers  OBVIOUS
    <3> QED  BY <1>6, <3>1, FreeFacts DEF Close
  <2>2. LifecycleTypeOK'  BY <1>6, <2>1 DEF Close, LifecycleTypeOK
  <2>3. PhaseNull' /\ PhaseSet' /\ FilePhase'
    BY <1>6, <2>1 DEF Close, PhaseNull, PhaseSet, FilePhase
  <2>4. ChipPhase'
    BY <1>6, <2>1 DEF Close, ChipPhase, PhaseSet, LifecycleTypeOK
  <2>5. EntryPhase'
    BY <1>6, <2>1 DEF Close, EntryPhase, PhaseNull, PhaseSet, LifecycleTypeOK
  <2> QED  BY <2>1, <2>2, <2>3, <2>4, <2>5
<1>7. CASE CheckSlot
  <2>1. EveryBlockAccounted' /\ UNCHANGED <<ptr, live>>
    BY <1>7 DEF CheckSlot, driver, EveryBlockAccounted
  <2>2. LifecycleTypeOK'  BY <1>7, <2>1 DEF CheckSlot, driver, LifecycleTypeOK
  <2>3. PhaseNull' /\ PhaseSet' /\ FilePhase'
    BY <1>7, <2>1 DEF CheckSlot, driver, PhaseNull, PhaseSet, FilePhase
  <2>4. ChipPhase'
    BY <1>7, <2>1 DEF CheckSlot, driver, ChipPhase, PhaseSet, LifecycleTypeOK
  <2>5. EntryPhase'
    BY <1>7, <2>1 DEF CheckSlot, driver, EntryPhase, PhaseNull, PhaseSet, LifecycleTypeOK
  <2> QED  BY <2>1, <2>2, <2>3, <2>4, <2>5
<1>8. CASE ClearSlot
  <2>1. EveryBlockAccounted' /\ UNCHANGED <<ptr, live>>
    BY <1>8 DEF ClearSlot, driver, EveryBlockAccounted
  <2>2. LifecycleTypeOK'  BY <1>8, <2>1 DEF ClearSlot, driver, LifecycleTypeOK
  <2>3. PhaseNull' /\ PhaseSet' /\ FilePhase'
    BY <1>8, <2>1 DEF ClearSlot, driver, PhaseNull, PhaseSet, FilePhase
  <2>4. ChipPhase'
    BY <1>8, <2>1 DEF ClearSlot, driver, ChipPhase, PhaseSet, LifecycleTypeOK
  <2>5. EntryPhase'
    BY <1>8, <2>1 DEF ClearSlot, driver, EntryPhase, PhaseNull, PhaseSet, LifecycleTypeOK
  <2> QED  BY <2>1, <2>2, <2>3, <2>4, <2>5
<1>9. CASE FreeSlot
  <2>1. /\ EveryBlockAccounted' /\ live' \subseteq Blocks
        /\ ptr' \in [Pointers -> Blocks \cup {NoBlock}]
        /\ \A p \in {"slot"} : ptr'[p] = NoBlock
        /\ \A p \in Pointers \ {"slot"} : ptr'[p] = ptr[p]
    <3>1. {"slot"} \in SUBSET Pointers  OBVIOUS
    <3> QED  BY <1>9, <3>1, FreeFacts DEF FreeSlot
  <2>2. LifecycleTypeOK'  BY <1>9, <2>1 DEF FreeSlot, LifecycleTypeOK
  <2>3. PhaseNull' /\ PhaseSet' /\ FilePhase'
    BY <1>9, <2>1 DEF FreeSlot, PhaseNull, PhaseSet, FilePhase
  <2>4. ChipPhase'
    BY <1>9, <2>1 DEF FreeSlot, ChipPhase, PhaseSet, LifecycleTypeOK
  <2>5. EntryPhase'
    BY <1>9, <2>1 DEF FreeSlot, EntryPhase, FilePhase, PhaseNull, PhaseSet, LifecycleTypeOK
  <2> QED  BY <2>1, <2>2, <2>3, <2>4, <2>5
<1> QED  BY <1>1, <1>2, <1>3, <1>4, <1>5, <1>6, <1>7, <1>8, <1>9 DEF Client

LEMMA LosePowerInv ==
  ASSUME LifecycleInv, LosePower
  PROVE  LifecycleInv'
<1> USE RingAssumption, MessagesAssumption, BlocksAssumption
    DEF LifecycleInv, IsNull, Steps, Pointers, Entries, Kept, LosePower, driver, NoEntries, PowerOn,
        AfterTable, AfterPool, AfterRewrite, AfterRing, AfterStatus, Before, Releasing
<1>1. EveryBlockAccounted' /\ UNCHANGED <<ptr, live>>  BY DEF EveryBlockAccounted
<1>2. LifecycleTypeOK'
  <2>1. PowerOn \in Chips  BY PowerOnIsChip
  <2>2. NoEntries \in [Entries -> Blocks \cup {NoBlock}]  OBVIOUS
  <2> HIDE DEF PowerOn, NoEntries
  <2> QED  BY <2>1, <2>2 DEF LifecycleTypeOK
<1>3. PhaseNull' /\ PhaseSet' /\ FilePhase'  BY DEF PhaseNull, PhaseSet, FilePhase
<1>4. ChipPhase'  BY DEF ChipPhase
<1>5. EntryPhase'  BY DEF EntryPhase, PhaseNull, PhaseSet, LifecycleTypeOK
<1> QED  BY <1>1, <1>2, <1>3, <1>4, <1>5

LEMMA LifecycleStutter ==
  ASSUME LifecycleInv, UNCHANGED lifecycleVars
  PROVE  LifecycleInv'
  BY DEF lifecycleVars, driver, LifecycleInv, LifecycleTypeOK, EveryBlockAccounted, PhaseNull, PhaseSet,
         FilePhase, ChipPhase, EntryPhase, IsNull, Kept

\* The invariant, when file cleanups and PnP callbacks exclude each other.
THEOREM LifecycleInvariant ==
  ASSUME ~ Overlap
  PROVE  LifecycleSpec => []LifecycleInv
<1>1. LifecycleInv /\ [LifecycleNext]_lifecycleVars => LifecycleInv'
  BY PrepareInv, ReleaseInv, ClientInv, LosePowerInv, LifecycleStutter DEF LifecycleNext
<1> QED  BY <1>1, LifecycleInitInv, PTL DEF LifecycleSpec

\* Every variable keeps its type.
THEOREM LifecycleTypeCorrect ==
  ASSUME ~ Overlap
  PROVE  LifecycleSpec => []LifecycleTypeOK
<1>1. LifecycleInv => LifecycleTypeOK  BY DEF LifecycleInv
<1> QED  BY <1>1, LifecycleInvariant, PTL

\* EveryBlockAccounted: nothing is lost or freed twice, whatever fails.
THEOREM BlocksAccounted ==
  ASSUME ~ Overlap
  PROVE  LifecycleSpec => []EveryBlockAccounted
<1>1. LifecycleInv => EveryBlockAccounted  BY DEF LifecycleInv
<1> QED  BY <1>1, LifecycleInvariant, PTL

\* StoppedHoldsNothing: ReleaseHardware and the file cleanup give everything back.
THEOREM StoppedIsEmpty ==
  ASSUME ~ Overlap
  PROVE  LifecycleSpec => []StoppedHoldsNothing
<1>1. LifecycleInv => StoppedHoldsNothing
  <2> SUFFICES ASSUME LifecycleInv, pnp = "stopped"
               PROVE  live \subseteq {ptr["slot"]} /\ (file = "closed" => live = {})
    BY DEF StoppedHoldsNothing
  <2>1. \A p \in Pointers \ {"slot"} : ptr[p] = NoBlock
    BY DEF LifecycleInv, PhaseNull, IsNull, Pointers, Before, Releasing, AfterRing, AfterStatus
  <2>2. live \subseteq {ptr["slot"]} \ {NoBlock}
    BY <2>1 DEF LifecycleInv, EveryBlockAccounted
  <2> QED  BY <2>2 DEF LifecycleInv, FilePhase, IsNull
<1> QED  BY <1>1, LifecycleInvariant, PTL

\* StartedIsReady: after a successful PrepareHardware the chip is set up in full.
THEOREM StartedReady ==
  ASSUME ~ Overlap
  PROVE  LifecycleSpec => []StartedIsReady
<1>1. LifecycleInv => StartedIsReady
  BY DEF LifecycleInv, StartedIsReady, PhaseSet, ChipPhase, EntryPhase, Kept, IsNull,
         AfterTable, AfterPool, AfterRewrite, AfterRing, AfterStatus
<1> QED  BY <1>1, LifecycleInvariant, PTL

\* NoStrayEntry: whatever earlier starts left in the tables is gone.
THEOREM NoStray ==
  ASSUME ~ Overlap
  PROVE  LifecycleSpec => []NoStrayEntry
<1>1. LifecycleInv => NoStrayEntry
  BY DEF LifecycleInv, NoStrayEntry, EntryPhase, Entries,
         AfterTable, AfterPool, AfterRewrite, AfterRing, AfterStatus
<1> QED  BY <1>1, LifecycleInvariant, PTL

\* TouchesMapped: no register is written through an unmapped BAR2.
THEOREM RegistersMapped ==
  ASSUME ~ Overlap
  PROVE  LifecycleSpec => []TouchesMapped
<1>1. LifecycleInv => TouchesMapped
  BY DEF LifecycleInv, TouchesMapped, PhaseSet, FilePhase, IsNull,
         AfterTable, AfterPool, AfterRewrite, AfterRing, AfterStatus
<1> QED  BY <1>1, LifecycleInvariant, PTL

\* The conversion of Hardware.h and its inverse: exact for every ADC value.
THEOREM TemperatureInverse ==
  \A adc \in AdcValues : millic_to_adc(adc_to_millic(adc)) = adc
<1> SUFFICES ASSUME NEW adc \in AdcValues
             PROVE  millic_to_adc(adc_to_millic(adc)) = adc
  OBVIOUS
<1>1. 550 - adc_to_millic(adc) = 250 * (adc - 662)
  BY DEF adc_to_millic, AdcValues
<1>2. Truncated(250 * (adc - 662), 250) = adc - 662
  BY DEF Truncated, AdcValues
<1> QED  BY <1>1, <1>2 DEF millic_to_adc, AdcValues
=============================================================================

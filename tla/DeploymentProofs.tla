-------------------------- MODULE DeploymentProofs --------------------------
(***************************************************************************)
(* Proofs about Deployment, for any set of model files, and about the      *)
(* patching of bitstreams (ModelPatch), for any fields.                    *)
(*                                                                         *)
(* The argument for Deployment: ALLOC grants exactly the slots that were   *)
(* asked for (Granting), at pages that are all different; pieces that end  *)
(* before the slot behind them keep their entries, in whatever order ALLOC *)
(* writes them (SlotBacked); and what has been copied and patched is what  *)
(* the steps so far have copied and patched (Copied, Linked).              *)
(***************************************************************************)
EXTENDS Deployment, ModelPatch, SequenceTheorems, TLAPS

\* The device addresses of the slots: pages, all different.
LEMMA DeviceVaPages == \A s \in Slots : DeviceVa[s] \in Nat
  BY DEF DeviceVa, Slots, INPUT, OUTPUT_BBOX, OUTPUT_SCORE, SCRATCH, EXE0_BS, PARAM_DATA,
         EXE1_BS

LEMMA DeviceVaDistinct ==
  \A s, t \in Slots : s # t => DeviceVa[s] # DeviceVa[t]
  BY DEF DeviceVa, Slots, INPUT, OUTPUT_BBOX, OUTPUT_SCORE, SCRATCH, EXE0_BS, PARAM_DATA,
         EXE1_BS

LEMMA ReservedPages == Reserved \subseteq Nat
  BY DEF Reserved

\* What a client asks for are sizes.
LEMMA PagesAreSizes ==
  ASSUME NEW m \in ModelFiles, m.inputs # <<>>
  PROVE  Pages(m) \in [Slots -> Nat]
<1>1. /\ m.bitstream \in Nat /\ m.exe0_parameters \in Nat /\ m.scratch \in Nat
      /\ m.param_bitstream \in Nat /\ m.parameters \in Nat
      /\ m.inputs \in Seq(Nat) /\ m.outputs \in Seq([name : STRING, pages : Nat])
  BY DEF ModelFiles
<1>2. m.inputs[1] \in Nat
  BY <1>1, EmptySeq
<1>3. OutputPages(m, 1) \in Nat /\ OutputPages(m, 2) \in Nat
  <2>1. ASSUME NEW n \in {1, 2} PROVE OutputPages(m, n) \in Nat
    <3>1. CASE Len(m.outputs) >= n
      <4>1. n \in 1 .. Len(m.outputs)
        BY <1>1, <3>1, LenProperties
      <4>2. m.outputs[n] \in [name : STRING, pages : Nat]
        BY <1>1, <4>1, ElementOfSeq
      <4> QED  BY <3>1, <4>2 DEF OutputPages
    <3>2. CASE ~ (Len(m.outputs) >= n)  BY <3>2 DEF OutputPages
    <3> QED  BY <3>1, <3>2
  <2> QED  BY <2>1
<1> QED  BY <1>1, <1>2, <1>3 DEF Pages

(***************************************************************************)
(* The page table: which slot a page of a slot leads to.                   *)
(***************************************************************************)
LEMMA SlotBacked ==
  ASSUME Pages(model) \in [Slots -> Nat], asked = Pages(model), Fits(model),
         granted \subseteq Slots, \A s \in Slots : s \in granted <=> asked[s] > 0,
         NEW s \in Slots
  PROVE  Backed(DeviceVa[s], s)
<1> SUFFICES ASSUME NEW j \in 0 .. asked[s] - 1
             PROVE  /\ DeviceVa[s] + j \notin Reserved
                    /\ Reaches(DeviceVa[s] + j, s)
  BY DEF Backed
<1> DEFINE p == DeviceVa[s] + j
<1>1. /\ asked[s] \in Nat /\ asked[s] > 0 /\ j \in Nat /\ j < asked[s]
      /\ DeviceVa[s] \in Nat /\ p \in Nat
  BY DeviceVaPages
<1>2. p \notin Reserved
  <2>1. SUFFICES ASSUME NEW r \in Reserved, p = r PROVE FALSE
    BY <1>1
  <2>2. DeviceVa[s] <= r => DeviceVa[s] + asked[s] <= r
    BY DEF Fits
  <2> QED  BY <1>1, <2>1, <2>2
<1>3. s \in granted /\ Covers(s, p)
  BY <1>1 DEF Covers
<1>4. ASSUME NEW t \in granted, s < t PROVE ~ Covers(t, p)
  <2>1. /\ t \in Slots /\ asked[t] \in Nat /\ asked[t] > 0 /\ DeviceVa[t] \in Nat
        /\ t # s /\ s \in Slots
    BY <1>4, DeviceVaPages DEF Slots
  <2>2. CASE DeviceVa[t] > DeviceVa[s]
    <3>1. DeviceVa[t] \in Behind(s, model)
      BY <2>1, <2>2 DEF Behind
    <3>2. DeviceVa[s] + asked[s] <= DeviceVa[t]
      BY <1>1, <2>1, <2>2, <3>1 DEF Fits
    <3> QED  BY <1>1, <2>1, <3>2 DEF Covers
  <2>3. CASE DeviceVa[s] > DeviceVa[t]
    <3>1. DeviceVa[s] \in Behind(t, model)
      BY <1>1, <2>1, <2>3 DEF Behind
    <3>2. DeviceVa[t] + asked[t] <= DeviceVa[s]
      BY <1>1, <2>1, <2>3, <3>1 DEF Fits
    <3> QED  BY <1>1, <2>1, <3>2 DEF Covers
  <2> QED  BY <1>1, <2>1, <2>2, <2>3, DeviceVaDistinct
<1> QED  BY <1>2, <1>3, <1>4 DEF Reaches

(***************************************************************************)
(* The invariant.                                                          *)
(***************************************************************************)
Deployable == {"alloc", "copy", "patch1", "patch0", "ready"}

\* An accepted model has an input and an output; ALLOC is asked for its pieces.
Asking ==
  /\ deployPc \in Deployable \cup {"open"} => model.inputs # <<>>
  /\ deployPc \in Deployable => asked = Pages(model)

Granting ==
  /\ granted \subseteq Slots
  /\ deployPc = "alloc" => \A s \in Slots : s \in granted <=> s < next /\ asked[s] > 0
  /\ deployPc \in Deployable \ {"alloc"} => \A s \in Slots : s \in granted <=> asked[s] > 0
  /\ deployPc \in {"start", "parse", "exe1", "loaded", "open"} => granted = {} /\ next = 0

Copied ==
  /\ deployPc \in {"patch1", "patch0", "ready"} /\ Caching(model) =>
       holds[PARAM_DATA] = "parameters" /\ holds[EXE0_PARAM] = "exe0_parameters"
  /\ deployPc \in {"patch0", "ready"} /\ Caching(model) => holds[EXE1_BS] = "param_bitstream"
  /\ deployPc = "ready" => holds[EXE0_BS] = "bitstream"

ParamPatch    == [exe |-> 1, field |-> ParamField, base |-> DeviceVa[PARAM_DATA]]
FieldPatch(f, b) == [exe |-> 0, field |-> f, base |-> b]

Linked ==
  /\ deployPc \notin {"patch0", "ready"} => patched = {}
  /\ deployPc = "patch0" => patched \subseteq {ParamPatch}
  /\ deployPc \in {"patch0", "ready"} /\ Caching(model) /\ "PARAMETER" \in model.param_fields =>
       ParamPatch \in patched
  /\ deployPc = "ready" =>
       /\ \A p \in patched :
            \/ p = ParamPatch
            \/ \E f \in model.fields : \E b \in Bases(model, f) : p = FieldPatch(f, b)
       /\ \A f \in model.fields : \A b \in Bases(model, f) : FieldPatch(f, b) \in patched

Typed ==
  /\ deployPc \in DeploySteps /\ client \in {"runtime", "console"}
  /\ file \in ModelFiles /\ model \in ModelFiles
  /\ asked \in [Slots -> Nat] /\ next \in 0 .. 8
  /\ DOMAIN holds = Slots

DeployInv == Typed /\ Asking /\ Granting /\ Copied /\ Linked

LEMMA DeployInitInv == DeployInit => DeployInv
<1> SUFFICES ASSUME DeployInit PROVE DeployInv
  OBVIOUS
<1>1. NoModel \in ModelFiles
  BY DEF NoModel, ModelFiles
<1> QED  BY <1>1 DEF DeployInit, DeployInv, Typed, DeploySteps, Asking, Granting, Copied, Linked,
                     Deployable, Slots

(***************************************************************************)
(* LoadModel and the requests.                                             *)
(***************************************************************************)
LEMMA ReadExe0Inv == DeployInv /\ ReadExe0 => DeployInv'
<1> SUFFICES ASSUME DeployInv, ReadExe0 PROVE DeployInv'
  OBVIOUS
<1>1. model' \in ModelFiles
  BY DEF ReadExe0, DeployInv, Typed, ModelFiles
<1> QED  BY <1>1 DEF ReadExe0, Go, DeployInv, Typed, DeploySteps, Asking, Granting, Copied, Linked,
                     Deployable

LEMMA ReadExe1Inv == DeployInv /\ ReadExe1 => DeployInv'
<1> SUFFICES ASSUME DeployInv, ReadExe1 PROVE DeployInv'
  OBVIOUS
<1>1. model' \in ModelFiles
  <2>1. /\ file \in ModelFiles /\ model \in ModelFiles
        /\ file.param_fields \subseteq FieldDescs /\ {} \subseteq FieldDescs
        /\ file.param_bitstream \in Nat /\ file.parameters \in Nat
    BY DEF DeployInv, Typed, ModelFiles
  <2> QED  BY <2>1 DEF ReadExe1, ModelFiles
<1> QED  BY <1>1 DEF ReadExe1, Go, DeployInv, Typed, DeploySteps, Asking, Granting, Copied, Linked,
                     Deployable

LEMMA OpenModelInv == DeployInv /\ OpenModel => DeployInv'
  BY FilesAssumption DEF OpenModel, Go, DeployInv, Typed, DeploySteps, Asking, Granting, Copied,
                         Linked, Deployable

LEMMA AcceptModelInv == DeployInv /\ AcceptModel => DeployInv'
  BY DEF AcceptModel, Go, DeployInv, Typed, DeploySteps, Asking, Granting, Copied, Linked,
         Deployable

LEMMA AskSlotsInv == DeployInv /\ AskSlots => DeployInv'
<1> SUFFICES ASSUME DeployInv, AskSlots PROVE DeployInv'
  OBVIOUS
<1>1. model \in ModelFiles /\ model.inputs # <<>> /\ granted = {} /\ next = 0
  BY DEF DeployInv, Typed, Asking, Granting, AskSlots, Deployable
<1>2. asked' \in [Slots -> Nat]
  BY <1>1, PagesAreSizes DEF AskSlots
<1>3. Granting'
  BY <1>1, <1>2 DEF AskSlots, Go, Granting, Deployable, Slots
<1> QED  BY <1>1, <1>2, <1>3 DEF AskSlots, Go, DeployInv, Typed, DeploySteps, Asking, Copied, Linked,
                                 Deployable, Pages, Caching, OutputPages

(***************************************************************************)
(* ALLOC.                                                                  *)
(***************************************************************************)
LEMMA GrantSlotInv == DeployInv /\ GrantSlot => DeployInv'
<1> SUFFICES ASSUME DeployInv, GrantSlot PROVE DeployInv'
  OBVIOUS
<1>1. /\ next \in Slots /\ next' = next + 1 /\ next' \in 0 .. 8
      /\ asked[next] \in Nat /\ deployPc = "alloc" /\ deployPc' = "alloc"
      /\ asked' = asked
  BY DEF GrantSlot, DeployInv, Typed, Slots
<1>2. granted' \subseteq Slots
  BY <1>1 DEF GrantSlot, DeployInv, Granting
<1>3. ASSUME NEW s \in Slots PROVE s \in granted' <=> s < next' /\ asked'[s] > 0
  <2>1. s \in granted <=> s < next /\ asked[s] > 0
    BY <1>1 DEF DeployInv, Granting
  <2>2. s \in granted' <=> s \in granted \/ (s = next /\ asked[next] > 0)
    BY <1>1 DEF GrantSlot
  <2> QED  BY <1>1, <2>1, <2>2 DEF Slots
<1>4. Granting'
  BY <1>1, <1>2, <1>3 DEF Granting, Deployable
<1> QED  BY <1>1, <1>4 DEF GrantSlot, DeployInv, Typed, DeploySteps, Asking, Copied, Linked,
                           Deployable, Caching

LEMMA AllocDoneInv == DeployInv /\ AllocDone => DeployInv'
<1> SUFFICES ASSUME DeployInv, AllocDone PROVE DeployInv'
  OBVIOUS
<1>1. Granting'
  BY DEF AllocDone, Go, DeployInv, Typed, Granting, Deployable, Slots
<1> QED  BY <1>1 DEF AllocDone, Go, DeployInv, Typed, DeploySteps, Asking, Copied, Linked,
                     Deployable, Caching

\* The steps that give up.
LEMMA GivesUpInv ==
  DeployInv /\ (LoadFails \/ NotReady \/ RefuseSlot \/ ConsoleFaults) => DeployInv'
  BY DEF LoadFails, NotReady, RefuseSlot, ConsoleFaults, Go, DeployInv, Typed, DeploySteps, Asking,
         Granting, Copied, Linked, Deployable

(***************************************************************************)
(* Copying and patching.                                                   *)
(***************************************************************************)
LEMMA CopyParametersInv == DeployInv /\ CopyParameters => DeployInv'
<1> SUFFICES ASSUME DeployInv, CopyParameters PROVE DeployInv'
  OBVIOUS
<1>1. PARAM_DATA \in Slots /\ EXE0_PARAM \in Slots /\ PARAM_DATA # EXE0_PARAM
  BY DEF Slots, PARAM_DATA, EXE0_PARAM
<1>2. DOMAIN holds' = Slots /\ Copied'
  BY <1>1 DEF CopyParameters, Go, DeployInv, Typed, Copied, Caching
<1> QED  BY <1>2 DEF CopyParameters, Go, DeployInv, Typed, DeploySteps, Asking, Granting, Linked,
                     Deployable

LEMMA PatchExe1Inv == DeployInv /\ PatchExe1 => DeployInv'
<1> SUFFICES ASSUME DeployInv, PatchExe1 PROVE DeployInv'
  OBVIOUS
<1>1. /\ PARAM_DATA \in Slots /\ EXE0_PARAM \in Slots /\ EXE1_BS \in Slots
      /\ PARAM_DATA # EXE1_BS /\ EXE0_PARAM # EXE1_BS
  BY DEF Slots, PARAM_DATA, EXE0_PARAM, EXE1_BS
<1>2. DOMAIN holds' = Slots /\ Copied'
  BY <1>1 DEF PatchExe1, Go, DeployInv, Typed, Copied, Caching
<1>3. Linked'
  BY DEF PatchExe1, Go, DeployInv, Linked, ParamPatch, Caching
<1> QED  BY <1>2, <1>3 DEF PatchExe1, Go, DeployInv, Typed, DeploySteps, Asking, Granting,
                           Deployable

LEMMA PatchExe0Inv == DeployInv /\ PatchExe0 => DeployInv'
<1> SUFFICES ASSUME DeployInv, PatchExe0 PROVE DeployInv'
  OBVIOUS
<1>1. /\ EXE0_BS \in Slots /\ EXE1_BS \in Slots /\ PARAM_DATA \in Slots /\ EXE0_PARAM \in Slots
      /\ EXE0_BS # EXE1_BS /\ EXE0_BS # PARAM_DATA /\ EXE0_BS # EXE0_PARAM
  BY DEF Slots, PARAM_DATA, EXE0_PARAM, EXE1_BS, EXE0_BS
<1>2. DOMAIN holds' = Slots /\ Copied'
  BY <1>1 DEF PatchExe0, Go, DeployInv, Typed, Copied, Caching
<1>3. /\ deployPc' = "ready" /\ model' = model /\ patched \subseteq {ParamPatch}
      /\ \A f : Bases(model, f)' = Bases(model, f)
  BY DEF PatchExe0, Go, DeployInv, Linked, Bases, OutputVas, Caching
<1>4. \A p : p \in patched' <=>
        \/ p \in patched
        \/ \E f \in model.fields : \E b \in Bases(model, f) : p = FieldPatch(f, b)
  BY DEF PatchExe0, FieldPatch
<1>5. Linked'
  BY <1>3, <1>4 DEF Linked, PatchExe0, DeployInv, Caching
<1> QED  BY <1>2, <1>5 DEF PatchExe0, Go, DeployInv, Typed, DeploySteps, Asking, Granting,
                           Deployable

LEMMA DeployNextInv == DeployInv /\ [DeployNext]_deployVars => DeployInv'
<1> SUFFICES ASSUME DeployInv, [DeployNext]_deployVars PROVE DeployInv'
  OBVIOUS
<1>1. CASE UNCHANGED deployVars
  BY <1>1 DEF deployVars, DeployInv, Typed, Asking, Granting, Copied, Linked, Deployable, Caching,
              Bases, OutputVas, Pages, OutputPages
<1> QED  BY <1>1, OpenModelInv, GivesUpInv, ReadExe0Inv, ReadExe1Inv, AcceptModelInv, AskSlotsInv,
            GrantSlotInv, AllocDoneInv, CopyParametersInv, PatchExe1Inv, PatchExe0Inv
         DEF DeployNext

\* In every reachable state, whatever the model files are.
THEOREM DeployInvariant == DeploySpec => []DeployInv
  BY DeployInitInv, DeployNextInv, PTL DEF DeploySpec

(***************************************************************************)
(* Types: the addresses written are pages, the fields known ones.          *)
(***************************************************************************)
Contents == {"nothing", "bitstream", "parameters", "param_bitstream", "exe0_parameters"}

AddressTyped(p) == p.exe \in {0, 1} /\ p.field \in FieldRefs /\ p.base \in Nat

LEMMA BasesArePages ==
  ASSUME NEW f, NEW b \in Bases(model, f)
  PROVE  b \in Nat
<1>1. /\ DeviceVa[INPUT] \in Nat /\ DeviceVa[OUTPUT_BBOX] \in Nat /\ DeviceVa[OUTPUT_SCORE] \in Nat
      /\ DeviceVa[EXE0_PARAM] \in Nat /\ DeviceVa[SCRATCH] \in Nat
  BY DeviceVaPages DEF Slots, INPUT, OUTPUT_BBOX, OUTPUT_SCORE, SCRATCH, EXE0_PARAM
<1>2. \A o \in OutputVas(model) : o.base \in Nat
  BY <1>1 DEF OutputVas
<1> QED  BY <1>1, <1>2 DEF Bases

LEMMA DeployNextTyped ==
  ASSUME DeployInv, DeployInv', DeployTypeOK, [DeployNext]_deployVars
  PROVE  DeployTypeOK'
<1>1. holds \in [Slots -> Contents] /\ \A p \in patched : AddressTyped(p)
  BY DEF DeployTypeOK, Contents, AddressTyped
<1>2. CASE CopyParameters
  BY <1>1, <1>2 DEF CopyParameters, DeployTypeOK, DeployInv, Typed, Granting, Contents, AddressTyped
<1>3. CASE PatchExe1
  <2>1. AddressTyped(ParamPatch)
    <3>1. PARAM_DATA \in Slots
      BY DEF Slots, PARAM_DATA
    <3>2. DeviceVa[PARAM_DATA] \in Nat
      BY <3>1, DeviceVaPages
    <3>3. ParamField \in FieldRefs
      BY DEF ParamField, FieldRefs, FieldDescs
    <3> QED  BY <3>2, <3>3 DEF AddressTyped, ParamPatch
  <2>2. \A p \in patched' : AddressTyped(p)
    BY <1>1, <1>3, <2>1 DEF PatchExe1, ParamPatch
  <2>3. holds' \in [Slots -> Contents]
    BY <1>1, <1>3 DEF PatchExe1, Contents
  <2> QED  BY <2>2, <2>3 DEF DeployTypeOK, DeployInv, Typed, Granting, Contents, AddressTyped
<1>4. CASE PatchExe0
  <2>1. model.fields \subseteq FieldRefs
    BY DEF DeployInv, Typed, ModelFiles
  <2>2. \A f \in model.fields : \A b \in Bases(model, f) : AddressTyped(FieldPatch(f, b))
    BY <2>1, BasesArePages DEF AddressTyped, FieldPatch
  <2>3. \A p \in patched' : AddressTyped(p)
    BY <1>1, <1>4, <2>2 DEF PatchExe0, FieldPatch
  <2>4. holds' \in [Slots -> Contents]
    BY <1>1, <1>4 DEF PatchExe0, Contents
  <2> QED  BY <2>3, <2>4 DEF DeployTypeOK, DeployInv, Typed, Granting, Contents, AddressTyped
<1>5. CASE holds' = holds /\ patched' = patched
  BY <1>1, <1>5 DEF DeployTypeOK, DeployInv, Typed, Granting, Contents, AddressTyped
<1>6. CopyParameters \/ PatchExe1 \/ PatchExe0 \/ (holds' = holds /\ patched' = patched)
  BY DEF DeployNext, OpenModel, LoadFails, ReadExe0, ReadExe1, AcceptModel, NotReady, AskSlots,
         GrantSlot, RefuseSlot, AllocDone, ConsoleFaults, deployVars
<1> QED  BY <1>2, <1>3, <1>4, <1>5, <1>6

\* Whatever the model files are, a deployment's state is well-typed: what is
\* written into the bitstreams are pages, for fields the schema knows.
THEOREM DeployTyped == DeploySpec => []DeployTypeOK
<1>1. DeployInit => DeployTypeOK
  BY DeployInitInv DEF DeployInit, DeployInv, Typed, Granting, DeployTypeOK
<1> QED  BY <1>1, DeployNextTyped, DeployInvariant, PTL DEF DeploySpec

(***************************************************************************)
(* The addresses in the bitstreams.                                        *)
(***************************************************************************)
\* An address written into a field of a supported model is that of the slot it
\* is meant for.
LEMMA BasesAreMeant ==
  ASSUME Supported(model), NEW f \in model.fields, f \in FieldRefs, NEW b \in Bases(model, f)
  PROVE  b = DeviceVa[Meant(0, f)] /\ Meant(0, f) \in Slots
<1>1. CASE f.desc = "OUTPUT_ACTIVATION"
  <2>1. b \in {o.base : o \in {o \in OutputVas(model) : o.name = f.name}}
    BY <1>1 DEF Bases
  <2>2. PICK o \in OutputVas(model) : o.name = f.name /\ o.base = b
    BY <2>1
  <2>3. CASE f.name = model.outputs[1].name
    BY <1>1, <2>2, <2>3 DEF OutputVas, Supported, Meant, Slots, OUTPUT_BBOX
  <2>4. CASE f.name # model.outputs[1].name
    BY <1>1, <2>2, <2>4 DEF OutputVas, Meant, Slots, OUTPUT_SCORE
  <2> QED  BY <2>3, <2>4
<1>2. CASE f.desc # "OUTPUT_ACTIVATION"
  <2>1. f.desc \in {"INPUT_ACTIVATION", "OUTPUT_ACTIVATION", "PARAMETER", "SCRATCH"}
    BY DEF FieldRefs, FieldDescs
  <2> QED
    BY <1>2, <2>1 DEF Bases, Supported, Meant, Slots, INPUT, EXE0_PARAM, SCRATCH
<1> QED  BY <1>1, <1>2

\* A field of a supported model gets an address.
LEMMA BasesExist ==
  ASSUME Supported(model), NEW f \in model.fields, f \in FieldRefs
  PROVE  Bases(model, f) # {}
<1>1. CASE f.desc = "OUTPUT_ACTIVATION"
  <2>1. PICK n \in {1, 2} \cap 1 .. Len(model.outputs) : model.outputs[n].name = f.name
    BY <1>1 DEF Supported
  <2>2. \E o \in OutputVas(model) : o.name = f.name
    <3>1. CASE n = 2
      <4> DEFINE o == [name |-> model.outputs[2].name, base |-> DeviceVa[OUTPUT_SCORE]]
      <4>1. o \in OutputVas(model) /\ o.name = f.name
        BY <2>1, <3>1 DEF OutputVas
      <4> QED  BY <4>1
    <3>2. CASE n = 1
      <4> DEFINE o == [name |-> model.outputs[1].name, base |-> DeviceVa[OUTPUT_BBOX]]
      <4>1. Len(model.outputs) < 2 \/ model.outputs[1].name # model.outputs[2].name
        BY <2>1 DEF Supported
      <4>2. o \in OutputVas(model) /\ o.name = f.name
        BY <2>1, <3>2, <4>1 DEF OutputVas
      <4> QED  BY <4>2
    <3> QED  BY <2>1, <3>1, <3>2
  <2> QED  BY <1>1, <2>2 DEF Bases
<1>2. CASE f.desc # "OUTPUT_ACTIVATION"
  BY <1>2 DEF Bases, FieldRefs, FieldDescs
<1> QED  BY <1>1, <1>2

\* Whatever the model file is, and whichever client opens it: a supported model
\* whose pieces fit between the slots' constant addresses is deployed
\* consistently (npu_runtime_init_face_ssd, infer_test_console, ALLOC).
THEOREM AddressesBacked == DeploySpec => []EveryAddressBacked
<1>1. DeployInv => EveryAddressBacked
  <2> SUFFICES ASSUME DeployInv, deployPc = "ready", Supported(model), Fits(model)
               PROVE  EveryAddressBacked
    BY DEF EveryAddressBacked
  <2>1. /\ model \in ModelFiles /\ model.inputs # <<>> /\ asked = Pages(model)
        /\ granted \subseteq Slots /\ \A s \in Slots : s \in granted <=> asked[s] > 0
    BY DEF DeployInv, Typed, Asking, Granting, Deployable
  <2>2. ASSUME NEW s \in Slots PROVE Backed(DeviceVa[s], s)
    BY <2>1, PagesAreSizes, SlotBacked
  <2>3. EXE0_BS \in Slots /\ EXE1_BS \in Slots /\ PARAM_DATA \in Slots
    BY DEF Slots, EXE0_BS, EXE1_BS, PARAM_DATA
  <2>4. model.fields \subseteq FieldRefs
    BY <2>1 DEF ModelFiles
  <2>5. ASSUME NEW p \in patched PROVE Backed(p.base, Meant(p.exe, p.field))
    <3>1. CASE p = ParamPatch
      <4>1. Meant(p.exe, p.field) = PARAM_DATA /\ p.base = DeviceVa[PARAM_DATA]
        BY <3>1 DEF ParamPatch, Meant
      <4> QED  BY <4>1, <2>2, <2>3
    <3>2. ASSUME NEW f \in model.fields, NEW b \in Bases(model, f), p = FieldPatch(f, b)
          PROVE  Backed(p.base, Meant(p.exe, p.field))
      <4>1. p.exe = 0 /\ p.field = f /\ p.base = b
        BY <3>2 DEF FieldPatch
      <4>2. b = DeviceVa[Meant(0, f)] /\ Meant(0, f) \in Slots
        BY <2>4, <3>2, BasesAreMeant
      <4> QED  BY <4>1, <4>2, <2>2
    <3> QED  BY <3>1, <3>2 DEF DeployInv, Linked
  <2>6. ASSUME NEW f \in model.fields PROVE \E p \in patched : p.exe = 0 /\ p.field = f
    <3>1. PICK b : b \in Bases(model, f)
      BY <2>4, BasesExist
    <3>2. FieldPatch(f, b) \in patched
      BY <3>1 DEF DeployInv, Linked
    <3> QED  BY <3>2 DEF FieldPatch
  <2>7. Caching(model) /\ "PARAMETER" \in model.param_fields => \E p \in patched : p.exe = 1
    BY DEF DeployInv, Linked, ParamPatch
  <2>8. /\ holds[EXE0_BS] = "bitstream"
        /\ Caching(model) => /\ holds[EXE1_BS] = "param_bitstream"
                             /\ holds[PARAM_DATA] = "parameters"
                             /\ holds[EXE0_PARAM] = "exe0_parameters"
    BY DEF DeployInv, Copied
  <2> QED  BY <2>2, <2>3, <2>5, <2>6, <2>7, <2>8 DEF EveryAddressBacked
<1> QED  BY <1>1, DeployInvariant, PTL

-----------------------------------------------------------------------------

(***************************************************************************)
(* ModelPatch: a bit of the bitstream is what the last patch that hits it  *)
(* wrote, and untouched when none does (BitsPatched); the loops never      *)
(* leave their sequences and patch admitted fields only (Looping); the     *)
(* dump has the last field read for each place and half (DumpShown).       *)
(***************************************************************************)

\* The patcher writes bit b when it patches field f.
Hits(f, b) == /\ Target(f) # NoVa
              /\ Off(f) * ByteBits <= b /\ b - Off(f) * ByteBits \in Mask(f)

\* What it writes there.
PatchedBit(f, b) == Value(Target(f), f.position, WordBit(f, b - Off(f) * ByteBits))

\* The patches done so far, and the ones the dump has read so far.
PatchedTo == IF patchPc \in {"new", "load"} THEN 0
             ELSE IF patchPc = "patch" THEN todo - 1 ELSE Len(patches)
DumpedTo  == IF patchPc = "dump" THEN todo - 1
             ELSE IF patchPc = "patched" THEN Len(patches) ELSE 0

\* The loops stay inside their sequences and patch admitted fields only.
Looping ==
  /\ Len(fields) <= MaxFields /\ Len(patches) <= MaxFields
  /\ patchPc = "new" => fields = <<>> /\ patches = <<>> /\ todo = 1
  /\ patchPc = "load" => todo <= Len(fields) + 1 /\ Len(patches) < todo
  /\ patchPc \in {"patch", "dump"} => todo <= Len(patches) + 1
  /\ \A i \in 1 .. Len(patches) : Admitted(patches[i])

\* A bit no patch so far hits is untouched, a bit that one hits is its.
BitsPatched ==
  /\ \A b \in Memory : (\A i \in 1 .. PatchedTo : ~ Hits(patches[i], b)) => bits[b] = Original
  /\ \A i \in 1 .. PatchedTo : \A b \in Memory :
       Hits(patches[i], b) /\ (\A j \in 1 .. PatchedTo : j # i => ~ Hits(patches[j], b))
         => bits[b] = PatchedBit(patches[i], b)

\* The dump shows the last field it has read for each destination and half.
SameShown(f, g) == Place(f) = Place(g) /\ f.position = g.position
DumpShown ==
  patchPc \in {"dump", "patched"} /\ patcher # "legacy" =>
    \A i \in 1 .. DumpedTo :
      /\ Readable(patches[i])
      /\ \A j \in i + 1 .. DumpedTo :
           Readable(patches[j]) => ~ SameShown(patches[j], patches[i])
      => [place |-> Place(patches[i]), half |-> patches[i].position,
          word |-> WordAt(patches[i])] \in shown

PatchInv == PatchTypeOK /\ Looping /\ BitsPatched /\ DumpShown

-----------------------------------------------------------------------------

LEMMA WordBitsPositive == WordBits \in Nat /\ WordBits > 0 /\ ByteBits <= WordBits
<1>1. ByteBits \in Nat \ {0} /\ WordBytes \in Nat \ {0}
  BY PatchAssumption
<1>2. PICK w \in Nat : WordBytes = w + 1
  <2>1. WordBytes - 1 \in Nat /\ WordBytes = (WordBytes - 1) + 1
    BY <1>1
  <2> QED BY <2>1
<1>3. WordBytes * ByteBits = w * ByteBits + ByteBits /\ w * ByteBits \in Nat
  BY <1>1, <1>2
<1> QED BY <1>1, <1>3 DEF WordBits

LEMMA ByteAndBit ==
  ASSUME NEW o \in Nat
  PROVE  /\ o \div ByteBits \in Nat /\ o % ByteBits \in 0 .. ByteBits - 1
         /\ o = ByteBits * (o \div ByteBits) + (o % ByteBits)
<1>1. ByteBits \in Nat /\ ByteBits > 0
  BY PatchAssumption
<1> QED BY <1>1

\* A field's bit offset is its byte and the bit inside it.
LEMMA FieldOffset ==
  ASSUME NEW f \in Fields
  PROVE  /\ f.offset \in Nat /\ Off(f) \in Nat /\ Shift(f) \in 0 .. ByteBits - 1
         /\ Off(f) * ByteBits \in Nat /\ f.offset = Off(f) * ByteBits + Shift(f)
<1>1. f.offset \in Nat
  BY PatchAssumption DEF Fields
<1>2. ByteBits \in Nat /\ ByteBits > 0
  BY PatchAssumption
<1>3. /\ Off(f) \in Nat /\ Shift(f) \in 0 .. ByteBits - 1
      /\ f.offset = ByteBits * Off(f) + Shift(f)
  BY <1>1, ByteAndBit DEF Off, Shift
<1>4. \A q \in Nat : q * ByteBits = ByteBits * q /\ q * ByteBits \in Nat
  BY <1>2
<1> QED BY <1>1, <1>3, <1>4

\* Shifting value and mask together, a patcher hits exactly the field's bits,
\* each with its bit of the word; the legacy one when the field starts a byte.
LEMMA HitsFieldBits ==
  ASSUME NEW f \in Fields, patcher # "legacy" \/ Shift(f) = 0, NEW b \in Nat
  PROVE  /\ Hits(f, b) <=> Target(f) # NoVa /\ b \in FieldBits(f)
         /\ b \in FieldBits(f) => WordBit(f, b - Off(f) * ByteBits) = b - f.offset
<1>1. /\ f.offset \in Nat /\ Shift(f) \in Nat /\ Off(f) * ByteBits \in Nat
      /\ f.offset = Off(f) * ByteBits + Shift(f) /\ WordBits \in Nat
  BY FieldOffset, WordBitsPositive, PatchAssumption
<1> QED BY <1>1 DEF Hits, Mask, FieldBits, WordBit

\* A patcher's writes end inside the memory behind the bitstream, and inside
\* the bitstream itself when the field does or the patcher has tested for it.
LEMMA HitsInside ==
  ASSUME NEW f \in Fields, Admitted(f), length \in Nat, NEW b \in Nat, Hits(f, b)
  PROVE  /\ f.offset + WordBits <= length * ByteBits => b < length * ByteBits
         /\ patcher \in {"param", "legacy"} => b < length * ByteBits
<1>1. /\ f.offset \in Nat /\ Shift(f) \in 0 .. ByteBits - 1 /\ Off(f) \in Nat
      /\ Off(f) * ByteBits \in Nat /\ f.offset = Off(f) * ByteBits + Shift(f)
  BY FieldOffset
<1>2. /\ WordBits \in Nat /\ WordBits > 0 /\ ByteBits <= WordBits
      /\ ByteBits \in Nat /\ WordBytes \in Nat
  BY WordBitsPositive, PatchAssumption
<1>3. ASSUME NEW n \in Nat, Off(f) + n <= length
      PROVE  Off(f) * ByteBits + n * ByteBits <= length * ByteBits
  <2>1. PICK d \in Nat : length = Off(f) + n + d
    <3>1. length - (Off(f) + n) \in Nat /\ length = Off(f) + n + (length - (Off(f) + n))
      BY <1>1, <1>3
    <3> QED BY <3>1
  <2>2. length * ByteBits = Off(f) * ByteBits + n * ByteBits + d * ByteBits
    BY <1>1, <1>2, <2>1
  <2>3. d * ByteBits \in Nat /\ n * ByteBits \in Nat
    BY <1>2
  <2> QED BY <1>1, <2>2, <2>3
<1>4. b <= Off(f) * ByteBits + Shift(f) + WordBits - 1
  BY <1>1, <1>2 DEF Hits, Mask
<1>5. CASE patcher = "legacy"
  <2>1. Off(f) * ByteBits + WordBits <= length * ByteBits
    BY <1>2, <1>3 DEF Admitted, WordBits
  <2>2. b <= Off(f) * ByteBits + WordBits - 1
    BY <1>1, <1>2, <1>5 DEF Hits, Mask
  <2>3. length * ByteBits \in Nat
    BY <1>2
  <2> QED BY <1>1, <1>2, <2>1, <2>2, <2>3
<1>6. CASE patcher = "param"
  <2>1. WindowFits(f)
    BY <1>6 DEF Hits, Target
  <2>2. Off(f) * ByteBits + (2 * WordBytes) * ByteBits <= length * ByteBits
    BY <1>2, <1>3, <2>1 DEF WindowFits
  <2>3. (2 * WordBytes) * ByteBits = WordBits + WordBits
    BY <1>2 DEF WordBits
  <2>4. length * ByteBits \in Nat
    BY <1>2
  <2> QED BY <1>1, <1>2, <1>4, <2>2, <2>3, <2>4
<1>7. CASE patcher \notin {"param", "legacy"}
  <2>1. length * ByteBits \in Nat
    BY <1>2
  <2> QED BY <1>1, <1>2, <1>4, <1>7, <2>1
<1>8. length * ByteBits \in Nat
  BY <1>2
<1> QED BY <1>1, <1>2, <1>4, <1>5, <1>6, <1>7, <1>8

\* An admitted field lies in the memory.
LEMMA FieldInMemory ==
  ASSUME NEW f \in Fields, Admitted(f), length \in Nat, NEW b \in FieldBits(f)
  PROVE  b \in Memory
<1>1. /\ f.offset \in Nat /\ Shift(f) \in 0 .. ByteBits - 1 /\ Off(f) \in Nat
      /\ Off(f) * ByteBits \in Nat /\ f.offset = Off(f) * ByteBits + Shift(f)
  BY FieldOffset
<1>2. /\ WordBits \in Nat /\ WordBits > 0 /\ ByteBits <= WordBits
      /\ ByteBits \in Nat /\ WordBytes \in Nat
  BY WordBitsPositive, PatchAssumption
<1>3. PICK d \in Nat : length = Off(f) + WordBytes + d
  <2>1. length - (Off(f) + WordBytes) \in Nat
        /\ length = Off(f) + WordBytes + (length - (Off(f) + WordBytes))
    BY <1>1, <1>2 DEF Admitted
  <2> QED BY <2>1
<1>4. (length + 2 * WordBytes) * ByteBits
        = Off(f) * ByteBits + WordBits + d * ByteBits + WordBits + WordBits
  BY <1>1, <1>2, <1>3 DEF WordBits
<1>5. d * ByteBits \in Nat
  BY <1>2
<1>6. b \in Nat /\ b <= f.offset + WordBits - 1
  BY <1>1, <1>2 DEF FieldBits
<1> QED BY <1>1, <1>2, <1>4, <1>5, <1>6 DEF Memory, BitsOf

-----------------------------------------------------------------------------

LEMMA PatchInitInv == PatchInit => PatchInv
<1> SUFFICES ASSUME PatchInit PROVE PatchInv
  OBVIOUS
<1>1. length \in Lengths
  BY PatchAssumption DEF PatchInit
<1>2. <<>> \in Seq(Fields) /\ Len(<<>>) = 0
  BY EmptySeq
<1>3. PatchTypeOK
  BY <1>1, <1>2, PatchAssumption DEF PatchInit, PatchTypeOK, Patchers
<1>4. Looping
  BY <1>2, PatchAssumption DEF PatchInit, Looping
<1>5. BitsPatched
  BY DEF PatchInit, BitsPatched, PatchedTo
<1>6. DumpShown
  BY DEF PatchInit, DumpShown
<1> QED BY <1>3, <1>4, <1>5, <1>6 DEF PatchInv

\* The admitted fields are fields; their number is a number.
LEMMA PatchesAreFields ==
  ASSUME PatchTypeOK
  PROVE  /\ Len(patches) \in Nat /\ Len(fields) \in Nat
         /\ \A i \in 1 .. Len(patches) : patches[i] \in Fields
         /\ \A i \in 1 .. Len(fields) : fields[i] \in Fields
         /\ todo \in Nat /\ todo > 0 /\ length \in Nat
<1>1. patches \in Seq(Fields) /\ fields \in Seq(Fields)
  BY DEF PatchTypeOK
<1> QED BY <1>1, ElementOfSeq, LenProperties, PatchAssumption DEF PatchTypeOK

LEMMA LoadModelInv == PatchInv /\ LoadModel => PatchInv'
<1> SUFFICES ASSUME PatchInv, LoadModel PROVE PatchInv'
  OBVIOUS
<1>1. patches = <<>> /\ todo = 1 /\ patches' = patches /\ todo' = todo /\ shown' = shown
      /\ patchPc' = "load"
  BY DEF LoadModel, PatchInv, Looping
<1>2. PICK n \in 0 .. MaxFields : fields' \in [1 .. n -> Fields]
  BY DEF LoadModel
<1>3. fields' \in Seq(Fields) /\ Len(fields') = n /\ n \in Nat
  <2>1. n \in Nat
    BY <1>2, PatchAssumption
  <2>2. fields' \in Seq(Fields)
    BY <1>2, <2>1, SeqDef
  <2>3. DOMAIN fields' = 1 .. n
    BY <1>2
  <2> QED BY <2>1, <2>2, <2>3, LenProperties
<1>4. PatchTypeOK'
  BY <1>1, <1>3 DEF LoadModel, PatchInv, PatchTypeOK, Memory
<1>5. Looping'
  <2>1. Len(patches) = 0
    BY <1>1, EmptySeq
  <2> QED BY <1>1, <1>2, <1>3, <2>1, PatchAssumption DEF Looping
<1>6. BitsPatched'
  <2>1. \A b \in Memory' : bits'[b] = Original
    BY DEF LoadModel, Memory
  <2>2. PatchedTo' = 0
    BY <1>1 DEF PatchedTo
  <2> QED BY <2>1, <2>2 DEF BitsPatched
<1>7. DumpShown'
  BY <1>1 DEF DumpShown
<1> QED BY <1>4, <1>5, <1>6, <1>7 DEF PatchInv

\* What a step that leaves the bitstream and the patches done alone preserves.
LEMMA BitsKept ==
  ASSUME BitsPatched, UNCHANGED <<patcher, length, patches, bits>>,
         PatchedTo' = PatchedTo
  PROVE  BitsPatched'
<1>1. Memory' = Memory
  BY DEF Memory
<1>2. ASSUME NEW f PROVE Target(f)' = Target(f)
  BY DEF Target, OutputVa, WindowFits, Off
<1>3. ASSUME NEW f, NEW b
      PROVE  (Hits(f, b)' <=> Hits(f, b)) /\ PatchedBit(f, b)' = PatchedBit(f, b)
  BY <1>2 DEF Hits, PatchedBit, Mask, WordBit, Off, Shift
<1>4. \A i, b : (Hits(patches[i], b)' <=> Hits(patches[i], b))
                /\ PatchedBit(patches[i], b)' = PatchedBit(patches[i], b)
  BY <1>3
<1>5. ASSUME NEW b \in Memory', \A i \in 1 .. PatchedTo' : ~ Hits(patches[i], b)'
      PROVE  bits'[b] = Original
  BY <1>1, <1>4, <1>5 DEF BitsPatched
<1>6. ASSUME NEW i \in 1 .. PatchedTo', NEW b \in Memory', Hits(patches[i], b)',
             \A j \in 1 .. PatchedTo' : j # i => ~ Hits(patches[j], b)'
      PROVE  bits'[b] = PatchedBit(patches[i], b)'
  BY <1>1, <1>4, <1>6 DEF BitsPatched
<1> QED BY <1>5, <1>6 DEF BitsPatched

-----------------------------------------------------------------------------

\* While the loader runs nothing has been written.
LEMMA NothingWritten ==
  ASSUME BitsPatched, PatchedTo = 0, UNCHANGED <<length, bits>>, PatchedTo' = 0
  PROVE  BitsPatched'
<1>1. Memory' = Memory /\ \A b \in Memory : bits[b] = Original
  BY DEF Memory, BitsPatched
<1>2. \A b \in Memory' : bits'[b] = Original
  BY <1>1
<1> QED BY <1>2 DEF BitsPatched

LEMMA LoadFieldInv == PatchInv /\ LoadField => PatchInv'
<1> SUFFICES ASSUME PatchInv, LoadField PROVE PatchInv'
  OBVIOUS
<1>1. /\ Len(patches) \in Nat /\ Len(fields) \in Nat /\ todo \in Nat /\ todo > 0
      /\ patches \in Seq(Fields) /\ todo <= Len(fields) /\ fields[todo] \in Fields
      /\ Len(patches) < todo /\ Len(fields) <= MaxFields
  BY PatchesAreFields DEF PatchInv, LoadField, Looping, PatchTypeOK
<1>2. patchPc = "load" /\ patchPc' = "load" /\ todo' = todo + 1
      /\ UNCHANGED <<patcher, length, fields, bits, shown>>
  BY DEF LoadField, Goto
<1>3. /\ patches' \in Seq(Fields) /\ Len(patches') <= todo
      /\ \A i \in 1 .. Len(patches') : Admitted(patches'[i])
  <2>1. CASE Admitted(fields[todo])
    <3>1. patches' = Append(patches, fields[todo])
      BY <2>1 DEF LoadField
    <3>2. /\ patches' \in Seq(Fields) /\ Len(patches') = Len(patches) + 1
          /\ \A i \in 1 .. Len(patches) : patches'[i] = patches[i]
          /\ patches'[Len(patches) + 1] = fields[todo]
      BY <1>1, <3>1, AppendProperties
    <3>3. ASSUME NEW i \in 1 .. Len(patches) + 1 PROVE Admitted(patches'[i])
      <4>1. CASE i = Len(patches) + 1
        BY <2>1, <3>2, <4>1
      <4>2. CASE i \in 1 .. Len(patches)
        BY <3>2, <4>2 DEF PatchInv, Looping
      <4> QED BY <1>1, <4>1, <4>2
    <3> QED BY <1>1, <3>2, <3>3
  <2>2. CASE ~ Admitted(fields[todo])
    <3>1. patches' = patches
      BY <2>2 DEF LoadField
    <3> QED BY <1>1, <3>1 DEF PatchInv, Looping
  <2> QED BY <2>1, <2>2
<1>4. Len(patches') \in Nat
  BY <1>3, LenProperties
<1>5. PatchTypeOK'
  <2>1. todo' \in 1 .. MaxFields + 1
    BY <1>1, <1>2, PatchAssumption
  <2> QED BY <1>2, <1>3, <2>1 DEF PatchInv, PatchTypeOK, Memory
<1>6. Looping'
  <2>1. \A i \in 1 .. Len(patches') : Admitted(patches[i])'
    BY <1>2, <1>3 DEF Admitted, Off
  <2> QED BY <1>1, <1>2, <1>3, <1>4, <2>1, PatchAssumption DEF Looping
<1>7. BitsPatched'
  BY <1>2, NothingWritten DEF PatchInv, PatchedTo
<1>8. DumpShown'
  BY <1>2 DEF DumpShown
<1> QED BY <1>5, <1>6, <1>7, <1>8 DEF PatchInv

LEMMA LoadEndInv == PatchInv /\ LoadEnd => PatchInv'
<1> SUFFICES ASSUME PatchInv, LoadEnd PROVE PatchInv'
  OBVIOUS
<1>1. /\ patchPc = "load" /\ patchPc' = "patch" /\ todo' = 1
      /\ UNCHANGED <<patcher, length, fields, patches, bits, shown>>
  BY DEF LoadEnd, Goto
<1>2. Len(patches) \in Nat
  BY PatchesAreFields DEF PatchInv
<1>3. PatchTypeOK'
  BY <1>1, PatchAssumption DEF PatchInv, PatchTypeOK, Memory
<1>4. Looping'
  BY <1>1, <1>2 DEF PatchInv, Looping, Admitted, Off
<1>5. BitsPatched'
  BY <1>1, NothingWritten DEF PatchInv, PatchedTo
<1> QED BY <1>1, <1>3, <1>4, <1>5 DEF PatchInv, DumpShown

LEMMA PatchFieldInv == PatchInv /\ PatchField => PatchInv'
<1> SUFFICES ASSUME PatchInv, PatchField PROVE PatchInv'
  OBVIOUS
<1> DEFINE f == patches[todo]
<1>1. /\ patchPc = "patch" /\ patchPc' = "patch" /\ todo' = todo + 1
      /\ todo <= Len(patches)
      /\ UNCHANGED <<patcher, length, fields, patches, shown>>
  BY DEF PatchField, Goto
<1>2. Len(patches) \in Nat /\ todo \in Nat /\ todo > 0 /\ Len(patches) <= MaxFields
  BY PatchesAreFields DEF PatchInv, Looping
<1>3. DOMAIN bits = Memory /\ Memory' = Memory
  BY <1>1 DEF PatchInv, PatchTypeOK, Memory
<1>4. bits' = [i \in Memory |-> IF Hits(f, i) THEN PatchedBit(f, i) ELSE bits[i]]
  <2>1. \A i \in Memory :
          (Target(f) # NoVa /\ i >= Off(f) * ByteBits /\ i - Off(f) * ByteBits \in Mask(f))
            <=> Hits(f, i)
    <3>1. patches[todo] \in Fields
      BY <1>1, <1>2, PatchesAreFields DEF PatchInv
    <3>2. Off(f) * ByteBits \in Nat
      BY <3>1, FieldOffset
    <3> HIDE DEF f
    <3> QED BY <3>2 DEF Hits, Memory, BitsOf
  <2> QED BY <1>3, <2>1 DEF PatchField, PatchedBit
<1>5. PatchedTo = todo - 1 /\ PatchedTo' = todo
  BY <1>1, <1>2 DEF PatchedTo
<1>6. ASSUME NEW g PROVE Target(g)' = Target(g)
  BY <1>1 DEF Target, OutputVa, WindowFits, Off
<1>7. ASSUME NEW g, NEW b
      PROVE  (Hits(g, b)' <=> Hits(g, b)) /\ PatchedBit(g, b)' = PatchedBit(g, b)
  BY <1>1, <1>6 DEF Hits, PatchedBit, Mask, WordBit, Off, Shift
<1>8. \A i, b : (Hits(patches[i], b)' <=> Hits(patches[i], b))
                /\ PatchedBit(patches[i], b)' = PatchedBit(patches[i], b)
  BY <1>1, <1>7
<1>9. \A b \in Memory : bits'[b] = IF Hits(patches[todo], b) THEN PatchedBit(patches[todo], b)
                                   ELSE bits[b]
  BY <1>4
<1>10. ASSUME NEW b \in Memory', \A i \in 1 .. PatchedTo' : ~ Hits(patches[i], b)'
       PROVE  bits'[b] = Original
  <2>1. \A i \in 1 .. todo : ~ Hits(patches[i], b)
    BY <1>5, <1>8, <1>10
  <2>2. bits'[b] = bits[b]
    BY <1>2, <1>3, <1>9, <2>1
  <2>3. \A i \in 1 .. PatchedTo : ~ Hits(patches[i], b)
    BY <1>2, <1>5, <2>1
  <2> QED BY <1>3, <2>2, <2>3 DEF PatchInv, BitsPatched
<1>11. ASSUME NEW i \in 1 .. PatchedTo', NEW b \in Memory', Hits(patches[i], b)',
              \A j \in 1 .. PatchedTo' : j # i => ~ Hits(patches[j], b)'
       PROVE  bits'[b] = PatchedBit(patches[i], b)'
  <2>1. i \in 1 .. todo /\ Hits(patches[i], b)
        /\ \A j \in 1 .. todo : j # i => ~ Hits(patches[j], b)
    BY <1>5, <1>8, <1>11
  <2>2. CASE i = todo
    BY <1>3, <1>8, <1>9, <2>1, <2>2
  <2>3. CASE i # todo
    <3>1. i \in 1 .. PatchedTo /\ bits'[b] = bits[b]
      BY <1>2, <1>3, <1>5, <1>9, <2>1, <2>3
    <3>2. \A j \in 1 .. PatchedTo : j # i => ~ Hits(patches[j], b)
      BY <1>2, <1>5, <2>1
    <3>3. bits[b] = PatchedBit(patches[i], b)
      BY <1>3, <2>1, <3>1, <3>2 DEF PatchInv, BitsPatched
    <3> QED BY <1>8, <3>1, <3>3
  <2> QED BY <2>2, <2>3
<1>12. BitsPatched'
  BY <1>10, <1>11 DEF BitsPatched
<1>13. PatchTypeOK'
  <2>1. todo' \in 1 .. MaxFields + 1
    BY <1>1, <1>2, PatchAssumption
  <2>2. DOMAIN bits' = Memory'
    BY <1>3, <1>4
  <2> QED BY <1>1, <2>1, <2>2 DEF PatchInv, PatchTypeOK
<1>14. Looping'
  BY <1>1, <1>2 DEF PatchInv, Looping, Admitted, Off
<1>15. DumpShown'
  BY <1>1 DEF DumpShown
<1> QED BY <1>12, <1>13, <1>14, <1>15 DEF PatchInv

LEMMA PatchEndInv == PatchInv /\ PatchEnd => PatchInv'
<1> SUFFICES ASSUME PatchInv, PatchEnd PROVE PatchInv'
  OBVIOUS
<1>1. /\ patchPc = "patch" /\ todo' = 1 /\ todo > Len(patches)
      /\ patchPc' = IF patcher = "legacy" THEN "patched" ELSE "dump"
      /\ UNCHANGED <<patcher, length, fields, patches, bits, shown>>
  BY DEF PatchEnd, Goto
<1>2. /\ Len(patches) \in Nat /\ todo \in Nat /\ todo <= Len(patches) + 1
  BY <1>1, PatchesAreFields DEF PatchInv, Looping
<1>3. PatchTypeOK'
  BY <1>1, PatchAssumption DEF PatchInv, PatchTypeOK, Memory
<1>4. Looping'
  BY <1>1, <1>2 DEF PatchInv, Looping, Admitted, Off
<1>5. BitsPatched'
  <2>1. PatchedTo' = PatchedTo
    BY <1>1, <1>2 DEF PatchedTo
  <2> QED BY <1>1, <2>1, BitsKept DEF PatchInv
<1>6. DumpShown'
  BY <1>1 DEF DumpShown, DumpedTo
<1> QED BY <1>3, <1>4, <1>5, <1>6 DEF PatchInv

LEMMA DumpFieldInv == PatchInv /\ DumpField => PatchInv'
<1> SUFFICES ASSUME PatchInv, DumpField PROVE PatchInv'
  OBVIOUS
<1>1. /\ patchPc = "dump" /\ patchPc' = "dump" /\ todo' = todo + 1
      /\ todo <= Len(patches)
      /\ UNCHANGED <<patcher, length, fields, patches, bits>>
  BY DEF DumpField, Goto
<1>2. Len(patches) \in Nat /\ todo \in Nat /\ todo > 0 /\ Len(patches) <= MaxFields
  BY PatchesAreFields DEF PatchInv, Looping
<1>3. PatchTypeOK'
  <2>1. todo' \in 1 .. MaxFields + 1
    BY <1>1, <1>2, PatchAssumption
  <2> QED BY <1>1, <2>1 DEF PatchInv, PatchTypeOK, Memory
<1>4. Looping'
  BY <1>1, <1>2 DEF PatchInv, Looping, Admitted, Off
<1>5. BitsPatched'
  <2>1. PatchedTo' = PatchedTo
    BY <1>1 DEF PatchedTo
  <2> QED BY <1>1, <2>1, BitsKept DEF PatchInv
<1>6. DumpShown'
  <2> SUFFICES ASSUME patcher # "legacy", NEW i \in 1 .. todo, Readable(patches[i]),
                      \A j \in i + 1 .. todo :
                        Readable(patches[j]) => ~ SameShown(patches[j], patches[i])
               PROVE  [place |-> Place(patches[i]), half |-> patches[i].position,
                       word |-> WordAt(patches[i])] \in shown'
    <3>1. DumpedTo' = todo
      BY <1>1, <1>2 DEF DumpedTo
    <3> QED BY <1>1, <3>1 DEF DumpShown, Readable, WindowFits, WordAt, Off, Shift,
              SameShown, Place
  <2>1. CASE i = todo
    BY <2>1 DEF DumpField
  <2>2. CASE i # todo
    <3>1. DumpedTo = todo - 1 /\ i \in 1 .. todo - 1
      BY <1>1, <1>2, <2>2 DEF DumpedTo
    <3>2. \A j \in i + 1 .. todo - 1 :
            Readable(patches[j]) => ~ SameShown(patches[j], patches[i])
      BY <1>2
    <3>3. [place |-> Place(patches[i]), half |-> patches[i].position,
           word |-> WordAt(patches[i])] \in shown
      BY <1>1, <3>1, <3>2 DEF PatchInv, DumpShown
    <3>4. Readable(patches[todo]) =>
            \/ Place(patches[i]) # Place(patches[todo])
            \/ patches[i].position # patches[todo].position
      BY <1>2, <3>1 DEF SameShown
    <3> QED BY <3>3, <3>4 DEF DumpField
  <2> QED BY <2>1, <2>2
<1> QED BY <1>3, <1>4, <1>5, <1>6 DEF PatchInv

LEMMA DumpEndInv == PatchInv /\ DumpEnd => PatchInv'
<1> SUFFICES ASSUME PatchInv, DumpEnd PROVE PatchInv'
  OBVIOUS
<1>1. /\ patchPc = "dump" /\ patchPc' = "patched" /\ todo' = 1 /\ todo > Len(patches)
      /\ UNCHANGED <<patcher, length, fields, patches, bits, shown>>
  BY DEF DumpEnd, Goto
<1>2. /\ Len(patches) \in Nat /\ todo \in Nat /\ todo <= Len(patches) + 1
  BY <1>1, PatchesAreFields DEF PatchInv, Looping
<1>3. PatchTypeOK'
  BY <1>1, PatchAssumption DEF PatchInv, PatchTypeOK, Memory
<1>4. Looping'
  BY <1>1, <1>2 DEF PatchInv, Looping, Admitted, Off
<1>5. BitsPatched'
  <2>1. PatchedTo' = PatchedTo
    BY <1>1 DEF PatchedTo
  <2> QED BY <1>1, <2>1, BitsKept DEF PatchInv
<1>6. DumpShown'
  <2>1. DumpedTo' = DumpedTo
    BY <1>1, <1>2 DEF DumpedTo
  <2> QED BY <1>1, <2>1 DEF PatchInv, DumpShown, Readable, WindowFits, WordAt, Off,
             Shift, SameShown, Place
<1> QED BY <1>3, <1>4, <1>5, <1>6 DEF PatchInv

LEMMA PatchNextInv == PatchInv /\ [PatchNext]_patchVars => PatchInv'
<1> SUFFICES ASSUME PatchInv, [PatchNext]_patchVars PROVE PatchInv'
  OBVIOUS
<1>1. CASE PatchNext
  BY <1>1, LoadModelInv, LoadFieldInv, LoadEndInv, PatchFieldInv, PatchEndInv,
     DumpFieldInv, DumpEndInv DEF PatchNext
<1>2. CASE UNCHANGED patchVars
  <2>1. UNCHANGED <<patchPc, patcher, length, fields, patches, todo, bits, shown>>
    BY <1>2 DEF patchVars
  <2>2. PatchTypeOK'
    BY <2>1 DEF PatchInv, PatchTypeOK, Memory
  <2>3. Looping'
    BY <2>1 DEF PatchInv, Looping, Admitted, Off
  <2>4. BitsPatched'
    <3>1. PatchedTo' = PatchedTo
      BY <2>1 DEF PatchedTo
    <3> QED BY <2>1, <3>1, BitsKept DEF PatchInv
  <2>5. DumpShown'
    BY <2>1 DEF PatchInv, DumpShown, DumpedTo, Readable, WindowFits, WordAt, Off,
       Shift, SameShown, Place
  <2> QED BY <2>2, <2>3, <2>4, <2>5 DEF PatchInv
<1> QED BY <1>1, <1>2

\* The invariant of loading, patching and dumping, for any byte and word size,
\* any bitstreams and any fields.
THEOREM PatchInvariant == PatchSpec => []PatchInv
<1> QED BY PatchInitInv, PatchNextInv, PTL DEF PatchSpec

\* The types of ModelPatch.
THEOREM PatchTyped == PatchSpec => []PatchTypeOK
<1>1. PatchInv => PatchTypeOK
  BY DEF PatchInv
<1> QED BY <1>1, PatchInvariant, PTL

\* PatchVAs and PatchParamBitstreamVAs never write behind the bitstream when
\* the model's fields end inside it, and the latter never at all.
THEOREM PatchedInside == PatchSpec => []PatchInside
<1>1. PatchInv => PatchInside
  <2> SUFFICES ASSUME PatchInv, FieldsEndInside \/ patcher \in {"param", "legacy"},
                      NEW b \in Memory \ BitsOf(length)
               PROVE  bits[b] = Original
    BY DEF PatchInside
  <2>1. length \in Nat /\ Len(patches) \in Nat
    BY PatchesAreFields DEF PatchInv
  <2>2. b \in Nat /\ ~ (b < length * ByteBits)
    <3>1. b \in Nat /\ b \notin 0 .. length * ByteBits - 1
      BY DEF Memory, BitsOf
    <3>2. length * ByteBits \in Nat
      BY <2>1, PatchAssumption
    <3> QED BY <3>1, <3>2
  <2>3. ASSUME NEW i \in 1 .. PatchedTo, Hits(patches[i], b) PROVE FALSE
    <3>1. i \in 1 .. Len(patches)
      BY <2>1, PatchesAreFields DEF PatchedTo, PatchInv, Looping, PatchTypeOK
    <3>2. patches[i] \in Fields /\ Admitted(patches[i])
      BY <3>1, PatchesAreFields DEF PatchInv, Looping
    <3> QED BY <2>1, <2>2, <2>3, <3>1, <3>2, HitsInside DEF FieldsEndInside
  <2> QED BY <2>3 DEF PatchInv, BitsPatched
<1> QED BY <1>1, PatchInvariant, PTL

\* After patching: which patches hit a bit, in terms of the fields.
LEMMA AllPatched ==
  ASSUME PatchInv, patchPc \in {"dump", "patched"}, patcher = "legacy" => ByteAligned
  PROVE  /\ PatchedTo = Len(patches) /\ Len(patches) \in Nat /\ length \in Nat
         /\ \A i \in 1 .. Len(patches) :
              /\ patches[i] \in Fields /\ Admitted(patches[i])
              /\ \A b \in Nat :
                   /\ Hits(patches[i], b) <=>
                        Target(patches[i]) # NoVa /\ b \in FieldBits(patches[i])
                   /\ b \in FieldBits(patches[i]) =>
                        WordBit(patches[i], b - Off(patches[i]) * ByteBits)
                          = b - patches[i].offset
<1>1. PatchedTo = Len(patches) /\ Len(patches) \in Nat /\ length \in Nat
  BY PatchesAreFields DEF PatchedTo, PatchInv
<1>2. ASSUME NEW i \in 1 .. Len(patches)
      PROVE  /\ patches[i] \in Fields /\ Admitted(patches[i])
             /\ patcher # "legacy" \/ Shift(patches[i]) = 0
  BY <1>2, PatchesAreFields DEF PatchInv, Looping, ByteAligned
<1> QED BY <1>1, <1>2, HitsFieldBits

\* A field no other one overlaps holds its half of its own address.
LEMMA FieldHoldsAddress ==
  ASSUME PatchInv, patchPc \in {"dump", "patched"}, patcher = "legacy" => ByteAligned,
         NEW i \in 1 .. Len(patches), Addressed(patches[i]),
         \A j \in 1 .. Len(patches) : j # i => Disjoint(patches[i], patches[j]),
         NEW k \in 0 .. WordBits - 1
  PROVE  bits[patches[i].offset + k] = Value(Target(patches[i]), patches[i].position, k)
<1> DEFINE b == patches[i].offset + k
<1>1. /\ PatchedTo = Len(patches) /\ length \in Nat
      /\ patches[i] \in Fields /\ Admitted(patches[i])
  BY AllPatched
<1>2. patches[i].offset \in Nat /\ WordBits \in Nat
  BY <1>1, FieldOffset, WordBitsPositive
<1>3. b \in Nat /\ b \in FieldBits(patches[i]) /\ b - patches[i].offset = k
  BY <1>2 DEF FieldBits
<1>4. b \in Memory
  BY <1>1, <1>3, FieldInMemory
<1>5. \A j \in 1 .. Len(patches) : j # i => b \notin FieldBits(patches[j])
  BY <1>3 DEF Disjoint
<1> HIDE DEF b
<1>6. Hits(patches[i], b) /\ PatchedBit(patches[i], b) = Value(Target(patches[i]),
                                                            patches[i].position, k)
  BY <1>3, AllPatched DEF Addressed, PatchedBit
<1>7. \A j \in 1 .. PatchedTo : j # i => ~ Hits(patches[j], b)
  BY <1>1, <1>3, <1>5, AllPatched
<1>8. bits[b] = PatchedBit(patches[i], b)
  BY <1>1, <1>4, <1>6, <1>7 DEF PatchInv, BitsPatched
<1> QED BY <1>6, <1>8 DEF b

\* Patching is exact: each field its half, every other bit untouched.
THEOREM PatchedExactly == PatchSpec => []PatchExact
<1>1. PatchInv => PatchExact
  <2> SUFFICES ASSUME PatchInv, patchPc \in {"dump", "patched"},
                      patcher = "legacy" => ByteAligned
               PROVE  /\ \A i \in 1 .. Len(patches) :
                           /\ Addressed(patches[i])
                           /\ \A j \in 1 .. Len(patches) : j # i => Disjoint(patches[i], patches[j])
                           => \A k \in 0 .. WordBits - 1 :
                                bits[patches[i].offset + k]
                                  = Value(Target(patches[i]), patches[i].position, k)
                      /\ \A b \in BitsOf(length) :
                           (\A i \in 1 .. Len(patches) :
                              Addressed(patches[i]) => b \notin FieldBits(patches[i]))
                             => bits[b] = Original
    BY DEF PatchExact
  <2>1. ASSUME NEW b \in BitsOf(length),
               \A i \in 1 .. Len(patches) :
                 Addressed(patches[i]) => b \notin FieldBits(patches[i])
        PROVE  bits[b] = Original
    <3>1. PatchedTo = Len(patches) /\ length \in Nat /\ Len(patches) \in Nat
      BY AllPatched
    <3>2. b \in Nat /\ b \in Memory
      <4>1. ByteBits \in Nat /\ WordBytes \in Nat
        BY PatchAssumption
      <4>2. (length + 2 * WordBytes) * ByteBits
              = length * ByteBits + (2 * WordBytes) * ByteBits
        BY <3>1, <4>1
      <4>3. (2 * WordBytes) * ByteBits \in Nat /\ length * ByteBits \in Nat
        BY <3>1, <4>1
      <4> QED BY <4>2, <4>3 DEF Memory, BitsOf
    <3>3. ASSUME NEW i \in 1 .. PatchedTo, Hits(patches[i], b) PROVE FALSE
      <4>1. Target(patches[i]) # NoVa /\ b \in FieldBits(patches[i])
        BY <3>1, <3>2, <3>3, AllPatched
      <4>2. Addressed(patches[i])
        BY <3>1, <4>1 DEF Addressed
      <4> QED BY <2>1, <3>1, <4>1, <4>2
    <3> QED BY <3>2, <3>3 DEF PatchInv, BitsPatched
  <2> QED BY <2>1, FieldHoldsAddress
<1> QED BY <1>1, PatchInvariant, PTL

\* DumpPatchedVAs shows what was written.
THEOREM DumpShowsWritten == PatchSpec => []ShownIsWritten
<1>1. PatchInv => ShownIsWritten
  <2> SUFFICES ASSUME PatchInv, patchPc = "patched", patcher # "legacy",
                      NEW i \in 1 .. Len(patches),
                      Readable(patches[i]), Addressed(patches[i]),
                      \A j \in 1 .. Len(patches) : j # i => Disjoint(patches[i], patches[j]),
                      \A j \in i + 1 .. Len(patches) :
                        Readable(patches[j]) =>
                          <<Place(patches[j]), patches[j].position>>
                            # <<Place(patches[i]), patches[i].position>>
               PROVE  [place |-> Place(patches[i]), half |-> patches[i].position,
                       word |-> [k \in 0 .. WordBits - 1 |->
                         Value(Target(patches[i]), patches[i].position, k)]] \in shown
    BY DEF ShownIsWritten
  <2>1. DumpedTo = Len(patches)
    BY DEF DumpedTo
  <2>2. \A j \in i + 1 .. DumpedTo :
          Readable(patches[j]) => ~ SameShown(patches[j], patches[i])
    BY <2>1 DEF SameShown
  <2>3. [place |-> Place(patches[i]), half |-> patches[i].position,
         word |-> WordAt(patches[i])] \in shown
    BY <2>1, <2>2 DEF PatchInv, DumpShown
  <2>4. patches[i] \in Fields
    BY PatchesAreFields DEF PatchInv
  <2>5. patches[i].offset = Off(patches[i]) * ByteBits + Shift(patches[i])
    BY <2>4, FieldOffset
  <2>6. \A k \in 0 .. WordBits - 1 :
          bits[patches[i].offset + k] = Value(Target(patches[i]), patches[i].position, k)
    BY FieldHoldsAddress
  <2>7. WordAt(patches[i]) = [k \in 0 .. WordBits - 1 |->
          Value(Target(patches[i]), patches[i].position, k)]
    BY <2>5, <2>6 DEF WordAt
  <2> QED BY <2>3, <2>7
<1> QED BY <1>1, PatchInvariant, PTL
=============================================================================

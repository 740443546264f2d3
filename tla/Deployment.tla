----------------------------- MODULE Deployment -----------------------------
(***************************************************************************)
(* From a model file to slots the chip can use.                            *)
(*                                                                         *)
(* Four parts that never check each other must agree: the loader cuts the  *)
(* file into bitstreams, parameters and layers; the client asks for one    *)
(* slot per piece, each at a device address that is a constant of its      *)
(* source; ALLOC writes the page table slot by slot; the patchers write    *)
(* the same constants into the bitstreams.  A piece that outgrows the gap  *)
(* behind its slot is overwritten in the page table by the slot that comes *)
(* later, silently.                                                        *)
(*                                                                         *)
(* Clients are npu_runtime_init_face_ssd and infer_test_console, which     *)
(* share layout and order.  Sizes and addresses are in pages.  A file      *)
(* without the DWN1 identifier is not considered.                          *)
(***************************************************************************)
EXTENDS Naturals, Sequences

CONSTANTS
  Files   \* the model files considered

(***************************************************************************)
(* A model file: what the loader finds in it, sizes in pages; zero means   *)
(* empty or missing.  exe1: a second executable is there.                  *)
(***************************************************************************)
FieldDescs == {"INPUT_ACTIVATION", "OUTPUT_ACTIVATION", "PARAMETER", "SCRATCH"}
FieldRefs  == [desc : FieldDescs, name : STRING \cup {""}]   \* "": no layer is named

ModelFiles ==
  [readable : BOOLEAN, exe1 : BOOLEAN,
   bitstream : Nat, exe0_parameters : Nat, scratch : Nat,
   inputs : Seq(Nat), outputs : Seq([name : STRING, pages : Nat]),
   fields : SUBSET FieldRefs, param_fields : SUBSET FieldDescs,
   param_bitstream : Nat, parameters : Nat]

ASSUME FilesAssumption == Files \subseteq ModelFiles

\* IO_SLOT_INDEX: the order in which ALLOC works.
INPUT        == 0
OUTPUT_BBOX  == 1
OUTPUT_SCORE == 2
SCRATCH      == 3
EXE0_BS      == 4
PARAM_DATA   == 5
EXE1_BS      == 6
EXE0_PARAM   == 7
Slots        == 0 .. 7

\* VA_INPUT and the others, as pages.
DeviceVa == [s \in Slots |->
  CASE s = INPUT        -> 4224
    [] s = OUTPUT_BBOX  -> 4352
    [] s = OUTPUT_SCORE -> 4354
    [] s = SCRATCH      -> 4608
    [] s = EXE0_BS      -> 2304
    [] s = PARAM_DATA   -> 0
    [] s = EXE1_BS      -> 2112
    [] OTHER            -> 4160]

TableEntries == 8192
Reserved     == {4096, 4097} \cup 6144 .. 8191   \* ring, status block, extended registers

VARIABLES
  deployPc, \* where the client is
  client,   \* "runtime" or "console"
  file,     \* the file it opens
  model,    \* ApexModelFb
  asked,    \* IOCTL_ALLOC_IO_BUFFERS_IN: pages of each slot
  next,     \* i: the slot ALLOC is at
  granted,  \* slots that have memory and entries
  holds,    \* what has been copied into each slot
  patched   \* addresses written into the bitstreams: [exe, field, base]

deployVars == <<deployPc, client, file, model, asked, next, granted, holds, patched>>

NoModel == [readable |-> FALSE, exe1 |-> FALSE, bitstream |-> 0, exe0_parameters |-> 0,
            scratch |-> 0, inputs |-> <<>>, outputs |-> <<>>, fields |-> {},
            param_fields |-> {}, param_bitstream |-> 0, parameters |-> 0]

DeploySteps == {"start", "parse", "exe1", "loaded", "open", "alloc", "copy", "patch1",
                "patch0", "ready", "failed"}

DeployTypeOK ==
  /\ deployPc \in DeploySteps /\ client \in {"runtime", "console"}
  /\ file \in ModelFiles /\ model \in ModelFiles
  /\ asked \in [Slots -> Nat] /\ next \in 0 .. 8 /\ granted \subseteq Slots
  /\ holds \in [Slots -> {"nothing", "bitstream", "parameters", "param_bitstream",
                          "exe0_parameters"}]
  /\ \A p \in patched : p.exe \in {0, 1} /\ p.field \in FieldRefs /\ p.base \in Nat

DeployInit ==
  /\ deployPc = "start" /\ client = "runtime" /\ file = NoModel /\ model = NoModel
  /\ asked = [s \in Slots |-> 0] /\ next = 0 /\ granted = {}
  /\ holds = [s \in Slots |-> "nothing"] /\ patched = {}

Go(to) == deployPc' = to

(***************************************************************************)
(* LoadModel.                                                              *)
(***************************************************************************)
OpenModel ==
  /\ deployPc = "start" /\ Go("parse")
  /\ client' \in {"runtime", "console"} /\ file' \in Files
  /\ UNCHANGED <<model, asked, next, granted, holds, patched>>

\* One of the levels - file, package, executables, bitstreams - is missing: the
\* model stays empty.
LoadFails ==
  /\ deployPc = "parse" /\ ~ file.readable /\ Go("loaded")
  /\ UNCHANGED <<client, file, model, asked, next, granted, holds, patched>>

\* executable[0]: bitstream, parameters, scratch, field offsets, layers.
ReadExe0 ==
  /\ deployPc = "parse" /\ file.readable /\ Go("exe1")
  /\ model' = [file EXCEPT !.param_fields = {}, !.param_bitstream = 0, !.parameters = 0]
  /\ UNCHANGED <<client, file, asked, next, granted, holds, patched>>

\* executable[1], if there is one: its bitstream and its parameters may be
\* missing independently; fields of a missing bitstream are not admitted.
ReadExe1 ==
  /\ deployPc = "exe1" /\ Go("loaded")
  /\ model' = IF file.exe1
              THEN [model EXCEPT !.param_bitstream = file.param_bitstream,
                                 !.parameters = file.parameters,
                                 !.param_fields = IF file.param_bitstream = 0 THEN {}
                                                  ELSE file.param_fields]
              ELSE model
  /\ UNCHANGED <<client, file, asked, next, granted, holds, patched>>

(***************************************************************************)
(* What the client asks for.                                               *)
(***************************************************************************)
\* has_param_caching, isExistParam.
Caching(m) == m.param_bitstream > 0 /\ m.parameters > 0

\* A model of less than two outputs still gets two output slots of 0x2000.
OutputPages(m, n) == IF Len(m.outputs) >= n THEN m.outputs[n].pages ELSE 2

Pages(m) == [s \in Slots |->
  CASE s = INPUT        -> m.inputs[1]
    [] s = OUTPUT_BBOX  -> OutputPages(m, 1)
    [] s = OUTPUT_SCORE -> OutputPages(m, 2)
    [] s = SCRATCH      -> m.scratch
    [] s = EXE0_BS      -> m.bitstream
    [] s = PARAM_DATA   -> IF Caching(m) THEN m.parameters ELSE 0
    [] s = EXE1_BS      -> IF Caching(m) THEN m.param_bitstream ELSE 0
    [] OTHER            -> IF Caching(m) THEN m.exe0_parameters ELSE 0]

AcceptModel ==
  /\ deployPc = "loaded"
  /\ IF model.bitstream = 0 \/ model.inputs = <<>> \/ model.outputs = <<>>
     THEN Go("failed") ELSE Go("open")
  /\ UNCHANGED <<client, file, model, asked, next, granted, holds, patched>>

\* No anchors (runtime), no device.
NotReady ==
  /\ deployPc = "open" /\ Go("failed")
  /\ UNCHANGED <<client, file, model, asked, next, granted, holds, patched>>

AskSlots ==
  /\ deployPc = "open" /\ Go("alloc")
  /\ asked' = Pages(model)
  /\ UNCHANGED <<client, file, model, next, granted, holds, patched>>

(***************************************************************************)
(* IOCTL_ALLOC_IO_BUFFERS: the slots in order; their entries are written   *)
(* without a look at those of the others, nor at the reserved ones.        *)
(***************************************************************************)
InTable(s) == DeviceVa[s] + asked[s] <= TableEntries

GrantSlot ==
  /\ deployPc = "alloc" /\ next < 8
  /\ IF asked[next] = 0 THEN UNCHANGED granted
     ELSE InTable(next) /\ granted' = granted \cup {next}
  /\ next' = next + 1
  /\ UNCHANGED <<deployPc, client, file, model, asked, holds, patched>>

\* No memory, or out of the table: all slots are given back.
RefuseSlot ==
  /\ deployPc = "alloc" /\ next < 8 /\ asked[next] > 0
  /\ granted' = {} /\ Go("failed")
  /\ UNCHANGED <<client, file, model, asked, next, holds, patched>>

AllocDone ==
  /\ deployPc = "alloc" /\ next = 8 /\ Go("copy")
  /\ UNCHANGED <<client, file, model, asked, next, granted, holds, patched>>

(***************************************************************************)
(* Copying and patching.                                                   *)
(***************************************************************************)
\* The console verifies its copies and dumps what it patched, and reads an
\* empty vector when there are no parameters to cache, or none of exe0.
Faults == client = "console" /\ (~ Caching(model) \/ model.exe0_parameters = 0)

ConsoleFaults ==
  /\ deployPc = "copy" /\ Faults /\ Go("failed")
  /\ granted' = {}
  /\ UNCHANGED <<client, file, model, asked, next, holds, patched>>

CopyParameters ==
  /\ deployPc = "copy" /\ ~ Faults /\ Go("patch1")
  /\ holds' = IF Caching(model)
              THEN [holds EXCEPT ![PARAM_DATA] = "parameters",
                                 ![EXE0_PARAM] = "exe0_parameters"]
              ELSE holds
  /\ UNCHANGED <<client, file, model, asked, next, granted, patched>>

ParamField == [desc |-> "PARAMETER", name |-> ""]

\* PatchParamBitstreamVAs, then the copy.
PatchExe1 ==
  /\ deployPc = "patch1" /\ Go("patch0")
  /\ IF Caching(model)
     THEN /\ patched' = IF "PARAMETER" \in model.param_fields
                        THEN patched \cup {[exe |-> 1, field |-> ParamField,
                                            base |-> DeviceVa[PARAM_DATA]]}
                        ELSE patched
          /\ holds' = [holds EXCEPT ![EXE1_BS] = "param_bitstream"]
     ELSE UNCHANGED <<patched, holds>>
  /\ UNCHANGED <<client, file, model, asked, next, granted>>

\* Mutant: all outputs at the first output's address.
MutOutputVas(m) ==
  {[name |-> m.outputs[n].name, base |-> DeviceVa[OUTPUT_BBOX]] :
     n \in 1 .. (IF Len(m.outputs) < 2 THEN Len(m.outputs) ELSE 2)}

\* output_vas: the second entry of a name replaces the first.
OutputVas(m) ==
  {[name |-> m.outputs[1].name, base |-> DeviceVa[OUTPUT_BBOX]] :
     n \in {n \in {1} : Len(m.outputs) < 2 \/ m.outputs[1].name # m.outputs[2].name}}
  \cup {[name |-> m.outputs[n].name, base |-> DeviceVa[OUTPUT_SCORE]] :
          n \in {2} \cap 1 .. Len(m.outputs)}

\* The addresses PatchVAs may write into field f: none for an output that is
\* not in the map.
Bases(m, f) ==
  CASE f.desc = "INPUT_ACTIVATION"  -> {DeviceVa[INPUT]}
    [] f.desc = "OUTPUT_ACTIVATION" -> {o.base : o \in {o \in OutputVas(m) : o.name = f.name}}
    [] f.desc = "PARAMETER"         -> {IF Caching(m) \/ client = "console"
                                        THEN DeviceVa[EXE0_PARAM] ELSE 0}
    [] OTHER                        -> {IF m.scratch > 0 THEN DeviceVa[SCRATCH] ELSE 0}

\* PatchVAs, then the copy.
PatchExe0 ==
  /\ deployPc = "patch0" /\ Go("ready")
  /\ patched' = patched \cup
       UNION {{[exe |-> 0, field |-> f, base |-> b] : b \in Bases(model, f)} :
                f \in model.fields}
  /\ holds' = [holds EXCEPT ![EXE0_BS] = "bitstream"]
  /\ UNCHANGED <<client, file, model, asked, next, granted>>

DeployNext ==
  \/ OpenModel \/ LoadFails \/ ReadExe0 \/ ReadExe1 \/ AcceptModel \/ NotReady
  \/ AskSlots \/ GrantSlot \/ RefuseSlot \/ AllocDone
  \/ ConsoleFaults \/ CopyParameters \/ PatchExe1 \/ PatchExe0

DeploySpec == DeployInit /\ [][DeployNext]_deployVars

(***************************************************************************)
(* What a deployment must achieve.                                         *)
(***************************************************************************)

\* Each piece ends before the next slot that is used, and before the entries the
\* driver keeps for itself: nobody checks it.
Behind(s, m) == {DeviceVa[t] : t \in {t \in Slots : Pages(m)[t] > 0 /\ DeviceVa[t] > DeviceVa[s]}}
Fits(m) == \A s \in Slots : \A p \in Behind(s, m) \cup Reserved :
             DeviceVa[s] <= p => DeviceVa[s] + Pages(m)[s] <= p

\* A model the clients are written for: at most two outputs are addressed, by
\* different names, and parameters of exe0 come with a cache for those of exe1
\* (a STAND_ALONE model's parameters get no slot).
Supported(m) ==
  /\ Len(m.outputs) >= 2 => m.outputs[1].name # m.outputs[2].name
  /\ \A f \in m.fields :
       /\ f.desc = "OUTPUT_ACTIVATION" =>
            \E n \in {1, 2} \cap 1 .. Len(m.outputs) : m.outputs[n].name = f.name
                                                      /\ m.outputs[n].pages > 0
       /\ f.desc = "INPUT_ACTIVATION" => m.inputs[1] > 0
       /\ f.desc = "PARAMETER" => Caching(m) /\ m.exe0_parameters > 0
       /\ f.desc = "SCRATCH"   => m.scratch > 0

Covers(s, p) == DeviceVa[s] <= p /\ p < DeviceVa[s] + asked[s]

\* What the page table has for page p: the slot that wrote it last.
Reaches(p, s) == s \in granted /\ Covers(s, p) /\ \A t \in granted : s < t => ~ Covers(t, p)

\* Page j of the region at base is page j of slot s.
Backed(base, s) ==
  /\ base = DeviceVa[s]
  /\ \A j \in 0 .. asked[s] - 1 : base + j \notin Reserved /\ Reaches(base + j, s)

\* The slot an address in bitstream exe is meant for.
Meant(exe, f) ==
  IF exe = 1 THEN PARAM_DATA
  ELSE CASE f.desc = "INPUT_ACTIVATION"  -> INPUT
         [] f.desc = "OUTPUT_ACTIVATION" -> IF f.name = model.outputs[1].name
                                            THEN OUTPUT_BBOX ELSE OUTPUT_SCORE
         [] f.desc = "PARAMETER"         -> EXE0_PARAM
         [] OTHER                        -> SCRATCH

\* A deployed model is consistent: every address the bitstreams name was
\* written, and through the page table it leads, page for page, to the slot
\* that was allocated for it and holds what it is the address of; so do the
\* addresses at which the bitstreams themselves are submitted.
EveryAddressBacked ==
  deployPc = "ready" /\ Supported(model) /\ Fits(model) =>
    /\ Backed(DeviceVa[EXE0_BS], EXE0_BS) /\ holds[EXE0_BS] = "bitstream"
    /\ Caching(model) =>
         /\ Backed(DeviceVa[EXE1_BS], EXE1_BS) /\ holds[EXE1_BS] = "param_bitstream"
         /\ holds[PARAM_DATA] = "parameters" /\ holds[EXE0_PARAM] = "exe0_parameters"
    /\ \A p \in patched : Backed(p.base, Meant(p.exe, p.field))
    /\ \A f \in model.fields : \E p \in patched : p.exe = 0 /\ p.field = f
    /\ Caching(model) /\ "PARAMETER" \in model.param_fields =>
         \E p \in patched : p.exe = 1
=============================================================================

----------------------------- MODULE ModelPatch -----------------------------
(***************************************************************************)
(* Writing device addresses into an instruction bitstream.                 *)
(*                                                                         *)
(* A model names the fields of its bitstream that hold half of a device    *)
(* address: a bit offset, what the address is of, and which half.  The     *)
(* loader admits the fields that fit, a patcher writes the addresses - a   *)
(* read-modify-write of the eight bytes around the field - and the dump    *)
(* reads them back.  Four patchers: PatchVAs with one output base, with a  *)
(* base per output layer, PatchParamBitstreamVAs for the bitstream that    *)
(* caches parameters, and PatchVAs of the legacy loader, which ignores the *)
(* bit part of the offset.                                                 *)
(*                                                                         *)
(* A bit is known by where it came from: the model file, the memory behind *)
(* the bitstream, or bit k of one half of an address.                      *)
(***************************************************************************)
EXTENDS Naturals, Sequences

CONSTANTS
  ByteBits,   \* bits of a byte (8)
  WordBytes,  \* bytes of half an address (4); the patchers handle twice as many
  Lengths,    \* lengths of bitstreams, in bytes
  Offsets,    \* bit offsets of fields, as the compiler writes them: not negative
  MaxFields,  \* bound on the fields of a bitstream
  Outputs     \* the output layers of the model, a sequence of [name, pages]

ASSUME PatchAssumption ==
  /\ ByteBits \in Nat \ {0} /\ WordBytes \in Nat \ {0}
  /\ Lengths \subseteq Nat /\ Lengths # {} /\ Offsets \subseteq Nat /\ MaxFields \in Nat
  /\ Outputs \in Seq([name : STRING, pages : Nat])

WordBits == WordBytes * ByteBits

Descs     == {"INPUT_ACTIVATION", "OUTPUT_ACTIVATION", "PARAMETER", "SCRATCH"}
Positions == {"LOWER_32BIT", "UPPER_32BIT"}
LayerNames == {Outputs[i].name : i \in 1 .. Len(Outputs)}
Fields    == {f \in [offset : Offsets, desc : Descs, position : Positions,
                     name : LayerNames \cup {"", "unlisted"}] :
                f.name # "" => f.desc = "OUTPUT_ACTIVATION"}
Patchers  == {"single", "named", "param", "legacy"}

(***************************************************************************)
(* Addresses: pages behind a base; the runtime gives every output a base   *)
(* of its own, PatchVAs with one base lays them out one after another.     *)
(***************************************************************************)
Va(base, pages) == [base |-> base, pages |-> pages]
NoVa            == Va("none", 0)

PagesBefore[i \in 0 .. Len(Outputs)] ==
  IF i = 0 THEN 0 ELSE PagesBefore[i - 1] + Outputs[i].pages

LayerPlace(name) == CHOOSE i \in 1 .. Len(Outputs) :
                      /\ Outputs[i].name = name
                      /\ \A j \in 1 .. i - 1 : Outputs[j].name # name

VARIABLES
  patchPc,  \* "new", "load", "patch", "dump", "patched"
  patcher,  \* which patcher runs
  length,   \* bytes of the bitstream
  fields,   \* field_offsets of the model
  patches,  \* model.patches: the admitted fields
  todo,     \* index of the loop in hand
  bits,     \* the bitstream and the memory behind it
  shown     \* what the dump prints: address halves by destination

patchVars == <<patchPc, patcher, length, fields, patches, todo, bits, shown>>

BitsOf(n) == 0 .. n * ByteBits - 1
Memory    == BitsOf(length + 2 * WordBytes)
Original  == [va |-> NoVa, half |-> "none", k |-> 0]
Value(va, half, k) == [va |-> va, half |-> half, k |-> k]

\* Where the dump puts a field: one place per description, one per output.
Place(f) == <<f.desc, IF f.desc = "OUTPUT_ACTIVATION" THEN f.name ELSE "">>

PatchTypeOK ==
  /\ patchPc \in {"new", "load", "patch", "dump", "patched"}
  /\ patcher \in Patchers /\ length \in Lengths
  /\ fields \in Seq(Fields) /\ patches \in Seq(Fields)
  /\ todo \in 1 .. MaxFields + 1
  /\ DOMAIN bits = Memory

PatchInit ==
  /\ patchPc = "new" /\ patcher = "single" /\ length = (CHOOSE n \in Lengths : TRUE)
  /\ fields = <<>> /\ patches = <<>> /\ todo = 1
  /\ bits = [i \in Memory |-> Original] /\ shown = {}

LoadModel ==
  /\ patchPc = "new" /\ patchPc' = "load"
  /\ patcher' \in Patchers /\ length' \in Lengths
  /\ \E n \in 0 .. MaxFields : fields' \in [1 .. n -> Fields]
  /\ bits' = [i \in BitsOf(length' + 2 * WordBytes) |-> Original]
  /\ UNCHANGED <<patches, todo, shown>>

Off(f)   == f.offset \div ByteBits
Shift(f) == f.offset % ByteBits

\* Mutant: the word may end one byte behind the bitstream.
MutAdmitted(f) == Off(f) + WordBytes <= length + 1

\* The loader's test: four bytes from the field's byte fit.
Admitted(f) == Off(f) + WordBytes <= length

Goto(pc, n) == patchPc' = pc /\ todo' = n

LoadField ==
  /\ patchPc = "load" /\ todo <= Len(fields)
  /\ patches' = IF Admitted(fields[todo]) THEN Append(patches, fields[todo]) ELSE patches
  /\ Goto("load", todo + 1)
  /\ UNCHANGED <<patcher, length, fields, bits, shown>>

LoadEnd ==
  /\ patchPc = "load" /\ todo > Len(fields)
  /\ Goto("patch", 1)
  /\ UNCHANGED <<patcher, length, fields, patches, bits, shown>>

(***************************************************************************)
(* The address a patcher writes into a field, NoVa when it skips it.       *)
(***************************************************************************)
OutputVa(f) ==
  CASE patcher = "single" -> Va("output", IF f.name \in LayerNames
                                          THEN PagesBefore[LayerPlace(f.name) - 1] ELSE 0)
    [] patcher = "named"  -> IF f.name \in LayerNames THEN Va(f.name, 0) ELSE NoVa
    [] OTHER              -> Va("output", 0)

WindowFits(f) == Off(f) + 2 * WordBytes <= length

Target(f) ==
  CASE patcher = "param" ->
         IF f.desc = "PARAMETER" /\ WindowFits(f) THEN Va("param", 0) ELSE NoVa
    [] patcher = "legacy" /\ f.desc \notin {"INPUT_ACTIVATION", "OUTPUT_ACTIVATION"} -> NoVa
    [] patcher # "param" /\ f.desc = "INPUT_ACTIVATION" -> Va("input", 0)
    [] patcher # "param" /\ f.desc = "OUTPUT_ACTIVATION" -> OutputVa(f)
    [] patcher \in {"single", "named"} /\ f.desc = "PARAMETER" -> Va("param", 0)
    [] OTHER -> Va("scratch", 0)

\* Mutant: the mask is not shifted with the value.
MutMask(f) == 0 .. WordBits - 1

\* The bits of the window that the mask selects.
Mask(f) == IF patcher = "legacy" THEN 0 .. WordBits - 1
           ELSE Shift(f) .. Shift(f) + WordBits - 1

\* The bit of the word that lands on bit b of the window.
WordBit(f, b) == IF patcher = "legacy" THEN b ELSE b - Shift(f)

PatchField ==
  /\ patchPc = "patch" /\ todo <= Len(patches)
  /\ LET f     == patches[todo]
         first == Off(f) * ByteBits IN
       bits' = [i \in DOMAIN bits |->
                  IF Target(f) # NoVa /\ i >= first /\ i - first \in Mask(f)
                  THEN Value(Target(f), f.position, WordBit(f, i - first))
                  ELSE bits[i]]
  /\ Goto("patch", todo + 1)
  /\ UNCHANGED <<patcher, length, fields, patches, shown>>

PatchEnd ==
  /\ patchPc = "patch" /\ todo > Len(patches)
  /\ Goto(IF patcher = "legacy" THEN "patched" ELSE "dump", 1)
  /\ UNCHANGED <<patcher, length, fields, patches, bits, shown>>

\* Mutant: the dump reads whole bytes.
MutWordAt(f) == [k \in 0 .. WordBits - 1 |-> bits[Off(f) * ByteBits + k]]

\* The dump's word (the legacy loader has no dump): the window shifted right.
WordAt(f) == [k \in 0 .. WordBits - 1 |-> bits[Off(f) * ByteBits + Shift(f) + k]]

\* The fields a dump reads: the whole window, outputs the model lists, and only
\* parameters in the bitstream that caches them.
Readable(f) == /\ WindowFits(f)
               /\ f.desc = "OUTPUT_ACTIVATION" => f.name \in LayerNames
               /\ patcher = "param" => f.desc = "PARAMETER"

\* DumpPatchedVAs: a later field of the same destination replaces an earlier one.
DumpField ==
  /\ patchPc = "dump" /\ todo <= Len(patches)
  /\ LET f == patches[todo] IN
       IF Readable(f)
       THEN shown' = {s \in shown : s.place # Place(f) \/ s.half # f.position}
                       \cup {[place |-> Place(f), half |-> f.position, word |-> WordAt(f)]}
       ELSE UNCHANGED shown
  /\ Goto("dump", todo + 1)
  /\ UNCHANGED <<patcher, length, fields, patches, bits>>

DumpEnd ==
  /\ patchPc = "dump" /\ todo > Len(patches)
  /\ Goto("patched", 1)
  /\ UNCHANGED <<patcher, length, fields, patches, bits, shown>>

PatchNext == LoadModel \/ LoadField \/ LoadEnd \/ PatchField \/ PatchEnd \/ DumpField \/ DumpEnd

PatchSpec == PatchInit /\ [][PatchNext]_patchVars

(***************************************************************************)
(* What patching must achieve.                                             *)
(***************************************************************************)
FieldBits(f) == f.offset .. f.offset + WordBits - 1

Addressed(f) == f \in {patches[i] : i \in 1 .. Len(patches)} /\ Target(f) # NoVa

Disjoint(f, g) == FieldBits(f) \cap FieldBits(g) = {}

ByteAligned == \A i \in 1 .. Len(patches) : Shift(patches[i]) = 0

\* After patching, a field that no other one overlaps holds exactly its half of
\* its own address, and every bit outside the addressed fields is as it was in
\* the model file: shifting value and mask keeps the neighbours of a field that
\* does not start at a byte.  (The legacy patcher writes whole bytes: it needs
\* byte-aligned fields.)
PatchExact ==
  patchPc \in {"dump", "patched"} /\ (patcher = "legacy" => ByteAligned) =>
    /\ \A i \in 1 .. Len(patches) :
         /\ Addressed(patches[i])
         /\ \A j \in 1 .. Len(patches) : j # i => Disjoint(patches[i], patches[j])
         => \A k \in 0 .. WordBits - 1 :
              bits[patches[i].offset + k] = Value(Target(patches[i]), patches[i].position, k)
    /\ \A b \in BitsOf(length) :
         (\A i \in 1 .. Len(patches) : Addressed(patches[i]) => b \notin FieldBits(patches[i]))
           => bits[b] = Original

\* No bit behind the bitstream changes.  The loader tests the word from the
\* byte the field starts in, so a field that starts inside the last word's first
\* byte would end behind it: the fields must end where the bitstream ends.
\* PatchParamBitstreamVAs tests the whole window and needs no such promise.
FieldsEndInside == \A i \in 1 .. Len(patches) :
                     patches[i].offset + WordBits <= length * ByteBits
PatchInside ==
  FieldsEndInside \/ patcher \in {"param", "legacy"} =>
    \A b \in Memory \ BitsOf(length) : bits[b] = Original

\* What the dump prints for a destination is what was written for it: the last
\* field of that destination and half that the dump can read, unless another
\* field overlaps it.
ShownIsWritten ==
  patchPc = "patched" /\ patcher # "legacy" =>
    \A i \in 1 .. Len(patches) :
      LET f == patches[i] IN
      /\ Readable(f) /\ Addressed(f)
      /\ \A j \in 1 .. Len(patches) : j # i => Disjoint(f, patches[j])
      /\ \A j \in i + 1 .. Len(patches) :
           Readable(patches[j]) => <<Place(patches[j]), patches[j].position>>
                                     # <<Place(f), f.position>>
      => [place |-> Place(f), half |-> f.position,
          word |-> [k \in 0 .. WordBits - 1 |-> Value(Target(f), f.position, k)]] \in shown
=============================================================================

---------------------------- MODULE MCDataPaths ----------------------------
(***************************************************************************)
(* Values for model-checking the sequential parts: the page walks, model   *)
(* deployment, patching, relayout and suppression.  They share no state,   *)
(* so one run explores them one beside the other: it picks one and leaves  *)
(* the others in their initial state.                                      *)
(***************************************************************************)
EXTENDS PageWalk, OutputRelayout, SsdNms, ModelPatch, Deployment, SequencesExt

VARIABLE path   \* the part this behaviour explores

Paths == {"walk", "relayout", "nms", "patch", "deploy"}

DataInit == WalkInit /\ RelayoutInit /\ NmsInit /\ PatchInit /\ DeployInit
            /\ path \in Paths

DataNext ==
  \/ /\ path = "walk" /\ WalkNext
     /\ UNCHANGED <<path, relayoutVars, nmsVars, patchVars, deployVars>>
  \/ /\ path = "relayout" /\ RelayoutNext
     /\ UNCHANGED <<path, walkVars, nmsVars, patchVars, deployVars>>
  \/ /\ path = "nms" /\ NmsNext
     /\ UNCHANGED <<path, walkVars, relayoutVars, patchVars, deployVars>>
  \/ /\ path = "patch" /\ PatchNext
     /\ UNCHANGED <<path, walkVars, relayoutVars, nmsVars, deployVars>>
  \/ /\ path = "deploy" /\ DeployNext
     /\ UNCHANGED <<path, walkVars, relayoutVars, nmsVars, patchVars>>

DataSpec ==
  DataInit /\ [][DataNext]_<<path, walkVars, relayoutVars, nmsVars, patchVars, deployVars>>

DataTypeOK == WalkTypeOK /\ RelayoutTypeOK /\ NmsTypeOK /\ PatchTypeOK /\ DeployTypeOK

(***************************************************************************)
(* Tiled layouts as the compiler lays them out: tile by tile, each tile    *)
(* row by row, each z vector padded to pad elements.                       *)
(***************************************************************************)
Total(s)        == FoldLeft(LAMBDA a, b : a + b, 0, s)
Starts(ws, i)   == Total(SubSeq(ws, 1, i - 1))
TileOf(ws, x)   == CHOOSE i \in 1 .. Len(ws) : Starts(ws, i) <= x /\ x < Starts(ws, i) + ws[i]
Area(ws, hs, p, id) == ws[(id % Len(ws)) + 1] * hs[(id \div Len(ws)) + 1] * p

Tiled(ws, hs, z, pad, dt) ==
  [y_dim |-> Total(hs), x_dim |-> Total(ws), z_dim |-> z, data_type |-> dt,
   executions |-> 1, has_layout |-> TRUE,
   y_to_tile_id |-> [r \in 0 .. Total(hs) - 1 |-> (TileOf(hs, r) - 1) * Len(ws)],
   y_to_local_y_offset |-> [r \in 0 .. Total(hs) - 1 |-> r - Starts(hs, TileOf(hs, r))],
   x_to_tile_id |-> [x \in 0 .. Total(ws) - 1 |-> TileOf(ws, x) - 1],
   x_to_local_byte |-> [x \in 0 .. Total(ws) - 1 |-> (x - Starts(ws, TileOf(ws, x))) * pad],
   x_to_local_y_row_size |-> [x \in 0 .. Total(ws) - 1 |-> ws[TileOf(ws, x)] * pad],
   tile_byte_offset |-> [id \in 0 .. Len(ws) * Len(hs) - 1 |->
                           Total([k \in 1 .. id |-> Area(ws, hs, pad, k - 1)])]]

Plain(rows, cols, dt, n) ==
  [y_dim |-> rows, x_dim |-> cols, z_dim |-> 2, data_type |-> dt,
   executions |-> n, has_layout |-> FALSE]

\* Tiles of equal width, a narrow last one, a narrow first one (not evenly
\* spaced), one column, one element.
MCLayers ==
  {Tiled(ws, hs, 2, pad, dt) :
     ws \in {<<2>>, <<2, 1>>, <<1, 2>>, <<3, 2>>, <<1, 1>>, <<1>>},
     hs \in {<<1>>, <<2, 1>>}, pad \in {2, 4},
     dt \in {"FIXED_POINT8", "SIGNED_FIXED_POINT16"}}
  \cup {Plain(2, 2, "SIGNED_FIXED_POINT8", n) : n \in 1 .. 2}

MCOutputs == <<[name |-> "boxes", pages |-> 2], [name |-> "scores", pages |-> 1]>>
MCOffsets == {0, 3, 4, 5, 7, 8}
MCLimits  == {0, 2}

(***************************************************************************)
(* The model the layout was made for (infer_test_console.cpp:149), and     *)
(* others that differ from it in one or two pieces: missing, as large as   *)
(* the gap behind the slot allows, or one page larger.                     *)
(***************************************************************************)
Ref(desc, name) == [desc |-> desc, name |-> name]

Face ==
  [readable |-> TRUE, exe1 |-> TRUE, bitstream |-> 49, exe0_parameters |-> 49,
   scratch |-> 0, inputs |-> <<75>>,
   outputs |-> <<[name |-> "Squeeze1", pages |-> 2], [name |-> "convert_scores", pages |-> 2]>>,
   fields |-> {Ref("INPUT_ACTIVATION", ""), Ref("OUTPUT_ACTIVATION", "Squeeze1"),
               Ref("OUTPUT_ACTIVATION", "convert_scores"), Ref("PARAMETER", "")},
   param_fields |-> {"PARAMETER"}, param_bitstream |-> 3, parameters |-> 1500]

Two   == Face.outputs
Third == Append(Two, [name |-> "third", pages |-> 1])

Variants(f) ==
  {f} \cup {[f EXCEPT !.bitstream = n] : n \in {0, 1792, 1793, 6000}}
      \cup {[f EXCEPT !.exe0_parameters = n] : n \in {0, 64, 65}}
      \cup {[f EXCEPT !.parameters = n] : n \in {0, 2112, 2113}}
      \cup {[f EXCEPT !.param_bitstream = n] : n \in {0, 192}}
      \cup {[f EXCEPT !.scratch = n, !.fields = @ \cup {Ref("SCRATCH", "")}] : n \in {1536, 1537}}
      \cup {[f EXCEPT !.inputs = s] : s \in {<<>>, <<128>>, <<129>>}}
      \cup {[f EXCEPT !.outputs = s] :
               s \in {<<>>, <<Two[1]>>, <<Two[1], Two[1]>>, <<[Two[1] EXCEPT !.pages = 3], Two[2]>>,
                      Third}}
      \cup {[f EXCEPT !.fields = @ \ {Ref("PARAMETER", "")}],
            [f EXCEPT !.fields = @ \cup {Ref("OUTPUT_ACTIVATION", "third")}],
            [f EXCEPT !.exe1 = FALSE], [f EXCEPT !.readable = FALSE]}

MCFiles == UNION {Variants(f) : f \in Variants(Face)}
=============================================================================

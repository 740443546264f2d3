--------------------------- MODULE OutputRelayout ---------------------------
(***************************************************************************)
(* From the bytes OUTFEED wrote to the tensor the host reads.              *)
(*                                                                         *)
(* The chip writes a layer tile by tile, each z vector padded; Relayout    *)
(* copies it into y-x-z order, one z vector per step, and TransformSigned- *)
(* DataType flips the top bit of signed elements in place.  The layout     *)
(* vectors come with the model.                                            *)
(*                                                                         *)
(* Bytes are named by their place in the chip's buffer; what they hold     *)
(* does not matter.                                                        *)
(***************************************************************************)
EXTENDS Integers

CONSTANTS
  Layers   \* the output layers of the models considered

(***************************************************************************)
(* LayerInfo.  Layouts map coordinates to tiles and offsets; a layer       *)
(* without one has empty maps and has_layout = FALSE.                      *)
(***************************************************************************)
DataTypes == {"FIXED_POINT8", "SIGNED_FIXED_POINT8", "FIXED_POINT16",
              "SIGNED_FIXED_POINT16", "SIGNED_FIXED_POINT32", "BFLOAT", "HALF", "SINGLE"}

DataTypeSize(dt) ==
  CASE dt \in {"FIXED_POINT16", "SIGNED_FIXED_POINT16", "BFLOAT", "HALF"} -> 2
    [] dt \in {"SIGNED_FIXED_POINT32", "SINGLE"} -> 4
    [] OTHER -> 1

IsSignedDataType(dt) == dt \in {"SIGNED_FIXED_POINT8", "SIGNED_FIXED_POINT16"}

Layer(l) ==
  /\ l.y_dim \in Nat \ {0} /\ l.x_dim \in Nat \ {0} /\ l.z_dim \in Nat \ {0}
  /\ l.data_type \in DataTypes /\ l.executions \in Nat \ {0}
  /\ l.has_layout \in BOOLEAN
  /\ l.has_layout =>
       /\ l.y_to_tile_id \in [0 .. l.y_dim - 1 -> Nat]
       /\ l.y_to_local_y_offset \in [0 .. l.y_dim - 1 -> Nat]
       /\ l.x_to_tile_id \in [0 .. l.x_dim - 1 -> Nat]
       /\ l.x_to_local_byte \in [0 .. l.x_dim - 1 -> Nat]
       /\ l.x_to_local_y_row_size \in [0 .. l.x_dim - 1 -> Nat]
       /\ \A row \in 0 .. l.y_dim - 1, x \in 0 .. l.x_dim - 1 :
            LET tile == l.y_to_tile_id[row] + l.x_to_tile_id[x] IN
              tile \in DOMAIN l.tile_byte_offset /\ l.tile_byte_offset[tile] \in Nat

ASSUME LayersAssumption == Layers # {} /\ \A l \in Layers : Layer(l)

VARIABLES
  stage,   \* where the conversion is
  layer,   \* the layer being converted
  y,       \* row
  tileX,   \* tile_starting_x
  lx,      \* column inside the tile
  source,  \* source, as a byte of the chip's buffer
  dst,     \* number of bytes written so far
  out      \* the destination buffer

relayoutVars == <<stage, layer, y, tileX, lx, source, dst, out>>

Stages == {"idle", "copy", "sign", "done"}

Size(l)            == DataTypeSize(l.data_type)
ZBytes(l)          == l.z_dim * Size(l)
TensorBytes(l)     == l.y_dim * l.x_dim * ZBytes(l)
ActualSizeBytes(l) == TensorBytes(l) * l.executions

\* A byte of the destination: the byte of the source it came from, and
\* whether its top bit was flipped.
Bytes == [from : Int, flipped : BOOLEAN]
Unset == [from |-> 0 - 1, flipped |-> FALSE]
Copy(n) == [from |-> n, flipped |-> FALSE]

\* get_buf_idx: an element index, multiplied by the element size by its users.
BufIdx(l, row, col) ==
  l.tile_byte_offset[l.y_to_tile_id[row] + l.x_to_tile_id[col]]
    + l.y_to_local_y_offset[row] * l.x_to_local_y_row_size[col]
    + l.x_to_local_byte[col]

\* z_bytes_padded: the distance of two columns, or of two rows when there is
\* one column (of one element there is no second, the code reads beyond).
ZPadded(l) == (IF l.x_dim > 1 THEN BufIdx(l, 0, 1) - BufIdx(l, 0, 0)
               ELSE IF l.y_dim > 1 THEN BufIdx(l, 1, 0) - BufIdx(l, 0, 0)
               ELSE 0) * Size(l)

\* active_tile_x_sizes: how many columns from x on lie in the tile of x.
SameTile(l, x, n) == \A k \in x .. x + n - 1 : l.x_to_tile_id[k] = l.x_to_tile_id[x]
TileSize(l, x) == CHOOSE n \in 1 .. l.x_dim - x :
                    /\ SameTile(l, x, n)
                    /\ x + n < l.x_dim => ~ SameTile(l, x, n + 1)

RelayoutTypeOK ==
  /\ stage \in Stages /\ Layer(layer)
  /\ y \in Nat /\ tileX \in Nat /\ lx \in Nat /\ source \in Int /\ dst \in Nat
  /\ stage # "idle" => out \in [0 .. ActualSizeBytes(layer) - 1 -> Bytes]

RelayoutInit ==
  /\ stage = "idle" /\ layer = CHOOSE l \in Layers : TRUE
  /\ y = 0 /\ tileX = 0 /\ lx = 0 /\ source = 0 /\ dst = 0 /\ out = <<>>

\* Relayout begins: a layer without layout is copied at once, all executions.
BeginLayer ==
  /\ stage = "idle"
  /\ \E l \in Layers :
       /\ layer' = l
       /\ y' = 0 /\ tileX' = 0 /\ lx' = 0
       /\ IF l.has_layout
          THEN /\ stage' = "copy" /\ dst' = 0 /\ source' = BufIdx(l, 0, 0) * Size(l)
               /\ out' = [b \in 0 .. ActualSizeBytes(l) - 1 |-> Unset]
          ELSE /\ stage' = "sign" /\ dst' = 0 /\ source' = 0
               /\ out' = [b \in 0 .. ActualSizeBytes(l) - 1 |-> Copy(b)]

\* Mutant: the source advances by the z vector, not by the padded one.
MutCopyVector ==
  /\ stage = "copy" /\ lx < TileSize(layer, tileX)
  /\ out' = [b \in DOMAIN out |-> IF dst <= b /\ b < dst + ZBytes(layer)
                                  THEN Copy(source + (b - dst)) ELSE out[b]]
  /\ dst' = dst + ZBytes(layer)
  /\ source' = source + ZBytes(layer)
  /\ lx' = lx + 1
  /\ UNCHANGED <<stage, layer, y, tileX>>

\* memcpy of one z vector.
CopyVector ==
  /\ stage = "copy" /\ lx < TileSize(layer, tileX)
  /\ out' = [b \in DOMAIN out |-> IF dst <= b /\ b < dst + ZBytes(layer)
                                  THEN Copy(source + (b - dst)) ELSE out[b]]
  /\ dst' = dst + ZBytes(layer)
  /\ source' = source + ZPadded(layer)
  /\ lx' = lx + 1
  /\ UNCHANGED <<stage, layer, y, tileX>>

\* The next tile of the row, the next row, or the end: dst is reset for the
\* sign transformation, whose index starts at the top byte of element 0.
NextTile ==
  /\ stage = "copy" /\ lx = TileSize(layer, tileX)
  /\ lx' = 0
  /\ LET next == tileX + TileSize(layer, tileX) IN
       \/ /\ next < layer.x_dim
          /\ tileX' = next /\ source' = BufIdx(layer, y, next) * Size(layer)
          /\ UNCHANGED <<stage, y, dst>>
       \/ /\ next = layer.x_dim /\ y + 1 < layer.y_dim
          /\ y' = y + 1 /\ tileX' = 0 /\ source' = BufIdx(layer, y + 1, 0) * Size(layer)
          /\ UNCHANGED <<stage, dst>>
       \/ /\ next = layer.x_dim /\ y + 1 = layer.y_dim
          /\ stage' = "sign" /\ tileX' = 0 /\ dst' = 0
          /\ UNCHANGED <<y, source>>
  /\ UNCHANGED <<layer, out>>

(***************************************************************************)
(* TransformSignedDataType: the top byte of every element.                 *)
(***************************************************************************)
TopByte == dst + Size(layer) - 1

FlipElement ==
  /\ stage = "sign" /\ IsSignedDataType(layer.data_type)
  /\ TopByte < ActualSizeBytes(layer)
  /\ out' = [out EXCEPT ![TopByte].flipped = ~ @]
  /\ dst' = dst + Size(layer)
  /\ UNCHANGED <<stage, layer, y, tileX, lx, source>>

FinishLayer ==
  /\ stage = "sign"
  /\ ~ IsSignedDataType(layer.data_type) \/ TopByte >= ActualSizeBytes(layer)
  /\ stage' = "done"
  /\ UNCHANGED <<layer, y, tileX, lx, source, dst, out>>

RelayoutNext == BeginLayer \/ CopyVector \/ NextTile \/ FlipElement \/ FinishLayer

RelayoutSpec == RelayoutInit /\ [][RelayoutNext]_relayoutVars

(***************************************************************************)
(* What the conversion must deliver.                                       *)
(***************************************************************************)

\* Neighbouring columns of one tile lie as far apart as columns 0 and 1.
EvenlySpaced(l) ==
  \A x \in 1 .. l.x_dim - 1 : l.x_to_tile_id[x] = l.x_to_tile_id[x - 1] =>
    \A row \in 0 .. l.y_dim - 1 :
      (BufIdx(l, row, x) - BufIdx(l, row, x - 1)) * Size(l) = ZPadded(l)

\* Byte k of element (row, x, z), in the chip's buffer and in the tensor.
ChipByte(l, row, x, z, k) == IF l.has_layout
                             THEN (BufIdx(l, row, x) + z) * Size(l) + k
                             ELSE ((row * l.x_dim + x) * l.z_dim + z) * Size(l) + k
HostByte(l, row, x, z, k) == ((row * l.x_dim + x) * l.z_dim + z) * Size(l) + k

\* The finished tensor holds, at every coordinate, the element the layout
\* vectors name for it, with the top bit of signed elements flipped once:
\* Relayout's walk over rows, tiles and columns agrees with get_buf_idx at
\* every coordinate, not only where a tile begins.  The walk measures the
\* padding between columns 0 and 1 and uses it everywhere, so the layout must be
\* evenly spaced; and one execution only (apex_postprocess.hpp:84).
TensorExact ==
  stage = "done" /\ layer.executions = 1 /\ (layer.has_layout => EvenlySpaced(layer)) =>
    \A row \in 0 .. layer.y_dim - 1, x \in 0 .. layer.x_dim - 1,
       z \in 0 .. layer.z_dim - 1, k \in 0 .. Size(layer) - 1 :
      out[HostByte(layer, row, x, z, k)] =
        [from    |-> ChipByte(layer, row, x, z, k),
         flipped |-> IsSignedDataType(layer.data_type) /\ k = Size(layer) - 1]
=============================================================================

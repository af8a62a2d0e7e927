-------------------------------- MODULE Tiles --------------------------------
(***************************************************************************)
(* Which tiles of a graph go into the package of a bounding box            *)
(* (utils/valhalla_utils.py), and which bounding boxes a job may have      *)
(* (api_v1/dependencies.py).                                               *)
(*                                                                         *)
(* Every level cuts the world into squares of one size and numbers them    *)
(* row by row from the south-west corner.  Coordinates are integers: a     *)
(* unit that divides the sizes of all levels, so that the floating-point   *)
(* arithmetic of the code, which is exact on such numbers, and the one     *)
(* here agree.                                                             *)
(***************************************************************************)
EXTENDS Integers

CONSTANTS
  HalfWidth,    \* 180 degrees of longitude
  HalfHeight,   \* 90 degrees of latitude
  Levels,       \* the levels of a graph
  TileSize      \* TILE_SIZES

ASSUME TilesAssumption ==
  /\ HalfWidth \in Nat \ {0} /\ HalfHeight \in Nat \ {0}
  /\ TileSize \in [Levels -> Nat \ {0}]
  /\ \A l \in Levels : (2 * HalfWidth) % TileSize[l] = 0

Box == [min_x : Int, min_y : Int, max_x : Int, max_y : Int]

(* split_bbox accepts it.  Boxes do not cross the antimeridian. *)
ValidBox(b) ==
  /\ b.min_x < b.max_x /\ -HalfWidth <= b.min_x /\ b.max_x <= HalfWidth
  /\ b.min_y < b.max_y /\ -HalfHeight <= b.min_y /\ b.max_y <= HalfHeight

Tile == [level : Levels, idx : Nat]

Columns(l) == (2 * HalfWidth) \div TileSize[l]

(* The square of size s in that row and column. *)
Square(row, col, s) ==
  [min_x |-> col * s - HalfWidth, min_y |-> row * s - HalfHeight,
   max_x |-> col * s - HalfWidth + s, max_y |-> row * s - HalfHeight + s]

(* get_tile_bbox *)
TileBox(t) ==
  Square(t.idx \div Columns(t.level), t.idx % Columns(t.level), TileSize[t.level])

(* Mutation: a tile is where its south-west corner is. *)
CornerOutside(a, b) ==
  \/ a.min_x < b.min_x \/ a.min_x > b.max_x
  \/ a.min_y < b.min_y \/ a.min_y > b.max_y

(* Left of it, below it, right of it or above it. *)
Outside(a, b) ==
  \/ a.min_x < b.min_x /\ a.max_x < b.min_x
  \/ a.min_y < b.min_y /\ a.max_y < b.min_y
  \/ a.min_x > b.max_x /\ a.max_x > b.max_x
  \/ a.min_y > b.max_y /\ a.max_y > b.max_y

(* get_tiles_with_bbox *)
TilesWithBox(tiles, b) == { t \in tiles : ~ Outside(TileBox(t), b) }

-----------------------------------------------------------------------------
(* What a package is for: to route at a place one needs the tile of every  *)
(* level there.                                                            *)

InBox(x, y, b) == b.min_x <= x /\ x <= b.max_x /\ b.min_y <= y /\ y <= b.max_y

(* The tile of level l a point lies in, as Valhalla numbers them. *)
TileAt(l, x, y) ==
  [level |-> l,
   idx |-> ((y + HalfHeight) \div TileSize[l]) * Columns(l)
             + (x + HalfWidth) \div TileSize[l]]

(* Every tile the graph has for a place in b.  The antimeridian and the    *)
(* pole are the borders of the last column and row.                        *)
Needed(tiles, b) ==
  { t \in tiles : \E x \in b.min_x..b.max_x, y \in b.min_y..b.max_y :
      x < HalfWidth /\ y < HalfHeight /\ t = TileAt(t.level, x, y) }
=============================================================================

------------------------------ MODULE MCAccounts ------------------------------
(* The tiles of a small extract on the equator, in eighths of a degree.     *)
EXTENDS Accounts

MCTileSize == [l \in 0..2 |-> CASE l = 0 -> 32 [] l = 1 -> 8 [] l = 2 -> 2]

Places == {0, 2, 4, 6, 8, 10}
MCGraphTiles == { TileAt(l, x, y) : l \in 0..2, x \in Places, y \in {0, 2} }

B(x1, y1, x2, y2) == [min_x |-> x1, min_y |-> y1, max_x |-> x2, max_y |-> y2]

(* Across the border of two tiles and ending on the border of others, where *)
(* there are none, and inside out.                                          *)
MCBoxes == {B(5, 1, 8, 2), B(100, 100, 110, 110), B(9, 1, 5, 3)}

MCPatches ==
  {[active |-> FALSE], [active |-> TRUE, permission |-> "read"],
   [permission |-> "internal"], [until |-> 1]}
=============================================================================

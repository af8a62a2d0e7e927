----------------------------- MODULE Tiles_proofs -----------------------------
(***************************************************************************)
(* What get_tiles_with_bbox selects, for every size of the world and of    *)
(* its tiles.                                                              *)
(***************************************************************************)
EXTENDS Tiles, TLAPS

(* Rows and columns can be read back from an index. *)
LEMMA RowAndColumn ==
  ASSUME NEW n \in Nat \ {0}, NEW r \in Nat, NEW c \in 0..(n - 1)
  PROVE  (r * n + c) \div n = r /\ (r * n + c) % n = c
  BY SMTT(30)

(* A number lies between two multiples of the size of a tile. *)
LEMMA Multiple ==
  ASSUME NEW s \in Nat \ {0}, NEW a \in Nat
  PROVE  /\ a \div s \in Nat
         /\ (a \div s) * s <= a /\ a < (a \div s) * s + s
  BY SMTT(30)

LEMMA ColumnsAreWhole ==
  ASSUME NEW l \in Levels
  PROVE  /\ Columns(l) \in Nat \ {0}
         /\ Columns(l) * TileSize[l] = 2 * HalfWidth
  BY TilesAssumption, SMTT(30) DEF Columns

(* Boxes whose corners are in order. *)
Ordered(b) == b \in Box /\ b.min_x <= b.max_x /\ b.min_y <= b.max_y

Meet(a, b) == \E x, y \in Int : InBox(x, y, a) /\ InBox(x, y, b)

(* The four comparisons of get_tiles_with_bbox are the whole story: a tile *)
(* is left out if and only if it has no point in common with the box, its  *)
(* border included.                                                        *)
THEOREM OutsideMeansApart ==
  ASSUME NEW a, NEW b, Ordered(a), Ordered(b)
  PROVE  Outside(a, b) <=> ~ Meet(a, b)
<1>1. ASSUME Outside(a, b), NEW x \in Int, NEW y \in Int,
             InBox(x, y, a), InBox(x, y, b)
      PROVE  FALSE
  BY <1>1 DEF Ordered, Box, Outside, InBox
<1>2. ASSUME ~ Outside(a, b)
      PROVE  Meet(a, b)
  <2> DEFINE x == IF a.min_x < b.min_x THEN b.min_x ELSE a.min_x
             y == IF a.min_y < b.min_y THEN b.min_y ELSE a.min_y
  <2>1. x \in Int /\ y \in Int
    BY DEF Ordered, Box
  <2>2. InBox(x, y, a) /\ InBox(x, y, b)
    BY <1>2 DEF Ordered, Box, Outside, InBox
  <2>3. QED
    BY <2>1, <2>2 DEF Meet
<1>3. QED
  BY <1>1, <1>2 DEF Meet

LEMMA TileBoxOrdered ==
  ASSUME NEW t \in Tile
  PROVE  Ordered(TileBox(t))
<1>1. /\ TileSize[t.level] \in Nat \ {0}
      /\ t.idx \in Nat
      /\ Columns(t.level) \in Nat \ {0}
  BY TilesAssumption, ColumnsAreWhole DEF Tile
<1>2. /\ t.idx \div Columns(t.level) \in Int
      /\ t.idx % Columns(t.level) \in Int
  BY <1>1
<1>3. QED
  BY <1>1, <1>2, TilesAssumption DEF TileBox, Square, Ordered, Box

(* The numbering of the tiles and get_tile_bbox are inverse to each other: *)
(* a place lies in the box of its tile, at every level.                    *)
THEOREM PlacesLieInTheirTile ==
  ASSUME NEW l \in Levels,
         NEW x \in -HalfWidth..(HalfWidth - 1), NEW y \in Int, -HalfHeight <= y
  PROVE  TileAt(l, x, y) \in Tile /\ InBox(x, y, TileBox(TileAt(l, x, y)))
<1> DEFINE s == TileSize[l]
           n == Columns(l)
           row == (y + HalfHeight) \div s
           col == (x + HalfWidth) \div s
<1>1. s \in Nat \ {0} /\ n \in Nat \ {0} /\ n * s = 2 * HalfWidth
  BY TilesAssumption, ColumnsAreWhole
<1>2. x + HalfWidth \in Nat /\ y + HalfHeight \in Nat /\ x + HalfWidth < 2 * HalfWidth
  BY TilesAssumption
<1>3. /\ row \in Nat /\ row * s <= y + HalfHeight /\ y + HalfHeight < row * s + s
      /\ col \in Nat /\ col * s <= x + HalfWidth /\ x + HalfWidth < col * s + s
  BY <1>1, <1>2, Multiple
<1>4. col \in 0..(n - 1)
  <2>1. col * s < n * s
    BY <1>1, <1>2, <1>3
  <2>2. col < n
    BY <1>1, <1>3, <2>1, SMTT(30)
  <2>3. QED
    BY <1>1, <1>3, <2>2
<1>5. (row * n + col) \div n = row /\ (row * n + col) % n = col
  BY <1>1, <1>3, <1>4, RowAndColumn
<1>6. row * n + col \in Nat
  BY <1>1, <1>3
<1>7. TileAt(l, x, y) = [level |-> l, idx |-> row * n + col]
  BY DEF TileAt
<1>8. TileBox(TileAt(l, x, y)) = Square(row, col, s)
  BY <1>5, <1>7 DEF TileBox
<1>9. InBox(x, y, Square(row, col, s))
  BY <1>1, <1>3, TilesAssumption DEF Square, InBox
<1>10. QED
  BY <1>6, <1>7, <1>8, <1>9 DEF Tile

(* A package holds what it is for: of whatever tiles a graph has, those of *)
(* every level for every place in the box are selected.                    *)
THEOREM NeededTilesAreSelected ==
  ASSUME NEW tiles \in SUBSET Tile, NEW b \in Box, ValidBox(b)
  PROVE  Needed(tiles, b) \subseteq TilesWithBox(tiles, b)
<1> SUFFICES ASSUME NEW t \in Needed(tiles, b)
             PROVE  t \in TilesWithBox(tiles, b)
  OBVIOUS
<1>1. PICK x \in b.min_x..b.max_x, y \in b.min_y..b.max_y :
        x < HalfWidth /\ y < HalfHeight /\ t = TileAt(t.level, x, y)
  BY DEF Needed
<1>2. t \in tiles /\ t \in Tile /\ t.level \in Levels
  BY DEF Needed, Tile
<1>3. x \in -HalfWidth..(HalfWidth - 1) /\ y \in Int /\ -HalfHeight <= y
  BY <1>1, TilesAssumption DEF ValidBox, Box
<1>4. InBox(x, y, TileBox(t))
  BY <1>1, <1>2, <1>3, PlacesLieInTheirTile
<1>5. InBox(x, y, b)
  BY <1>1 DEF InBox, Box
<1>6. Ordered(b) /\ Ordered(TileBox(t))
  BY <1>2, TileBoxOrdered DEF Ordered, ValidBox, Box
<1>7. Meet(TileBox(t), b)
  BY <1>3, <1>4, <1>5 DEF Meet
<1>8. QED
  BY <1>2, <1>6, <1>7, OutsideMeansApart DEF TilesWithBox

(* Nothing else is: a selected tile has a place in common with the box.    *)
THEOREM SelectedTilesMeetTheBox ==
  ASSUME NEW tiles \in SUBSET Tile, NEW b \in Box, ValidBox(b),
         NEW t \in TilesWithBox(tiles, b)
  PROVE  Meet(TileBox(t), b)
<1>1. t \in Tile /\ ~ Outside(TileBox(t), b)
  BY DEF TilesWithBox
<1>2. Ordered(b) /\ Ordered(TileBox(t))
  BY <1>1, TileBoxOrdered DEF Ordered, ValidBox, Box
<1>3. QED
  BY <1>1, <1>2, OutsideMeansApart
=============================================================================

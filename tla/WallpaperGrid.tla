--------------------------- MODULE WallpaperGrid ---------------------------
(***************************************************************************)
(* The grid of the browse page: the wallpapers of the listing and the      *)
(* skeletons of a page being loaded are children of a MuuriGrid, laid out  *)
(* by Packing; a click expands one around the middle of the viewport.      *)
(***************************************************************************)
EXTENDS Packing, MuuriGrid

CONSTANTS
  baseSize,        \* the width a column should have, in the pixels of the runs
  gap,             \* between items
  viewportHeight,
  imageOf,         \* width and height of the image an element shows
  Centres          \* where the middle of the viewport may be, in the grid

ASSUME WallpaperGridAssumption ==
  /\ baseSize \in Nat \ {0}
  /\ gap \in Nat \ {0}
  /\ gridWidth > 2 * gap
  /\ viewportHeight \in Nat \ {0}
  /\ \A e \in Element : imageOf[e].width \in Nat \ {0} /\ imageOf[e].height \in Nat \ {0}
  /\ \A c \in Centres : c.x \in Nat /\ c.y \in Int

VARIABLES
  expanded,  \* the expanded element
  centre     \* and the place it is to be centred at

pageVars == <<gridVars, expanded, centre>>

\* Every variable has its type.
GridTypeOK ==
  /\ MuuriTypeOK
  /\ expanded \in Element \union {None}
  /\ centre \in Centres

GridInit ==
  /\ MuuriInit
  /\ expanded = None
  /\ centre \in Centres

Mount == \E n \in 0 .. MaxElements : MountGrid(n) /\ UNCHANGED <<expanded, centre>>

Import == \E a \in Attempt : InitMuuri(a) /\ UNCHANGED <<expanded, centre>>

\* The listing renders: wallpapers come at its end, or at its start after a
\* refetch, skeletons come and go with the loading of a page; or nothing changes
\* and the commit is that of setGrid.
ListingRenders ==
  /\ \E dropped \in SUBSET Range(rendered), before, after \in 0 .. 1, b \in BOOLEAN :
       Commit(dropped, before, after, b)
  /\ UNCHANGED <<expanded, centre>>

\* handleClick: the expanded item collapses, any other one expands instead of it.
\* The item's effect then has Muuri measure it anew, so it must know the instance
\* if there is one: React 19, which the page runs on, commits the two together.
Click(e) ==
  /\ e \in Range(rendered)
  /\ IF expanded = e
       THEN expanded' = None /\ UNCHANGED centre
       ELSE expanded' = e /\ centre' \in Centres
  /\ Commit({}, 0, 0, queued # None)

LeaveGrid == UnmountGrid /\ UNCHANGED <<expanded, centre>>

GridNext ==
  \/ Mount
  \/ Import
  \/ ListingRenders
  \/ \E e \in Element : Click(e)
  \/ LeaveGrid

GridSpec == GridInit /\ [][GridNext]_pageVars

-----------------------------------------------------------------------------
(* The layout Muuri asks for when its items or their sizes change.          *)

\* effectiveBaseSize: as many columns as there is room for, and all of the room.
ColumnWidth ==
  LET columns == Max({1, (gridWidth - gap) \div (baseSize + gap)})
  IN (gridWidth - gap) \div columns - gap

\* getDefaultSpan: an image of 2:1 and wider spans two columns.
Columns(image) == IF image.width >= 2 * image.height THEN 2 ELSE 1

\* getExpandedSpan
ExpandedColumns(image) == Min({2 * Columns(image), 2})

HeightFor(image, width) == (width * image.height) \div image.width

\* With half a gap on each side, in the proportions of the image.
Item(image, width) ==
  [width |-> width + gap, height |-> HeightFor(image, width) + gap]

SpanWidth(columns) == columns * ColumnWidth + (columns - 1) * gap

\* calculateExpandedDimensions: four times the area, that is twice the width, but
\* within 95 % of the grid, 85 % of the viewport and the image's own size.
ExpandedWidth(image) ==
  LET maxHeight == Min({(85 * viewportHeight) \div 100, image.height})
  IN Min({2 * SpanWidth(ExpandedColumns(image)), (95 * gridWidth) \div 100 - gap,
          image.width, (maxHeight * image.width) \div image.height})

\* getItemDimensions
CurrentSize(e) ==
  Item(imageOf[e], IF e = expanded THEN ExpandedWidth(imageOf[e])
                   ELSE SpanWidth(Columns(imageOf[e])))

\* The grid is high enough for as many items as there may be, one below the other
\* and all as high as the highest, under the lowest centre.
ASSUME InfinityAssumption ==
  \A e \in Element, c \in Centres :
    \A width \in {SpanWidth(Columns(imageOf[e])), ExpandedWidth(imageOf[e])} :
      Max({0, c.y}) + (MaxElements + 1) * Item(imageOf[e], width).height <= Infinity

\* The place of the expanded item, if it is one of items.
ExpandedPlaces(items) ==
  {Centred(centre.x, centre.y, CurrentSize(e)) : e \in Range(items) \cap {expanded}}

\* The items other than the expanded one and the places they get.
Others(items) == Without(items, {expanded})
Sizes(items)  == [i \in DOMAIN items |-> CurrentSize(items[i])]
Layout(items) == BinPack(Sizes(Others(items)), ExpandedPlaces(items))

\* The layout is the one first fit means: every item in turn at the lowest, then
\* leftmost place in the grid that is clear of the expanded one and of the items
\* before it, so that no two overlap and no gap is left that a later item fits in
\* (binPackLayout's free rectangles, split and pruned, lose no space). An item
\* wider than the grid, an ultrawide one where there is one column, is exempt: it
\* takes no space, and others may lie over it.
LaidOutByFirstFit ==
  \A a \in live :
    LET items == placed[a]
    IN IsFirstFit(Layout(items), Sizes(Others(items)), ExpandedPlaces(items))

=============================================================================

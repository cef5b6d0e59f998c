------------------------------ MODULE Packing ------------------------------
(***************************************************************************)
(* The layout function of the wallpaper grid: items are placed one after   *)
(* the other at the lowest, then leftmost place that is free, found by     *)
(* keeping the list of the maximal free rectangles. An expanded item is    *)
(* centred where the user clicked and the others flow around it.           *)
(*                                                                         *)
(* A rectangle is given by its edges; the code has its corner and sizes.   *)
(***************************************************************************)
EXTENDS Integers, Sequences, FiniteSets, SequencesExt, Ordered

CONSTANTS
  gridWidth,
  Infinity  \* the height of the grid, more than all that is placed takes

ASSUME PackingAssumption == gridWidth \in Nat \ {0} /\ Infinity \in Nat \ {0}

Rect(x, y, size) ==
  [left |-> x, top |-> y, right |-> x + size.width, bottom |-> y + size.height]

\* It has an inside.
Proper(r) == r.left < r.right /\ r.top < r.bottom

Apart(a, b) ==
  a.left >= b.right \/ a.right <= b.left \/ a.top >= b.bottom \/ a.bottom <= b.top

\* isRectContained
Contained(a, b) ==
  /\ a.left >= b.left
  /\ a.top >= b.top
  /\ a.right <= b.right
  /\ a.bottom <= b.bottom

\* pruneRects: without those contained in another.
PruneRects(rects) ==
  At(rects, {i \in DOMAIN rects :
               \A j \in DOMAIN rects \ {i} : ~Contained(rects[i], rects[j])})

\* What is left of a free rectangle beside, above and below what is used.
Pieces(rect, used) ==
  LET beside == <<[rect EXCEPT !.right = used.left], [rect EXCEPT !.left = used.right],
                  [rect EXCEPT !.bottom = used.top], [rect EXCEPT !.top = used.bottom]>>
  IN At(beside, {i \in DOMAIN beside : Proper(beside[i])})

SubtractRect(rects, used) ==
  PruneRects(FlattenSeq([i \in DOMAIN rects |->
    IF Apart(used, rects[i]) THEN <<rects[i]>> ELSE Pieces(rects[i], used)]))

\* Mutant of Fits: a rectangle wide enough is taken for high enough.
FitsInWidth(size, rect) == rect.right - rect.left >= size.width

Fits(size, rect) ==
  /\ rect.right - rect.left >= size.width
  /\ rect.bottom - rect.top >= size.height

Before(a, b) == a.top < b.top \/ (a.top = b.top /\ a.left < b.left)

\* The free rectangles an item fits in and that no other of them comes before.
Best(size, rects) ==
  LET fitting == {i \in DOMAIN rects : Fits(size, rects[i])}
  IN {rects[i] : i \in {i \in fitting : \A j \in fitting : ~Before(rects[j], rects[i])}}

Lowest(rects) == Max({0} \union {rects[i].top : i \in DOMAIN rects})

\* One round of binPackLayout. An item wider than the grid fits nowhere: it is
\* placed below and the space it takes stays free.
Place(acc, size) ==
  IF Best(size, acc.free) = {}
    THEN [acc EXCEPT !.slots = Append(@, Rect(0, Lowest(acc.free), size))]
    ELSE LET best == CHOOSE r \in Best(size, acc.free) : TRUE
             used == Rect(best.left, best.top, size)
         IN [free |-> SubtractRect(acc.free, used), slots |-> Append(acc.slots, used)]

WholeGrid == <<[left |-> 0, top |-> 0, right |-> gridWidth, bottom |-> Infinity]>>

\* The free rectangles around those excluded (one at most).
FreeAround(excluded) ==
  IF excluded = {} THEN WholeGrid
  ELSE SubtractRect(WholeGrid, CHOOSE r \in excluded : TRUE)

\* The places of items of these sizes, around the rectangles excluded.
BinPack(sizes, excluded) ==
  LET round[n \in 0 .. Len(sizes)] ==
        IF n = 0 THEN [free |-> FreeAround(excluded), slots |-> <<>>]
        ELSE Place(round[n - 1], sizes[n])
  IN round[Len(sizes)].slots

\* An expanded item around the centre (cx, cy), kept within the grid.
Centred(cx, cy, size) ==
  LET x  == Max({0, cx - size.width \div 2})
      x2 == IF x + size.width > gridWidth THEN gridWidth - size.width ELSE x
  IN Rect(x2, Max({0, cy - size.height \div 2}), size)

-----------------------------------------------------------------------------
(* What a layout has to be.                                                 *)

\* The places in the grid an item of this size may have, down to a depth.
Places(size, depth) ==
  {Rect(x, y, size) : x \in 0 .. gridWidth - size.width, y \in 0 .. depth}

\* The first place in the grid that is clear of the rectangles taken.
IsFirstPlace(place, size, taken) ==
  LET depth == Max({0} \union {r.bottom : r \in taken})
      clear == {p \in Places(size, depth) : \A r \in taken : Apart(p, r)}
  IN place \in clear /\ \A p \in clear : ~Before(p, place)

InWidth(size) == size.width <= gridWidth

\* The places of the items before the i-th that are not wider than the grid.
PutBefore(slots, sizes, i) == {slots[j] : j \in {k \in 1 .. i - 1 : InWidth(sizes[k])}}

\* slots is the layout that puts each item in turn at the first place that is
\* clear of the excluded rectangles and of the items before it, as far as they
\* are not wider than the grid.
IsFirstFit(slots, sizes, excluded) ==
  \A i \in DOMAIN slots : InWidth(sizes[i]) =>
    IsFirstPlace(slots[i], sizes[i], excluded \union PutBefore(slots, sizes, i))

=============================================================================

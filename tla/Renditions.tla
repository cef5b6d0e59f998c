----------------------------- MODULE Renditions -----------------------------
(***************************************************************************)
(* Sizes of an image: which presets the variant generator renders of an    *)
(* original, and what a resize makes of a file. The library (sharp) is     *)
(* modelled from the options the code passes: its arithmetic of shrink     *)
(* factors, the rounding to whole pixels and withoutEnlargement. Ratios    *)
(* are compared by cross multiplication, where the code has floats.        *)
(***************************************************************************)
EXTENDS Integers, Sequences, FiniteSets, FiniteSetsExt

CONSTANT
  Categories  \* ASPECT_RATIO_CATEGORIES in order, with their RESOLUTION_PRESETS

Size == [width : Nat \ {0}, height : Nat \ {0}]

\* A category: the ratio num / den, its tolerance in percent, its presets.
Category ==
  [num : Nat \ {0}, den : Nat \ {0}, tolerance : Nat, presets : SUBSET Size]

\* No category takes images more than three times as long as they are wide.
ASSUME RenditionsAssumption ==
  /\ Categories \in Seq(Category)
  /\ \A i \in DOMAIN Categories :
       LET c == Categories[i] IN
       /\ (100 + c.tolerance) * c.num <= 300 * c.den
       /\ 3 * ((100 - c.tolerance) * c.num) >= 100 * c.den

Preset == UNION {Categories[i].presets : i \in DOMAIN Categories}

Area(s) == s.width * s.height

\* |width / height - ratio| <= ratio * tolerance
InCategory(c, s) ==
  LET limit == c.tolerance * c.num * s.height
  IN 100 * (c.den * s.width - c.num * s.height) \in (-limit) .. limit

\* Presets smaller than the original, of the first category it belongs to.
ApplicablePresets(s) ==
  LET matching == {i \in DOMAIN Categories : InCategory(Categories[i], s)} IN
  IF matching = {} THEN {} ELSE
    {p \in Categories[Min(matching)].presets : p.width < s.width /\ p.height < s.height}

-----------------------------------------------------------------------------
(* Resizing. A request names a width, a height or both; 0 is not given.     *)

Absent == 0

\* The nearest number of pixels to a / b, at least one.
Pixels(a, b) == Max({1, (2 * a + b) \div (2 * b)})

\* Scaled to a width or a height, never enlarged.
ByWidth(s, w) ==
  IF w >= s.width THEN s ELSE [width |-> w, height |-> Pixels(s.height * w, s.width)]
ByHeight(s, h) ==
  IF h >= s.height THEN s ELSE [width |-> Pixels(s.width * h, s.height), height |-> h]

\* s must shrink at least as much for the width asked for as for the height.
WidthBinds(s, r) ==
  r.height = Absent \/ (r.width # Absent /\ s.width * r.height >= s.height * r.width)

\* sharp.fit.inside: all of the image, within the dimensions.
Contain(s, r) == IF WidthBinds(s, r) THEN ByWidth(s, r.width) ELSE ByHeight(s, r.height)

\* sharp.fit.cover: scaled until the dimensions are filled, the rest cropped.
Cover(s, r) ==
  IF r.width = Absent \/ r.height = Absent THEN Contain(s, r) ELSE
    LET scaled == IF WidthBinds(s, r) THEN ByHeight(s, r.height) ELSE ByWidth(s, r.width)
    IN [width |-> Min({scaled.width, r.width}), height |-> Min({scaled.height, r.height})]

\* sharp.fit.fill: stretched to the dimensions, enlarged if need be.
Fill(s, r) ==
  [width  |-> IF r.width = Absent THEN s.width ELSE r.width,
   height |-> IF r.height = Absent THEN s.height ELSE r.height]

Resizes(r) == r.width # Absent \/ r.height # Absent

\* What ResizeService makes of a file of size s for request r.
Resized(s, r) ==
  IF ~Resizes(r) THEN s ELSE
    CASE r.fit = "contain" -> Contain(s, r)
      [] r.fit = "cover"   -> Cover(s, r)
      [] r.fit = "fill"    -> Fill(s, r)

\* The file the generator renders for a preset: inside it, in the proportions of
\* the original. The event and the row say the preset's own width and height.
Rendered(p, original) ==
  Contain(original, [width |-> p.width, height |-> p.height])

=============================================================================

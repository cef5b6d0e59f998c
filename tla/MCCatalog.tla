----------------------------- MODULE MCCatalog -----------------------------
(* The catalog on small instances: every preset applies to every image.     *)
EXTENDS Catalog, TLC

CONSTANTS w1, p1

AllPresets == [w \in Wallpaper |-> IF w \in Image THEN Preset ELSE {}]

=============================================================================

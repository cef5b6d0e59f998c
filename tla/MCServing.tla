----------------------------- MODULE MCServing -----------------------------
(* Presets of every category; originals of 16:10, between 16:9 and 2:1,     *)
(* 21:9 (where rounding twice shows most), 9:20 and square. Dimensions       *)
(* below, at and above the presets'.                                        *)
EXTENDS Serving, TLC

S(w, h) == [width |-> w, height |-> h]

SomeCategories ==
  <<[num |-> 21, den |-> 9, tolerance |-> 10, presets |-> {S(2560, 1080)}],
    [num |-> 16, den |-> 9, tolerance |-> 15,
     presets |-> {S(1920, 1080), S(1280, 720), S(640, 360)}],
    [num |-> 9, den |-> 18, tolerance |-> 25, presets |-> {S(1080, 2400), S(1080, 1920)}]>>

SomeSizes ==
  {S(2560, 1600), S(2000, 1100), S(2645, 1104), S(1440, 3200), S(1500, 1500)}

=============================================================================

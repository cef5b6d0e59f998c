-------------------------- MODULE MCWallpaperGrid --------------------------
(* Up to four elements in a grid of three columns: images of 16:9, 21:9 and  *)
(* 9:16, and a square one hardly larger than its column.                     *)
EXTENDS WallpaperGrid, TLC

S(w, h) == [width |-> w, height |-> h]

Images == <<S(32, 18), S(42, 18), S(18, 32), S(5, 5)>>

TwoCentres == {[x |-> 7, y |-> 6], [x |-> 12, y |-> -3]}

=============================================================================

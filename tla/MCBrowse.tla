------------------------------ MODULE MCBrowse ------------------------------
(* Three wallpapers, two of them equally near to the color. The screen has   *)
(* room for any one of them, and for the two newest together.               *)
EXTENDS Browse, TLC

Scores == <<1, 2, 2>>
Room == {{1}, {2}, {3}, {2, 3}}

=============================================================================

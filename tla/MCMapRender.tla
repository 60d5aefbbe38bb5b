---------------------------- MODULE MCMapRender ----------------------------
(***************************************************************************)
(* MapRender for TLC: an image of 8 by 6 pixels with a window of 3 and a   *)
(* marker that reaches 1 pixel.  The positions are in a corner, near it,   *)
(* so far away that the window does not reach back, and below the image.   *)
(***************************************************************************)
EXTENDS MapRender

MCPositions == {<<0, 1>>, <<2, 2>>, <<6, 4>>, <<5, 7>>}
=============================================================================

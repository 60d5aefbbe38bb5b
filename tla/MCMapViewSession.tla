-------------------------- MODULE MCMapViewSession --------------------------
(***************************************************************************)
(* MapViewSession for TLC: fixes on both edges of the image, inside it,    *)
(* and on either side of it.                                               *)
(***************************************************************************)
EXTENDS MapViewSession

MCLats == {-3, 0, 5, 20, 21}
=============================================================================

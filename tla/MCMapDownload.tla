--------------------------- MODULE MCMapDownload ---------------------------
(***************************************************************************)
(* MapDownload on small instances.  Maps are alike (every one may have a   *)
(* bad key) and so are loaders, and no property tells them apart: the      *)
(* safety run takes both sets up to permutation.                           *)
(***************************************************************************)
EXTENDS MapDownload, TLC

Symmetry == Permutations(Maps) \cup Permutations(Loaders)
=============================================================================

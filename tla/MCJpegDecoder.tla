---------------------------- MODULE MCJpegDecoder ----------------------------
(***************************************************************************)
(* JpegDecoder for TLC: a luminance component with two by two blocks in an *)
(* MCU and a chrominance component with one.  The image is one block more  *)
(* than an MCU wide and high, so that the last MCU of a row is padded, and *)
(* so is the last row, in which there is one line less than a block has.   *)
(***************************************************************************)
EXTENDS JpegDecoder

MCComponents == {"Y", "C"}
MCSamp == [c \in MCComponents |-> IF c = "Y" THEN 2 ELSE 1]
=============================================================================

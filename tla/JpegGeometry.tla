---------------------------- MODULE JpegGeometry ----------------------------
(***************************************************************************)
(* The sizes libjpeg computes from a JPEG header before it decodes an      *)
(* image (jdinput.c, jdmaster.c, jutils.c): how many blocks each component *)
(* has, how many MCUs a scan has, how many of the blocks at the right and  *)
(* lower edges are padding, and how large the output is when the IDCT      *)
(* scales.  Widths and heights are treated alike by the code; an operator  *)
(* here takes the axis' sampling factors and size.                         *)
(***************************************************************************)
EXTENDS Integers, FiniteSets

CONSTANTS Components,               \* comp_info[]
          HSamp, VSamp,             \* h_samp_factor, v_samp_factor
          ImageWidth, ImageHeight,
          Block,                    \* block_size
          Scale                     \* samples the IDCT makes of a block's side

MAX_SAMP_FACTOR == 4

ASSUME GeometryAssumption ==
  /\ Components # {} /\ IsFiniteSet(Components)
  /\ HSamp \in [Components -> 1 .. MAX_SAMP_FACTOR]
  /\ VSamp \in [Components -> 1 .. MAX_SAMP_FACTOR]
  /\ ImageWidth \in Nat \ {0} /\ ImageHeight \in Nat \ {0}
  /\ Block \in Nat \ {0} /\ Scale \in Nat \ {0}

jdiv_round_up(a, b) == (a + b - 1) \div b
jround_up(a, b) == jdiv_round_up(a, b) * b

\* max_h_samp_factor, max_v_samp_factor.
MaxFactor(samp) ==
  CHOOSE m \in 1 .. MAX_SAMP_FACTOR :
    (\E c \in Components : samp[c] = m) /\ (\A c \in Components : samp[c] <= m)

\* width_in_blocks, height_in_blocks.
InBlocks(size, samp, c) == jdiv_round_up(size * samp[c], MaxFactor(samp) * Block)

\* total_iMCU_rows, and MCUs_per_row of an interleaved scan.
InMCUs(size, samp) == jdiv_round_up(size, MaxFactor(samp) * Block)

\* last_col_width, last_row_height.
LastBlocks(size, samp, c) ==
  LET tmp == InBlocks(size, samp, c) % samp[c]
  IN IF tmp = 0 THEN samp[c] ELSE tmp

\* output_width, output_height.
Output(size) == jdiv_round_up(size * Scale, Block)
=============================================================================

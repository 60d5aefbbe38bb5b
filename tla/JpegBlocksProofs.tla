--------------------------- MODULE JpegBlocksProofs ---------------------------
(***************************************************************************)
(* Where the decompressor of JpegDecoder puts the blocks of a scan, for    *)
(* images of any size and components with any sampling factors: when the   *)
(* last MCU has been read every block of the image has been stored, and    *)
(* none outside the arrays.                                                *)
(***************************************************************************)
EXTENDS JpegDecoderProofs, FiniteSetTheorems

(* The geometry: the blocks of a component fill all MCUs but the last, of  *)
(* which they fill LastBlocks.                                             *)

LEMMA Distributes ==
  ASSUME NEW a \in Int, NEW b \in Int
  PROVE  (a + 1) * b = a * b + b /\ (a - 1) * b = a * b - b
OBVIOUS

LEMMA RoundUpIsNat ==
  ASSUME NEW a \in Nat, NEW b \in Nat \ {0}
  PROVE  jround_up(a, b) \in Nat
BY RoundsUp DEF jround_up

LEMMA Remainder ==
  ASSUME NEW s \in Nat \ {0}, NEW q \in Nat \ {0}, NEW n \in Nat,
         NEW below \in Int, below = (q - 1) * s, below < n, n <= q * s
  PROVE  /\ jdiv_round_up(n, s) = q
         /\ n % s = (IF n = q * s THEN 0 ELSE n - below)
<1>1. q * s = below + s /\ (q + 1) * s = q * s + s
  OBVIOUS
<1>2. jdiv_round_up(n, s) = q
  <2>1. q * s <= n + s - 1 /\ n + s - 1 < (q + 1) * s
    BY <1>1
  <2>2. (n + s - 1) \div s = q
    BY <2>1
  <2> QED
    BY <2>2 DEF jdiv_round_up
<1>3. CASE n = q * s
  <2>1. n % s = 0
    BY <1>3
  <2> QED
    BY <1>2, <1>3, <2>1
<1>4. CASE n # q * s
  <2>1. PICK r \in 0 .. s - 1 : r = n - below
    BY <1>1, <1>4
  <2>2. n = (q - 1) * s + r
    BY <2>1
  <2>3. n % s = r
    BY <2>2
  <2> QED
    BY <1>2, <1>4, <2>1, <2>3
<1> QED
  BY <1>3, <1>4

LEMMA BlocksOfMCUs ==
  ASSUME NEW size \in Nat \ {0}, NEW samp \in [Components -> 1 .. MAX_SAMP_FACTOR],
         NEW c \in Components
  PROVE  /\ samp[c] \in Nat \ {0} /\ InMCUs(size, samp) \in Nat \ {0}
         /\ InBlocks(size, samp, c) \in Nat \ {0}
         /\ LastBlocks(size, samp, c) \in 1 .. samp[c]
         /\ InBlocks(size, samp, c) = (InMCUs(size, samp) - 1) * samp[c] + LastBlocks(size, samp, c)
         /\ jround_up(InBlocks(size, samp, c), samp[c]) = InMCUs(size, samp) * samp[c]
<1>1. samp[c] \in Nat \ {0} /\ MaxFactor(samp) \in Nat \ {0} /\ Block \in Nat \ {0}
  BY FactorsAreBounded, GeometryAssumption DEF MAX_SAMP_FACTOR
<1>2. PICK d \in Nat \ {0} : d = MaxFactor(samp) * Block
  BY <1>1
<1>3. PICK s \in Nat \ {0} : s = samp[c]
  BY <1>1
<1>4. PICK t \in Nat \ {0} : t = size * s
  BY <1>3
<1>5. PICK q : q = InMCUs(size, samp)
  OBVIOUS
<1>6. PICK n : n = InBlocks(size, samp, c)
  OBVIOUS
<1>7. q \in Nat /\ q * d >= size /\ (q - 1) * d < size
  BY <1>2, <1>5, RoundsUp DEF InMCUs
<1>8. n \in Nat /\ n * d >= t /\ (n - 1) * d < t
  BY <1>2, <1>3, <1>4, <1>6, RoundsUp DEF InBlocks
<1>9. q \in Nat \ {0} /\ n \in Nat \ {0}
  BY <1>2, <1>4, <1>7, <1>8
<1>10. PICK below \in Int : below = (q - 1) * s
  BY <1>9
<1>11. below < n
  <2>1. (q - 1) * d * s < t
    BY <1>2, <1>3, <1>4, <1>7, <1>9
  <2>2. (q - 1) * d * s = below * d
    BY <1>2, <1>3, <1>9, <1>10
  <2>3. below * d < n * d
    BY <1>2, <1>8, <1>9, <1>10, <2>1, <2>2
  <2> QED
    BY <2>3, <1>2, <1>9, <1>10
<1>12. n <= q * s
  <2>1. t <= q * d * s
    BY <1>2, <1>3, <1>4, <1>7, <1>9
  <2>2. PICK m \in Int : m = q * s
    BY <1>3, <1>9
  <2>3. q * d * s = m * d
    BY <1>2, <1>3, <1>9, <2>2
  <2>4. (n - 1) * d < m * d
    BY <1>2, <1>8, <1>9, <2>1, <2>2, <2>3
  <2> QED
    BY <2>4, <1>2, <1>9, <2>2
<1>13. /\ jdiv_round_up(n, s) = q
       /\ n % s = (IF n = q * s THEN 0 ELSE n - below)
  BY <1>3, <1>9, <1>10, <1>11, <1>12, Remainder
<1>14. q * s = below + s
  BY <1>3, <1>9, <1>10
<1>15. LastBlocks(size, samp, c) = n - below
  BY <1>3, <1>6, <1>9, <1>10, <1>11, <1>13, <1>14 DEF LastBlocks
<1> QED
  BY <1>1, <1>3, <1>5, <1>6, <1>9, <1>10, <1>11, <1>12, <1>13, <1>14, <1>15 DEF jround_up

(* The MCUs of a scan. *)

LEMMA OnlyOne ==
  ASSUME NEW S \in SUBSET Components, Cardinality(S) = 1
  PROVE  (CHOOSE c \in S : TRUE) \in Components /\ S = {CHOOSE c \in S : TRUE}
<1>1. IsFiniteSet(S)
  BY GeometryAssumption, FS_Subset
<1>2. PICK c : S = {c}
  BY <1>1, FS_Singleton
<1> QED
  BY <1>2

LEMMA TheOnlyOne ==
  ASSUME TypeOK, Single
  PROVE  TheComponent \in Components /\ scan = {TheComponent}
BY OnlyOne DEF TypeOK, Single, TheComponent

LEMMA AcrossTheImage ==
  ASSUME TypeOK, NEW c \in scan
  PROVE  /\ MCU_width(c) \in Nat \ {0} /\ MCUs_per_row \in Nat \ {0}
         /\ InBlocks(ImageWidth, HSamp, c) \in Nat \ {0}
         /\ (IF Single THEN 1 ELSE LastBlocks(ImageWidth, HSamp, c)) \in 1 .. MCU_width(c)
         /\ InBlocks(ImageWidth, HSamp, c) =
              (MCUs_per_row - 1) * MCU_width(c)
                + (IF Single THEN 1 ELSE LastBlocks(ImageWidth, HSamp, c))
         /\ MCUs_per_row * MCU_width(c) <= jround_up(InBlocks(ImageWidth, HSamp, c), HSamp[c])
<1>1. c \in Components
  BY DEF TypeOK
<1>2. /\ HSamp[c] \in Nat \ {0} /\ InMCUs(ImageWidth, HSamp) \in Nat \ {0}
      /\ InBlocks(ImageWidth, HSamp, c) \in Nat \ {0}
      /\ LastBlocks(ImageWidth, HSamp, c) \in 1 .. HSamp[c]
      /\ InBlocks(ImageWidth, HSamp, c) =
           (InMCUs(ImageWidth, HSamp) - 1) * HSamp[c] + LastBlocks(ImageWidth, HSamp, c)
      /\ jround_up(InBlocks(ImageWidth, HSamp, c), HSamp[c]) = InMCUs(ImageWidth, HSamp) * HSamp[c]
  BY <1>1, BlocksOfMCUs, GeometryAssumption
<1>3. CASE Single
  <2>1. c = TheComponent
    BY <1>3, TheOnlyOne
  <2>2. InBlocks(ImageWidth, HSamp, c) <= InMCUs(ImageWidth, HSamp) * HSamp[c]
    BY <1>2
  <2> QED
    BY <1>2, <1>3, <2>1, <2>2 DEF MCU_width, MCUs_per_row
<1>4. CASE ~Single
  BY <1>2, <1>4 DEF MCU_width, MCUs_per_row
<1> QED
  BY <1>3, <1>4

LEMMA DownTheImage ==
  ASSUME TypeOK, NEW c \in scan, input_row <= LastRow
  PROVE  /\ VSamp[c] \in Nat \ {0} /\ input_row * VSamp[c] \in Nat
         /\ (input_row + 1) * VSamp[c] = input_row * VSamp[c] + VSamp[c]
         /\ input_row * VSamp[c] + VSamp[c] <=
              jround_up(InBlocks(ImageHeight, VSamp, c), VSamp[c])
         /\ InBlocks(ImageHeight, VSamp, c) \in Nat \ {0}
         /\ LastBlocks(ImageHeight, VSamp, c) \in 1 .. VSamp[c]
         /\ input_row < LastRow =>
              input_row * VSamp[c] + VSamp[c] < InBlocks(ImageHeight, VSamp, c)
         /\ input_row = LastRow =>
              InBlocks(ImageHeight, VSamp, c) =
                input_row * VSamp[c] + LastBlocks(ImageHeight, VSamp, c)
         /\ Single =>
              /\ MCU_height(c) = 1
              /\ MCU_rows_per_iMCU_row = IF input_row < LastRow THEN VSamp[c]
                                         ELSE LastBlocks(ImageHeight, VSamp, c)
         /\ ~Single => MCU_height(c) = VSamp[c] /\ MCU_rows_per_iMCU_row = 1
<1>1. c \in Components /\ input_row \in Nat
  BY Sizes DEF TypeOK
<1>2. /\ VSamp[c] \in Nat \ {0} /\ Rows \in Nat \ {0}
      /\ InBlocks(ImageHeight, VSamp, c) \in Nat \ {0}
      /\ LastBlocks(ImageHeight, VSamp, c) \in 1 .. VSamp[c]
      /\ InBlocks(ImageHeight, VSamp, c) =
           (Rows - 1) * VSamp[c] + LastBlocks(ImageHeight, VSamp, c)
      /\ jround_up(InBlocks(ImageHeight, VSamp, c), VSamp[c]) = Rows * VSamp[c]
  BY <1>1, BlocksOfMCUs, GeometryAssumption DEF Rows
<1>3. PICK base \in Nat : base = input_row * VSamp[c]
  BY <1>1, <1>2
<1>4. (input_row + 1) * VSamp[c] = base + VSamp[c]
  <2>1. input_row \in Int /\ VSamp[c] \in Int
    BY <1>1, <1>2
  <2> QED
    BY <1>3, <2>1, Distributes
<1>5. (input_row + 1) * VSamp[c] <= Rows * VSamp[c]
  BY <1>1, <1>2 DEF LastRow
<1>6. input_row < LastRow => (input_row + 1) * VSamp[c] <= (Rows - 1) * VSamp[c]
  BY <1>1, <1>2 DEF LastRow
<1>7. (Rows - 1) * VSamp[c] \in Int
  BY <1>2
<1>8. Single => c = TheComponent
  BY TheOnlyOne
<1> QED
  BY <1>1, <1>2, <1>3, <1>4, <1>5, <1>6, <1>7, <1>8 DEF LastRow, MCU_height, MCU_rows_per_iMCU_row

(* The blocks of an MCU. *)

\* They are in the arrays, and what the IDCT is done for is in the image.
LEMMA MCUInArrays ==
  ASSUME TypeOK, consuming = "data", input_row <= LastRow, BlocksWired, NEW b \in MCU_blocks
  PROVE  /\ b[1] \in scan /\ b \in PaddedBlocks(b[1])
         /\ Useful(b) => b \in RealBlocks(b[1])
<1>1. PICK c \in scan : \E x \in 0 .. MCU_width(c) - 1, y \in 0 .. MCU_height(c) - 1 :
        b = <<c, MCU_ctr * MCU_width(c) + x, input_row * VSamp[c] + vert_offset + y>>
  BY DEF MCU_blocks
<1>2. PICK x \in 0 .. MCU_width(c) - 1, y \in 0 .. MCU_height(c) - 1 :
        b = <<c, MCU_ctr * MCU_width(c) + x, input_row * VSamp[c] + vert_offset + y>>
  BY <1>1
<1>3. /\ MCU_ctr \in Nat /\ vert_offset \in Nat /\ MCU_ctr <= MCUs_per_row - 1
      /\ vert_offset < MCU_rows_per_iMCU_row /\ input_row \in Nat
  BY AcrossTheImage, Sizes DEF TypeOK, BlocksWired
<1>4. PICK w \in Nat \ {0} : w = MCU_width(c)
  BY AcrossTheImage
<1>5. PICK left \in Nat : left = MCU_ctr * w
  BY <1>3, <1>4
<1>6. PICK top \in Nat : top = input_row * VSamp[c]
  BY DownTheImage
<1>7. b = <<c, left + x, top + vert_offset + y>> /\ b[1] = c /\ b[2] = left + x /\ b[3] = top + vert_offset + y
  BY <1>2, <1>4, <1>5, <1>6
<1>8. x \in 0 .. w - 1 /\ y \in Nat /\ vert_offset + y < VSamp[c]
  BY <1>2, <1>3, <1>4, DownTheImage
<1> DEFINE last == IF Single THEN 1 ELSE LastBlocks(ImageWidth, HSamp, c)
           n == InBlocks(ImageWidth, HSamp, c)
           pad == jround_up(n, HSamp[c])
<1>9. PICK edge \in Int : edge = (MCUs_per_row - 1) * w
  BY <1>4, AcrossTheImage
<1>10. last \in 1 .. w /\ n = edge + last /\ edge + w <= pad /\ pad \in Int
  <2>1. n \in Nat /\ HSamp[c] \in Nat \ {0}
    <3>1. c \in Components
      BY DEF TypeOK
    <3> QED
      BY <3>1, AcrossTheImage, GeometryAssumption DEF MAX_SAMP_FACTOR
  <2>2. pad \in Int
    BY <2>1, RoundUpIsNat
  <2>3. PICK p \in Nat : p = MCUs_per_row
    BY AcrossTheImage
  <2>4. p * w = (p - 1) * w + w
    BY <1>4, <2>3
  <2> QED
    BY <1>4, <1>9, <2>2, <2>3, <2>4, AcrossTheImage
<1>11. left <= edge
  <2>1. PICK p \in Nat : p = MCUs_per_row
    BY AcrossTheImage
  <2> QED
    BY <1>3, <1>4, <1>5, <1>9, <2>1
<1>12. MCU_ctr < MCUs_per_row - 1 => left + w <= edge
  <2>1. PICK p \in Nat : p = MCUs_per_row
    BY AcrossTheImage
  <2>2. MCU_ctr < p - 1 => (MCU_ctr + 1) * w <= (p - 1) * w
    BY <1>3, <1>4, <2>1
  <2>3. (MCU_ctr + 1) * w = MCU_ctr * w + w
    BY <1>3, <1>4
  <2> QED
    BY <1>5, <1>9, <2>1, <2>2, <2>3
<1>13. left + x \in 0 .. pad - 1
  BY <1>5, <1>8, <1>10, <1>11
<1>14. top + vert_offset + y \in 0 .. jround_up(InBlocks(ImageHeight, VSamp, c), VSamp[c]) - 1
  <2>1. InBlocks(ImageHeight, VSamp, c) \in Nat /\ VSamp[c] \in Nat \ {0}
    BY DownTheImage
  <2>2. jround_up(InBlocks(ImageHeight, VSamp, c), VSamp[c]) \in Int
    BY <2>1, RoundUpIsNat
  <2> QED
    BY <1>3, <1>6, <1>8, <2>1, <2>2, DownTheImage
<1>15. ASSUME Useful(b) PROVE b \in RealBlocks(c)
  <2>1. MCU_ctr < MCUs_per_row - 1 \/ x < last
    BY <1>4, <1>5, <1>7, <1>8, <1>15 DEF Useful
  <2>2. left + x \in 0 .. n - 1
    BY <1>5, <1>8, <1>10, <1>11, <1>12, <2>1
  <2>3. input_row < LastRow \/ vert_offset + y < LastBlocks(ImageHeight, VSamp, c)
    BY <1>3, <1>6, <1>7, <1>8, <1>15 DEF Useful
  <2>4. input_row < LastRow \/ input_row = LastRow
    BY <1>3, Sizes DEF LastRow
  <2>5. top + vert_offset + y \in 0 .. InBlocks(ImageHeight, VSamp, c) - 1
    BY <1>3, <1>6, <1>8, <2>3, <2>4, DownTheImage
  <2> QED
    BY <1>7, <2>2, <2>5 DEF RealBlocks
<1> QED
  BY <1>7, <1>13, <1>14, <1>15 DEF PaddedBlocks

\* A block of the image that lies where the MCU is belongs to it, and is not
\* taken for padding.
LEMMA BlockInMCU ==
  ASSUME TypeOK, consuming = "data", input_row <= LastRow, BlocksWired,
         NEW c \in scan, NEW x \in Nat, NEW y \in Nat, <<c, x, y>> \in RealBlocks(c),
         MCU_ctr * MCU_width(c) <= x, x < MCU_ctr * MCU_width(c) + MCU_width(c),
         input_row * VSamp[c] + vert_offset <= y,
         y < input_row * VSamp[c] + vert_offset + MCU_height(c)
  PROVE  <<c, x, y>> \in MCU_blocks /\ Useful(<<c, x, y>>)
<1>1. /\ MCU_ctr \in Nat /\ vert_offset \in Nat /\ MCU_ctr <= MCUs_per_row - 1
      /\ vert_offset < MCU_rows_per_iMCU_row /\ input_row \in Nat
  BY AcrossTheImage, Sizes DEF TypeOK, BlocksWired
<1>2. PICK w \in Nat \ {0} : w = MCU_width(c)
  BY AcrossTheImage
<1>3. PICK left \in Nat : left = MCU_ctr * w
  BY <1>1, <1>2
<1>4. PICK top \in Nat : top = input_row * VSamp[c]
  BY DownTheImage
<1>5. PICK h \in Nat \ {0} : h = MCU_height(c)
  BY DownTheImage
<1>6. <<c, x, y>> \in MCU_blocks
  <2>1. x - left \in 0 .. w - 1 /\ y - (top + vert_offset) \in 0 .. h - 1
    BY <1>1, <1>2, <1>3, <1>4, <1>5
  <2>2. <<c, x, y>> = <<c, MCU_ctr * MCU_width(c) + (x - left),
                        input_row * VSamp[c] + vert_offset + (y - (top + vert_offset))>>
    BY <1>1, <1>2, <1>3, <1>4
  <2> QED
    BY <1>2, <1>5, <2>1, <2>2 DEF MCU_blocks
<1>7. /\ x < InBlocks(ImageWidth, HSamp, c) /\ y < InBlocks(ImageHeight, VSamp, c)
      /\ InBlocks(ImageWidth, HSamp, c) \in Nat /\ InBlocks(ImageHeight, VSamp, c) \in Nat
  BY AcrossTheImage, DownTheImage DEF RealBlocks
<1> DEFINE last == IF Single THEN 1 ELSE LastBlocks(ImageWidth, HSamp, c)
<1>8. MCU_ctr < MCUs_per_row - 1 \/ x - left < last
  <2>1. CASE MCU_ctr = MCUs_per_row - 1
    BY <1>2, <1>3, <1>7, <2>1, AcrossTheImage
  <2>2. MCUs_per_row \in Nat
    BY AcrossTheImage
  <2> QED
    BY <1>1, <2>1, <2>2
<1>9. input_row < LastRow \/ y - top < LastBlocks(ImageHeight, VSamp, c)
  <2>1. input_row < LastRow \/ input_row = LastRow
    BY <1>1, Sizes DEF LastRow
  <2> QED
    BY <1>1, <1>4, <1>7, <2>1, DownTheImage
<1> QED
  BY <1>2, <1>3, <1>4, <1>6, <1>8, <1>9 DEF Useful

\* What the step to the next MCU passes is the MCU at hand, at the end of a
\* row of MCUs and of an iMCU row as well, and at the end of the scan what is
\* not passed by then.
LEMMA NextPasses ==
  ASSUME TypeOK, consuming = "data", input_row <= LastRow, BlocksWired, NextMCU,
         NEW c \in scan, NEW b \in RealBlocks(c), consuming' = "markers" \/ Passed(c, b)'
  PROVE  Passed(c, b) \/ (b \in MCU_blocks /\ Useful(b))
<1>1. PICK x \in Nat, y \in Nat : b = <<c, x, y>>
  BY AcrossTheImage, DownTheImage DEF RealBlocks
<1>2. /\ MCU_ctr \in Nat /\ vert_offset \in Nat /\ MCU_ctr <= MCUs_per_row - 1
      /\ vert_offset <= MCU_rows_per_iMCU_row - 1 /\ input_row \in Nat
      /\ MCUs_per_row \in Nat \ {0} /\ MCU_rows_per_iMCU_row \in Nat \ {0}
  <2>1. MCUs_per_row \in Nat \ {0}
    BY AcrossTheImage
  <2>2. MCU_rows_per_iMCU_row \in Nat \ {0}
    BY DownTheImage
  <2> QED
    BY <2>1, <2>2, Sizes DEF TypeOK, BlocksWired
<1>3. PICK w \in Nat \ {0} : w = MCU_width(c)
  BY AcrossTheImage
<1>4. PICK left \in Nat : left = MCU_ctr * w
  BY <1>2, <1>3
<1>5. PICK top \in Nat : top = input_row * VSamp[c]
  BY DownTheImage
<1>6. PICK h \in Nat \ {0} : h = MCU_height(c)
  BY DownTheImage
<1>7. PICK v \in Nat \ {0} : v = VSamp[c]
  BY DownTheImage
<1>8. MCU_width(c)' = w /\ MCU_height(c)' = h
  BY <1>3, <1>6 DEF NextMCU, MCU_width, MCU_height, Single
<1>9. Passed(c, b) <=> y < top + vert_offset \/ (y < top + vert_offset + h /\ x < left)
  BY <1>1, <1>3, <1>4, <1>5, <1>6 DEF Passed
<1>10. Passed(c, b)' <=> (\/ y < input_row' * v + vert_offset'
                         \/ (/\ y < input_row' * v + vert_offset' + h
                             /\ x < MCU_ctr' * w))
  BY <1>1, <1>7, <1>8 DEF Passed
<1>11. SUFFICES y < top + vert_offset \/ (y < top + vert_offset + h /\ x < left + w)
  <2>1. CASE y < top + vert_offset \/ x < left
    BY <1>2, <1>5, <1>6, <1>9, <1>11, <2>1
  <2>2. CASE ~(y < top + vert_offset) /\ ~(x < left)
    BY <1>1, <1>2, <1>3, <1>4, <1>5, <1>6, <1>11, <2>2, BlockInMCU
  <2> QED
    BY <2>1, <2>2
<1>14. MCU_ctr = MCUs_per_row - 1 => x < left + w
  BY <1>1, <1>2, <1>3, <1>4, AcrossTheImage DEF RealBlocks
<1>12. CASE MCU_ctr < MCUs_per_row - 1
  <2>1. MCU_ctr' = MCU_ctr + 1 /\ vert_offset' = vert_offset /\ input_row' = input_row
        /\ consuming' = "data"
    BY <1>2, <1>12 DEF NextMCU, RowCompleted, ScanCompleted
  <2>2. MCU_ctr' * w = left + w /\ input_row' * v = top
    BY <1>2, <1>3, <1>4, <1>5, <1>7, <2>1, Distributes
  <2>3. \/ y < top + vert_offset
        \/ y < top + vert_offset + h /\ x < left + w
    BY <1>10, <2>1, <2>2
  <2> QED
    BY <2>3
<1>13. CASE MCU_ctr = MCUs_per_row - 1 /\ ~RowCompleted
  <2>1. MCU_ctr' = 0 /\ vert_offset' = vert_offset + 1 /\ input_row' = input_row
        /\ consuming' = "data"
    BY <1>2, <1>13 DEF NextMCU, ScanCompleted
  <2>4. MCU_ctr' * w = 0 /\ input_row' * v = top
    BY <1>3, <1>5, <1>7, <2>1
  <2>2. y < top + vert_offset + 1
    BY <1>2, <1>10, <2>1, <2>4
  <2>3. x < left + w
    BY <1>14, <1>13
  <2> QED
    BY <1>2, <1>6, <2>2, <2>3
<1>15. CASE RowCompleted
  <2>1. x < left + w /\ vert_offset = MCU_rows_per_iMCU_row - 1
    BY <1>14, <1>15 DEF RowCompleted
  <2>2. y < top + vert_offset + h
    <3>1. CASE input_row < LastRow
      <4>1. MCU_ctr' = 0 /\ vert_offset' = 0 /\ input_row' = input_row + 1 /\ consuming' = "data"
        BY <1>2, <1>15, <3>1 DEF NextMCU, RowCompleted, ScanCompleted
      <4>2. y < (input_row + 1) * v
        BY <1>2, <1>3, <1>7, <1>10, <4>1
      <4>3. y < top + v
        BY <4>2, <1>5, <1>7, DownTheImage
      <4> QED
        BY <1>2, <1>5, <1>6, <1>7, <2>1, <3>1, <4>3, DownTheImage
    <3>2. CASE input_row = LastRow
      <4>1. y < InBlocks(ImageHeight, VSamp, c)
        BY <1>1, DownTheImage DEF RealBlocks
      <4> QED
        BY <1>2, <1>5, <1>6, <1>7, <2>1, <3>2, <4>1, DownTheImage, Sizes DEF LastRow
    <3> QED
      BY <1>2, <3>1, <3>2, Sizes DEF LastRow
  <2> QED
    BY <2>1, <2>2
<1> QED
  BY <1>2, <1>12, <1>13, <1>15

(* The steps. *)

\* One MCU, with all its blocks or without those that are padding.
LEMMA MCUStored ==
  ASSUME TypeOK, InputWired, BlocksWired, consuming = "data", NextMCU,
         Started, ~failed, UNCHANGED <<global_state, failed, modeVars>>,
         \/ Whole /\ stored' = stored \cup MCU_blocks
         \/ ~Whole /\ stored' = stored \cup {b \in MCU_blocks : Useful(b)}
  PROVE  BlocksWired'
<1> USE DEF Whole, modeVars, Started
<1>1. input_row <= LastRow /\ input_row \in Nat /\ LastRow \in Nat
  BY Sizes DEF InputWired, TypeOK, LastRow
<1>2. UNCHANGED <<scan, multiple_scans, buffered, global_state, failed>>
  BY DEF NextMCU
<1>3. consuming' = "data" => MCU_ctr' < MCUs_per_row' /\ vert_offset' < MCU_rows_per_iMCU_row'
  <2>1. MCUs_per_row' = MCUs_per_row
    BY <1>2 DEF MCUs_per_row, Single, TheComponent
  <2>2. MCUs_per_row \in Nat \ {0}
    <3>1. Single => InBlocks(ImageWidth, HSamp, TheComponent) \in Nat \ {0}
      BY TheOnlyOne, BlocksOfMCUs, GeometryAssumption
    <3>2. InMCUs(ImageWidth, HSamp) \in Nat \ {0}
      BY BlocksOfMCUs, GeometryAssumption
    <3> QED
      BY <3>1, <3>2 DEF MCUs_per_row
  <2>3. MCU_ctr' < MCUs_per_row'
    BY <2>1, <2>2 DEF NextMCU, TypeOK
  <2>4. vert_offset' < MCU_rows_per_iMCU_row'
    <3>1. CASE RowCompleted
      <4>1. vert_offset' = 0
        BY <2>2, <3>1 DEF NextMCU, RowCompleted, TypeOK
      <4>2. Single => /\ VSamp[TheComponent] \in Nat \ {0}
                      /\ LastBlocks(ImageHeight, VSamp, TheComponent) \in 1 .. VSamp[TheComponent]
        BY TheOnlyOne, BlocksOfMCUs, GeometryAssumption
      <4>3. Single' = Single /\ TheComponent' = TheComponent
        BY <1>2 DEF Single, TheComponent
      <4> QED
        BY <4>1, <4>2, <4>3 DEF MCU_rows_per_iMCU_row
    <3>2. CASE ~RowCompleted
      <4>1. input_row' = input_row
        BY <3>2 DEF NextMCU
      <4>2. MCU_rows_per_iMCU_row' = MCU_rows_per_iMCU_row
        BY <1>2, <4>1 DEF MCU_rows_per_iMCU_row, Single, TheComponent
      <4>3. MCU_rows_per_iMCU_row \in Nat
        <5>1. Single => /\ VSamp[TheComponent] \in Nat \ {0}
                        /\ LastBlocks(ImageHeight, VSamp, TheComponent) \in 1 .. VSamp[TheComponent]
          BY TheOnlyOne, BlocksOfMCUs, GeometryAssumption
        <5> QED
          BY <5>1 DEF MCU_rows_per_iMCU_row
      <4> QED
        BY <2>2, <3>2, <4>2, <4>3 DEF NextMCU, RowCompleted, BlocksWired, TypeOK
    <3> QED
      BY <3>1, <3>2
  <2> QED
    BY <2>3, <2>4
<1>4. \A b \in stored' : /\ b \in PaddedBlocks(b[1])
                         /\ ~Whole => b \in RealBlocks(b[1])
                         /\ ~Whole /\ scan # {} => b[1] \in scan
  <2> TAKE b \in stored'
  <2>1. CASE b \in stored
    BY <2>1 DEF BlocksWired
  <2>2. CASE b \in MCU_blocks /\ (Whole \/ Useful(b))
    BY <1>1, <2>2, MCUInArrays
  <2> QED
    BY <2>1, <2>2
<1>5. ASSUME NEW c \in scan, NEW b \in RealBlocks(c), consuming' = "markers" \/ Passed(c, b)'
      PROVE  b \in stored'
  <2>1. Passed(c, b) \/ (b \in MCU_blocks /\ Useful(b))
    BY <1>1, <1>5, NextPasses
  <2> QED
    BY <2>1 DEF BlocksWired
<1> QED
  BY <1>2, <1>3, <1>4, <1>5 DEF BlocksWired

\* A scan begins: nothing is passed yet.
LEMMA ScanBegins ==
  ASSUME start_input_pass, scan' \in SUBSET Components
  PROVE  BlocksWired'
<1>1. /\ input_row' = 0 /\ vert_offset' = 0 /\ MCU_ctr' = 0 /\ stored' = {}
      /\ consuming' = "data"
  BY DEF start_input_pass
<1>2. Single' => /\ TheComponent' \in Components
                 /\ InBlocks(ImageWidth, HSamp, TheComponent') \in Nat \ {0}
                 /\ VSamp[TheComponent'] \in Nat \ {0}
                 /\ LastBlocks(ImageHeight, VSamp, TheComponent') \in 1 .. VSamp[TheComponent']
  <2>1. Single' => TheComponent' \in Components
    BY OnlyOne DEF Single, TheComponent
  <2> QED
    BY <2>1, BlocksOfMCUs, GeometryAssumption
<1>3. InMCUs(ImageWidth, HSamp) \in Nat \ {0}
  BY BlocksOfMCUs, GeometryAssumption
<1>4. MCU_ctr' < MCUs_per_row' /\ vert_offset' < MCU_rows_per_iMCU_row'
  BY <1>1, <1>2, <1>3 DEF MCUs_per_row, MCU_rows_per_iMCU_row
<1>5. ASSUME NEW c \in scan', NEW b \in RealBlocks(c) PROVE ~Passed(c, b)'
  <2>1. /\ HSamp[c] \in Nat \ {0} /\ VSamp[c] \in Nat \ {0}
        /\ InBlocks(ImageWidth, HSamp, c) \in Nat /\ InBlocks(ImageHeight, VSamp, c) \in Nat
    BY BlocksOfMCUs, GeometryAssumption
  <2>2. b[2] \in Nat /\ b[3] \in Nat
    BY <2>1 DEF RealBlocks
  <2>3. MCU_ctr' * MCU_width(c)' = 0 /\ input_row' * VSamp[c] + vert_offset' = 0
    BY <1>1, <2>1 DEF MCU_width
  <2> QED
    BY <2>2, <2>3 DEF Passed
<1> QED
  BY <1>1, <1>4, <1>5 DEF BlocksWired

\* What is not a step of the input leaves the blocks where they are.
LEMMA BlocksUntouched ==
  ASSUME BlocksWired, UNCHANGED <<coefVars, consuming, scan>>,
         Started' => Started /\ (~Whole' => ~Whole), ~failed' => ~failed
  PROVE  BlocksWired'
<1>1. UNCHANGED <<input_row, vert_offset, MCU_ctr, stored, consuming, scan>>
  BY DEF coefVars
<1>2. /\ MCUs_per_row' = MCUs_per_row /\ MCU_rows_per_iMCU_row' = MCU_rows_per_iMCU_row
      /\ \A c \in scan : \A b \in RealBlocks(c) : Passed(c, b)' = Passed(c, b)
  BY <1>1 DEF MCUs_per_row, MCU_rows_per_iMCU_row, Passed, MCU_height, MCU_width, Single, TheComponent
<1> QED
  BY <1>1, <1>2 DEF BlocksWired

\* Outside a decompression no more is said than that no block is outside the arrays.
LEMMA NotStarted ==
  ASSUME BlocksWired, ~Started', consuming' = "markers", stored' \subseteq stored
  PROVE  BlocksWired'
BY DEF BlocksWired

LEMMA MarkersLeaveBlocks ==
  ASSUME IndInv, BlocksWired, InputWanted, consume_markers, UNCHANGED <<passVars, modeVars>>
  PROVE  BlocksWired'
<1> USE DEF apiVars, markerVars, modeVars, Whole, Started, Got, Error
<1>0. call # "idle" /\ ~failed /\ consuming = "markers" /\ UNCHANGED <<want, global_state>>
  BY DEF IndInv, InputWanted, NeedsRow, CallsWired, consume_markers, SOS, FirstSOS, LaterSOS,
         UnexpectedSOS, PseudoSOS, Suspend, EOI
<1>1. ASSUME NEW cs \in SUBSET Components \ {{}}, SOS(cs), FirstSOS(cs) PROVE BlocksWired'
  <2>1. ~Started
    BY <1>1 DEF IndInv, FirstSOS, HeaderWired
  <2> QED
    BY <1>0, <1>1, <2>1, NotStarted DEF FirstSOS, coefVars
<1>2. ASSUME NEW cs \in SUBSET Components \ {{}}, SOS(cs), LaterSOS PROVE BlocksWired'
  BY <1>2, ScanBegins DEF SOS, LaterSOS
<1>3. ASSUME NEW cs \in SUBSET Components \ {{}}, SOS(cs), UnexpectedSOS PROVE BlocksWired'
  BY <1>0, <1>3 DEF SOS, UnexpectedSOS, coefVars, BlocksWired
<1>4. ASSUME PseudoSOS PROVE BlocksWired'
  <2>1. Started => inheaders = 0
    BY DEF IndInv, HeaderWired
  <2> QED
    BY <1>0, <1>4, <2>1 DEF PseudoSOS, coefVars, BlocksWired, TypeOK
<1>5. ASSUME NEW sawSOF \in BOOLEAN, EOI(sawSOF) PROVE BlocksWired'
  BY <1>0, <1>5, BlocksUntouched DEF EOI
<1>6. ASSUME NEW r \in {"SUSPENDED", "EOI"}, Got(r), UNCHANGED <<markerVars, coefVars>>
      PROVE  BlocksWired'
  BY <1>0, <1>6, BlocksUntouched
<1> QED
  BY <1>1, <1>2, <1>3, <1>4, <1>5, <1>6 DEF consume_markers, SOS, Suspend

LEMMA LibraryLeavesBlocks ==
  ASSUME IndInv, BlocksWired, Library
  PROVE  BlocksWired'
<1> USE DEF IndInv, apiVars, markerVars, modeVars, Whole, Started, Got
<1>1. CASE ReadInput
  <2>1. CASE consume_markers
    BY <1>1, <2>1, MarkersLeaveBlocks DEF ReadInput
  <2>2. CASE consuming = "data" /\ Suspend
    BY <1>1, <2>2, BlocksUntouched DEF ReadInput, Suspend
  <2>3. CASE consume_data /\ NextMCU /\ stored' = stored \cup MCU_blocks /\ ConsumedMCU
    <3>1. ~failed /\ consuming = "data" /\ Started /\ UNCHANGED <<failed, global_state>>
      BY <1>1, <2>3 DEF ReadInput, InputWanted, NeedsRow, CallsWired, HeaderWired, consume_data,
             ConsumedMCU
    <3> QED
      BY <1>1, <2>3, <3>1, MCUStored DEF ReadInput, consume_data
  <2> QED
    BY <1>1, <2>1, <2>2, <2>3 DEF ReadInput, consume_input, consume_data, dummy_consume_data
<1>2. CASE decompress_onepass
  <2>1. /\ consuming = "data" /\ ~Whole /\ ~failed /\ Started /\ UNCHANGED modeVars
    BY <1>2 DEF decompress_onepass, NeedsRow, CallsWired
  <2>2. CASE Suspend
    BY <2>1, <2>2, BlocksUntouched DEF Suspend
  <2>3. CASE /\ NextMCU /\ stored' = stored \cup {b \in MCU_blocks : Useful(b)}
             /\ IF RowCompleted THEN RowReady ELSE UNCHANGED <<apiVars, passVars>>
    <3>1. UNCHANGED <<global_state, failed>>
      BY <2>3 DEF RowReady
    <3> QED
      BY <2>1, <2>3, <3>1, MCUStored
  <2> QED
    BY <1>2, <2>2, <2>3 DEF decompress_onepass
<1>3. CASE decompress_data \/ process_data
  BY <1>3, BlocksUntouched DEF decompress_data, process_data, RowReady
<1>4. CASE StartDone
  BY <1>4, BlocksUntouched DEF StartDone, CallsWired
<1>5. CASE FinishOutputDone
  BY <1>5, BlocksUntouched DEF FinishOutputDone, CallsWired, NoWork
<1>6. CASE Suspended
  BY <1>6, BlocksUntouched DEF Suspended, NoWork
<1>7. ASSUME global_state' = "start", Released PROVE BlocksWired'
  BY <1>7, NotStarted DEF Released
<1>8. CASE HeaderDone
  BY <1>7, <1>8, BlocksUntouched DEF HeaderDone, Error, NoWork
<1>9. CASE FinishDone
  BY <1>7, <1>9 DEF FinishDone
<1> QED
  BY <1>1, <1>2, <1>3, <1>4, <1>5, <1>6, <1>8, <1>9 DEF Library

LEMMA CallerLeavesBlocks ==
  ASSUME IndInv, BlocksWired, Caller
  PROVE  BlocksWired'
<1> USE DEF IndInv, apiVars, markerVars, modeVars, Whole, Started, NoWork, Begins
<1>1. ASSUME NEW c \in {"header", "consume"}, HeaderCall(c) PROVE BlocksWired'
  <2>1. CASE global_state = "start" /\ StartFile
    BY <2>1, NotStarted DEF StartFile
  <2>2. CASE UNCHANGED <<global_state, markerVars, coefVars>>
    BY <1>1, <2>2, BlocksUntouched DEF HeaderCall
  <2> QED
    BY <1>1, <2>1, <2>2 DEF HeaderCall
<1>2. ASSUME NEW b \in BOOLEAN, NEW r \in BOOLEAN, StartCall(b, r) PROVE BlocksWired'
  BY <1>2, ScanBegins DEF StartCall, TypeOK
<1>3. ASSUME NEW n \in 0 .. MaxScans + 1, StartOutput(n) PROVE BlocksWired'
  BY <1>3, BlocksUntouched DEF StartOutput
<1>4. ASSUME NEW n \in 1 .. MaxLines, ScanlinesCall(n) PROVE BlocksWired'
  BY <1>4, BlocksUntouched DEF ScanlinesCall
<1>5. CASE jpeg_create_decompress
  BY <1>5, BlocksUntouched DEF jpeg_create_decompress
<1>6. CASE StartAgain \/ RawDataCall
  BY <1>6, BlocksUntouched DEF StartAgain, RawDataCall
<1>7. CASE FinishOutputCall
  BY <1>7, BlocksUntouched DEF FinishOutputCall
<1>8. CASE FinishCall
  BY <1>8, BlocksUntouched DEF FinishCall
<1>9. CASE WrongCall
  BY <1>9, BlocksUntouched DEF WrongCall, Error
<1>10. CASE jpeg_abort \/ jpeg_destroy
  BY <1>10, NotStarted DEF jpeg_abort, jpeg_destroy, Released
<1> QED
  BY <1>1, <1>2, <1>3, <1>4, <1>5, <1>6, <1>7, <1>8, <1>9, <1>10 DEF Caller

(* The theorem. *)

LEMMA BlocksInit == Init => BlocksWired
BY DEF Init, BlocksWired, Started

LEMMA BlocksStep == IndInv /\ BlocksWired /\ [Next]_vars => BlocksWired'
<1> SUFFICES ASSUME IndInv, BlocksWired, [Next]_vars PROVE BlocksWired'
  OBVIOUS
<1>1. CASE UNCHANGED vars
  BY <1>1, BlocksUntouched DEF vars, apiVars, markerVars, modeVars, Started, Whole
<1> QED
  BY <1>1, LibraryLeavesBlocks, CallerLeavesBlocks DEF Next

\* Where the input is, every block of the image that the scan's MCUs before it
\* hold is stored; no block is ever stored outside the arrays, and without
\* arrays none outside the image.
THEOREM BlocksAreWired == SafetySpec => []BlocksWired
BY Inductive, BlocksInit, BlocksStep, PTL DEF SafetySpec

\* A scan that was read to its end has given all blocks of the image.
THEOREM ScansAreComplete == SafetySpec => []ScanComplete
<1>1. BlocksWired => ScanComplete
  <2> SUFFICES ASSUME BlocksWired PROVE ScanComplete
    OBVIOUS
  <2>1. \A c \in scan : \A b \in stored : b[1] = c => b \in PaddedBlocks(c)
    BY DEF BlocksWired
  <2>2. ASSUME consuming = "markers", Started, ~failed, NEW c \in scan
        PROVE  /\ RealBlocks(c) \subseteq stored
               /\ ~Whole => stored \subseteq UNION {RealBlocks(d) : d \in scan}
    BY <2>2 DEF BlocksWired
  <2> QED
    BY <2>1, <2>2 DEF ScanComplete, Started
<1> QED
  BY <1>1, BlocksAreWired, PTL
=============================================================================

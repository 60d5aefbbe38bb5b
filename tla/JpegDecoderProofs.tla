-------------------------- MODULE JpegDecoderProofs --------------------------
(***************************************************************************)
(* The decompressor of JpegDecoder, for images of any size, components     *)
(* with any sampling factors and any number of scans: the lines come in    *)
(* order, are given when they are asked for, and only after they were      *)
(* read.                                                                   *)
(***************************************************************************)
EXTENDS JpegDecoder, TLAPS

(* The geometry. *)

LEMMA RoundsUp ==
  ASSUME NEW a \in Nat, NEW b \in Nat \ {0}
  PROVE  /\ jdiv_round_up(a, b) \in Nat
         /\ jdiv_round_up(a, b) * b >= a
         /\ (jdiv_round_up(a, b) - 1) * b < a
<1> DEFINE q == (a + b - 1) \div b
<1>1. q \in Nat /\ q * b <= a + b - 1 /\ a + b - 1 < (q + 1) * b
  OBVIOUS
<1>2. (q - 1) * b = q * b - b /\ (q + 1) * b = q * b + b /\ q * b \in Int
  BY <1>1
<1> QED
  BY <1>1, <1>2 DEF jdiv_round_up

LEMMA FactorsAreBounded ==
  ASSUME NEW samp \in [Components -> 1 .. MAX_SAMP_FACTOR]
  PROVE  MaxFactor(samp) \in Nat \ {0}
<1> DEFINE P(m) == (\E c \in Components : samp[c] = m) /\ (\A c \in Components : samp[c] <= m)
<1>1. \A c \in Components : samp[c] \in {1, 2, 3, 4}
  BY DEF MAX_SAMP_FACTOR
<1>2. \E m \in 1 .. MAX_SAMP_FACTOR : P(m)
  <2>1. CASE \E c \in Components : samp[c] = 4
    BY <1>1, <2>1 DEF MAX_SAMP_FACTOR
  <2>2. CASE (\A c \in Components : samp[c] # 4) /\ \E c \in Components : samp[c] = 3
    BY <1>1, <2>2 DEF MAX_SAMP_FACTOR
  <2>3. CASE (\A c \in Components : samp[c] \notin {3, 4}) /\ \E c \in Components : samp[c] = 2
    BY <1>1, <2>3 DEF MAX_SAMP_FACTOR
  <2>4. CASE \A c \in Components : samp[c] = 1
    BY <2>4, GeometryAssumption DEF MAX_SAMP_FACTOR
  <2> QED
    BY <1>1, <2>1, <2>2, <2>3, <2>4
<1>3. MaxFactor(samp) \in 1 .. MAX_SAMP_FACTOR
  BY <1>2 DEF MaxFactor
<1> QED
  BY <1>3 DEF MAX_SAMP_FACTOR

\* The lines of the image end in the last iMCU row: all rows have enough
\* lines, and all but the last have not.
LEMMA Sizes ==
  /\ Rows \in Nat \ {0} /\ MaxV \in Nat \ {0} /\ Height \in Nat \ {0}
  /\ LinesPerRow \in Nat \ {0} /\ LinesPerRow = MaxV * Scale /\ Scale \in Nat \ {0}
  /\ Height <= Rows * LinesPerRow /\ (Rows - 1) * LinesPerRow < Height
<1>1. MaxV \in Nat \ {0} /\ Scale \in Nat \ {0} /\ Block \in Nat \ {0} /\ ImageHeight \in Nat \ {0}
  BY FactorsAreBounded, GeometryAssumption DEF MaxV
<1>2. PICK d \in Nat \ {0} : d = MaxV * Block
  BY <1>1
<1>3. Rows = jdiv_round_up(ImageHeight, d)
  BY <1>2 DEF Rows, InMCUs, MaxV
<1>4. Rows \in Nat /\ Rows * d >= ImageHeight /\ (Rows - 1) * d < ImageHeight
  BY <1>1, <1>3, RoundsUp
<1>5. PICK h \in Nat \ {0} : h = ImageHeight * Scale
  BY <1>1
<1>6. Height \in Nat /\ Height * Block >= h /\ (Height - 1) * Block < h
  BY <1>1, <1>5, RoundsUp DEF Height, Output
<1>7. PICK l \in Nat \ {0} : l = LinesPerRow
  BY <1>1 DEF LinesPerRow
<1>8. Rows * d * Scale = Rows * l * Block /\ (Rows - 1) * d * Scale = (Rows - 1) * l * Block
  BY <1>1, <1>2, <1>4, <1>7 DEF LinesPerRow
<1>9. Rows \in Nat \ {0} /\ Height \in Nat \ {0}
  BY <1>1, <1>2, <1>4, <1>5, <1>6
<1>10. Height <= Rows * l
  <2>1. h <= Rows * d * Scale
    BY <1>1, <1>2, <1>4, <1>5
  <2>2. (Height - 1) * Block < Rows * l * Block
    BY <2>1, <1>1, <1>2, <1>4, <1>5, <1>6, <1>7, <1>8
  <2> QED
    BY <2>2, <1>1, <1>4, <1>6, <1>7
<1>11. (Rows - 1) * l < Height
  <2>1. (Rows - 1) * d * Scale < h
    BY <1>1, <1>2, <1>4, <1>5
  <2>2. (Rows - 1) * l * Block < Height * Block
    BY <2>1, <1>1, <1>2, <1>4, <1>5, <1>6, <1>7, <1>8
  <2> QED
    BY <2>2, <1>1, <1>4, <1>6, <1>7
<1> QED
  BY <1>1, <1>7, <1>9, <1>10, <1>11 DEF LinesPerRow

LEMMA LeastOfTwo ==
  ASSUME NEW a \in Int, NEW b \in Int
  PROVE  Least({a, b}) = IF a <= b THEN a ELSE b
BY DEF Least

LEMMA LeastOfThree ==
  ASSUME NEW a \in Int, NEW b \in Int, NEW c \in Int
  PROVE  /\ Least({a, b, c}) \in {a, b, c}
         /\ Least({a, b, c}) <= a /\ Least({a, b, c}) <= b /\ Least({a, b, c}) <= c
<1>1. \E x \in {a, b, c} : \A y \in {a, b, c} : x <= y
  OBVIOUS
<1> QED
  BY <1>1 DEF Least

(* What several actions do. *)

\* After a release the object is as after its creation.
LEMMA ReleasedKeeps ==
  ASSUME Released, global_state' \in {"start", "none"}
  PROVE  IndInv'
<1>1. TypeOK'
  <2>1. done' \in [0 .. LastRow -> 0 .. MaxScans] /\ 0 \in 0 .. MaxScans /\ 0 \in 0 .. MaxLines
    BY DecoderAssumption DEF Released
  <2>2. /\ 0 \in 0 .. Rows /\ 0 \in 0 .. Scale - 1 /\ 0 \in 0 .. MaxV /\ 0 \in 0 .. Height
        /\ 0 \in 0 .. MaxScans + 1
    BY Sizes, DecoderAssumption
  <2>3. /\ global_state' \in States /\ call' \in Calls /\ result' = "busy" /\ failed' \in BOOLEAN
        /\ eoi_reached' \in BOOLEAN /\ multiple_scans' \in BOOLEAN /\ progressive' \in BOOLEAN
        /\ buffered' \in BOOLEAN /\ raw' \in BOOLEAN /\ buffer_full' \in BOOLEAN
    BY DEF Released, States, Calls
  <2>4. /\ inheaders' \in 0 .. 2 /\ consuming' \in {"markers", "data"} /\ scan' \subseteq Components
        /\ stored' \subseteq Components \X Nat \X Nat
        /\ vert_offset' \in Nat /\ MCU_ctr' \in Nat /\ output_scanline' \in Nat
    BY DEF Released
  <2>5. /\ want' \in 0 .. MaxLines /\ input_scan' \in 0 .. MaxScans /\ input_row' \in 0 .. Rows
        /\ output_scan' \in 0 .. MaxScans + 1 /\ output_row' \in 0 .. Rows
        /\ rowgroup_ctr' \in 0 .. Scale - 1 /\ next_row_out' \in 0 .. MaxV /\ rows_to_go' \in 0 .. Height
    BY <2>1, <2>2 DEF Released
  <2> QED
    BY <2>1, <2>3, <2>4, <2>5 DEF TypeOK
<1>2. LinesInOrder' /\ FinishCanRead'
  BY DEF LinesInOrder, FinishCanRead
<1> QED
  BY <1>1, <1>2 DEF Released, IndInv, CallsWired, HeaderWired, LockStep, InputWired, RowsWired, Started

LEMMA SetupKeeps ==
  ASSUME TypeOK, NEW r \in BOOLEAN, output_pass_setup(r)
  PROVE  /\ LinesInOrder' /\ RowsWired' /\ output_row' = 0
         /\ output_row' \in 0 .. Rows /\ output_scanline' \in Nat /\ buffer_full' \in BOOLEAN
         /\ rowgroup_ctr' \in 0 .. Scale - 1 /\ next_row_out' \in 0 .. MaxV
         /\ rows_to_go' \in 0 .. Height /\ global_state' \in {"scanning", "raw_ok"}
<1>1. 0 * LinesPerRow = 0 /\ Least({0, Height}) = 0
  BY Sizes, LeastOfTwo
<1>2. /\ output_row' = 0 /\ output_scanline' = 0 /\ rows_to_go' = Height /\ rowgroup_ctr' = 0
      /\ ~buffer_full' /\ next_row_out' = MaxV /\ global_state' \in {"scanning", "raw_ok"}
  BY DEF output_pass_setup
<1>3. LinesInOrder'
  BY <1>1, <1>2, Sizes DEF LinesInOrder
<1>4. buffer_full' \in BOOLEAN
  BY DEF output_pass_setup
<1> QED
  BY <1>2, <1>3, <1>4, Sizes DEF RowsWired

\* The rows that were put out have at least the lines that were given.
LEMMA RowsBound ==
  ASSUME TypeOK, LinesInOrder, global_state \in {"scanning", "raw_ok"}
  PROVE  output_scanline <= output_row * LinesPerRow
<1>1. output_row * LinesPerRow \in Nat /\ output_row \in Nat
  BY Sizes DEF TypeOK
<1>2. CASE global_state = "scanning" /\ buffer_full
  <2>1. output_scanline = (output_row - 1) * LinesPerRow + rowgroup_ctr * MaxV + NextOut
    BY <1>2 DEF LinesInOrder
  <2>2. NextOut < MaxV /\ NextOut \in Nat
    BY Sizes DEF NextOut, TypeOK
  <2>3. rowgroup_ctr * MaxV <= (Scale - 1) * MaxV
    BY Sizes DEF TypeOK
  <2>4. (Scale - 1) * MaxV = LinesPerRow - MaxV
    BY Sizes
  <2>5. (output_row - 1) * LinesPerRow = output_row * LinesPerRow - LinesPerRow
    BY <1>1, Sizes
  <2>6. rowgroup_ctr * MaxV \in Int
    BY Sizes DEF TypeOK
  <2> QED
    BY <1>1, <2>1, <2>2, <2>3, <2>4, <2>5, <2>6, Sizes
<1>3. CASE global_state = "scanning" /\ ~buffer_full
  BY <1>1, <1>3, LeastOfTwo, Sizes DEF LinesInOrder
<1>4. CASE global_state = "raw_ok"
  BY <1>1, <1>4 DEF LinesInOrder
<1> QED
  BY <1>2, <1>3, <1>4

(* The calls: each leaves what the input has done alone, or starts it. *)

\* What only the variables of an output pass have to show.
LEMMA PassTypes ==
  ASSUME TypeOK, global_state' \in States, call' \in Calls, output_scan' \in 0 .. MaxScans + 1,
         output_row' \in 0 .. Rows, output_scanline' \in Nat, buffer_full' \in BOOLEAN,
         rowgroup_ctr' \in 0 .. Scale - 1, next_row_out' \in 0 .. MaxV,
         rows_to_go' \in 0 .. Height,
         UNCHANGED <<result, want, failed, markerVars, coefVars, modeVars>>
  PROVE  TypeOK'
BY DEF TypeOK, markerVars, coefVars, modeVars

LEMMA CallerKeeps ==
  ASSUME IndInv, Caller
  PROVE  IndInv'
<1> USE DEF IndInv, vars, apiVars, markerVars, coefVars, passVars, modeVars,
        Idle, Returns, Begins, NoWork, Error, Whole, Started
<1>1. ASSUME jpeg_create_decompress PROVE IndInv'
  BY <1>1 DEF jpeg_create_decompress, TypeOK, States, Calls, CallsWired, HeaderWired, LockStep,
         InputWired, RowsWired, LinesInOrder, FinishCanRead
<1>2. ASSUME NEW c \in {"header", "consume"}, HeaderCall(c) PROVE IndInv'
  <2>1. TypeOK'
    <3>1. CASE global_state = "start" /\ StartFile
      <4>1. done' \in [0 .. LastRow -> 0 .. MaxScans] /\ 0 \in 0 .. MaxScans
        BY <3>1, DecoderAssumption DEF StartFile
      <4>2. eoi_reached' \in BOOLEAN /\ multiple_scans' \in BOOLEAN /\ progressive' \in BOOLEAN
        BY <3>1, Zenon DEF StartFile
      <4>3. /\ global_state' \in States /\ inheaders' \in 0 .. 2 /\ input_scan' \in 0 .. MaxScans
            /\ consuming' \in {"markers", "data"}
        BY <3>1, <4>1 DEF StartFile, States
      <4>4. /\ call' \in Calls /\ result' \in {"busy", "SUSPENDED", "SOS", "EOI", "ROW", "SCAN"}
            /\ failed' \in BOOLEAN
        BY <1>2 DEF HeaderCall, TypeOK, Calls
      <4> QED
        BY <1>2, <3>1, <4>1, <4>2, <4>3, <4>4 DEF HeaderCall, StartFile, TypeOK
    <3>2. CASE UNCHANGED <<global_state, markerVars, coefVars>>
      BY <1>2, <3>2 DEF HeaderCall, TypeOK, Calls
    <3> QED
      BY <1>2, <3>1, <3>2 DEF HeaderCall
  <2>2. CallsWired' /\ HeaderWired'
    BY <1>2 DEF HeaderCall, StartFile, TypeOK, CallsWired, HeaderWired
  <2>3. LockStep'
    BY <1>2 DEF HeaderCall, StartFile, LockStep
  <2>4. InputWired'
    BY <1>2 DEF HeaderCall, StartFile, InputWired
  <2>5. RowsWired' /\ LinesInOrder' /\ FinishCanRead'
    BY <1>2 DEF HeaderCall, StartFile, RowsWired, LinesInOrder, FinishCanRead, NextOut
  <2> QED
    BY <2>1, <2>2, <2>3, <2>4, <2>5
<1>3. ASSUME NEW b \in BOOLEAN, NEW r \in BOOLEAN, StartCall(b, r) PROVE IndInv'
  BY <1>3, Sizes DEF StartCall, start_input_pass, TypeOK, States, Calls, CallsWired, HeaderWired, LockStep,
         InputWired, RowsWired, LinesInOrder, FinishCanRead, LastRow
<1>4. ASSUME StartAgain PROVE IndInv'
  BY <1>4 DEF StartAgain, TypeOK, Calls, CallsWired, HeaderWired, LockStep,
         InputWired, RowsWired, LinesInOrder, FinishCanRead, NextOut
<1>5. ASSUME RawDataCall PROVE IndInv'
  BY <1>5 DEF RawDataCall, TypeOK, Calls, CallsWired, HeaderWired, LockStep,
         InputWired, RowsWired, LinesInOrder, FinishCanRead, NextOut
<1>6. ASSUME FinishOutputCall PROVE IndInv'
  BY <1>6 DEF FinishOutputCall, TypeOK, States, Calls, CallsWired, HeaderWired, LockStep,
         InputWired, RowsWired, LinesInOrder, FinishCanRead, NextOut
<1>7. ASSUME FinishCall PROVE IndInv'
  <2>1. FinishCanRead'
    <3>1. CASE global_state \in {"scanning", "raw_ok"} /\ ~Whole /\ consuming = "data"
      <4>1. output_row = input_row /\ output_row <= Rows - 1 /\ output_row \in Nat
        BY <3>1, Sizes DEF LockStep, InputWired, LastRow, TypeOK
      <4>2. output_scanline <= output_row * LinesPerRow
        BY <3>1, RowsBound DEF TypeOK
      <4>3. output_row * LinesPerRow <= (Rows - 1) * LinesPerRow
        BY <4>1, Sizes
      <4> QED
        BY <1>7, <3>1, <4>2, <4>3, Sizes DEF FinishCall, TypeOK
    <3> QED
      BY <1>7, <3>1 DEF FinishCall, FinishCanRead, TypeOK, HeaderWired
  <2>2. TypeOK'
    BY <1>7 DEF FinishCall, TypeOK, States, Calls
  <2>3. CallsWired' /\ HeaderWired'
    BY <1>7 DEF FinishCall, TypeOK, CallsWired, HeaderWired
  <2>4. LockStep' /\ InputWired' /\ RowsWired' /\ LinesInOrder'
    BY <1>7 DEF FinishCall, TypeOK, CallsWired, HeaderWired, LockStep, InputWired, RowsWired,
                LinesInOrder
  <2> QED
    BY <2>1, <2>2, <2>3, <2>4
<1>8. ASSUME NEW n \in 0 .. MaxScans + 1, StartOutput(n) PROVE IndInv'
  <2>1. /\ LinesInOrder' /\ RowsWired' /\ output_row' = 0
        /\ output_row' \in 0 .. Rows /\ output_scanline' \in Nat /\ buffer_full' \in BOOLEAN
        /\ rowgroup_ctr' \in 0 .. Scale - 1 /\ next_row_out' \in 0 .. MaxV
        /\ rows_to_go' \in 0 .. Height /\ global_state' \in {"scanning", "raw_ok"}
    BY <1>8, SetupKeeps DEF StartOutput, TypeOK
  <2>2. output_scan' \in 0 .. MaxScans + 1
    BY <1>8, DecoderAssumption DEF StartOutput, TypeOK
  <2>3. TypeOK'
    <3>1. UNCHANGED <<call, result, want, failed, markerVars, coefVars, modeVars>>
      BY <1>8 DEF StartOutput
    <3>2. global_state' \in States /\ call' \in Calls
      BY <2>1, <3>1 DEF TypeOK, States
    <3> QED
      BY <2>1, <2>2, <3>1, <3>2, PassTypes, Zenon
  <2>4. CallsWired' /\ HeaderWired'
    BY <1>8, <2>1 DEF StartOutput, TypeOK, CallsWired, HeaderWired
  <2>5. LockStep' /\ InputWired'
    BY <1>8, <2>1 DEF StartOutput, TypeOK, CallsWired, HeaderWired, LockStep, InputWired
  <2>6. FinishCanRead'
    BY <1>8, <2>1 DEF StartOutput, FinishCanRead
  <2> QED
    BY <2>1, <2>3, <2>4, <2>5, <2>6
<1>9. ASSUME NEW n \in 1 .. MaxLines, ScanlinesCall(n) PROVE IndInv'
  BY <1>9 DEF ScanlinesCall, TypeOK, Calls, CallsWired, HeaderWired, LockStep,
         InputWired, RowsWired, LinesInOrder, FinishCanRead, NextOut
<1>10. ASSUME WrongCall PROVE IndInv'
  BY <1>10 DEF WrongCall, TypeOK, Calls, CallsWired, HeaderWired, LockStep,
         InputWired, RowsWired, LinesInOrder, FinishCanRead, NextOut
<1>11. ASSUME jpeg_abort \/ jpeg_destroy PROVE IndInv'
  BY <1>11, ReleasedKeeps DEF jpeg_abort, jpeg_destroy
<1> QED
  BY <1>1, <1>2, <1>3, <1>4, <1>5, <1>6, <1>7, <1>8, <1>9, <1>10, <1>11 DEF Caller

(* The output side. *)

\* An iMCU row may be put out only while there are rows.
LEMMA RowsLeft ==
  ASSUME IndInv, NeedsRow
  PROVE  /\ output_row < Rows /\ output_scanline = output_row * LinesPerRow
         /\ output_scanline < Height
<1>1. output_scanline < Height /\ output_scanline = output_row * LinesPerRow
  BY LeastOfTwo, Sizes DEF IndInv, NeedsRow, CallsWired, LinesInOrder, TypeOK
<1>2. output_row < Rows
  <2>1. SUFFICES ASSUME output_row >= Rows PROVE FALSE
    BY Sizes DEF IndInv, TypeOK
  <2>2. output_row * LinesPerRow >= Rows * LinesPerRow
    BY <2>1, Sizes DEF IndInv, TypeOK
  <2> QED
    BY <1>1, <2>2, Sizes DEF IndInv, TypeOK
<1> QED
  BY <1>1, <1>2

\* What RowReady does to the counters of the lines.
LEMMA RowReadyKeeps ==
  ASSUME IndInv, NeedsRow, RowReady, UNCHANGED modeVars
  PROVE  /\ LinesInOrder' /\ RowsWired' /\ CallsWired'
         /\ call' \in Calls /\ buffer_full' \in BOOLEAN /\ output_row' = output_row + 1
         /\ output_row' \in 0 .. Rows /\ output_scanline' \in Nat
         /\ UNCHANGED <<global_state, result, want, failed, rowgroup_ctr, next_row_out, rows_to_go>>
<1> USE DEF IndInv
<1>1. output_row \in Nat /\ output_scanline \in Nat /\ output_row * LinesPerRow \in Nat
  BY Sizes DEF TypeOK
<1>2. /\ output_row < Rows /\ output_scanline = output_row * LinesPerRow
  BY RowsLeft
<1>3. /\ output_row' = output_row + 1
      /\ UNCHANGED <<global_state, result, want, failed, rowgroup_ctr, next_row_out, rows_to_go>>
  BY DEF RowReady
<1>4. (output_row' - 1) * LinesPerRow = output_row * LinesPerRow
      /\ output_row' * LinesPerRow = output_row * LinesPerRow + LinesPerRow
  BY <1>1, <1>3, Sizes
<1>5. CASE call = "lines"
  <2>1. buffer_full' /\ UNCHANGED <<call, output_scanline>> /\ global_state = "scanning"
    BY <1>5 DEF RowReady, CallsWired
  <2>2. ~buffer_full /\ next_row_out = MaxV /\ rowgroup_ctr = 0
    BY <2>1 DEF NeedsRow, RowsWired, LinesInOrder
  <2>3. NextOut' = 0 /\ rowgroup_ctr' * MaxV = 0
    BY <1>3, <2>2, Sizes DEF NextOut
  <2>4. LinesInOrder'
    BY <1>1, <1>2, <1>3, <1>4, <2>1, <2>3 DEF LinesInOrder
  <2>5. buffer_full' \in BOOLEAN
    BY <1>5 DEF RowReady
  <2> QED
    BY <1>1, <1>2, <1>3, <2>1, <2>4, <2>5, Sizes DEF RowsWired, CallsWired, TypeOK, Calls, Started
<1>6. CASE call = "raw"
  <2>1. /\ output_scanline' = output_scanline + LinesPerRow /\ call' = "idle"
        /\ UNCHANGED buffer_full /\ global_state = "raw_ok"
    BY <1>6 DEF RowReady, CallsWired, Returns
  <2> QED
    BY <1>1, <1>2, <1>3, <1>4, <2>1, Sizes DEF LinesInOrder, RowsWired, CallsWired, TypeOK, Calls, Started
<1> QED
  BY <1>5, <1>6 DEF NeedsRow

(* The input side. *)

LEMMA BlocksAreBlocks ==
  ASSUME TypeOK
  PROVE  MCU_blocks \subseteq Components \X Nat \X Nat
<1> SUFFICES ASSUME NEW b \in MCU_blocks PROVE b \in Components \X Nat \X Nat
  OBVIOUS
<1>1. PICK c \in scan : \E x \in 0 .. MCU_width(c) - 1, y \in 0 .. MCU_height(c) - 1 :
        b = <<c, MCU_ctr * MCU_width(c) + x, input_row * VSamp[c] + vert_offset + y>>
  BY DEF MCU_blocks
<1>7. PICK x \in 0 .. MCU_width(c) - 1, y \in 0 .. MCU_height(c) - 1 :
        b = <<c, MCU_ctr * MCU_width(c) + x, input_row * VSamp[c] + vert_offset + y>>
  BY <1>1
<1>2. c \in Components /\ MCU_ctr \in Nat /\ input_row \in Nat /\ vert_offset \in Nat
  BY Sizes DEF TypeOK
<1>3. HSamp[c] \in Nat /\ VSamp[c] \in Nat
  BY <1>2, GeometryAssumption DEF MAX_SAMP_FACTOR
<1>4. MCU_width(c) \in Nat /\ MCU_height(c) \in Nat
  BY <1>3 DEF MCU_width, MCU_height
<1>5. MCU_ctr * MCU_width(c) + x \in Nat
  BY <1>2, <1>4
<1>6. input_row * VSamp[c] + vert_offset + y \in Nat
  BY <1>2, <1>3, <1>4
<1> QED
  BY <1>7, <1>2, <1>5, <1>6

\* One MCU further: the input is at a row of the scan or the scan is done, and
\* the rows behind it have been read.
LEMMA MCUKeeps ==
  ASSUME IndInv, consuming = "data", NextMCU, ~failed, Started, Started',
         stored' \subseteq stored \cup MCU_blocks, UNCHANGED failed
  PROVE  /\ input_row' \in 0 .. Rows /\ vert_offset' \in Nat /\ MCU_ctr' \in Nat
         /\ stored' \subseteq Components \X Nat \X Nat
         /\ done' \in [0 .. LastRow -> 0 .. MaxScans]
         /\ consuming' \in {"markers", "data"}
         /\ input_row' = (IF RowCompleted THEN input_row + 1 ELSE input_row)
         /\ consuming' = "markers" => RowCompleted /\ input_row' = Rows
         /\ InputWired'
<1> USE DEF IndInv
<1>1. input_row \in 0 .. LastRow /\ LastRow = Rows - 1 /\ Rows \in Nat \ {0}
  BY Sizes DEF InputWired, TypeOK, LastRow
<1>2. vert_offset' \in Nat /\ MCU_ctr' \in Nat
  BY DEF NextMCU, TypeOK
<1>3. stored' \subseteq Components \X Nat \X Nat
  BY BlocksAreBlocks DEF TypeOK
<1>4. done' \in [0 .. LastRow -> 0 .. MaxScans]
  BY DEF NextMCU, TypeOK
<1>5. /\ input_row' = (IF RowCompleted THEN input_row + 1 ELSE input_row)
      /\ consuming' = (IF RowCompleted /\ input_row = LastRow THEN "markers" ELSE "data")
      /\ UNCHANGED input_scan
  BY DEF NextMCU, ScanCompleted
<1>6. \A r \in 0 .. LastRow :
        done'[r] >= IF consuming' = "markers" \/ r < input_row' THEN input_scan ELSE input_scan - 1
  <2> TAKE r \in 0 .. LastRow
  <2>1. done[r] \in Nat /\ input_scan \in Nat
    BY DEF TypeOK
  <2>2. done[r] >= IF r < input_row THEN input_scan ELSE input_scan - 1
    BY DEF InputWired
  <2>3. CASE RowCompleted
    <3>1. done'[r] = IF r = input_row THEN input_scan ELSE done[r]
      BY <1>1, <2>3 DEF NextMCU, TypeOK
    <3> QED
      BY <1>1, <1>5, <2>1, <2>2, <2>3, <3>1
  <2>4. CASE ~RowCompleted
    BY <1>5, <2>2, <2>4 DEF NextMCU
  <2> QED
    BY <2>3, <2>4
<1>7. InputWired'
  BY <1>1, <1>5, <1>6 DEF InputWired, NextMCU, LastRow
<1> QED
  BY <1>1, <1>2, <1>3, <1>4, <1>5, <1>7

\* The lines are not touched when only input is read.
LEMMA LinesUntouched ==
  ASSUME LinesInOrder, RowsWired, UNCHANGED <<passVars, global_state>>
  PROVE  LinesInOrder' /\ RowsWired'
BY DEF LinesInOrder, RowsWired, passVars, NextOut

LEMMA MarkersKeep ==
  ASSUME IndInv, InputWanted, consume_markers, UNCHANGED <<passVars, modeVars>>
  PROVE  IndInv'
<1> USE DEF IndInv, apiVars, markerVars, coefVars, passVars, modeVars, Whole, Started, Got, Error
<1>0. call # "idle" /\ ~failed /\ consuming = "markers" /\ UNCHANGED <<want, global_state>>
  BY DEF InputWanted, NeedsRow, CallsWired, consume_markers, SOS, FirstSOS, LaterSOS, UnexpectedSOS,
         PseudoSOS, Suspend, EOI
<1>1. LinesInOrder' /\ RowsWired'
  BY <1>0, LinesUntouched
<1>2. ASSUME NEW cs \in SUBSET Components \ {{}}, SOS(cs), FirstSOS(cs) PROVE IndInv'
  <2>1. global_state = "inheader" /\ call \in {"header", "consume"} /\ result' = "SOS" /\ inheaders' = 0
    BY <1>0, <1>2 DEF FirstSOS, HeaderWired, InputWanted, NeedsRow, CallsWired, TypeOK, States
  <2>2. TypeOK'
    <3>1. input_scan' \in 0 .. MaxScans /\ scan' \subseteq Components
      BY <1>2, DecoderAssumption DEF SOS, TypeOK
    <3>2. multiple_scans' \in BOOLEAN
      BY <1>2, Zenon DEF FirstSOS, TypeOK
    <3> QED
      BY <1>0, <1>2, <3>1, <3>2 DEF SOS, FirstSOS, TypeOK
  <2>3. CallsWired' /\ HeaderWired'
    BY <1>0, <1>2, <2>1 DEF SOS, FirstSOS, CallsWired, HeaderWired, TypeOK
  <2>4. LockStep' /\ InputWired' /\ FinishCanRead'
    BY <1>0, <1>2, <2>1 DEF SOS, FirstSOS, LockStep, InputWired, FinishCanRead, HeaderWired
  <2> QED
    BY <1>1, <2>2, <2>3, <2>4
<1>3. ASSUME NEW cs \in SUBSET Components \ {{}}, SOS(cs), LaterSOS PROVE IndInv'
  <2>1. Started
    BY <1>0, <1>3 DEF LaterSOS, HeaderWired, InputWanted, NeedsRow, CallsWired, TypeOK
  <2>2. TypeOK'
    <3>1. input_scan' \in 0 .. MaxScans /\ scan' \subseteq Components
      BY <1>3, DecoderAssumption DEF SOS, TypeOK
    <3>2. /\ input_row' \in 0 .. Rows /\ vert_offset' \in Nat /\ MCU_ctr' \in Nat
          /\ stored' \subseteq Components \X Nat \X Nat /\ consuming' \in {"markers", "data"}
      BY <1>3, Sizes DEF LaterSOS, start_input_pass
    <3> QED
      BY <1>0, <1>3, <3>1, <3>2 DEF SOS, LaterSOS, start_input_pass, TypeOK
  <2>3. CallsWired' /\ HeaderWired'
    BY <1>0, <1>3, <2>1 DEF SOS, LaterSOS, start_input_pass, CallsWired, HeaderWired, TypeOK
  <2>4. InputWired'
    <3>1. /\ consuming' = "data" /\ input_row' = 0 /\ input_scan' = input_scan + 1 /\ ~failed'
          /\ UNCHANGED done
      BY <1>0, <1>3 DEF SOS, LaterSOS, start_input_pass
    <3>2. \A r \in 0 .. LastRow : done[r] >= input_scan /\ done[r] \in Nat
      BY <1>0, <2>1 DEF InputWired, TypeOK
    <3>3. LastRow >= 0 /\ input_scan \in Nat
      BY Sizes DEF LastRow, TypeOK
    <3>4. LastRow' = LastRow
      BY DEF LastRow
    <3> QED
      BY <3>1, <3>2, <3>3, <3>4 DEF InputWired
  <2>5. LockStep' /\ FinishCanRead'
    BY <1>0, <1>3 DEF SOS, LaterSOS, LockStep, FinishCanRead
  <2> QED
    BY <1>1, <2>2, <2>3, <2>4, <2>5
<1>4. ASSUME NEW cs \in SUBSET Components \ {{}}, SOS(cs), UnexpectedSOS PROVE IndInv'
  <2>1. Started
    BY <1>0, <1>4 DEF UnexpectedSOS, HeaderWired, InputWanted, NeedsRow, CallsWired, TypeOK
  <2>2. TypeOK'
    <3>1. input_scan' \in 0 .. MaxScans /\ scan' \subseteq Components
      BY <1>4, DecoderAssumption DEF SOS, TypeOK
    <3>2. failed' \in BOOLEAN /\ call' \in Calls
      BY <1>4 DEF UnexpectedSOS, Calls
    <3> QED
      BY <1>0, <1>4, <3>1, <3>2 DEF SOS, UnexpectedSOS, TypeOK
  <2>3. CallsWired' /\ HeaderWired'
    BY <1>0, <1>4, <2>1 DEF SOS, UnexpectedSOS, CallsWired, HeaderWired, TypeOK
  <2>4. InputWired' /\ FinishCanRead'
    BY <1>0, <1>4 DEF SOS, UnexpectedSOS, InputWired, FinishCanRead, LastRow
  <2>5. LockStep'
    BY <1>0, <1>4 DEF SOS, UnexpectedSOS, LockStep, TypeOK
  <2> QED
    BY <1>1, <2>2, <2>3, <2>4, <2>5
<1>5. ASSUME PseudoSOS PROVE IndInv'
  BY <1>0, <1>1, <1>5 DEF PseudoSOS, TypeOK, CallsWired, HeaderWired, LockStep, InputWired, FinishCanRead, LastRow
<1>6. ASSUME NEW sawSOF \in BOOLEAN, EOI(sawSOF) PROVE IndInv'
  <2>1. TypeOK'
    <3>1. eoi_reached' \in BOOLEAN
      BY <1>6, Zenon DEF EOI
    <3>2. output_scan' \in 0 .. MaxScans + 1
      BY <1>6, DecoderAssumption DEF EOI, TypeOK
    <3>3. CASE inheaders > 0 /\ sawSOF
      BY <1>0, <1>6, <3>1, <3>2, <3>3 DEF EOI, TypeOK, Calls
    <3>4. CASE ~(inheaders > 0 /\ sawSOF)
      BY <1>0, <1>6, <3>1, <3>2, <3>4 DEF EOI, TypeOK
    <3> QED
      BY <3>3, <3>4
  <2>2. CallsWired' /\ HeaderWired'
    BY <1>0, <1>6 DEF EOI, TypeOK, CallsWired, HeaderWired, InputWanted, NeedsRow
  <2>3. LockStep'
    BY <1>0, <1>6 DEF EOI, TypeOK, LockStep
  <2>4. InputWired' /\ FinishCanRead'
    BY <1>0, <1>6 DEF EOI, InputWired, FinishCanRead, LastRow
  <2> QED
    BY <1>1, <2>1, <2>2, <2>3, <2>4
<1>7. ASSUME NEW r \in {"SUSPENDED", "EOI"}, Got(r), UNCHANGED <<markerVars, coefVars, output_scan>>
      PROVE  IndInv'
  <2>1. TypeOK'
    BY <1>0, <1>7 DEF TypeOK
  <2>2. CallsWired' /\ HeaderWired'
    BY <1>0, <1>7 DEF CallsWired, HeaderWired, InputWanted, NeedsRow
  <2>3. LockStep' /\ InputWired' /\ FinishCanRead'
    BY <1>0, <1>7 DEF LockStep, InputWired, FinishCanRead, LastRow
  <2> QED
    BY <1>1, <2>1, <2>2, <2>3
<1> QED
  BY <1>2, <1>3, <1>4, <1>5, <1>6, <1>7 DEF consume_markers, SOS, Suspend

LEMMA ReadInputKeeps ==
  ASSUME IndInv, ReadInput
  PROVE  IndInv'
<1> USE DEF IndInv, apiVars, markerVars, coefVars, passVars, modeVars, Whole, Got, Error
<1>1. ASSUME consume_markers PROVE IndInv'
  BY <1>1, MarkersKeep DEF ReadInput
<1>2. ASSUME consume_data \/ dummy_consume_data PROVE IndInv'
  <2>1. call # "idle" /\ ~failed /\ consuming = "data" /\ UNCHANGED <<call, want, failed, global_state>>
    BY <1>2 DEF ReadInput, InputWanted, NeedsRow, CallsWired, consume_data, dummy_consume_data,
           Suspend, ConsumedMCU
  <2>2. Started /\ Started'
    BY <2>1 DEF Started, HeaderWired, ReadInput
  <2>3. LinesInOrder' /\ RowsWired'
    BY <2>1, LinesUntouched DEF ReadInput
  <2>4. CASE Suspend
    <3>1. TypeOK'
      BY <2>1, <2>4 DEF ReadInput, Suspend, TypeOK
    <3>2. CallsWired' /\ HeaderWired'
      BY <2>1, <2>2, <2>4 DEF ReadInput, Suspend, CallsWired, HeaderWired, Started
    <3>3. LockStep' /\ InputWired' /\ FinishCanRead'
      BY <2>1, <2>4 DEF ReadInput, Suspend, LockStep, InputWired, FinishCanRead, LastRow, Started
    <3> QED
      BY <2>3, <3>1, <3>2, <3>3
  <2>5. CASE Whole /\ NextMCU /\ stored' = stored \cup MCU_blocks /\ ConsumedMCU
    <3>1. /\ input_row' \in 0 .. Rows /\ vert_offset' \in Nat /\ MCU_ctr' \in Nat
          /\ stored' \subseteq Components \X Nat \X Nat
          /\ done' \in [0 .. LastRow -> 0 .. MaxScans]
          /\ consuming' \in {"markers", "data"} /\ InputWired'
      BY <2>1, <2>2, <2>5, MCUKeeps
    <3>2. result' \in {"SCAN", "ROW", result} /\ result' \in {"busy", "SUSPENDED", "SOS", "EOI", "ROW", "SCAN"}
      BY <2>5 DEF ConsumedMCU, TypeOK
    <3>3. TypeOK'
      BY <2>1, <2>5, <3>1, <3>2 DEF ReadInput, NextMCU, TypeOK
    <3>4. CallsWired' /\ HeaderWired'
      BY <2>1, <2>2, <2>5 DEF ReadInput, NextMCU, CallsWired, HeaderWired, Started
    <3>5. LockStep' /\ FinishCanRead'
      BY <2>5 DEF ReadInput, NextMCU, LockStep, FinishCanRead
    <3> QED
      BY <2>3, <3>1, <3>3, <3>4, <3>5
  <2> QED
    BY <1>2, <2>4, <2>5 DEF consume_data, dummy_consume_data
<1> QED
  BY <1>1, <1>2 DEF ReadInput, consume_input

LEMMA OnepassKeeps ==
  ASSUME IndInv, decompress_onepass
  PROVE  IndInv'
<1> USE DEF IndInv, apiVars, markerVars, coefVars, passVars, modeVars, Whole, Got
<1>1. /\ NeedsRow /\ ~Whole /\ consuming = "data" /\ ~failed /\ call \in {"lines", "raw"}
      /\ UNCHANGED modeVars
  BY DEF decompress_onepass, NeedsRow, CallsWired
<1>2. global_state \in {"scanning", "raw_ok"} /\ Started
  BY <1>1 DEF CallsWired, Started
<1>3. CASE Suspend /\ UNCHANGED passVars
  <2>1. LinesInOrder' /\ RowsWired'
    BY <1>3, LinesUntouched DEF Suspend
  <2>2. TypeOK'
    BY <1>1, <1>3 DEF Suspend, TypeOK
  <2>3. CallsWired' /\ HeaderWired'
    BY <1>1, <1>2, <1>3 DEF Suspend, CallsWired, HeaderWired, Started
  <2>4. LockStep' /\ InputWired' /\ FinishCanRead'
    BY <1>1, <1>3 DEF Suspend, LockStep, InputWired, FinishCanRead, LastRow, Started
  <2> QED
    BY <2>1, <2>2, <2>3, <2>4
<1>4. CASE /\ NextMCU /\ stored' = stored \cup {b \in MCU_blocks : Useful(b)}
           /\ IF RowCompleted THEN RowReady ELSE UNCHANGED <<apiVars, passVars>>
  <2>1. UNCHANGED <<global_state, failed>>
    BY <1>4 DEF RowReady
  <2>2. /\ input_row' \in 0 .. Rows /\ vert_offset' \in Nat /\ MCU_ctr' \in Nat
        /\ stored' \subseteq Components \X Nat \X Nat
        /\ done' \in [0 .. LastRow -> 0 .. MaxScans]
        /\ consuming' \in {"markers", "data"}
        /\ input_row' = (IF RowCompleted THEN input_row + 1 ELSE input_row)
        /\ consuming' = "markers" => RowCompleted /\ input_row' = Rows
        /\ InputWired'
    <3>1. Started' /\ stored' \subseteq stored \cup MCU_blocks
      BY <1>2, <1>4, <2>1 DEF Started
    <3> QED
      BY <1>1, <1>2, <1>4, <2>1, <3>1, MCUKeeps
  <2>3. /\ LinesInOrder' /\ RowsWired' /\ CallsWired'
        /\ call' \in Calls /\ buffer_full' \in BOOLEAN
        /\ output_row' = (IF RowCompleted THEN output_row + 1 ELSE output_row)
        /\ output_row' \in 0 .. Rows /\ output_scanline' \in Nat
        /\ UNCHANGED <<global_state, result, want, failed, rowgroup_ctr, next_row_out, rows_to_go>>
    <3>1. CASE RowCompleted
      BY <1>1, <1>4, <3>1, RowReadyKeeps
    <3>2. CASE ~RowCompleted
      BY <1>4, <3>2, LinesUntouched DEF CallsWired, TypeOK, Started
    <3> QED
      BY <3>1, <3>2
  <2>4. TypeOK'
    BY <1>1, <1>4, <2>2, <2>3 DEF NextMCU, TypeOK
  <2>5. HeaderWired'
    BY <1>2, <1>4, <2>1, <1>1 DEF NextMCU, HeaderWired, Started
  <2>6. LockStep' /\ FinishCanRead'
    <3>1. output_row = input_row /\ output_scan <= input_scan
      BY <1>1, <1>2 DEF LockStep
    <3> QED
      BY <1>1, <1>2, <1>4, <2>2, <2>3, <3>1 DEF NextMCU, LockStep, FinishCanRead
  <2> QED
    BY <2>2, <2>3, <2>4, <2>5, <2>6
<1> QED
  BY <1>3, <1>4 DEF decompress_onepass

LEMMA RowKeeps ==
  ASSUME IndInv, decompress_data
  PROVE  IndInv'
<1> USE DEF IndInv, apiVars, markerVars, coefVars, passVars, modeVars, Whole
<1>1. NeedsRow /\ Whole /\ RowReady /\ UNCHANGED <<markerVars, coefVars, modeVars, output_scan>>
  BY DEF decompress_data
<1>2. /\ LinesInOrder' /\ RowsWired' /\ CallsWired'
      /\ call' \in Calls /\ buffer_full' \in BOOLEAN
      /\ output_row' \in 0 .. Rows /\ output_scanline' \in Nat
      /\ UNCHANGED <<global_state, result, want, failed, rowgroup_ctr, next_row_out, rows_to_go>>
  BY <1>1, RowReadyKeeps
<1>3. TypeOK'
  BY <1>1, <1>2 DEF TypeOK
<1>4. HeaderWired'
  <2>1. global_state \in {"scanning", "raw_ok"}
    BY <1>1 DEF NeedsRow, CallsWired
  <2> QED
    BY <1>1, <1>2, <2>1 DEF HeaderWired, Started
<1>5. LockStep' /\ InputWired' /\ FinishCanRead'
  BY <1>1, <1>2 DEF LockStep, InputWired, FinishCanRead, LastRow, Started
<1> QED
  BY <1>2, <1>3, <1>4, <1>5

\* The lines of a row group, as many as the caller and the image have room for.
LEMMA LinesEmitted ==
  ASSUME IndInv, process_data
  PROVE  /\ output_scanline' > output_scanline /\ output_scanline' \in Nat
         /\ rows_to_go' \in 0 .. Height /\ next_row_out' \in 0 .. MaxV
         /\ rowgroup_ctr' \in 0 .. Scale - 1 /\ buffer_full' \in BOOLEAN
         /\ LinesInOrder' /\ RowsWired'
<1> USE DEF IndInv, apiVars
<1>1. /\ call = "lines" /\ buffer_full /\ global_state = "scanning" /\ want >= 1
      /\ output_scanline < Height /\ UNCHANGED <<global_state, output_row>>
  BY DEF process_data, CallsWired, EmitRows, Emitted
<1>2. /\ NextOut \in Nat /\ NextOut < MaxV
      /\ rows_to_go \in Nat /\ rows_to_go >= 1 /\ want \in Nat /\ output_scanline \in Nat
      /\ rowgroup_ctr \in 0 .. Scale - 1 /\ output_row \in Nat
      /\ output_scanline + rows_to_go = Height
  BY <1>1, Sizes DEF NextOut, LinesInOrder, TypeOK
<1> DEFINE num == Least({MaxV - NextOut, rows_to_go, want})
<1>3. num \in Nat /\ num >= 1 /\ num <= MaxV - NextOut /\ num <= rows_to_go
  <2>1. MaxV - NextOut \in Int /\ MaxV - NextOut >= 1
    BY <1>2, Sizes
  <2> QED
    <3>1. MaxV - NextOut \in Int /\ rows_to_go \in Int /\ want \in Int
      BY <1>2, <2>1
    <3>2. /\ num \in {MaxV - NextOut, rows_to_go, want}
          /\ num <= MaxV - NextOut /\ num <= rows_to_go
      BY <3>1, LeastOfThree
    <3> QED
      BY <1>1, <1>2, <2>1, <3>2
<1> HIDE DEF num
<1>4. Emitted(NextOut, num)
  BY DEF process_data, EmitRows, num
<1> DEFINE group == IF NextOut + num >= MaxV THEN rowgroup_ctr + 1 ELSE rowgroup_ctr
<1>11. group >= Scale => rowgroup_ctr' = 0 /\ buffer_full' = FALSE
  BY <1>4, Zenon DEF Emitted
<1>12. ~(group >= Scale) => rowgroup_ctr' = group /\ buffer_full' = TRUE
  BY <1>4, Zenon DEF Emitted
<1>13. buffer_full' \in BOOLEAN
  BY <1>11, <1>12, Zenon
<1>5. PICK base \in Int : base = (output_row - 1) * LinesPerRow
  BY <1>2, Sizes
<1>6. PICK m \in Nat : m = rowgroup_ctr * MaxV
  BY <1>2, Sizes
<1>7. output_scanline = base + m + NextOut
  BY <1>1, <1>5, <1>6 DEF LinesInOrder
<1>8. /\ output_scanline' = output_scanline + num /\ rows_to_go' = rows_to_go - num
      /\ next_row_out' = NextOut + num
  BY <1>4 DEF Emitted
<1>9. CASE NextOut + num >= MaxV
  <2>1. NextOut + num = MaxV /\ (rowgroup_ctr + 1) * MaxV = m + MaxV
    BY <1>2, <1>3, <1>6, <1>9, Sizes
  <2>2. CASE rowgroup_ctr + 1 < Scale
    <3>1. rowgroup_ctr' = rowgroup_ctr + 1 /\ buffer_full' /\ NextOut' = 0
      BY <1>2, <1>8, <1>9, <1>11, <1>12, <2>1, <2>2, Sizes DEF NextOut
    <3> QED
      BY <1>1, <1>2, <1>3, <1>5, <1>7, <1>8, <2>1, <2>2, <3>1, Sizes DEF LinesInOrder, RowsWired
  <2>3. CASE rowgroup_ctr + 1 >= Scale
    <3>1. rowgroup_ctr' = 0 /\ ~buffer_full' /\ next_row_out' = MaxV
      BY <1>2, <1>8, <1>9, <1>11, <1>12, <2>1, <2>3, Sizes
    <3>2. m + MaxV = LinesPerRow
      BY <1>2, <2>1, <2>3, Sizes
    <3>3. base + LinesPerRow = output_row * LinesPerRow /\ output_row * LinesPerRow \in Int
      BY <1>2, <1>5, Sizes
    <3>4. output_scanline' = output_row * LinesPerRow /\ output_scanline' <= Height
      BY <1>2, <1>3, <1>7, <1>8, <2>1, <3>2, <3>3, Sizes
    <3>5. output_scanline' = Least({output_row' * LinesPerRow, Height})
      BY <1>1, <3>3, <3>4, LeastOfTwo, Sizes
    <3>6. rows_to_go' \in Nat /\ output_scanline' + rows_to_go' = Height
      BY <1>2, <1>3, <1>8
    <3>7. LinesInOrder'
      BY <1>1, <3>1, <3>5, <3>6 DEF LinesInOrder
    <3> QED
      BY <1>2, <1>3, <1>8, <1>13, <3>1, <3>7, Sizes DEF RowsWired
  <2> QED
    BY <1>2, <2>2, <2>3, Sizes
<1>10. CASE NextOut + num < MaxV
  <2>1. rowgroup_ctr' = rowgroup_ctr /\ buffer_full'
    BY <1>2, <1>3, <1>11, <1>12, <1>10, Sizes
  <2>2. NextOut' = NextOut + num
    BY <1>2, <1>3, <1>8, <1>10, Sizes DEF NextOut
  <2> QED
    BY <1>1, <1>2, <1>3, <1>5, <1>6, <1>7, <1>8, <1>10, <2>1, <2>2, Sizes DEF LinesInOrder, RowsWired
<1> QED
  BY <1>2, <1>3, <1>9, <1>10, <1>13, Sizes

LEMMA LinesKeep ==
  ASSUME IndInv, process_data
  PROVE  IndInv'
<1> USE DEF IndInv, apiVars, markerVars, coefVars, modeVars, Whole
<1>1. /\ output_scanline' \in Nat
      /\ rows_to_go' \in 0 .. Height /\ next_row_out' \in 0 .. MaxV
      /\ rowgroup_ctr' \in 0 .. Scale - 1 /\ buffer_full' \in BOOLEAN
      /\ LinesInOrder' /\ RowsWired'
  BY LinesEmitted
<1>2. /\ call = "lines" /\ call' = "idle" /\ global_state = "scanning"
      /\ UNCHANGED <<global_state, result, want, failed, output_row, markerVars, coefVars, modeVars, output_scan>>
  BY DEF process_data, CallsWired, EmitRows, Emitted, Returns
<1>3. TypeOK'
  <2>1. global_state' \in States /\ call' \in Calls /\ output_scan' \in 0 .. MaxScans + 1
        /\ output_row' \in 0 .. Rows
    BY <1>2 DEF TypeOK, Calls
  <2>2. UNCHANGED <<result, want, failed, markerVars, coefVars, modeVars>>
    BY <1>2
  <2> QED
    BY <1>1, <2>1, <2>2, PassTypes
<1>4. CallsWired' /\ HeaderWired'
  BY <1>2 DEF CallsWired, HeaderWired, Started
<1>5. LockStep' /\ InputWired' /\ FinishCanRead'
  BY <1>2 DEF LockStep, InputWired, FinishCanRead, LastRow, Started
<1> QED
  BY <1>1, <1>3, <1>4, <1>5

(* The returns. *)

LEMMA ReturnsKeep ==
  ASSUME IndInv, HeaderDone \/ StartDone \/ FinishOutputDone \/ FinishDone \/ Suspended
  PROVE  IndInv'
<1> USE DEF IndInv, vars, apiVars, markerVars, coefVars, passVars, modeVars,
        Returns, NoWork, Error, Whole, Started
<1>1. CASE HeaderDone
  <2>1. ASSUME global_state' = "start", Released PROVE IndInv'
    BY <2>1, ReleasedKeeps
  <2>2. ASSUME global_state = "inheader", result = "EOI", Error, NoWork PROVE IndInv'
    <3>1. TypeOK'
      BY <2>2 DEF TypeOK, Calls
    <3>2. CallsWired' /\ HeaderWired'
      BY <2>2 DEF CallsWired, HeaderWired
    <3>3. LockStep' /\ InputWired'
      BY <2>2 DEF LockStep, InputWired
    <3>4. RowsWired' /\ LinesInOrder' /\ FinishCanRead'
      BY <2>2 DEF RowsWired, LinesInOrder, FinishCanRead
    <3> QED
      BY <3>1, <3>2, <3>3, <3>4
  <2>3. ASSUME global_state' = (IF global_state = "inheader" /\ result = "SOS" THEN "ready" ELSE global_state),
               call' = "idle", UNCHANGED <<result, want, failed>>, NoWork
        PROVE  IndInv'
    <3>1. global_state = "inheader" /\ result = "SOS" => inheaders = 0 /\ consuming = "markers"
      BY <1>1 DEF HeaderDone, HeaderWired
    <3>2. TypeOK'
      BY <2>3 DEF TypeOK, States, Calls
    <3>3. CallsWired' /\ HeaderWired'
      BY <1>1, <2>3, <3>1 DEF CallsWired, HeaderWired, HeaderDone, TypeOK
    <3>4. LockStep' /\ InputWired'
      BY <2>3 DEF LockStep, InputWired
    <3>5. RowsWired' /\ LinesInOrder' /\ FinishCanRead'
      BY <2>3 DEF RowsWired, LinesInOrder, FinishCanRead, NextOut
    <3> QED
      BY <3>2, <3>3, <3>4, <3>5
  <2> QED
    BY <1>1, <2>1, <2>2, <2>3 DEF HeaderDone
<1>2. CASE StartDone
  <2>1. /\ LinesInOrder' /\ RowsWired' /\ output_row' = 0
        /\ output_row' \in 0 .. Rows /\ output_scanline' \in Nat /\ buffer_full' \in BOOLEAN
        /\ rowgroup_ctr' \in 0 .. Scale - 1 /\ next_row_out' \in 0 .. MaxV
        /\ rows_to_go' \in 0 .. Height /\ global_state' \in {"scanning", "raw_ok"}
    BY <1>2, SetupKeeps DEF StartDone, TypeOK
  <2>2. output_scan' \in 0 .. MaxScans + 1 /\ output_scan' = input_scan
    BY <1>2, DecoderAssumption DEF StartDone, TypeOK
  <2>3. global_state = "preload" /\ call' = "idle"
    BY <1>2 DEF StartDone, CallsWired
  <2>4. TypeOK'
    <3>1. UNCHANGED <<result, want, failed, markerVars, coefVars, modeVars>>
      BY <1>2 DEF StartDone
    <3>2. global_state' \in States /\ call' \in Calls
      BY <2>1, <2>3 DEF States, Calls
    <3> QED
      BY <2>1, <2>2, <3>1, <3>2, PassTypes, Zenon
  <2>5. CallsWired' /\ HeaderWired'
    BY <1>2, <2>1, <2>3 DEF StartDone, CallsWired, HeaderWired, TypeOK
  <2>6. LockStep'
    BY <1>2, <2>1, <2>2, <2>3 DEF StartDone, LockStep
  <2>7. InputWired'
    BY <1>2, <2>1, <2>2, <2>3 DEF StartDone, InputWired, TypeOK
  <2>8. FinishCanRead'
    BY <2>1 DEF FinishCanRead
  <2> QED
    BY <2>1, <2>4, <2>5, <2>6, <2>7, <2>8
<1>3. CASE FinishOutputDone
  BY <1>3 DEF FinishOutputDone, TypeOK, States, Calls, CallsWired, HeaderWired, LockStep,
         InputWired, RowsWired, LinesInOrder, FinishCanRead
<1>4. CASE FinishDone
  BY <1>4, ReleasedKeeps DEF FinishDone
<1>5. CASE Suspended
  BY <1>5 DEF Suspended, TypeOK, Calls, CallsWired, HeaderWired, LockStep,
         InputWired, RowsWired, LinesInOrder, FinishCanRead, NextOut
<1> QED
  BY <1>1, <1>2, <1>3, <1>4, <1>5

(* The theorems. *)

LEMMA InvInit == Init => IndInv
<1> SUFFICES ASSUME Init PROVE IndInv
  OBVIOUS
<1>1. TypeOK
  <2>1. done \in [0 .. LastRow -> 0 .. MaxScans] /\ 0 \in 0 .. MaxScans /\ 0 \in 0 .. MaxLines
    BY DecoderAssumption DEF Init
  <2>2. /\ 0 \in 0 .. Rows /\ 0 \in 0 .. Scale - 1 /\ 0 \in 0 .. MaxV /\ 0 \in 0 .. Height
        /\ 0 \in 0 .. MaxScans + 1
    BY Sizes, DecoderAssumption
  <2>3. /\ failed \in BOOLEAN /\ eoi_reached \in BOOLEAN /\ multiple_scans \in BOOLEAN
        /\ progressive \in BOOLEAN /\ buffered \in BOOLEAN /\ raw \in BOOLEAN /\ buffer_full \in BOOLEAN
    BY DEF Init
  <2> QED
    BY <2>1, <2>2, <2>3 DEF Init, TypeOK, States, Calls
<1>2. LinesInOrder /\ FinishCanRead /\ RowsWired
  BY DEF Init, LinesInOrder, FinishCanRead, RowsWired
<1> QED
  BY <1>1, <1>2 DEF Init, IndInv, CallsWired, HeaderWired, LockStep, InputWired, Started

LEMMA InvStep == IndInv /\ [Next]_vars => IndInv'
<1> SUFFICES ASSUME IndInv, [Next]_vars PROVE IndInv'
  OBVIOUS
<1>1. CASE Library
  BY <1>1, ReadInputKeeps, OnepassKeeps, RowKeeps, LinesKeep, ReturnsKeep DEF Library
<1>2. CASE Caller
  BY <1>2, CallerKeeps
<1>3. CASE UNCHANGED vars
  BY <1>3 DEF vars, apiVars, markerVars, coefVars, passVars, modeVars, IndInv, TypeOK, CallsWired,
         HeaderWired, LockStep, InputWired, RowsWired, LinesInOrder, FinishCanRead, Started, Whole, NextOut
<1> QED
  BY <1>1, <1>2, <1>3 DEF Next

\* The strengthened invariant: which calls go on in which state, and how far
\* input and output are from each other.
THEOREM Inductive == SafetySpec => []IndInv
BY InvInit, InvStep, PTL DEF SafetySpec

\* The variables keep their types: no counter leaves its range, whatever the
\* size of the image, the sampling factors and the calls.
THEOREM TypeCorrect == SafetySpec => []TypeOK
<1>1. IndInv => TypeOK
  BY DEF IndInv
<1> QED
  BY <1>1, Inductive, PTL

\* The number of lines given agrees with the five counters of the row path.
THEOREM LinesComeInOrder == SafetySpec => []LinesInOrder
<1>1. IndInv => LinesInOrder
  BY DEF IndInv
<1> QED
  BY <1>1, Inductive, PTL

\* jpeg_finish_decompress has nothing to wait for that only output would read.
THEOREM FinishReads == SafetySpec => []FinishCanRead
<1>1. IndInv => FinishCanRead
  BY DEF IndInv
<1> QED
  BY <1>1, Inductive, PTL

\* A call for lines that returns without an error, and did not run out of
\* input, has given some: it returns only from process_data.
THEOREM LinesAreGivenToTheCaller == SafetySpec => LinesAreGiven
<1>1. ASSUME IndInv, [Next]_vars, call = "lines", call' = "idle", ~failed', result # "SUSPENDED"
      PROVE  output_scanline' > output_scanline
  <2>1. CASE process_data
    BY <1>1, <2>1, LinesEmitted
  <2>2. CASE ReadInput
    BY <1>1, <2>2 DEF ReadInput, consume_input, consume_markers, consume_data, dummy_consume_data,
           SOS, FirstSOS, LaterSOS, UnexpectedSOS, PseudoSOS, EOI, Suspend, ConsumedMCU, Got, Error, apiVars
  <2>3. CASE decompress_onepass \/ decompress_data
    BY <1>1, <2>3 DEF decompress_onepass, decompress_data, RowReady, Suspend, Got, apiVars
  <2>4. CASE HeaderDone \/ StartDone \/ FinishOutputDone \/ FinishDone \/ Suspended
    BY <1>1, <2>4 DEF HeaderDone, StartDone, FinishOutputDone, FinishDone, Suspended
  <2>5. CASE Caller
    BY <1>1, <2>5 DEF Caller, Idle, jpeg_create_decompress, HeaderCall, StartCall, StartAgain, RawDataCall,
           FinishOutputCall, FinishCall, StartOutput, ScanlinesCall, WrongCall, jpeg_abort, jpeg_destroy
  <2>6. CASE UNCHANGED vars
    BY <1>1, <2>6 DEF vars, apiVars
  <2> QED
    BY <1>1, <2>1, <2>2, <2>3, <2>4, <2>5, <2>6 DEF Next, Library
<1> QED
  BY <1>1, Inductive, PTL DEF LinesAreGiven, SafetySpec

\* No row is put out before it was read for the scan that is shown: in one
\* pass because both are at the same row, and from the arrays because what is
\* compared, the number of the scan and the row, tells what has been read.
THEOREM OutputStaysBehind == SafetySpec => OutputBehindInput
<1>1. ASSUME IndInv, [Next]_vars, output_row' = output_row + 1
      PROVE  done'[output_row] >= output_scan'
  <2> USE DEF IndInv
  <2>1. output_row \in Nat /\ output_row' # output_row /\ output_row' # 0
    BY <1>1, Sizes DEF TypeOK
  <2>2. CASE decompress_onepass
    <3>1. /\ ~Whole /\ consuming = "data" /\ RowCompleted /\ NextMCU
          /\ global_state \in {"scanning", "raw_ok"}
      BY <1>1, <2>1, <2>2 DEF decompress_onepass, passVars, NeedsRow, CallsWired
    <3>2. output_row = input_row /\ output_scan <= input_scan /\ input_row \in 0 .. LastRow
      BY <1>1, <2>1, <3>1, Sizes DEF LockStep, InputWired, TypeOK, LastRow
    <3>3. done'[output_row] = input_scan /\ UNCHANGED output_scan
      BY <1>1, <3>1, <3>2 DEF NextMCU, TypeOK
    <3> QED
      BY <1>1, <3>2, <3>3 DEF TypeOK
  <2>3. CASE decompress_data
    <3>1. output_row \in 0 .. LastRow /\ ~failed /\ Started
      BY <1>1, <2>1, <2>3, RowsLeft, Sizes DEF decompress_data, LastRow, NeedsRow, CallsWired, Started
    <3>2. done[output_row] >= IF consuming = "markers" \/ output_row < input_row THEN input_scan ELSE input_scan - 1
      BY <1>1, <3>1 DEF InputWired
    <3>3. input_scan > output_scan \/ (input_scan = output_scan /\ input_row > output_row)
      <4>1. input_scan \in Int /\ output_scan \in Int /\ input_row \in Int
        BY <1>1, Sizes, DecoderAssumption DEF TypeOK
      <4>2. ~(input_scan < output_scan) /\ ~(input_scan = output_scan /\ input_row <= output_row)
        BY <2>3, Zenon DEF decompress_data, OutputAhead
      <4> QED
        BY <2>1, <4>1, <4>2
    <3>4. UNCHANGED <<done, output_scan>>
      BY <2>3 DEF decompress_data, coefVars
    <3>5. done[output_row] \in Nat /\ input_scan \in Nat /\ output_scan \in Nat
      BY <1>1, <3>1, DecoderAssumption DEF TypeOK
    <3> QED
      BY <3>2, <3>3, <3>4, <3>5
  <2>4. CASE ReadInput \/ process_data
    BY <2>1, <2>4 DEF ReadInput, process_data, EmitRows, Emitted, passVars
  <2>5. CASE HeaderDone \/ StartDone \/ FinishOutputDone \/ FinishDone \/ Suspended
    BY <2>1, <2>5 DEF HeaderDone, StartDone, FinishOutputDone, FinishDone, Suspended, Released,
           output_pass_setup, NoWork, passVars
  <2>6. CASE Caller
    BY <2>1, <2>6 DEF Caller, jpeg_create_decompress, HeaderCall, StartCall, StartAgain, RawDataCall,
           FinishOutputCall, FinishCall, StartOutput, ScanlinesCall, WrongCall, jpeg_abort, jpeg_destroy,
           Released, output_pass_setup, NoWork, passVars
  <2>7. CASE UNCHANGED vars
    BY <2>1, <2>7 DEF vars, passVars
  <2> QED
    BY <1>1, <2>2, <2>3, <2>4, <2>5, <2>6, <2>7 DEF Next, Library
<1> QED
  BY <1>1, Inductive, PTL DEF OutputBehindInput, SafetySpec
=============================================================================

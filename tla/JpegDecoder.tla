----------------------------- MODULE JpegDecoder -----------------------------
(***************************************************************************)
(* The decompressor of libjpeg as the native renderer uses it: the calls   *)
(* of its interface (jdapimin.c, jdapistd.c), the input controller         *)
(* (jdinput.c), the coefficient controller (jdcoefct.c) and the path of    *)
(* the rows from there to the caller (jdmainct.c, jdsample.c).             *)
(*                                                                         *)
(* A call may need input, and input may run out in the middle of a row:    *)
(* the call then returns and takes up its work when it is repeated.  So a  *)
(* call is a sequence of steps, each the work on one marker or MCU, and    *)
(* "call" says which one is going on.  What the markers and MCUs contain   *)
(* is kept as far as it decides where the image's blocks go: an MCU is     *)
(* there or not yet there, and a broken one is there (the entropy decoder  *)
(* fills in zeros, see JpegRestart).                                       *)
(*                                                                         *)
(* Not in this module: colour quantization with its dummy passes, which no *)
(* caller here asks for (so DSTATE_PRESCAN never outlives a call), context *)
(* rows, which no upsampler of this version needs, and block smoothing.    *)
(***************************************************************************)
EXTENDS JpegGeometry

CONSTANTS MaxScans,    \* bound: scans of a file
          MaxLines     \* bound: lines asked for at once

ASSUME DecoderAssumption == MaxScans \in Nat \ {0} /\ MaxLines \in Nat \ {0}

Rows == InMCUs(ImageHeight, VSamp)         \* total_iMCU_rows
MaxV == MaxFactor(VSamp)
Height == Output(ImageHeight)              \* output_height
LinesPerRow == MaxV * Scale                \* lines of an iMCU row

States == {"none", "start", "inheader", "ready", "preload", "scanning", "raw_ok",
           "bufimage", "bufpost", "stopping"}
Calls == {"idle", "header", "consume", "start", "lines", "raw", "finish_output", "finish"}

VARIABLES
  global_state,   \* "none" before creation and after destruction
  call,           \* the call that is going on, or "idle"
  result,         \* what its last consume_input returned; "busy" before
  want,           \* max_lines of the call
  failed,         \* error_exit was called; the caller has yet to clean up
  \* input controller and marker reader
  inheaders, eoi_reached, multiple_scans, consuming, scan, input_scan, progressive,
  \* coefficient controller, input side
  input_row, vert_offset, MCU_ctr,
  stored,         \* the blocks of the current scan that were stored
  done,           \* history: for each iMCU row the last scan stored for it
  \* output side
  buffered, raw, output_scan, output_row, output_scanline,
  buffer_full, rowgroup_ctr, next_row_out, rows_to_go

apiVars == <<global_state, call, result, want, failed>>
markerVars == <<inheaders, eoi_reached, multiple_scans, consuming, scan, input_scan, progressive>>
coefVars == <<input_row, vert_offset, MCU_ctr, stored, done>>
passVars == <<output_row, output_scanline, buffer_full, rowgroup_ctr, next_row_out, rows_to_go>>
modeVars == <<buffered, raw>>
vars == <<apiVars, markerVars, coefVars, passVars, modeVars, output_scan>>

-----------------------------------------------------------------------------
(* A scan: where its MCUs are, and the blocks each of them has. *)

Single == Cardinality(scan) = 1    \* comps_in_scan = 1: noninterleaved
TheComponent == CHOOSE c \in scan : TRUE
LastRow == Rows - 1

MCUs_per_row ==
  IF Single THEN InBlocks(ImageWidth, HSamp, TheComponent) ELSE InMCUs(ImageWidth, HSamp)

MCU_rows_per_iMCU_row ==
  IF ~Single THEN 1
  ELSE IF input_row < LastRow THEN VSamp[TheComponent]
  ELSE LastBlocks(ImageHeight, VSamp, TheComponent)

MCU_width(c) == IF Single THEN 1 ELSE HSamp[c]
MCU_height(c) == IF Single THEN 1 ELSE VSamp[c]

\* The blocks of the current MCU, the padding of the last column and row included.
MCU_blocks ==
  UNION {{<<c, MCU_ctr * MCU_width(c) + x, input_row * VSamp[c] + vert_offset + y>> :
            x \in 0 .. MCU_width(c) - 1, y \in 0 .. MCU_height(c) - 1} : c \in scan}

\* What decompress_onepass transforms of it.
UsefulByWidth(b) == b[2] < InBlocks(ImageWidth, HSamp, b[1])    \* mutant: no test of the rows
Useful(b) ==
  LET c == b[1]
      last == IF Single THEN 1 ELSE LastBlocks(ImageWidth, HSamp, c)
  IN /\ MCU_ctr < MCUs_per_row - 1 \/ b[2] - MCU_ctr * MCU_width(c) < last
     /\ input_row < LastRow \/ b[3] - input_row * VSamp[c] < LastBlocks(ImageHeight, VSamp, c)

\* The blocks that show a part of the image, and those of the virtual arrays.
RealBlocks(c) ==
  {c} \X (0 .. InBlocks(ImageWidth, HSamp, c) - 1) \X (0 .. InBlocks(ImageHeight, VSamp, c) - 1)
PaddedBlocks(c) ==
  {c} \X (0 .. jround_up(InBlocks(ImageWidth, HSamp, c), HSamp[c]) - 1)
      \X (0 .. jround_up(InBlocks(ImageHeight, VSamp, c), VSamp[c]) - 1)

-----------------------------------------------------------------------------
TypeOK ==
  /\ global_state \in States /\ call \in Calls /\ want \in 0 .. MaxLines
  /\ result \in {"busy", "SUSPENDED", "SOS", "EOI", "ROW", "SCAN"}
  /\ failed \in BOOLEAN /\ inheaders \in 0 .. 2
  /\ eoi_reached \in BOOLEAN /\ multiple_scans \in BOOLEAN /\ progressive \in BOOLEAN
  /\ consuming \in {"markers", "data"} /\ scan \subseteq Components
  /\ input_scan \in 0 .. MaxScans
  /\ input_row \in 0 .. Rows /\ vert_offset \in Nat /\ MCU_ctr \in Nat
  /\ stored \subseteq Components \X Nat \X Nat
  /\ done \in [0 .. LastRow -> 0 .. MaxScans]
  /\ buffered \in BOOLEAN /\ raw \in BOOLEAN /\ buffer_full \in BOOLEAN
  /\ output_scan \in 0 .. MaxScans + 1
  /\ output_row \in 0 .. Rows /\ output_scanline \in Nat
  /\ rowgroup_ctr \in 0 .. Scale - 1 /\ next_row_out \in 0 .. MaxV
  /\ rows_to_go \in 0 .. Height

\* jpeg_CreateDecompress zeroes the object.
Init ==
  /\ global_state = "none" /\ call = "idle" /\ result = "busy" /\ want = 0 /\ failed = FALSE
  /\ inheaders = 1 /\ eoi_reached = FALSE /\ multiple_scans = FALSE
  /\ consuming = "markers" /\ scan = {} /\ input_scan = 0 /\ progressive = FALSE
  /\ input_row = 0 /\ vert_offset = 0 /\ MCU_ctr = 0 /\ stored = {}
  /\ done = [r \in 0 .. LastRow |-> 0]
  /\ buffered = FALSE /\ raw = FALSE /\ output_scan = 0
  /\ output_row = 0 /\ output_scanline = 0 /\ buffer_full = FALSE
  /\ rowgroup_ctr = 0 /\ next_row_out = 0 /\ rows_to_go = 0

Idle == call = "idle" /\ ~failed
Returns == call' = "idle"

\* ERREXIT: the library requires that error_exit does not return, so the call
\* is over.  (The renderer's returns, and the code after ERREXIT runs on: no
\* state of the library then means what it should, and none is modelled.)
Error == failed' = TRUE /\ call' = "idle" /\ UNCHANGED <<global_state, result, want>>

\* The call goes on with, or returns, what consume_input returned.
Got(r) == result' = r /\ UNCHANGED <<global_state, call, want, failed>>

-----------------------------------------------------------------------------
(* Input: consume_input is consume_markers or the coefficient controller's  *)
(* consume_data.                                                            *)

\* The whole image is buffered: input and output may be at different rows.
\* Otherwise input is read, a row at a time, when it is put out, and
\* consume_data is a dummy that always returns JPEG_SUSPENDED.
Whole == multiple_scans \/ buffered

\* start_input_pass and per_scan_setup.
start_input_pass ==
  /\ input_row' = 0 /\ vert_offset' = 0 /\ MCU_ctr' = 0 /\ stored' = {}
  /\ consuming' = "data" /\ UNCHANGED done

\* get_sos and the case JPEG_REACHED_SOS of consume_markers.
FirstSOS(cs) ==
  /\ inheaders > 0 /\ inheaders' = 0
  /\ multiple_scans' = IF inheaders = 1 THEN cs # Components \/ progressive ELSE multiple_scans
  /\ Got("SOS")
  /\ UNCHANGED <<eoi_reached, consuming, progressive, coefVars>>
LaterSOS ==
  /\ inheaders = 0 /\ multiple_scans /\ start_input_pass
  /\ Got("SOS")
  /\ UNCHANGED <<inheaders, eoi_reached, multiple_scans, progressive>>
UnexpectedSOS ==
  /\ inheaders = 0 /\ ~multiple_scans /\ Error
  /\ UNCHANGED <<inheaders, eoi_reached, multiple_scans, consuming, progressive, coefVars>>
SOS(cs) ==
  /\ input_scan < MaxScans /\ input_scan' = input_scan + 1 /\ scan' = cs
  /\ FirstSOS(cs) \/ LaterSOS \/ UnexpectedSOS
  /\ UNCHANGED output_scan

\* An SOS without components: not counted, and not returned to the caller.
PseudoSOS ==
  /\ progressive /\ (scan # {} \/ inheaders = 1) /\ scan' = {}
  /\ inheaders' = IF inheaders > 0 THEN 2 ELSE 0
  /\ multiple_scans' = (multiple_scans \/ inheaders = 1)
  /\ UNCHANGED <<apiVars, eoi_reached, consuming, input_scan, progressive, coefVars, output_scan>>

\* The file may have begun without a frame header (sawSOF): tables only.
EOIUnclamped(sawSOF) ==    \* mutant: output_scan_number is left alone
  /\ eoi_reached' = TRUE
  /\ IF inheaders > 0 /\ sawSOF THEN Error ELSE Got("EOI")
  /\ UNCHANGED <<inheaders, multiple_scans, consuming, scan, input_scan, progressive, coefVars, output_scan>>
EOI(sawSOF) ==
  /\ eoi_reached' = TRUE
  /\ IF inheaders > 0 /\ sawSOF THEN Error ELSE Got("EOI")
  /\ output_scan' = IF inheaders = 0 /\ output_scan > input_scan THEN input_scan ELSE output_scan
  /\ UNCHANGED <<inheaders, multiple_scans, consuming, scan, input_scan, progressive, coefVars>>

Suspend == Got("SUSPENDED") /\ UNCHANGED <<markerVars, coefVars, output_scan>>

\* Of the errors in a header, only those about the order of markers are here:
\* an unexpected SOS and an EOI without SOS.  Other ones, of a marker, of the
\* sizes (initial_setup) or of a missing table (start_input_pass), would only
\* make the object fail as well.
consume_markers ==
  /\ consuming = "markers"
  /\ IF eoi_reached THEN Got("EOI") /\ UNCHANGED <<markerVars, coefVars, output_scan>>
     ELSE \/ \E cs \in SUBSET Components \ {{}} : SOS(cs)
          \/ PseudoSOS \/ Suspend
          \/ \E sawSOF \in BOOLEAN : EOI(sawSOF)

\* The MCU at hand is done: the next one, the next MCU row, the next iMCU row
\* (start_iMCU_row), or the end of the scan (finish_input_pass).
RowCompleted == MCU_ctr = MCUs_per_row - 1 /\ vert_offset = MCU_rows_per_iMCU_row - 1
ScanCompleted == RowCompleted /\ input_row = LastRow
NextMCU ==
  /\ MCU_ctr' = IF MCU_ctr < MCUs_per_row - 1 THEN MCU_ctr + 1 ELSE 0
  /\ vert_offset' = IF MCU_ctr < MCUs_per_row - 1 THEN vert_offset
                    ELSE IF RowCompleted THEN 0 ELSE vert_offset + 1
  /\ input_row' = IF RowCompleted THEN input_row + 1 ELSE input_row
  /\ consuming' = IF ScanCompleted THEN "markers" ELSE "data"
  /\ done' = IF RowCompleted THEN [done EXCEPT ![input_row] = input_scan] ELSE done
  /\ UNCHANGED <<inheaders, eoi_reached, multiple_scans, scan, input_scan, progressive, output_scan>>

ConsumedMCU ==
  IF ScanCompleted THEN Got("SCAN") ELSE IF RowCompleted THEN Got("ROW") ELSE UNCHANGED apiVars

\* decode_mcu suspends or delivers, into the virtual arrays.
consume_data ==
  /\ consuming = "data" /\ Whole
  /\ \/ Suspend
     \/ NextMCU /\ stored' = stored \cup MCU_blocks /\ ConsumedMCU

dummy_consume_data == consuming = "data" /\ ~Whole /\ Suspend

consume_input == consume_markers \/ consume_data \/ dummy_consume_data

-----------------------------------------------------------------------------
(* Output: from the coefficients to the caller's lines. *)

\* prepare_for_output_pass and output_pass_setup.
output_pass_setup(r) ==
  /\ output_row' = 0 /\ output_scanline' = 0
  /\ buffer_full' = FALSE /\ rowgroup_ctr' = 0
  /\ next_row_out' = MaxV /\ rows_to_go' = Height
  /\ global_state' = IF r THEN "raw_ok" ELSE "scanning"

\* decompress_data reads on while the input is behind the row to be put out.
OutputAheadByScan == input_scan < output_scan    \* mutant: the row is not compared
OutputAhead ==
  \/ input_scan < output_scan
  \/ input_scan = output_scan /\ input_row <= output_row

\* An iMCU row is there: main's buffer has it, or the caller's (raw data).
RowReady ==
  /\ output_row' = output_row + 1
  /\ IF call = "lines" THEN buffer_full' = TRUE /\ UNCHANGED <<call, output_scanline>>
     ELSE output_scanline' = output_scanline + LinesPerRow /\ Returns /\ UNCHANGED buffer_full
  /\ UNCHANGED <<global_state, result, want, failed, rowgroup_ctr, next_row_out, rows_to_go>>

NeedsRow == call \in {"lines", "raw"} /\ ~buffer_full /\ result # "SUSPENDED"

\* decompress_onepass: input and output in lockstep.
decompress_onepass ==
  /\ NeedsRow /\ ~Whole /\ consuming = "data"
  /\ \/ Suspend /\ UNCHANGED passVars
     \/ /\ NextMCU /\ stored' = stored \cup {b \in MCU_blocks : Useful(b)}
        /\ IF RowCompleted THEN RowReady ELSE UNCHANGED <<apiVars, passVars>>
  /\ UNCHANGED modeVars

\* decompress_data, when the input is ahead.
decompress_data ==
  /\ NeedsRow /\ Whole /\ ~OutputAhead /\ RowReady
  /\ UNCHANGED <<markerVars, coefVars, modeVars, output_scan>>

Least(S) == CHOOSE x \in S : \A y \in S : x <= y

\* process_data_simple_main and sep_upsample: the lines of one row group.
Emitted(next, num) ==
  LET group == IF next + num >= MaxV THEN rowgroup_ctr + 1 ELSE rowgroup_ctr
  IN /\ next_row_out' = next + num
     /\ rows_to_go' = rows_to_go - num
     /\ output_scanline' = output_scanline + num
     /\ IF group >= Scale THEN rowgroup_ctr' = 0 /\ buffer_full' = FALSE
        ELSE rowgroup_ctr' = group /\ buffer_full' = TRUE
     /\ UNCHANGED output_row
NextOut == IF next_row_out >= MaxV THEN 0 ELSE next_row_out

\* Mutants: the end of the image is not tested; next_row_out is not reset.
EmitPastEnd(n) == Emitted(NextOut, Least({MaxV - NextOut, n}))
EmitNoReset(n) == Emitted(next_row_out, Least({MaxV - next_row_out, rows_to_go, n}))
EmitRows(n) == Emitted(NextOut, Least({MaxV - NextOut, rows_to_go, n}))

\* The buffered row group goes to the caller, who gets what it asked for or less.
process_data ==
  /\ call = "lines" /\ buffer_full /\ EmitRows(want) /\ Returns
  /\ UNCHANGED <<global_state, result, want, failed, markerVars, coefVars, modeVars, output_scan>>

-----------------------------------------------------------------------------
(* The calls.  A call begins with ...Call and ends in one of the steps that *)
(* return; in between ReadInput and the output side do its work.            *)

\* jpeg_abort_decompress frees the image's memory.  The fields that stay are
\* set before they are used again, by StartFile or output_pass_setup; here
\* they are zeroed at once.
Released ==
  /\ call' = "idle" /\ result' = "busy" /\ want' = 0 /\ failed' = FALSE
  /\ inheaders' = 1 /\ eoi_reached' = FALSE /\ multiple_scans' = FALSE
  /\ consuming' = "markers" /\ scan' = {} /\ input_scan' = 0 /\ progressive' = FALSE
  /\ input_row' = 0 /\ vert_offset' = 0 /\ MCU_ctr' = 0 /\ stored' = {}
  /\ done' = [r \in 0 .. LastRow |-> 0]
  /\ buffered' = FALSE /\ raw' = FALSE /\ output_scan' = 0
  /\ output_row' = 0 /\ output_scanline' = 0 /\ buffer_full' = FALSE
  /\ rowgroup_ctr' = 0 /\ next_row_out' = 0 /\ rows_to_go' = 0

Begins(c) == call' = c /\ result' = "busy" /\ UNCHANGED failed
NoWork == UNCHANGED <<markerVars, coefVars, passVars, modeVars, output_scan>>

jpeg_create_decompress ==
  /\ Idle /\ global_state = "none" /\ global_state' = "start"
  /\ UNCHANGED <<call, result, want, failed>> /\ NoWork

\* jpeg_consume_input with reset_input_controller and reset_marker_reader; the
\* file it begins is progressive or not.
StartFile ==
  /\ global_state' = "inheader" /\ inheaders' = 1 /\ eoi_reached' = FALSE
  /\ multiple_scans' = FALSE /\ consuming' = "markers" /\ input_scan' = 0
  /\ progressive' \in BOOLEAN /\ done' = [r \in 0 .. LastRow |-> 0]
  /\ UNCHANGED <<scan, input_row, vert_offset, MCU_ctr, stored>>

HeaderCall(c) ==
  /\ Idle /\ Begins(c) /\ UNCHANGED <<want, passVars, modeVars, output_scan>>
  /\ \/ global_state = "start" /\ StartFile
     \/ /\ \/ global_state = "inheader"
           \/ c = "consume" /\ global_state \notin {"none", "start", "ready"}
        /\ UNCHANGED <<global_state, markerVars, coefVars>>

\* jpeg_read_header and jpeg_consume_input return.  Without an image the
\* former starts over, or fails if an image is required.
HeaderDone ==
  /\ call \in {"header", "consume"} /\ result \notin {"busy", "SUSPENDED"}
  /\ IF global_state = "inheader" /\ result = "EOI" /\ call = "header"
       THEN \/ Error /\ NoWork
            \/ global_state' = "start" /\ Released
     ELSE /\ global_state' = IF global_state = "inheader" /\ result = "SOS" THEN "ready" ELSE global_state
          /\ Returns /\ UNCHANGED <<result, want, failed>> /\ NoWork

\* jpeg_start_decompress: for a buffered image it only sets up.
StartCall(b, r) ==
  /\ Idle /\ global_state = "ready" /\ start_input_pass
  /\ buffered' = b /\ raw' = r
  /\ IF b THEN global_state' = "bufimage" /\ UNCHANGED <<call, result, failed>>
     ELSE global_state' = "preload" /\ Begins("start")
  /\ UNCHANGED <<want, inheaders, eoi_reached, multiple_scans, scan, input_scan, progressive, passVars, output_scan>>
StartAgain ==
  /\ Idle /\ global_state = "preload" /\ Begins("start")
  /\ UNCHANGED <<global_state, want>> /\ NoWork
StartDone ==
  /\ call = "start" /\ (multiple_scans => result = "EOI")
  /\ output_scan' = input_scan /\ output_pass_setup(raw) /\ Returns
  /\ UNCHANGED <<result, want, failed, markerVars, coefVars, modeVars>>

\* jpeg_start_output; the pass may be for a scan that is yet to come.
StartOutput(n) ==
  /\ Idle /\ global_state = "bufimage"
  /\ LET m == IF n = 0 THEN 1 ELSE n
     IN output_scan' = IF eoi_reached /\ m > input_scan THEN input_scan ELSE m
  /\ output_pass_setup(raw)
  /\ UNCHANGED <<call, result, want, failed, markerVars, coefVars, modeVars>>

\* jpeg_read_scanlines and jpeg_read_raw_data.
ScanlinesCall(n) ==
  /\ Idle /\ global_state = "scanning" /\ output_scanline < Height
  /\ Begins("lines") /\ want' = n /\ UNCHANGED global_state /\ NoWork
RawDataCall ==
  /\ Idle /\ global_state = "raw_ok" /\ output_scanline < Height
  /\ Begins("raw") /\ UNCHANGED <<global_state, want>> /\ NoWork

\* jpeg_finish_output, which need not wait for the end of the pass.
FinishOutputCall ==
  /\ Idle /\ buffered /\ global_state \in {"scanning", "raw_ok", "bufpost"}
  /\ global_state' = "bufpost" /\ Begins("finish_output") /\ UNCHANGED want /\ NoWork
ScanPending == input_scan <= output_scan /\ ~eoi_reached
FinishOutputDone ==
  /\ call = "finish_output" /\ result # "SUSPENDED" /\ ~ScanPending
  /\ global_state' = "bufimage" /\ Returns /\ UNCHANGED <<result, want, failed>> /\ NoWork

\* jpeg_finish_decompress.
FinishAnywhere ==    \* mutant: output_scanline is not compared with the height
  /\ Idle
  /\ \/ global_state \in {"scanning", "raw_ok"} /\ ~buffered
     \/ global_state \in {"bufimage", "stopping"}
  /\ global_state' = "stopping" /\ Begins("finish") /\ UNCHANGED want /\ NoWork
FinishCall ==
  /\ Idle
  /\ \/ global_state \in {"scanning", "raw_ok"} /\ ~buffered /\ output_scanline >= Height
     \/ global_state \in {"bufimage", "stopping"}
  /\ global_state' = "stopping" /\ Begins("finish") /\ UNCHANGED want /\ NoWork
FinishDone ==
  /\ call = "finish" /\ eoi_reached
  /\ global_state' = "start" /\ Released

\* One consume_input for the call that needs it.
InputWanted ==
  \/ call \in {"header", "consume"} /\ result = "busy"
  \/ call = "start" /\ multiple_scans /\ result \notin {"EOI", "SUSPENDED"}
  \/ NeedsRow /\ Whole /\ OutputAhead
  \/ call = "finish_output" /\ ScanPending /\ result # "SUSPENDED"
  \/ call = "finish" /\ ~eoi_reached /\ result # "SUSPENDED"
ReadInput == InputWanted /\ consume_input /\ UNCHANGED <<passVars, modeVars>>

\* Out of input: the call returns and can be repeated.
Suspended ==
  /\ call # "idle" /\ result = "SUSPENDED" /\ Returns
  /\ UNCHANGED <<global_state, result, want, failed>> /\ NoWork

\* A call in a state in which it may not be made, too early, or with too
\* small a buffer.
Legal == [header |-> {"start", "inheader"}, start |-> {"ready", "preload"},
          lines |-> {"scanning"}, raw |-> {"raw_ok"}, start_output |-> {"bufimage"}]
WrongCall ==
  /\ Idle /\ global_state # "none"
  /\ \/ \E a \in DOMAIN Legal : global_state \notin Legal[a]
     \/ global_state \in {"scanning", "raw_ok"} /\ ~buffered /\ output_scanline < Height
     \/ global_state = "raw_ok" /\ LinesPerRow > 1
  /\ Error /\ NoWork

\* jpeg_abort and jpeg_destroy, which clean up after an error as well.
jpeg_abort ==
  /\ call = "idle" /\ global_state # "none" /\ global_state' = "start" /\ Released
jpeg_destroy ==
  /\ call = "idle" /\ global_state # "none" /\ global_state' = "none" /\ Released

-----------------------------------------------------------------------------
Library ==
  \/ ReadInput \/ decompress_onepass \/ decompress_data \/ process_data \/ Suspended
  \/ HeaderDone \/ StartDone \/ FinishOutputDone \/ FinishDone

Caller ==
  \/ jpeg_create_decompress \/ HeaderCall("header") \/ HeaderCall("consume")
  \/ \E b \in BOOLEAN, r \in BOOLEAN : StartCall(b, r)
  \/ StartAgain \/ RawDataCall \/ FinishOutputCall \/ FinishCall
  \/ \E n \in 0 .. MaxScans + 1 : StartOutput(n)
  \/ \E n \in 1 .. MaxLines : ScanlinesCall(n)
  \/ WrongCall \/ jpeg_abort \/ jpeg_destroy

Next == Library \/ Caller

SafetySpec == Init /\ [][Next]_vars

\* A call that has begun goes on.
Spec == SafetySpec /\ WF_vars(Library)

-----------------------------------------------------------------------------
(* Properties. *)

\* The lines a caller gets are those of the image, in order, each once: the
\* count of lines given agrees with the five counters that say which line of
\* which row group of which iMCU row comes next, up to the last row, of which
\* only a part belongs to the image.
LinesInOrder ==
  /\ global_state = "scanning" =>
       /\ output_scanline + rows_to_go = Height /\ rows_to_go >= 0
       /\ buffer_full =>
            output_scanline = (output_row - 1) * LinesPerRow + rowgroup_ctr * MaxV
                                + NextOut
       /\ ~buffer_full =>
            /\ rowgroup_ctr = 0
            /\ output_scanline = Least({output_row * LinesPerRow, Height})
  /\ global_state = "raw_ok" => output_scanline = output_row * LinesPerRow

\* No row is put out before the scan that is being shown has been read for it.
OutputBehindInput ==
  [][output_row' = output_row + 1 => done'[output_row] >= output_scan']_vars

\* When a scan has been read every block of the image is there, and none
\* outside the arrays was written; without the arrays, exactly those blocks.
ScanComplete ==
  /\ \A c \in scan : \A b \in stored : b[1] = c => b \in PaddedBlocks(c)
  /\ consuming = "markers" /\ global_state \notin {"none", "start", "inheader", "ready"} /\ ~failed =>
       \A c \in scan :
         /\ RealBlocks(c) \subseteq stored
         /\ ~Whole => stored \subseteq UNION {RealBlocks(d) : d \in scan}

\* jpeg_finish_decompress can read on to the end of the file: what is left
\* is not the data of a scan that only output would read.
FinishCanRead == global_state = "stopping" /\ ~Whole => consuming = "markers"

\* A call for lines that did not run out of input gives at least one, so that
\* the renderer's loop over the lines ends.
LinesAreGiven ==
  [][call = "lines" /\ call' = "idle" /\ ~failed' /\ result # "SUSPENDED"
       => output_scanline' > output_scanline]_vars

\* Every call returns, even one that wants a scan the file does not have.
CallReturns == call # "idle" ~> call = "idle"

-----------------------------------------------------------------------------
(* What the proofs add. *)

Started == global_state \notin {"none", "start", "inheader", "ready"}

\* In which states the calls go on, and what the last test of each still says.
CallsWired ==
  /\ failed => call = "idle"
  /\ call = "header" => global_state = "inheader"
  /\ call = "consume" => Started \/ global_state = "inheader"
  /\ call = "start" => global_state = "preload"
  /\ call = "lines" => global_state = "scanning" /\ output_scanline < Height /\ want >= 1
  /\ call = "raw" => global_state = "raw_ok" /\ output_scanline < Height
  /\ call = "finish_output" => global_state = "bufpost"
  /\ call = "finish" => global_state = "stopping"

\* The first SOS ends the header, and nothing is read before the next call.
HeaderWired ==
  /\ global_state = "inheader" =>
       /\ inheaders = 0 <=> call \in {"header", "consume"} /\ result = "SOS"
       /\ input_scan = IF inheaders = 0 THEN 1 ELSE 0
  /\ global_state = "ready" => input_scan = 1
  /\ Started \/ global_state = "ready" => inheaders = 0
  /\ ~Started => consuming = "markers"
  /\ global_state \in {"bufimage", "bufpost"} => buffered
  /\ global_state = "preload" => ~buffered

\* Without the arrays, input and output are at the same row.
LockStep ==
  ~Whole =>
    /\ global_state = "preload" => consuming = "data" /\ input_row = 0
    /\ global_state \in {"scanning", "raw_ok"} =>
         /\ output_row = IF consuming = "data" THEN input_row ELSE Rows
         /\ output_scan <= input_scan

\* With them, a row that is behind the input has been read for its scan, and
\* one that is not for the scan before.
InputWired ==
  /\ consuming = "data" => input_row <= LastRow
  /\ Started /\ ~failed =>
       \A r \in 0 .. LastRow :
         done[r] >= IF consuming = "markers" \/ r < input_row THEN input_scan ELSE input_scan - 1

RowsWired == global_state = "scanning" /\ ~buffer_full => next_row_out = MaxV

\* Whether an earlier MCU of the scan holds the block of c, in a row of MCUs above
\* the one at hand or to the left in the same one.
Passed(c, b) ==
  LET top == input_row * VSamp[c] + vert_offset
  IN \/ b[3] < top
     \/ b[3] < top + MCU_height(c) /\ b[2] < MCU_ctr * MCU_width(c)

\* What was passed is stored, all of it that shows a part of the image.
BlocksWired ==
  /\ consuming = "data" => MCU_ctr < MCUs_per_row /\ vert_offset < MCU_rows_per_iMCU_row
  /\ \A b \in stored : b \in PaddedBlocks(b[1])
  /\ Started /\ ~Whole => \A b \in stored : b \in RealBlocks(b[1])
  /\ Started /\ ~Whole /\ ~failed /\ scan # {} => \A b \in stored : b[1] \in scan
  /\ Started /\ ~failed =>
       \A c \in scan : \A b \in RealBlocks(c) : consuming = "markers" \/ Passed(c, b) => b \in stored

IndInv ==
  /\ TypeOK /\ CallsWired /\ HeaderWired /\ LockStep /\ InputWired /\ RowsWired
  /\ LinesInOrder /\ FinishCanRead
=============================================================================

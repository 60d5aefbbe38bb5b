----------------------------- MODULE JpegRestart -----------------------------
(***************************************************************************)
(* How libjpeg decodes a scan of a damaged file: the entropy decoder       *)
(* (jdhuff.c), which must deliver every MCU of the image whatever the data *)
(* are, and the marker reader (jdmarker.c), which tries to find its place  *)
(* again at the restart markers.  An encoder may put one after every       *)
(* "Interval" MCUs; they are numbered modulo 8.                            *)
(*                                                                         *)
(* The compressed data of one MCU is one item of the file.  It decodes to  *)
(* that MCU only if the decoder comes to it at its first bit and with the  *)
(* predictions it was coded with; otherwise the decoder makes something of *)
(* the bits, and consumes as many items as it will.                        *)
(***************************************************************************)
EXTENDS Integers, Sequences

CONSTANTS Intervals,   \* bound: restart intervals of the scan
          Interval,    \* restart_interval
          Files        \* what may come instead of the file that was written

Total == Intervals * Interval      \* MCUs of the scan

MCU(m) == [kind |-> "mcu", n |-> m]
RST(k) == [kind |-> "RST", n |-> k % 8]
End == [kind |-> "end", n |-> 0]            \* EOI or another valid marker
Invalid == [kind |-> "invalid", n |-> 0]    \* a code below M_SOF0
NoMarker == [kind |-> "none", n |-> 0]
Items == [kind : {"mcu", "RST", "end", "invalid"}, n : Nat]

Gray == -1       \* what the zeroed blocks of an MCU show
Garbage == -2

\* The scan as it was written: a restart marker after each interval but the
\* last, which the end of the scan follows.
Period == Interval + 1
Due(i) == i \div Period    \* markers among its first i items
Scan ==
  [i \in 1 .. Intervals * Period |->
     IF i % Period # 0 THEN MCU(i - 1 - Due(i))
     ELSE IF i < Intervals * Period THEN RST(Due(i) - 1) ELSE End]
NextScan == <<MCU(0), RST(0), MCU(Interval), End>>    \* whatever follows
Encoded == Scan \o NextScan

\* A file with its damage: the items up to "keep" are there, then come extra
\* ones, and it goes on with the item "resume", a later or an earlier one.
Damage(keep, extra, resume) ==
  [keep |-> keep, extra |-> extra, resume |-> resume,
   items |-> SubSeq(Encoded, 1, keep) \o extra \o SubSeq(Encoded, resume, Len(Encoded))]
Damages ==
  {f \in [keep : 0 .. Len(Encoded), extra : Seq(Items), resume : 1 .. Len(Encoded) + 1,
          items : Seq(Items)] :
     f = Damage(f.keep, f.extra, f.resume)}

ASSUME RestartAssumption ==
  Intervals \in Nat \ {0} /\ Interval \in Nat \ {0} /\ Files \subseteq Damages

VARIABLES
  file,               \* with its damage
  pos,                \* the next item of it
  unread_marker, next_restart_num, restarts_to_go, insufficient_data,
  resync,             \* in the loop of jpeg_resync_to_restart
  insync,             \* the item at pos decodes to what it should
  mcu,                \* MCUs delivered
  image               \* what each of them shows

vars == <<file, pos, unread_marker, next_restart_num, restarts_to_go, insufficient_data,
          resync, insync, mcu, image>>

items == file.items

TypeOK ==
  /\ file \in Damages /\ pos \in 1 .. Len(items) + 1
  /\ unread_marker \in Items \cup {NoMarker} /\ unread_marker.kind # "mcu"
  /\ next_restart_num \in 0 .. 7 /\ restarts_to_go \in 0 .. Interval
  /\ insufficient_data \in BOOLEAN /\ resync \in BOOLEAN /\ insync \in BOOLEAN
  /\ mcu \in 0 .. Total
  /\ image \in [0 .. Total - 1 -> Nat \cup {Gray, Garbage}]

IsData(p) == p <= Len(items) /\ items[p].kind = "mcu"

\* What a decoder that has just restarted at p can decode.
InOrder(p) == IsData(p) => items[p].n % Interval = 0

\* next_marker: where the first marker from p on is.  The source ends every
\* file with an EOI, and with another one as often as it is asked.
next_marker(p) == {q \in p .. Len(items) + 1 : ~IsData(q) /\ \A x \in p .. q - 1 : IsData(x)}
Marker(q) == IF q > Len(items) THEN End ELSE items[q]
After(q) == IF q > Len(items) THEN q ELSE q + 1

\* start_pass_huff_decoder, and get_sos for the marker reader.
Init ==
  /\ file \in Files /\ pos = 1
  /\ unread_marker = NoMarker /\ next_restart_num = 0
  /\ restarts_to_go = Interval /\ insufficient_data = FALSE /\ resync = FALSE
  /\ insync = InOrder(1)
  /\ mcu = 0 /\ image = [m \in 0 .. Total - 1 |-> Gray]

-----------------------------------------------------------------------------
(* The entropy decoder: one MCU, in decode_mcu and the functions like it. *)

Delivers(shows) ==
  /\ mcu' = mcu + 1 /\ image' = [image EXCEPT ![mcu] = shows]
  /\ restarts_to_go' = restarts_to_go - 1
  /\ UNCHANGED <<file, next_restart_num, resync>>

Advance == \E q \in next_marker(pos) : unread_marker' = Marker(q) /\ pos' = After(q)

\* jpeg_fill_bit_buffer has read up to p.  It reads ahead of what is needed,
\* and when it meets a marker that is kept as unread_marker.
ReadToPast(p) ==    \* mutant: the marker it meets is not kept
  \/ pos' = p /\ unread_marker' = NoMarker
  \/ ~IsData(p) /\ pos' = After(p) /\ unread_marker' = NoMarker
ReadTo(p) ==
  \/ pos' = p /\ unread_marker' = NoMarker
  \/ ~IsData(p) /\ pos' = After(p) /\ unread_marker' = Marker(p)

Decoding == ~resync /\ restarts_to_go > 0 /\ mcu < Total

\* An MCU that gets no data shows gray, and one the data end in garbage.  The
\* code is finer: within a run of empty blocks, or with one bit per block
\* (decode_mcu_DC_refine), an MCU without data may still come out right.
LeaveZeros ==
  /\ Decoding /\ insufficient_data /\ Delivers(Gray)
  /\ UNCHANGED <<pos, unread_marker, insufficient_data, insync>>

DecodeMCU ==
  /\ Decoding /\ ~insufficient_data /\ unread_marker = NoMarker /\ IsData(pos) /\ insync
  /\ Delivers(items[pos].n) /\ ReadTo(pos + 1)
  /\ insync' = (IsData(pos + 1) => items[pos + 1].n = items[pos].n + 1)
  /\ UNCHANGED insufficient_data

DecodeGarbage ==
  /\ Decoding /\ ~insufficient_data /\ unread_marker = NoMarker /\ IsData(pos) /\ ~insync
  /\ Delivers(Garbage)
  /\ \E q \in next_marker(pos) : \E p \in pos .. q : ReadTo(p)
  /\ UNCHANGED <<insync, insufficient_data>>

\* The data end within the MCU: zero bits take their place.
HitMarker ==
  /\ Decoding /\ ~insufficient_data
  /\ \/ unread_marker # NoMarker /\ UNCHANGED <<pos, unread_marker>>
     \/ /\ unread_marker = NoMarker /\ (IsData(pos) => ~insync)
        /\ Advance
  /\ Delivers(Garbage) /\ insufficient_data' = TRUE /\ UNCHANGED insync

-----------------------------------------------------------------------------
(* process_restart, with read_restart_marker and jpeg_resync_to_restart. *)

NumberPlusOne == next_restart_num + 1    \* mutant: not modulo 8
NextNumber == (next_restart_num + 1) % 8

\* The decoder goes on at p, with u as the marker it cannot read past.
Restart(u, p) ==
  /\ unread_marker' = u /\ pos' = p
  /\ next_restart_num' = NextNumber /\ restarts_to_go' = Interval
  /\ insufficient_data' = (u # NoMarker /\ insufficient_data)
  /\ insync' = InOrder(p)
  /\ resync' = FALSE

Found(m, p) ==
  IF m = RST(next_restart_num) THEN Restart(NoMarker, p)
  ELSE /\ resync' = TRUE /\ unread_marker' = m /\ pos' = p
       /\ UNCHANGED <<next_restart_num, restarts_to_go, insufficient_data, insync>>
read_restart_marker ==
  /\ ~resync /\ restarts_to_go = 0 /\ mcu < Total
  /\ IF unread_marker = NoMarker THEN \E q \in next_marker(pos) : Found(Marker(q), After(q))
     ELSE Found(unread_marker, pos)
  /\ UNCHANGED <<file, mcu, image>>

\* 1: discard the marker; 2: scan to the next one; 3: leave it unread, so that
\* the decoder processes an empty segment.
Near(m, ns) == \E n \in ns : m = RST(next_restart_num + n)

\* Mutants: only the next marker is taken for a future one; none for a prior
\* one; one that ends the scan is passed.
ActionByOne(m) ==
  IF m.kind = "invalid" THEN 2
  ELSE IF m.kind = "end" \/ Near(m, {1}) THEN 3
  ELSE IF Near(m, {-1, -2}) THEN 2 ELSE 1
ActionNoPrior(m) ==
  IF m.kind = "invalid" THEN 2 ELSE IF m.kind = "end" \/ Near(m, {1, 2}) THEN 3 ELSE 1
ActionPastEnd(m) ==
  IF m.kind \in {"invalid", "end"} THEN 2
  ELSE IF Near(m, {1, 2}) THEN 3
  ELSE IF Near(m, {-1, -2}) THEN 2 ELSE 1
Action(m) ==
  IF m.kind = "invalid" THEN 2
  ELSE IF m.kind = "end" \/ Near(m, {1, 2}) THEN 3
  ELSE IF Near(m, {-1, -2}) THEN 2 ELSE 1

jpeg_resync_to_restart ==
  /\ resync
  /\ CASE Action(unread_marker) = 1 -> Restart(NoMarker, pos)
       [] Action(unread_marker) = 2 ->
            /\ Advance
            /\ UNCHANGED <<next_restart_num, restarts_to_go, insufficient_data, resync, insync>>
       [] Action(unread_marker) = 3 -> Restart(unread_marker, pos)
  /\ UNCHANGED <<file, mcu, image>>

-----------------------------------------------------------------------------
Next ==
  \/ LeaveZeros \/ DecodeMCU \/ DecodeGarbage \/ HitMarker
  \/ read_restart_marker \/ jpeg_resync_to_restart

SafetySpec == Init /\ [][Next]_vars

\* The decoder is a loop that waits for nothing: the source never suspends.
Spec == SafetySpec /\ WF_vars(Next)

-----------------------------------------------------------------------------
(* Properties. *)

\* The intervals of which the file has all, with the marker before them.
Intact(k) == (k + 1) * Period <= file.keep + 1 \/ k * Period >= file.resume

InPlace(k) == \A m \in k * Interval .. (k + 1) * Interval - 1 : image[m] = m

\* Items got lost, with at most two of the scan's restart markers; intervals
\* came again, with their markers, at most two; or an invalid marker appeared.
Least(a, b) == IF a <= b THEN a ELSE b
RSTs(i) == Due(Least(i, Intervals * Period - 1))    \* among the first i items
Cut ==
  file.extra = <<>> /\ file.keep < file.resume /\ RSTs(file.resume - 1) - RSTs(file.keep) <= 2
Repeat ==
  /\ file.extra = <<>> /\ file.resume <= file.keep /\ file.keep < Intervals * Period
  /\ file.resume % Period = 0 /\ (file.keep + 1) % Period = 0
  /\ RSTs(file.keep) - RSTs(file.resume - 1) <= 2
Marred == file.extra = <<Invalid>> /\ file.resume = file.keep + 1

\* Damage that takes or repeats no more than two restart markers costs only
\* the intervals it touches.
Resynchronised ==
  mcu = Total /\ (Cut \/ Repeat \/ Marred) =>
    \A k \in 0 .. Intervals - 1 : Intact(k) => InPlace(k)

\* A restart marker appeared that is "lead" ahead of the one that is due.
Stray(lead) ==
  file.resume = file.keep + 1 /\ file.extra = <<RST(RSTs(file.keep) + lead)>>

\* A false restart marker costs at most the interval it is in and the two that
\* follow, unless it is two ahead of the one that is due: then the true ones
\* are too far behind to be recognised.
StrayForgotten ==
  mcu = Total /\ (\E lead \in (-3 .. 4) \ {2} : Stray(lead)) =>
    \A k \in RSTs(file.keep) + 3 .. Intervals - 1 : InPlace(k)

\* The decoder never reads past the marker that ends the scan, whatever follows.
ScanKept == \A i \in 1 .. pos - 1 : items[i].kind = "end" => i = pos - 1 /\ unread_marker = items[i]

\* Every MCU of the image is delivered, however short the file is.
Finishes == <>(mcu = Total)

-----------------------------------------------------------------------------
(* What the proofs add. *)

\* The damage the two properties are about, and the intervals they promise:
\* those before it, and those from Restored on.
Recoverable == Cut \/ Repeat \/ Marred \/ \E lead \in (-3 .. 4) \ {2} : Stray(lead)
Restored ==
  IF Cut \/ Repeat \/ Marred THEN Due(file.resume - 1) + 1 ELSE Due(file.keep) + 3
Promised(k) == k < Due(file.keep + 1) \/ k >= Restored

\* Where the items after the damage are, compared with where they were written.
Shift == file.keep + Len(file.extra) + 1 - file.resume

\* The marker at q is the next one, or has been read already.
Ahead(q) ==
  /\ q <= Len(items) /\ ~IsData(q)
  /\ IF unread_marker = NoMarker THEN q \in next_marker(pos)
     ELSE unread_marker = items[q] /\ pos = q + 1

\* The items and the MCUs of the scan before the K-th interval, counted from
\* zero; the decoder is in that interval.
Offset(K) == K * Period
First(K) == K * Interval
InInterval(K) == mcu + restarts_to_go = First(K + 1) /\ next_restart_num = K % 8

\* It is at the MCU it takes it for, in an interval that begins after the item
\* o of the file, or at the marker after the interval.
OnCourse(o) ==
  /\ ~resync /\ ~insufficient_data
  /\ restarts_to_go > 0 => insync /\ unread_marker = NoMarker
  /\ IF unread_marker = NoMarker THEN pos = o + Period - restarts_to_go
     ELSE pos = o + Period + 1 /\ unread_marker = items[pos - 1]
BeforeDamage(K) ==
  pos <= file.keep + (IF unread_marker = NoMarker THEN 0 ELSE 1) /\ OnCourse(Offset(K))
AfterDamage(K) == Offset(K) >= file.resume /\ OnCourse(Shift + Offset(K))

\* It is not, and this interval is not promised or is over.
OffCourse(K) == K + 1 >= Due(file.keep + 1) /\ (Promised(K) => restarts_to_go = 0)

\* The next marker is one that was written, at the end of the interval T - 1,
\* near enough to be recognised.
MarkerAhead(K, T) ==
  /\ Offset(T) >= file.resume /\ Ahead(Shift + Offset(T))
  /\ T - 1 - K \in -2 .. 2 /\ (T <= Restored \/ T <= K + 1)

\* It is the false one.
FalseAhead(K) ==
  /\ file.extra # <<>> /\ Ahead(file.keep + 1)
  /\ (K = Due(file.keep) \/ (Stray(1) /\ K = Due(file.keep) + 1))

\* Nothing that is promised is left.
Over(K) == \A k \in K + 1 .. Intervals - 1 : ~Promised(k)

Course(K) ==
  \/ BeforeDamage(K) \/ AfterDamage(K)
  \/ OffCourse(K) /\ ((\E T \in 1 .. Intervals - 1 : MarkerAhead(K, T)) \/ FalseAhead(K) \/ Over(K))

PromiseKept ==
  \A k \in 0 .. Intervals - 1 : Promised(k) =>
    \A m \in First(k) .. First(k + 1) - 1 : m < mcu => image[m] = m

\* Resynchronisation is about a marker, between two intervals.
ResyncWired == resync => unread_marker # NoMarker /\ restarts_to_go = 0 /\ mcu < Total

RestartInv ==
  Recoverable => PromiseKept /\ \E K \in 0 .. Intervals - 1 : InInterval(K) /\ Course(K)
=============================================================================

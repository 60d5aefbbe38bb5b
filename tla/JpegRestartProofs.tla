-------------------------- MODULE JpegRestartProofs --------------------------
(***************************************************************************)
(* What the decoder of JpegRestart does with any file, whatever its items: *)
(* it keeps to the types of its variables and to the scan.  And what it    *)
(* does with one damage in a scan of any length: as long as the damage     *)
(* takes or repeats at most two restart markers, or puts in one marker, it *)
(* finds its place again.                                                  *)
(***************************************************************************)
EXTENDS JpegRestart, TLAPS

LEMMA FileItems ==
  ASSUME TypeOK
  PROVE  /\ items \in Seq(Items) /\ Len(items) \in Nat
         /\ \A i \in 1 .. Len(items) : items[i] \in Items
<1>1. file \in Damages
  BY DEF TypeOK
<1>2. items \in Seq(Items)
  BY <1>1 DEF Damages, items
<1> QED
  BY <1>2

LEMMA TotalIsNat == Total \in Nat
BY RestartAssumption DEF Total

\* What the data source gives at a marker is a marker, and the position after
\* it is one of the file.
LEMMA MarkersAreMarkers ==
  ASSUME TypeOK, NEW q \in 1 .. Len(items) + 1, ~IsData(q)
  PROVE  /\ Marker(q) \in Items /\ Marker(q).kind # "mcu"
         /\ After(q) \in 1 .. Len(items) + 1
<1>1. CASE q > Len(items)
  BY <1>1, FileItems DEF Marker, After, End, Items
<1>2. CASE ~(q > Len(items))
  <2>1. q \in 1 .. Len(items) /\ items[q] \in Items
    BY <1>2, FileItems
  <2> QED
    BY <1>2, <2>1, FileItems DEF Marker, After, IsData
<1> QED
  BY <1>1, <1>2

LEMMA Advances ==
  ASSUME TypeOK, Advance
  PROVE  /\ unread_marker' \in Items /\ unread_marker'.kind # "mcu"
         /\ pos' \in 1 .. Len(items) + 1
<1>1. PICK q \in next_marker(pos) : unread_marker' = Marker(q) /\ pos' = After(q)
  BY DEF Advance
<1>2. q \in 1 .. Len(items) + 1 /\ ~IsData(q)
  BY FileItems DEF next_marker, TypeOK
<1> QED
  BY <1>1, <1>2, MarkersAreMarkers

LEMMA ReadsTo ==
  ASSUME TypeOK, NEW p \in 1 .. Len(items) + 1, ReadTo(p)
  PROVE  /\ unread_marker' \in Items \cup {NoMarker} /\ unread_marker'.kind # "mcu"
         /\ pos' \in 1 .. Len(items) + 1
BY MarkersAreMarkers DEF ReadTo, NoMarker

LEMMA RestartTypes ==
  ASSUME TypeOK, NEW u \in Items \cup {NoMarker}, u.kind # "mcu",
         NEW p \in 1 .. Len(items) + 1,
         Restart(u, p), UNCHANGED <<file, mcu, image>>
  PROVE  TypeOK'
<1>1. next_restart_num' \in 0 .. 7
  BY DEF Restart, NextNumber, TypeOK
<1>2. insync' \in BOOLEAN /\ insufficient_data' \in BOOLEAN /\ resync' \in BOOLEAN
  BY DEF Restart, InOrder, TypeOK
<1>3. restarts_to_go' \in 0 .. Interval
  BY RestartAssumption DEF Restart
<1> QED
  BY <1>1, <1>2, <1>3 DEF Restart, TypeOK, items

LEMMA FoundTypes ==
  ASSUME TypeOK, NEW m \in Items, m.kind # "mcu", NEW p \in 1 .. Len(items) + 1,
         Found(m, p), UNCHANGED <<file, mcu, image>>
  PROVE  TypeOK'
<1>1. CASE m = RST(next_restart_num)
  BY <1>1, RestartTypes DEF Found, NoMarker
<1>2. CASE m # RST(next_restart_num)
  BY <1>2 DEF Found, TypeOK, items
<1> QED
  BY <1>1, <1>2

LEMMA DeliversTypes ==
  ASSUME TypeOK, Decoding, NEW shows \in Nat \cup {Gray, Garbage}, Delivers(shows)
  PROVE  /\ file' \in Damages /\ next_restart_num' \in 0 .. 7 /\ restarts_to_go' \in 0 .. Interval
         /\ resync' \in BOOLEAN /\ mcu' \in 0 .. Total
         /\ image' \in [0 .. Total - 1 -> Nat \cup {Gray, Garbage}]
         /\ items' = items
<1>1. mcu' \in 0 .. Total
  BY TotalIsNat DEF TypeOK, Decoding, Delivers
<1>2. restarts_to_go' \in 0 .. Interval
  BY RestartAssumption DEF TypeOK, Decoding, Delivers
<1>3. image' \in [0 .. Total - 1 -> Nat \cup {Gray, Garbage}]
  BY DEF TypeOK, Delivers
<1> QED
  BY <1>1, <1>2, <1>3 DEF TypeOK, Delivers, items

LEMMA TypeInit == Init => TypeOK
<1> SUFFICES ASSUME Init PROVE TypeOK
  OBVIOUS
<1>1. file \in Files /\ file \in Damages
  BY RestartAssumption DEF Init
<1>2. items \in Seq(Items) /\ Len(items) \in Nat
  BY <1>1 DEF Damages, items
<1>3. restarts_to_go \in 0 .. Interval /\ mcu \in 0 .. Total
  BY RestartAssumption, TotalIsNat DEF Init
<1>4. image \in [0 .. Total - 1 -> Nat \cup {Gray, Garbage}]
  BY DEF Init
<1>5. insync \in BOOLEAN
  BY DEF Init, InOrder
<1>6. pos \in 1 .. Len(items) + 1 /\ next_restart_num \in 0 .. 7
  BY <1>2 DEF Init
<1>7. unread_marker \in Items \cup {NoMarker} /\ unread_marker.kind # "mcu"
  BY DEF Init, NoMarker
<1>8. insufficient_data \in BOOLEAN /\ resync \in BOOLEAN
  BY DEF Init
<1> QED
  BY <1>1, <1>3, <1>4, <1>5, <1>6, <1>7, <1>8 DEF TypeOK

LEMMA TypeStep == TypeOK /\ [Next]_vars => TypeOK'
<1> SUFFICES ASSUME TypeOK, [Next]_vars PROVE TypeOK'
  OBVIOUS
<1> USE FileItems
<1>1. CASE LeaveZeros
  BY <1>1, DeliversTypes DEF LeaveZeros, TypeOK
<1>2. CASE DecodeMCU
  <2>1. items[pos].n \in Nat /\ pos + 1 \in 1 .. Len(items) + 1
    <3>1. pos \in 1 .. Len(items)
      BY <1>2 DEF DecodeMCU, IsData, TypeOK
    <3>2. items[pos] \in Items
      BY <3>1
    <3> QED
      BY <3>1, <3>2 DEF Items
  <2>2. ReadTo(pos + 1) /\ Decoding /\ Delivers(items[pos].n)
    BY <1>2 DEF DecodeMCU
  <2>3. insync' \in BOOLEAN /\ insufficient_data' \in BOOLEAN
    BY <1>2 DEF DecodeMCU, TypeOK
  <2> QED
    BY <2>1, <2>2, <2>3, DeliversTypes, ReadsTo DEF TypeOK
<1>3. CASE DecodeGarbage
  <2>0. PICK q \in next_marker(pos) : \E p \in pos .. q : ReadTo(p)
    BY <1>3 DEF DecodeGarbage
  <2>1. PICK p \in pos .. q : ReadTo(p)
    BY <2>0
  <2>2. p \in 1 .. Len(items) + 1
    BY <2>1 DEF next_marker, TypeOK
  <2> QED
    BY <1>3, <2>1, <2>2, DeliversTypes, ReadsTo DEF DecodeGarbage, TypeOK
<1>4. CASE HitMarker
  <2>1. Decoding /\ Delivers(Garbage) /\ insufficient_data' = TRUE /\ insync' = insync
    BY <1>4 DEF HitMarker
  <2>2. Advance \/ UNCHANGED <<pos, unread_marker>>
    BY <1>4 DEF HitMarker
  <2> QED
    BY <2>1, <2>2, DeliversTypes, Advances DEF TypeOK
<1>5. CASE read_restart_marker
  <2>1. UNCHANGED <<file, mcu, image>>
    BY <1>5 DEF read_restart_marker
  <2>2. CASE unread_marker = NoMarker
    <3>1. PICK q \in next_marker(pos) : Found(Marker(q), After(q))
      BY <1>5, <2>2 DEF read_restart_marker
    <3>2. q \in 1 .. Len(items) + 1 /\ ~IsData(q)
      BY DEF next_marker, TypeOK
    <3> QED
      BY <2>1, <3>1, <3>2, MarkersAreMarkers, FoundTypes
  <2>3. CASE unread_marker # NoMarker
    BY <1>5, <2>1, <2>3, FoundTypes DEF read_restart_marker, TypeOK
  <2> QED
    BY <2>2, <2>3
<1>6. CASE jpeg_resync_to_restart
  <2>1. UNCHANGED <<file, mcu, image>>
    BY <1>6 DEF jpeg_resync_to_restart
  <2>2. Action(unread_marker) \in {1, 2, 3}
    BY DEF Action
  <2>3. CASE Action(unread_marker) = 1
    BY <1>6, <2>1, <2>3, RestartTypes DEF jpeg_resync_to_restart, TypeOK, NoMarker
  <2>4. CASE Action(unread_marker) = 2
    <3>1. Advance /\ UNCHANGED <<next_restart_num, restarts_to_go, insufficient_data, resync, insync>>
      BY <1>6, <2>4 DEF jpeg_resync_to_restart
    <3> QED
      BY <2>1, <3>1, Advances DEF TypeOK, items
  <2>5. CASE Action(unread_marker) = 3
    BY <1>6, <2>1, <2>5, RestartTypes DEF jpeg_resync_to_restart, TypeOK
  <2> QED
    BY <2>2, <2>3, <2>4, <2>5
<1>7. CASE UNCHANGED vars
  BY <1>7 DEF vars, TypeOK, items
<1> QED
  BY <1>1, <1>2, <1>3, <1>4, <1>5, <1>6, <1>7 DEF Next

\* Whatever a file contains, the variables keep to their types: no position
\* outside it, no more MCUs than the image has.
THEOREM TypeCorrect == Spec => []TypeOK
<1> QED
  BY TypeInit, TypeStep, PTL DEF Spec, SafetySpec

-----------------------------------------------------------------------------
(* The marker that ends the scan. *)

\* Reading on from a position before which there is no end marker stops at
\* the first one, with that as the unread marker.
NoEndBefore(p) == \A i \in 1 .. p - 1 : i <= Len(items) => items[i].kind # "end"

LEMMA KeptWithoutMarker ==
  ASSUME TypeOK, ScanKept, unread_marker.kind # "end"
  PROVE  NoEndBefore(pos)
BY FileItems DEF ScanKept, NoEndBefore, TypeOK

LEMMA FirstMarkerKept ==
  ASSUME TypeOK, NEW p \in 1 .. Len(items) + 1, NoEndBefore(p), NEW q \in next_marker(p)
  PROVE  NoEndBefore(q)
<1> SUFFICES ASSUME NEW i \in 1 .. q - 1, i <= Len(items) PROVE items[i].kind # "end"
  BY DEF NoEndBefore
<1>1. CASE i < p
  BY <1>1, FileItems DEF NoEndBefore
<1>2. CASE ~(i < p)
  BY <1>2, FileItems DEF next_marker, IsData
<1> QED
  BY <1>1, <1>2

LEMMA StopsAtMarker ==
  ASSUME TypeOK, UNCHANGED file, NEW q \in 1 .. Len(items) + 1, ~IsData(q), NoEndBefore(q),
         unread_marker' = Marker(q), pos' = After(q)
  PROVE  ScanKept'
<1>0. items' = items
  BY DEF items
<1>1. CASE q > Len(items)
  BY <1>0, <1>1, FileItems DEF After, NoEndBefore, ScanKept
<1>2. CASE ~(q > Len(items))
  BY <1>0, <1>2, FileItems DEF After, Marker, NoEndBefore, ScanKept
<1> QED
  BY <1>1, <1>2

LEMMA StopsBefore ==
  ASSUME TypeOK, UNCHANGED file, NEW p \in 1 .. Len(items) + 1, NoEndBefore(p), pos' = p
  PROVE  ScanKept'
BY FileItems DEF NoEndBefore, ScanKept, items

LEMMA AdvanceKeeps ==
  ASSUME TypeOK, UNCHANGED file, NoEndBefore(pos), Advance
  PROVE  ScanKept'
<1>1. PICK q \in next_marker(pos) : unread_marker' = Marker(q) /\ pos' = After(q)
  BY DEF Advance
<1>2. q \in 1 .. Len(items) + 1 /\ ~IsData(q)
  BY FileItems DEF next_marker, TypeOK
<1>3. NoEndBefore(q)
  BY FirstMarkerKept DEF TypeOK
<1> QED
  BY <1>1, <1>2, <1>3, StopsAtMarker

LEMMA ReadKeeps ==
  ASSUME TypeOK, UNCHANGED file, NEW p \in 1 .. Len(items) + 1, NoEndBefore(p), ReadTo(p)
  PROVE  ScanKept'
BY StopsAtMarker, StopsBefore DEF ReadTo

\* The decoder goes on without the marker m only if that is no end marker.
LEMMA RestartKeeps ==
  ASSUME TypeOK, UNCHANGED file, NEW p \in 1 .. Len(items) + 1, NoEndBefore(p),
         Restart(NoMarker, p)
  PROVE  ScanKept'
BY StopsBefore DEF Restart

LEMMA KeptStep == TypeOK /\ ScanKept /\ [Next]_vars => ScanKept'
<1> SUFFICES ASSUME TypeOK, ScanKept, [Next]_vars PROVE ScanKept'
  OBVIOUS
<1> USE FileItems
<1>0. NoMarker.kind # "end"
  BY DEF NoMarker
<1>1. ASSUME UNCHANGED <<file, pos, unread_marker>> PROVE ScanKept'
  BY <1>1 DEF ScanKept, items
<1>2. CASE LeaveZeros
  BY <1>2, <1>1 DEF LeaveZeros, Delivers
<1>3. CASE DecodeMCU
  <2>1. NoEndBefore(pos) /\ IsData(pos)
    BY <1>3, <1>0, KeptWithoutMarker DEF DecodeMCU
  <2>2. NoEndBefore(pos + 1) /\ pos + 1 \in 1 .. Len(items) + 1
    BY <2>1 DEF NoEndBefore, IsData, TypeOK
  <2> QED
    BY <1>3, <2>2, ReadKeeps DEF DecodeMCU, Delivers
<1>4. CASE DecodeGarbage
  <2>1. NoEndBefore(pos)
    BY <1>4, <1>0, KeptWithoutMarker DEF DecodeGarbage
  <2>2. PICK q \in next_marker(pos) : \E p \in pos .. q : ReadTo(p)
    BY <1>4 DEF DecodeGarbage
  <2>3. PICK p \in pos .. q : ReadTo(p)
    BY <2>2
  <2>4. NoEndBefore(q) /\ q \in 1 .. Len(items) + 1
    BY <2>1, FirstMarkerKept DEF TypeOK, next_marker
  <2>5. NoEndBefore(p) /\ p \in 1 .. Len(items) + 1
    BY <2>4 DEF NoEndBefore, TypeOK
  <2> QED
    BY <1>4, <2>3, <2>5, ReadKeeps DEF DecodeGarbage, Delivers
<1>5. CASE HitMarker
  <2>1. CASE unread_marker # NoMarker
    BY <1>5, <1>1, <2>1 DEF HitMarker, Delivers
  <2>2. CASE unread_marker = NoMarker
    BY <1>5, <1>0, <2>2, KeptWithoutMarker, AdvanceKeeps DEF HitMarker, Delivers
  <2> QED
    BY <2>1, <2>2
<1>6. CASE read_restart_marker
  <2>0. UNCHANGED file
    BY <1>6 DEF read_restart_marker
  <2>1. CASE unread_marker = NoMarker
    <3>1. PICK q \in next_marker(pos) : Found(Marker(q), After(q))
      BY <1>6, <2>1 DEF read_restart_marker
    <3>2. q \in 1 .. Len(items) + 1 /\ ~IsData(q)
      BY DEF next_marker, TypeOK
    <3>3. NoEndBefore(q)
      BY <2>1, <1>0, KeptWithoutMarker, FirstMarkerKept DEF TypeOK
    <3>4. CASE Marker(q) = RST(next_restart_num)
      <4>1. Restart(NoMarker, After(q)) /\ Marker(q).kind # "end"
        BY <3>1, <3>4 DEF Found, RST
      <4>2. NoEndBefore(After(q)) /\ After(q) \in 1 .. Len(items) + 1
        BY <3>2, <3>3, <4>1 DEF NoEndBefore, Marker, After
      <4> QED
        BY <2>0, <4>1, <4>2, RestartKeeps
    <3>5. CASE Marker(q) # RST(next_restart_num)
      BY <2>0, <3>1, <3>2, <3>3, <3>5, StopsAtMarker DEF Found
    <3> QED
      BY <3>4, <3>5
  <2>2. CASE unread_marker # NoMarker
    <3>1. Found(unread_marker, pos)
      BY <1>6, <2>2 DEF read_restart_marker
    <3>2. CASE unread_marker = RST(next_restart_num)
      <4>1. NoEndBefore(pos)
        BY <3>2, KeptWithoutMarker DEF RST
      <4> QED
        BY <2>0, <3>1, <3>2, <4>1, RestartKeeps DEF Found, TypeOK
    <3>3. CASE unread_marker # RST(next_restart_num)
      BY <2>0, <3>1, <3>3, <1>1 DEF Found
    <3> QED
      BY <3>2, <3>3
  <2> QED
    BY <2>1, <2>2
<1>7. CASE jpeg_resync_to_restart
  <2>0. UNCHANGED file
    BY <1>7 DEF jpeg_resync_to_restart
  <2>1. Action(unread_marker) \in {1, 2, 3}
    BY DEF Action
  <2>2. CASE Action(unread_marker) = 3
    BY <1>7, <2>0, <2>2, <1>1 DEF jpeg_resync_to_restart, Restart
  <2>3. CASE Action(unread_marker) # 3
    <3>1. NoEndBefore(pos)
      BY <2>3, KeptWithoutMarker DEF Action
    <3>2. CASE Action(unread_marker) = 1
      BY <1>7, <2>0, <3>1, <3>2, RestartKeeps DEF jpeg_resync_to_restart, TypeOK
    <3>3. CASE Action(unread_marker) = 2
      BY <1>7, <2>0, <3>1, <3>3, AdvanceKeeps DEF jpeg_resync_to_restart
    <3> QED
      BY <2>1, <2>3, <3>2, <3>3
  <2> QED
    BY <2>2, <2>3
<1>8. CASE UNCHANGED vars
  BY <1>8, <1>1 DEF vars
<1> QED
  BY <1>2, <1>3, <1>4, <1>5, <1>6, <1>7, <1>8 DEF Next

\* jpeg_resync_to_restart and jpeg_fill_bit_buffer between them: whatever the
\* damage, the decoder stops at the first marker that is no restart marker.
THEOREM ScanIsKept == Spec => []ScanKept
<1>1. Init => ScanKept
  BY DEF Init, ScanKept
<1> QED
  BY <1>1, TypeInit, TypeStep, KeptStep, PTL DEF Spec, SafetySpec

-----------------------------------------------------------------------------
(* Where the items of the scan are in a damaged file. *)

LEMMA Sizes ==
  /\ Interval \in Nat \ {0} /\ Intervals \in Nat \ {0}
  /\ Period \in Nat \ {0} /\ Period = Interval + 1
BY RestartAssumption DEF Period

LEMMA Multiples ==
  ASSUME NEW a \in Int, NEW b \in Int, NEW p \in Nat \ {0}
  PROVE  /\ a * p \in Int /\ (a + 1) * p = a * p + p
         /\ a <= b <=> a * p <= b * p
         /\ a < b <=> a * p + p <= b * p
<1>1. PICK d \in Int : b = a + d
  BY b = a + (b - a)
<1>2. b * p = a * p + d * p
  BY <1>1
<1>3. PICK n \in Int : n = d * p
  OBVIOUS
<1>4. d >= 0 => n >= 0
  BY <1>3
<1>5. d >= 1 => n >= p
  BY <1>3
<1>6. d < 0 => n <= -p
  BY <1>3
<1>7. d <= 0 => n <= 0
  BY <1>3
<1> QED
  BY <1>1, <1>2, <1>3, <1>4, <1>5, <1>6, <1>7

LEMMA DueBounds ==
  ASSUME NEW i \in Nat
  PROVE  Due(i) \in Nat /\ Due(i) * Period <= i /\ i < Due(i) * Period + Period
<1>1. Due(i) \in Nat
  BY Sizes DEF Due
<1>2. PICK p \in Nat \ {0} : p = Period
  BY Sizes
<1>3. (i \div p) * p <= i /\ i < (i \div p) * p + p
  BY <1>2
<1> QED
  BY <1>1, <1>2, <1>3 DEF Due

\* The interval of an item is the one between whose markers it is.
LEMMA DueIs ==
  ASSUME NEW i \in Nat, NEW k \in Nat
  PROVE  /\ k <= Due(i) <=> k * Period <= i
         /\ k * Period <= i /\ i < k * Period + Period => Due(i) = k
<1>1. Due(i) \in Nat /\ Due(i) * Period <= i /\ i < Due(i) * Period + Period
  BY DueBounds
<1>2. /\ k <= Due(i) <=> k * Period <= Due(i) * Period
      /\ Due(i) < k <=> Due(i) * Period + Period <= k * Period
      /\ k < Due(i) <=> k * Period + Period <= Due(i) * Period
  BY <1>1, Sizes, Multiples
<1>3. PICK p \in Nat \ {0} : p = Period
  BY Sizes
<1>4. PICK d \in Nat : d = Due(i)
  BY <1>1
<1>5. PICK kp \in Int : kp = k * p
  OBVIOUS
<1>6. PICK dp \in Int : dp = d * p
  OBVIOUS
<1>7. /\ dp <= i /\ i < dp + p
      /\ k <= d <=> kp <= dp
      /\ d < k <=> dp + p <= kp
      /\ k < d <=> kp + p <= dp
  BY <1>1, <1>2, <1>3, <1>4, <1>5, <1>6
<1> QED
  BY <1>3, <1>4, <1>5, <1>7

LEMMA Concatenated ==
  ASSUME NEW s \in Seq(Items), NEW t \in Seq(Items)
  PROVE  /\ s \o t \in Seq(Items) /\ Len(s \o t) = Len(s) + Len(t)
         /\ \A i \in 1 .. Len(s) : (s \o t)[i] = s[i]
         /\ \A i \in Len(s) + 1 .. Len(s) + Len(t) : (s \o t)[i] = t[i - Len(s)]
OBVIOUS

LEMMA ScanIs ==
  /\ Scan \in Seq(Items) /\ Len(Scan) = Intervals * Period /\ Intervals * Period \in Nat \ {0}
  /\ NextScan \in Seq(Items) /\ Len(NextScan) = 4
  /\ Encoded \in Seq(Items) /\ Len(Encoded) = Intervals * Period + 4
  /\ \A i \in 1 .. Intervals * Period : Encoded[i] = Scan[i]
<1>1. PICK n \in Nat \ {0} : n = Intervals * Period
  BY Sizes
<1>2. ASSUME NEW i \in 1 .. n PROVE Scan[i] \in Items
  <2>1. Due(i) \in Nat /\ Due(i) * Period <= i
    BY DueBounds
  <2>2. Due(i) <= i - 1
    <3>1. PICK d \in Nat : d = Due(i)
      BY <2>1
    <3>2. PICK m \in Nat : m = d * Interval
      BY <3>1, Sizes
    <3>3. m >= d /\ d * Period = m + d
      BY <3>1, <3>2, Sizes
    <3> QED
      BY <1>1, <2>1, <3>1, <3>2, <3>3
  <2>3. CASE i % Period # 0
    <3>1. i - 1 - Due(i) \in Nat
      BY <2>1, <2>2
    <3> QED
      BY <2>3, <3>1, <1>1 DEF Scan, MCU, Items
  <2>4. CASE ~(i % Period # 0)
    BY <2>1, <2>4, <1>1 DEF Scan, RST, End, Items
  <2> QED
    BY <2>3, <2>4
<1>3. Scan = [i \in 1 .. n |-> Scan[i]]
  BY <1>1 DEF Scan
<1>4. Scan \in Seq(Items) /\ Len(Scan) = n
  BY <1>1, <1>2, <1>3
<1>5. NextScan \in Seq(Items) /\ Len(NextScan) = 4
  BY Sizes DEF NextScan, MCU, RST, End, Items
<1>6. Encoded \in Seq(Items)
  BY <1>4, <1>5 DEF Encoded
<1>7. Len(Encoded) = n + 4 /\ \A i \in 1 .. n : Encoded[i] = Scan[i]
  <2>1. PICK s \in Seq(Items) : s = Scan
    BY <1>4
  <2>2. PICK t \in Seq(Items) : t = NextScan
    BY <1>5
  <2>3. Encoded = s \o t /\ Len(s) = n /\ Len(t) = 4
    BY <1>4, <1>5, <2>1, <2>2 DEF Encoded
  <2>4. Len(s \o t) = Len(s) + Len(t) /\ \A i \in 1 .. Len(s) : (s \o t)[i] = s[i]
    BY <2>1, <2>2, Concatenated
  <2>5. Len(Encoded) = n + 4 /\ \A i \in 1 .. n : Encoded[i] = s[i]
    BY <2>3, <2>4
  <2> QED
    BY <2>1, <2>5
<1> QED
  BY <1>1, <1>4, <1>5, <1>6, <1>7

\* The j-th item of the interval K, and the marker after the interval T - 1.
LEMMA Written ==
  /\ \A K \in 0 .. Intervals - 1 : \A j \in 1 .. Interval :
       /\ K * Period + j \in 1 .. Intervals * Period - 1
       /\ Encoded[K * Period + j] = MCU(K * Interval + j - 1)
  /\ \A T \in 1 .. Intervals - 1 :
       /\ T * Period \in 1 .. Intervals * Period - 1
       /\ Encoded[T * Period] = RST(T - 1)
<1>1. ASSUME NEW K \in 0 .. Intervals - 1, NEW j \in 0 .. Interval, K # 0 \/ j # 0
      PROVE  /\ K * Period + j \in 1 .. Intervals * Period - 1
             /\ Due(K * Period + j) = K /\ (K * Period + j) % Period = j
             /\ Encoded[K * Period + j] = Scan[K * Period + j]
  <2>1. PICK p \in Nat \ {0} : p = Period
    BY Sizes
  <2>2. PICK n \in Nat : n = K * p
    BY <2>1
  <2>3. n + p <= Intervals * Period /\ Intervals * Period \in Int
    BY <2>1, <2>2, Sizes, Multiples
  <2>4. j < p
    BY <2>1, Sizes
  <2>5. n + j >= 1
    <3>1. K # 0 => n >= p
      BY <2>1, <2>2
    <3> QED
      BY <1>1, <2>1, <2>2, <3>1
  <2>6. n + j \in 1 .. Intervals * Period - 1
    BY <2>2, <2>3, <2>4, <2>5
  <2>7. Due(n + j) = K
    BY <2>1, <2>2, <2>4, DueIs
  <2>8. (n + j) % p = j
    BY <2>1, <2>2, <2>4
  <2>9. PICK i \in 1 .. Intervals * Period - 1 : i = n + j
    BY <2>6
  <2>10. K * Period + j = i
    BY <2>1, <2>2, <2>9
  <2>11. Due(i) = K /\ i % Period = j
    BY <2>1, <2>7, <2>8, <2>9
  <2>12. Encoded[i] = Scan[i]
    <3>1. i \in 1 .. Intervals * Period
      BY <2>3, <2>9
    <3> QED
      BY <3>1, ScanIs, Zenon
  <2> QED
    BY <2>9, <2>10, <2>11, <2>12
<1>2. ASSUME NEW K \in 0 .. Intervals - 1, NEW j \in 1 .. Interval
      PROVE  /\ K * Period + j \in 1 .. Intervals * Period - 1
             /\ Encoded[K * Period + j] = MCU(K * Interval + j - 1)
  <2>1. PICK i \in 1 .. Intervals * Period - 1 : i = K * Period + j
    BY <1>1, Sizes
  <2>2. Due(i) = K /\ i % Period = j /\ Encoded[i] = Scan[i]
    <3>1. j \in 0 .. Interval /\ (K # 0 \/ j # 0)
      BY Sizes
    <3>2. /\ Due(K * Period + j) = K /\ (K * Period + j) % Period = j
          /\ Encoded[K * Period + j] = Scan[K * Period + j]
      BY <1>1, <3>1, Zenon
    <3> QED
      BY <2>1, <3>2, Zenon
  <2>3. Scan[i] = MCU(i - 1 - K)
    BY <2>1, <2>2, ScanIs DEF Scan
  <2>4. K * Period = K * Interval + K
    BY Sizes
  <2>5. i - 1 - K = K * Interval + j - 1
    BY <2>1, <2>4, Sizes
  <2> QED
    BY <2>1, <2>2, <2>3, <2>5
<1>3. ASSUME NEW T \in 1 .. Intervals - 1
      PROVE  /\ T * Period \in 1 .. Intervals * Period - 1
             /\ Encoded[T * Period] = RST(T - 1)
  <2>1. PICK i \in 1 .. Intervals * Period - 1 : i = T * Period + 0
    BY <1>1, Sizes
  <2>4. T \in 0 .. Intervals - 1 /\ 0 \in 0 .. Interval /\ T # 0
    BY Sizes
  <2>2. Due(i) = T /\ i % Period = 0 /\ Encoded[i] = Scan[i]
    BY <1>1, <2>1, <2>4
  <2>3. i = T * Period
    BY <2>1, Sizes
  <2> QED
    BY <2>1, <2>2, <2>3, ScanIs DEF Scan
<1> QED
  BY <1>2, <1>3

LEMMA Joined ==
  ASSUME NEW e \in Seq(Items), NEW x \in Seq(Items),
         NEW k \in 0 .. Len(e), NEW r \in 1 .. Len(e) + 1
  PROVE  LET y == SubSeq(e, 1, k) \o x \o SubSeq(e, r, Len(e))
         IN  /\ Len(y) = k + Len(x) + Len(e) + 1 - r
             /\ \A i \in 1 .. k : y[i] = e[i]
             /\ \A i \in 1 .. Len(x) : y[k + i] = x[i]
             /\ \A i \in r .. Len(e) : y[k + Len(x) + i + 1 - r] = e[i]
<1> DEFINE n == Len(e)
           l == Len(x)
           before == SubSeq(e, 1, k)
           behind == SubSeq(e, r, n)
           front == before \o x
           y == front \o behind
<1>0. n \in Nat /\ l \in Nat /\ k \in 0 .. n /\ r \in 1 .. n + 1
  OBVIOUS
<1>1. before \in Seq(Items) /\ Len(before) = k /\ \A i \in 1 .. k : before[i] = e[i]
  OBVIOUS
<1>2. /\ behind \in Seq(Items) /\ Len(behind) = n + 1 - r
      /\ \A i \in 1 .. n + 1 - r : behind[i] = e[i + r - 1]
  OBVIOUS
<1> HIDE DEF before, behind
<1>3. /\ front \in Seq(Items) /\ Len(front) = Len(before) + l
      /\ \A i \in 1 .. Len(before) : front[i] = before[i]
      /\ \A i \in Len(before) + 1 .. Len(before) + l : front[i] = x[i - Len(before)]
  BY <1>1, Concatenated
<1> HIDE DEF front
<1>4. /\ Len(y) = Len(front) + Len(behind)
      /\ \A i \in 1 .. Len(front) : y[i] = front[i]
      /\ \A i \in Len(front) + 1 .. Len(front) + Len(behind) : y[i] = behind[i - Len(front)]
  BY <1>2, <1>3, Concatenated
<1> HIDE DEF y, n, l
<1>5. /\ Len(front) = k + l
      /\ \A i \in 1 .. k : front[i] = e[i]
      /\ \A i \in k + 1 .. k + l : front[i] = x[i - k]
  BY <1>0, <1>1, <1>3
<1>6. Len(y) = k + l + n + 1 - r
  BY <1>0, <1>2, <1>4, <1>5
<1>7. /\ \A i \in 1 .. k + l : y[i] = front[i]
      /\ \A i \in k + l + 1 .. k + l + n + 1 - r : y[i] = behind[i - (k + l)]
  BY <1>0, <1>2, <1>4, <1>5
<1>8. ASSUME NEW i \in 1 .. k PROVE y[i] = e[i]
  <2>1. i \in 1 .. k + l
    BY <1>0
  <2> QED
    BY <2>1, <1>5, <1>7
<1>9. ASSUME NEW i \in 1 .. l PROVE y[k + i] = x[i]
  <2>1. k + i \in k + 1 .. k + l /\ k + i \in 1 .. k + l /\ (k + i) - k = i
    BY <1>0
  <2> QED
    BY <2>1, <1>5, <1>7
<1>10. ASSUME NEW i \in r .. n PROVE y[k + l + i + 1 - r] = e[i]
  <2>1. i + 1 - r \in 1 .. n + 1 - r
    BY <1>0
  <2>2. PICK j \in 1 .. n + 1 - r : j = i + 1 - r
    BY <2>1
  <2>3. /\ k + l + j \in k + l + 1 .. k + l + n + 1 - r
        /\ (k + l + j) - (k + l) = j /\ j + r - 1 = i /\ k + l + i + 1 - r = k + l + j
    BY <1>0, <2>2
  <2> QED
    BY <1>2, <1>7, <2>2, <2>3
<1> QED
  BY <1>6, <1>8, <1>9, <1>10 DEF y, front, before, behind, n, l

\* An item of a damaged file is the written one, an extra one, or the one that
\* was written Shift before.
LEMMA Pieces ==
  ASSUME NEW f \in Damages
  PROVE  /\ f.keep \in 0 .. Len(Encoded) /\ f.resume \in 1 .. Len(Encoded) + 1
         /\ f.extra \in Seq(Items) /\ Len(f.extra) \in Nat
         /\ f.items \in Seq(Items)
         /\ Len(f.items) = f.keep + Len(f.extra) + Len(Encoded) + 1 - f.resume
         /\ \A i \in 1 .. f.keep : f.items[i] = Encoded[i]
         /\ \A i \in 1 .. Len(f.extra) : f.items[f.keep + i] = f.extra[i]
         /\ \A i \in f.resume .. Len(Encoded) :
              f.items[f.keep + Len(f.extra) + i + 1 - f.resume] = Encoded[i]
<1>1. /\ f.keep \in 0 .. Len(Encoded) /\ f.resume \in 1 .. Len(Encoded) + 1
      /\ f.extra \in Seq(Items) /\ f.items \in Seq(Items)
      /\ f = Damage(f.keep, f.extra, f.resume)
  BY DEF Damages
<1>2. f.items = Damage(f.keep, f.extra, f.resume).items
  BY <1>1
<1>3. f.items = SubSeq(Encoded, 1, f.keep) \o f.extra \o SubSeq(Encoded, f.resume, Len(Encoded))
  BY <1>2 DEF Damage
<1>4. Encoded \in Seq(Items) /\ Len(Encoded) \in Nat /\ Len(f.extra) \in Nat
  BY <1>1, ScanIs
<1> DEFINE e == Encoded
           x == f.extra
           k == f.keep
           r == f.resume
           y == SubSeq(e, 1, k) \o x \o SubSeq(e, r, Len(e))
<1>5. f.items = y
  BY <1>3
<1>6. e \in Seq(Items) /\ x \in Seq(Items) /\ k \in 0 .. Len(e) /\ r \in 1 .. Len(e) + 1
  BY <1>1, <1>4
<1> HIDE DEF e, x, k, r
<1>7. /\ Len(y) = k + Len(x) + Len(e) + 1 - r
      /\ \A i \in 1 .. k : y[i] = e[i]
      /\ \A i \in 1 .. Len(x) : y[k + i] = x[i]
      /\ \A i \in r .. Len(e) : y[k + Len(x) + i + 1 - r] = e[i]
  BY <1>6, Joined
<1> HIDE DEF y
<1> QED
  BY <1>1, <1>4, <1>5, <1>7 DEF e, x, k, r

LEMMA Offsets ==
  /\ \A k \in Int :
       /\ Offset(k) \in Int /\ First(k) \in Int
       /\ Offset(k + 1) = Offset(k) + Period /\ First(k + 1) = First(k) + Interval
  /\ \A k, l \in Int :
       /\ k <= l <=> Offset(k) <= Offset(l)
       /\ k < l <=> Offset(k) + Period <= Offset(l)
       /\ k < l <=> First(k) + Interval <= First(l)
  /\ Offset(0) = 0 /\ First(0) = 0
  /\ Offset(Intervals) = Intervals * Period /\ First(Intervals) = Total
<1>1. \A k \in Int : Offset(k) \in Int /\ First(k) \in Int
  BY Sizes DEF Offset, First
<1>2. ASSUME NEW k \in Int
      PROVE  Offset(k + 1) = Offset(k) + Period /\ First(k + 1) = First(k) + Interval
  BY Sizes, Multiples DEF Offset, First
<1>3. ASSUME NEW k \in Int, NEW l \in Int
      PROVE  /\ k <= l <=> Offset(k) <= Offset(l)
             /\ k < l <=> Offset(k) + Period <= Offset(l)
             /\ k < l <=> First(k) + Interval <= First(l)
  <2>1. /\ k <= l <=> k * Period <= l * Period
        /\ k < l <=> k * Period + Period <= l * Period
    BY Sizes, Multiples
  <2>2. k < l <=> k * Interval + Interval <= l * Interval
    BY Sizes, Multiples
  <2> QED
    BY <2>1, <2>2 DEF Offset, First
<1>4. /\ Offset(0) = 0 /\ First(0) = 0
      /\ Offset(Intervals) = Intervals * Period /\ First(Intervals) = Total
  BY Sizes DEF Offset, First, Total
<1> QED
  BY <1>1, <1>2, <1>3, <1>4

LEMMA OffsetOrder ==
  ASSUME NEW k \in Int, NEW l \in Int
  PROVE  /\ Offset(k) \in Int /\ Offset(l) \in Int /\ First(k) \in Int /\ First(l) \in Int
         /\ k <= l <=> Offset(k) <= Offset(l)
         /\ k < l <=> Offset(k) + Period <= Offset(l)
         /\ k < l <=> First(k) + Interval <= First(l)
BY Offsets, Zenon

\* Due and Offset: the item i is in the interval Due(i), or is the marker
\* before it.
LEMMA DueAndOffset ==
  ASSUME NEW i \in Nat
  PROVE  /\ Due(i) \in Nat /\ Offset(Due(i)) <= i /\ i < Offset(Due(i)) + Period
         /\ \A k \in Nat : Offset(k) <= i /\ i < Offset(k) + Period => Due(i) = k
         /\ \A k \in Nat : k <= Due(i) <=> Offset(k) <= i
BY DueBounds, DueIs DEF Offset

\* The MCUs and the markers of the scan are where they were written: before
\* the damage ...
LEMMA ItemsBefore ==
  ASSUME TypeOK, NEW p \in Int, p <= file.keep, NEW K \in 0 .. Intervals - 1
  PROVE  /\ Offset(K) < p /\ p < Offset(K) + Period =>
              p \in 1 .. Len(items) /\ items[p] = MCU(First(K) + (p - 1 - Offset(K)))
         /\ p = Offset(K) /\ K # 0 => p \in 1 .. Len(items) /\ items[p] = RST(K - 1)
<1>1. file \in Damages
  BY DEF TypeOK
<1>2. /\ file.keep \in 0 .. Len(Encoded) /\ file.resume \in 1 .. Len(Encoded) + 1
      /\ Len(file.extra) \in Nat
      /\ Len(items) = file.keep + Len(file.extra) + Len(Encoded) + 1 - file.resume
      /\ \A i \in 1 .. file.keep : items[i] = Encoded[i]
  BY <1>1, Pieces DEF items
<1>3. Len(Encoded) \in Nat /\ Offset(K) \in Int /\ Offset(K) >= 0
  BY ScanIs, Offsets
<1>4. p >= 1 => p \in 1 .. Len(items) /\ items[p] = Encoded[p]
  <2>1. PICK n \in Nat : n = Len(Encoded)
    BY <1>3
  <2>2. PICK l \in Nat : l = Len(file.extra)
    BY <1>2
  <2>3. PICK k \in 0 .. n : k = file.keep
    BY <1>2, <2>1
  <2>4. PICK r \in 1 .. n + 1 : r = file.resume
    BY <1>2, <2>1
  <2>5. Len(items) = k + l + n + 1 - r /\ \A i \in 1 .. k : items[i] = Encoded[i]
    BY <1>2, <2>1, <2>2, <2>3, <2>4
  <2>6. p <= k
    BY <2>3
  <2>7. k <= Len(items)
    BY <2>5
  <2>8. p >= 1 => p \in 1 .. k
    BY <2>3, <2>6
  <2>9. p >= 1 => items[p] = Encoded[p]
    BY <2>5, <2>8
  <2>10. Len(items) \in Nat
    BY FileItems
  <2> QED
    BY <2>3, <2>6, <2>7, <2>9, <2>10
<1>5. ASSUME Offset(K) < p, p < Offset(K) + Period
      PROVE  p >= 1 /\ Encoded[p] = MCU(First(K) + (p - 1 - Offset(K)))
  <2>1. p - Offset(K) \in 1 .. Interval
    BY <1>3, <1>5, Sizes
  <2>2. PICK j \in 1 .. Interval : j = p - Offset(K)
    BY <2>1
  <2>3. Encoded[K * Period + j] = MCU(K * Interval + j - 1)
    BY Written
  <2>4. K * Period + j = p /\ K * Interval + j - 1 = First(K) + (p - 1 - Offset(K))
    BY <1>3, <2>2, Offsets, Sizes DEF Offset, First
  <2> QED
    BY <1>3, <1>5, <2>3, <2>4
<1>6. ASSUME p = Offset(K), K # 0 PROVE p >= 1 /\ Encoded[p] = RST(K - 1)
  <2>1. K \in 1 .. Intervals - 1
    BY <1>6, Sizes
  <2> QED
    BY <1>6, <2>1, Written DEF Offset
<1> QED
  BY <1>4, <1>5, <1>6

\* ... and Shift further after it.
LEMMA ItemsAfter ==
  ASSUME TypeOK, NEW p \in Int, p >= file.resume, NEW K \in 0 .. Intervals - 1
  PROVE  /\ Offset(K) < p /\ p < Offset(K) + Period =>
              /\ Shift + p \in 1 .. Len(items)
              /\ items[Shift + p] = MCU(First(K) + (p - 1 - Offset(K)))
         /\ p = Offset(K) /\ K # 0 =>
              Shift + p \in 1 .. Len(items) /\ items[Shift + p] = RST(K - 1)
<1>1. file \in Damages
  BY DEF TypeOK
<1>2. /\ file.keep \in 0 .. Len(Encoded) /\ file.resume \in 1 .. Len(Encoded) + 1
      /\ Len(file.extra) \in Nat
      /\ Len(items) = file.keep + Len(file.extra) + Len(Encoded) + 1 - file.resume
      /\ \A i \in file.resume .. Len(Encoded) :
           items[file.keep + Len(file.extra) + i + 1 - file.resume] = Encoded[i]
  BY <1>1, Pieces DEF items
<1>3. /\ Len(Encoded) \in Nat /\ Len(Encoded) = Offset(Intervals) + 4
      /\ Offset(K) \in Int /\ Offset(Intervals) \in Int
  BY ScanIs, Offsets, Sizes
<1>4. Shift \in Int /\ Shift + p = file.keep + Len(file.extra) + p + 1 - file.resume
  <2> DEFINE k == file.keep
             l == Len(file.extra)
             r == file.resume
  <2>1. k \in Int /\ l \in Int /\ r \in Int
    BY <1>2, <1>3
  <2>2. Shift = k + l + 1 - r
    BY DEF Shift
  <2> HIDE DEF k, l, r
  <2>3. Shift \in Int /\ Shift + p = k + l + p + 1 - r
    BY <2>1, <2>2
  <2> QED
    BY <2>3 DEF k, l, r
<1>5. p <= Len(Encoded) => Shift + p \in 1 .. Len(items) /\ items[Shift + p] = Encoded[p]
  <2>1. PICK n \in Nat : n = Len(Encoded)
    BY <1>3
  <2>2. PICK l \in Nat : l = Len(file.extra)
    BY <1>2
  <2>3. PICK k \in 0 .. n : k = file.keep
    BY <1>2, <2>1
  <2>4. PICK r \in 1 .. n + 1 : r = file.resume
    BY <1>2, <2>1
  <2>5. /\ Len(items) = k + l + n + 1 - r /\ Shift + p = k + l + p + 1 - r
        /\ \A i \in r .. n : items[k + l + i + 1 - r] = Encoded[i]
    BY <1>2, <1>4, <2>1, <2>2, <2>3, <2>4
  <2>6. p <= n => items[k + l + p + 1 - r] = Encoded[p]
    BY <2>4, <2>5
  <2>7. r <= p
    BY <2>4
  <2>8. PICK q \in Int : q = Shift + p
    BY <1>4
  <2>9. q = k + l + p + 1 - r /\ Len(items) = k + l + n + 1 - r
    BY <2>5, <2>8
  <2>10. p <= n => q \in 1 .. Len(items)
    BY <2>7, <2>9
  <2> QED
    BY <2>1, <2>5, <2>6, <2>8, <2>10
<1>6. Offset(K) + Period <= Offset(Intervals)
  BY Offsets, Sizes
<1>7. ASSUME Offset(K) < p, p < Offset(K) + Period
      PROVE  p <= Len(Encoded) /\ Encoded[p] = MCU(First(K) + (p - 1 - Offset(K)))
  <2>1. p - Offset(K) \in 1 .. Interval
    BY <1>3, <1>7, Sizes
  <2>2. PICK j \in 1 .. Interval : j = p - Offset(K)
    BY <2>1
  <2>3. Encoded[K * Period + j] = MCU(K * Interval + j - 1)
    BY Written
  <2>4. K * Period + j = p /\ K * Interval + j - 1 = First(K) + (p - 1 - Offset(K))
    BY <1>3, <2>2, Offsets, Sizes DEF Offset, First
  <2>5. p <= Len(Encoded)
    <3>1. Period \in Int
      BY Sizes
    <3> QED
      BY <1>3, <1>6, <1>7, <3>1
  <2> QED
    BY <2>3, <2>4, <2>5, Zenon
<1>8. ASSUME p = Offset(K), K # 0 PROVE p <= Len(Encoded) /\ Encoded[p] = RST(K - 1)
  <2>1. K \in 1 .. Intervals - 1
    BY <1>8, Sizes
  <2> QED
    BY <1>3, <1>6, <1>8, <2>1, Written, Sizes DEF Offset
<1> QED
  BY <1>5, <1>7, <1>8

LEMMA FileRange ==
  ASSUME TypeOK
  PROVE  /\ file.keep \in Nat /\ file.resume \in Nat \ {0} /\ Shift \in Int
         /\ file.extra \in Seq(Items) /\ Len(file.extra) \in Nat
         /\ file.keep + Len(file.extra) + 1 = Shift + file.resume
         /\ file.keep <= Len(items) /\ Len(items) = Offset(Intervals) + 4 + Shift
         /\ \A i \in 1 .. Len(file.extra) : items[file.keep + i] = file.extra[i]
<1> DEFINE k == file.keep
           l == Len(file.extra)
           r == file.resume
           n == Len(Encoded)
<1>1. file \in Damages
  BY DEF TypeOK
<1>2. n \in Nat /\ n = Offset(Intervals) + 4 /\ Offset(Intervals) \in Int
  BY ScanIs, Offsets, Sizes
<1>3. /\ k \in 0 .. n /\ r \in 1 .. n + 1 /\ l \in Nat /\ file.extra \in Seq(Items)
      /\ Len(items) = k + l + n + 1 - r
      /\ \A i \in 1 .. Len(file.extra) : items[file.keep + i] = file.extra[i]
  BY <1>1, <1>2, Pieces DEF items
<1>4. Shift = k + l + 1 - r
  BY DEF Shift
<1>5. /\ k \in 0 .. n /\ r \in 1 .. n + 1 /\ l \in Nat /\ Len(items) = k + l + n + 1 - r
  BY <1>3
<1> HIDE DEF k, l, r, n
<1>6. PICK o \in Int : o = Offset(Intervals)
  BY <1>2
<1>7. k \in Nat /\ r \in Nat \ {0} /\ n \in Int /\ l \in Int
  BY <1>2, <1>5
<1>8. Shift \in Int /\ k + l + 1 = Shift + r
  BY <1>4, <1>7
<1>9. k <= Len(items)
  BY <1>5, <1>7
<1>10. Len(items) = Offset(Intervals) + 4 + Shift
  BY <1>2, <1>4, <1>5, <1>6, <1>7
<1> QED
  BY <1>3, <1>7, <1>8, <1>9, <1>10 DEF k, l, r

LEMMA AfterDamageIs ==
  ASSUME TypeOK
  PROVE  Shift \in Int /\ file.resume \in Int /\ Shift + file.resume >= 1
<1>1. PICK k \in Nat : k = file.keep
  BY FileRange
<1>2. PICK l \in Nat : l = Len(file.extra)
  BY FileRange
<1>3. PICK r \in Nat : r = file.resume
  BY FileRange
<1>4. PICK h \in Int : h = Shift
  BY FileRange
<1>5. k + l + 1 = h + r
  BY <1>1, <1>2, <1>3, <1>4, FileRange
<1>6. h + r >= 1
  BY <1>5
<1> QED
  BY <1>3, <1>4, <1>6

-----------------------------------------------------------------------------
(* The next marker. *)

LEMMA NextMarker ==
  ASSUME TypeOK, NEW p \in Nat \ {0}, NEW q \in p .. Len(items) + 1, ~IsData(q),
         \A x \in p .. q - 1 : IsData(x)
  PROVE  next_marker(p) = {q}
<1>1. q \in next_marker(p)
  BY DEF next_marker
<1>2. ASSUME NEW r \in next_marker(p) PROVE r = q
  <2>1. r \in Int /\ q \in Int /\ p <= r /\ ~IsData(r) /\ \A x \in p .. r - 1 : IsData(x)
    BY FileItems DEF next_marker
  <2>2. ~(r < q)
    BY <2>1
  <2>3. ~(q < r)
    BY <2>1
  <2> QED
    BY <2>1, <2>2, <2>3
<1> QED
  BY <1>1, <1>2

LEMMA AheadIs ==
  ASSUME TypeOK, NEW q \in Nat \ {0}, Ahead(q)
  PROVE  /\ q \in 1 .. Len(items) /\ items[q] \in Items /\ items[q] # NoMarker
         /\ items[q].kind # "mcu" /\ Marker(q) = items[q] /\ After(q) = q + 1
         /\ unread_marker = NoMarker => next_marker(pos) = {q} /\ pos <= q
         /\ unread_marker # NoMarker => unread_marker = items[q] /\ pos = q + 1
<1>1. q <= Len(items) /\ ~IsData(q)
  BY DEF Ahead
<1>2. CASE unread_marker = NoMarker
  <2>1. q \in next_marker(pos) /\ pos \in Nat \ {0}
    BY <1>2, FileItems DEF Ahead, TypeOK
  <2>2. next_marker(pos) = {q} /\ pos <= q
    BY <2>1, <1>1, NextMarker DEF next_marker
  <2>3. q \in 1 .. Len(items)
    BY <1>1, <2>1, <2>2
  <2> QED
    BY <1>1, <1>2, <2>2, <2>3, FileItems DEF IsData, Marker, After, Items, NoMarker
<1>3. CASE unread_marker # NoMarker
  <2>1. unread_marker = items[q] /\ pos = q + 1
    BY <1>3 DEF Ahead
  <2>2. q \in 1 .. Len(items)
    BY <1>1, <2>1, FileItems DEF TypeOK
  <2> QED
    BY <1>1, <1>3, <2>1, <2>2, FileItems DEF IsData, Marker, After, Items, NoMarker
<1> QED
  BY <1>2, <1>3

LEMMA AheadRead ==
  ASSUME TypeOK, NEW q \in Nat \ {0}, Ahead(q), read_restart_marker
  PROVE  Found(items[q], q + 1)
<1>1. CASE unread_marker = NoMarker
  BY <1>1, AheadIs DEF read_restart_marker
<1>2. CASE unread_marker # NoMarker
  BY <1>2, AheadIs DEF read_restart_marker
<1> QED
  BY <1>1, <1>2

\* Whatever the decoder makes of the data, it does not pass the marker.
LEMMA AheadStays ==
  ASSUME TypeOK, NEW q \in Nat \ {0}, Ahead(q), UNCHANGED file,
         LeaveZeros \/ DecodeMCU \/ DecodeGarbage \/ HitMarker
  PROVE  Ahead(q)'
<1>0. items' = items
  BY DEF items
<1>1. q \in 1 .. Len(items) /\ ~IsData(q) /\ items[q] # NoMarker /\ pos \in Nat \ {0}
  BY AheadIs, FileItems DEF Ahead, TypeOK
<1>2. ASSUME unread_marker' = items[q], pos' = q + 1 PROVE Ahead(q)'
  BY <1>0, <1>1, <1>2 DEF Ahead, IsData
<1>3. ASSUME UNCHANGED <<unread_marker, pos>> PROVE Ahead(q)'
  BY <1>0, <1>3 DEF Ahead, IsData, next_marker
<1>4. ASSUME unread_marker = NoMarker, NEW p \in pos .. q, ReadTo(p) PROVE Ahead(q)'
  <2>1. next_marker(pos) = {q} /\ \A x \in pos .. q - 1 : IsData(x)
    BY <1>4, AheadIs DEF next_marker
  <2>2. CASE pos' = p /\ unread_marker' = NoMarker
    <3>1. \A x \in pos' .. q - 1 : IsData(x)
      BY <1>1, <1>4, <2>1, <2>2
    <3>2. q \in pos' .. Len(items) + 1
      BY <1>1, <1>4, <2>2, FileItems
    <3>3. q \in next_marker(pos)'
      BY <1>0, <1>1, <3>1, <3>2 DEF next_marker, IsData
    <3> QED
      BY <1>0, <1>1, <2>2, <3>3 DEF Ahead, IsData
  <2>3. CASE ~IsData(p) /\ pos' = After(p) /\ unread_marker' = Marker(p)
    <3>1. p = q
      BY <1>1, <1>4, <2>1, <2>3
    <3> QED
      BY <1>2, <2>3, <3>1, AheadIs
  <2> QED
    BY <1>4, <2>2, <2>3 DEF ReadTo
<1>5. CASE LeaveZeros
  BY <1>3, <1>5 DEF LeaveZeros
<1>6. CASE DecodeMCU
  <2>1. unread_marker = NoMarker /\ IsData(pos) /\ ReadTo(pos + 1)
    BY <1>6 DEF DecodeMCU
  <2>2. pos <= q /\ pos # q
    BY <1>1, <2>1, AheadIs
  <2>3. pos + 1 \in pos .. q
    BY <1>1, <2>2
  <2> QED
    BY <1>4, <2>1, <2>3
<1>7. CASE DecodeGarbage
  <2>1. unread_marker = NoMarker
    BY <1>7 DEF DecodeGarbage
  <2>2. PICK p \in pos .. q : ReadTo(p)
    BY <1>7, <2>1, AheadIs DEF DecodeGarbage
  <2> QED
    BY <1>4, <2>1, <2>2
<1>8. CASE HitMarker
  <2>1. CASE UNCHANGED <<pos, unread_marker>>
    BY <1>3, <2>1
  <2>2. CASE unread_marker = NoMarker /\ Advance
    BY <1>2, <2>2, AheadIs DEF Advance
  <2> QED
    BY <1>8, <2>1, <2>2 DEF HitMarker
<1> QED
  BY <1>5, <1>6, <1>7, <1>8

-----------------------------------------------------------------------------
(* Resynchronisation. *)

LEMMA NotNoMarker == NoMarker \notin Items
BY DEF NoMarker, Items

LEMMA ResyncStep == TypeOK /\ ResyncWired /\ [Next]_vars => ResyncWired'
<1> SUFFICES ASSUME TypeOK, ResyncWired, [Next]_vars PROVE ResyncWired'
  OBVIOUS
<1>1. CASE LeaveZeros
  BY <1>1 DEF LeaveZeros, Decoding, Delivers, ResyncWired
<1>2. CASE DecodeMCU
  BY <1>2 DEF DecodeMCU, Decoding, Delivers, ResyncWired
<1>3. CASE DecodeGarbage
  BY <1>3 DEF DecodeGarbage, Decoding, Delivers, ResyncWired
<1>4. CASE HitMarker
  BY <1>4 DEF HitMarker, Decoding, Delivers, ResyncWired
<1>5. CASE read_restart_marker
  <2>1. restarts_to_go = 0 /\ mcu < Total /\ mcu' = mcu
    BY <1>5 DEF read_restart_marker
  <2>2. ASSUME NEW m \in Items, NEW p, Found(m, p) PROVE ResyncWired'
    BY <2>1, <2>2, NotNoMarker DEF Found, Restart, ResyncWired
  <2>3. CASE unread_marker = NoMarker
    <3>1. PICK q \in next_marker(pos) : Found(Marker(q), After(q))
      BY <1>5, <2>3 DEF read_restart_marker
    <3>2. q \in 1 .. Len(items) + 1 /\ ~IsData(q)
      BY FileItems DEF next_marker, TypeOK
    <3> QED
      BY <2>2, <3>1, <3>2, MarkersAreMarkers
  <2>4. CASE unread_marker # NoMarker
    BY <1>5, <2>2, <2>4 DEF read_restart_marker, TypeOK
  <2> QED
    BY <2>3, <2>4
<1>6. CASE jpeg_resync_to_restart
  <2>1. restarts_to_go = 0 /\ mcu < Total /\ mcu' = mcu
    BY <1>6 DEF jpeg_resync_to_restart, ResyncWired
  <2>2. CASE Advance /\ UNCHANGED <<restarts_to_go, resync>>
    BY <2>1, <2>2, Advances, NotNoMarker DEF ResyncWired
  <2>3. CASE \E u, p : Restart(u, p)
    BY <2>3 DEF Restart, ResyncWired
  <2> QED
    BY <1>6, <2>2, <2>3 DEF jpeg_resync_to_restart, Action
<1>7. CASE UNCHANGED vars
  BY <1>7 DEF vars, ResyncWired
<1> QED
  BY <1>1, <1>2, <1>3, <1>4, <1>5, <1>6, <1>7 DEF Next

-----------------------------------------------------------------------------
(* The decoder on its course. *)

LEMMA FileStays ==
  ASSUME UNCHANGED file
  PROVE  /\ items' = items /\ Shift' = Shift /\ Restored' = Restored
         /\ Recoverable' <=> Recoverable
         /\ \A k : Promised(k)' <=> Promised(k)
         /\ Stray(1)' <=> Stray(1)
<1>1. items' = items
  BY DEF items
<1>2. Shift' = Shift
  BY DEF Shift
<1>3. (Cut' <=> Cut) /\ (Repeat' <=> Repeat) /\ (Marred' <=> Marred)
  BY DEF Cut, Repeat, Marred
<1>4. \A lead : Stray(lead)' <=> Stray(lead)
  BY DEF Stray
<1>5. Restored' = Restored
  BY <1>3 DEF Restored
<1>6. Recoverable' <=> Recoverable
  BY <1>3, <1>4 DEF Recoverable
<1>7. \A k : Promised(k)' <=> Promised(k)
  BY <1>5 DEF Promised
<1> QED
  BY <1>1, <1>2, <1>4, <1>5, <1>6, <1>7

LEMMA IntervalIs ==
  ASSUME TypeOK, NEW K \in 0 .. Intervals - 1, InInterval(K)
  PROVE  /\ First(K) \in Int /\ mcu \in Nat /\ restarts_to_go \in 0 .. Interval
         /\ First(K + 1) = First(K) + Interval
         /\ mcu = First(K) + Interval - restarts_to_go
         /\ mcu < Total /\ restarts_to_go = 0 => K + 1 \in 0 .. Intervals - 1
<1>1. First(K) \in Int /\ First(K + 1) = First(K) + Interval
  BY Offsets
<1>2. restarts_to_go \in 0 .. Interval /\ mcu \in Nat /\ Interval \in Nat
  BY TotalIsNat, Sizes DEF TypeOK
<1>3. mcu = First(K) + Interval - restarts_to_go
  BY <1>1, <1>2 DEF InInterval
<1>4. ASSUME mcu < Total, restarts_to_go = 0 PROVE K + 1 \in 0 .. Intervals - 1
  <2>1. First(K + 1) < First(Intervals)
    BY <1>1, <1>2, <1>3, <1>4, Offsets
  <2>2. K + 1 = Intervals \/ K + 1 \in 0 .. Intervals - 1
    BY Sizes
  <2>3. First(Intervals) \in Int
    BY Offsets, Sizes
  <2> QED
    BY <2>1, <2>2, <2>3
<1> QED
  BY <1>1, <1>2, <1>3, <1>4

LEMMA IntervalGoesOn ==
  ASSUME TypeOK, NEW K \in 0 .. Intervals - 1, InInterval(K), NEW shows, Delivers(shows)
  PROVE  InInterval(K)'
<1>1. mcu' + restarts_to_go' = mcu + restarts_to_go
  BY IntervalIs DEF Delivers
<1> QED
  BY <1>1 DEF Delivers, InInterval

LEMMA IntervalEnds ==
  ASSUME TypeOK, NEW K \in 0 .. Intervals - 1, InInterval(K), restarts_to_go = 0,
         NEW u, NEW p, Restart(u, p), mcu' = mcu
  PROVE  InInterval(K + 1)'
<1>1. mcu = First(K + 1) /\ First(K + 1) \in Int /\ First(K + 1 + 1) = First(K + 1) + Interval
  <2>1. K + 1 \in Int
    BY Sizes
  <2>2. First(K + 1) \in Int /\ First((K + 1) + 1) = First(K + 1) + Interval
    BY <2>1, Offsets, Zenon
  <2>3. mcu = First(K) + Interval /\ First(K + 1) = First(K) + Interval
    BY IntervalIs, Sizes
  <2> QED
    BY <2>2, <2>3
<1>2. ((K % 8) + 1) % 8 = (K + 1) % 8
  OBVIOUS
<1>3. next_restart_num' = (K + 1) % 8 /\ restarts_to_go' = Interval
  BY <1>2 DEF Restart, NextNumber, InInterval
<1> QED
  BY <1>1, <1>3 DEF InInterval

\* An MCU that is delivered breaks no promise if its interval is not promised
\* or it is the right one.
LEMMA PromiseStays ==
  ASSUME TypeOK, PromiseKept, NEW K \in 0 .. Intervals - 1, InInterval(K), Decoding,
         UNCHANGED file, NEW shows, Delivers(shows), Promised(K) => shows = mcu
  PROVE  PromiseKept'
<1> SUFFICES ASSUME NEW k \in 0 .. Intervals - 1, Promised(k),
                    NEW m \in First(k) .. First(k + 1) - 1, m < mcu'
             PROVE  image'[m] = m
  BY FileStays DEF PromiseKept
<1>1. /\ First(K) \in Int /\ mcu = First(K) + Interval - restarts_to_go
      /\ restarts_to_go \in 1 .. Interval /\ mcu \in 0 .. Total - 1
  BY IntervalIs, TotalIsNat DEF Decoding
<1>2. mcu' = mcu + 1 /\ image' = [image EXCEPT ![mcu] = shows]
  BY DEF Delivers
<1>3. First(k) \in Int /\ First(k + 1) = First(k) + Interval
  BY Offsets
<1>4. m \in Int
  BY <1>3
<1>7. k \in Int /\ K \in Int
  BY Sizes
<1>5. CASE m = mcu
  <2>1. ~(k < K)
    <3>1. k < K <=> First(k) + Interval <= First(K)
      BY <1>7, Offsets, Zenon
    <3> QED
      BY <1>1, <1>3, <1>5, <3>1, Sizes
  <2>2. ~(K < k)
    <3>1. K < k <=> First(K) + Interval <= First(k)
      BY <1>7, Offsets, Zenon
    <3> QED
      BY <1>1, <1>3, <1>5, <3>1, Sizes
  <2>3. k = K
    BY <2>1, <2>2
  <2> QED
    BY <1>1, <1>2, <1>5, <2>3 DEF TypeOK
<1>6. CASE m # mcu
  <2>1. m < mcu
    BY <1>1, <1>2, <1>4, <1>6
  <2>2. image[m] = m
    BY <2>1 DEF PromiseKept
  <2> QED
    BY <1>1, <1>2, <1>6, <2>1, <2>2 DEF TypeOK
<1> QED
  BY <1>5, <1>6

\* On its course the decoder delivers the right MCU ...
LEMMA CourseDelivers ==
  ASSUME TypeOK, NEW K \in 0 .. Intervals - 1, InInterval(K), NEW o \in Int, OnCourse(o),
         LeaveZeros \/ DecodeMCU \/ DecodeGarbage \/ HitMarker,
         pos \in 1 .. Len(items), items[pos] = MCU(First(K) + (pos - 1 - o))
  PROVE  /\ ~resync /\ ~insufficient_data /\ Decoding /\ restarts_to_go > 0
         /\ unread_marker = NoMarker /\ pos = o + Period - restarts_to_go
         /\ DecodeMCU /\ mcu = First(K) + (pos - 1 - o)
         /\ Delivers(mcu) /\ ReadTo(pos + 1) /\ UNCHANGED insufficient_data
<1>1. /\ ~resync /\ ~insufficient_data /\ Decoding /\ restarts_to_go > 0
      /\ insync /\ unread_marker = NoMarker /\ pos = o + Period - restarts_to_go
  BY DEF OnCourse, LeaveZeros, DecodeMCU, DecodeGarbage, HitMarker, Decoding
<1>2. IsData(pos)
  BY FileItems DEF IsData, MCU
<1>3. DecodeMCU
  BY <1>1, <1>2 DEF LeaveZeros, DecodeGarbage, HitMarker
<1>4. mcu = First(K) + (pos - 1 - o)
  <2>1. pos \in Int /\ Interval \in Int
    BY FileItems, Sizes
  <2>2. /\ First(K) \in Int /\ restarts_to_go \in Int
        /\ mcu = First(K) + Interval - restarts_to_go
    BY IntervalIs, <2>1
  <2>3. pos = o + Period - restarts_to_go
    BY <1>1
  <2> QED
    BY <2>1, <2>2, <2>3, Sizes
<1>5. Delivers(mcu) /\ ReadTo(pos + 1) /\ UNCHANGED insufficient_data
  BY <1>3, <1>4 DEF DecodeMCU, MCU
<1> QED
  BY <1>1, <1>3, <1>4, <1>5

\* ... and stays on its course, if the next item is there as well.
LEMMA CourseGoesOn ==
  ASSUME TypeOK, NEW K \in 0 .. Intervals - 1, InInterval(K), NEW o \in Int, OnCourse(o),
         LeaveZeros \/ DecodeMCU \/ DecodeGarbage \/ HitMarker,
         pos \in 1 .. Len(items) - 1, items[pos] = MCU(First(K) + (pos - 1 - o)),
         restarts_to_go > 1 => items[pos + 1] = MCU(First(K) + (pos - o))
  PROVE  OnCourse(o)'
<1>1. /\ ~resync /\ ~insufficient_data /\ Decoding /\ restarts_to_go > 0
      /\ unread_marker = NoMarker /\ pos = o + Period - restarts_to_go
      /\ DecodeMCU /\ mcu = First(K) + (pos - 1 - o)
      /\ Delivers(mcu) /\ ReadTo(pos + 1) /\ UNCHANGED insufficient_data
  <2>1. pos \in 1 .. Len(items)
    BY FileItems
  <2> QED
    BY <2>1, CourseDelivers
<1>3. DecodeMCU
  BY <1>1
<1>4. mcu = First(K) + (pos - 1 - o)
  BY <1>1
<1>5. Delivers(mcu) /\ ReadTo(pos + 1) /\ UNCHANGED insufficient_data
  BY <1>1
<1>6. UNCHANGED <<file, resync>> /\ restarts_to_go' = restarts_to_go - 1 /\ items' = items
  BY <1>5 DEF Delivers, items
<1>7. ~resync' /\ ~insufficient_data'
  BY <1>1, <1>5, <1>6
<1>8. /\ restarts_to_go \in 1 .. Interval /\ Interval \in Nat /\ Period = Interval + 1
      /\ pos \in Int /\ pos = o + Period - restarts_to_go
      /\ restarts_to_go' = restarts_to_go - 1
  <2>1. restarts_to_go > 0 /\ pos = o + Period - restarts_to_go
    BY <1>1
  <2>2. restarts_to_go \in 0 .. Interval
    BY IntervalIs
  <2> QED
    BY <1>6, <2>1, <2>2, Sizes
<1>11. ASSUME restarts_to_go' > 0 => insync', unread_marker' = NoMarker,
              pos' = o + Period - restarts_to_go'
       PROVE  OnCourse(o)'
  BY <1>7, <1>11, Zenon DEF OnCourse
<1>12. ASSUME ~(restarts_to_go' > 0), unread_marker' # NoMarker,
              pos' = o + Period + 1, unread_marker' = items'[pos' - 1]
       PROVE  OnCourse(o)'
  BY <1>7, <1>12, Zenon DEF OnCourse
<1>9. ASSUME restarts_to_go > 1 PROVE OnCourse(o)'
  <2>1. items[pos + 1] = MCU(mcu + 1)
    BY <1>4, <1>9, IntervalIs
  <2>2. IsData(pos + 1)
    BY <2>1, FileItems DEF IsData, MCU
  <2>3. pos' = pos + 1 /\ unread_marker' = NoMarker
    BY <1>5, <2>2 DEF ReadTo
  <2>4. insync'
    <3>1. items[pos + 1].n = items[pos].n + 1
      BY <1>4, <2>1 DEF MCU
    <3>2. insync' = (IsData(pos + 1) => items[pos + 1].n = items[pos].n + 1)
      BY <1>3 DEF DecodeMCU
    <3> QED
      BY <3>1, <3>2, Zenon
  <2>5. pos' = o + Period - restarts_to_go'
    BY <1>8, <2>3
  <2> QED
    BY <1>11, <2>3, <2>4, <2>5, Zenon
<1>10. ASSUME ~(restarts_to_go > 1) PROVE OnCourse(o)'
  <2>1. restarts_to_go' = 0 /\ ~(restarts_to_go' > 0) /\ pos + 1 = o + Period
    BY <1>8, <1>10
  <2>2. CASE pos' = pos + 1 /\ unread_marker' = NoMarker
    <3>1. pos' = o + Period - restarts_to_go'
      BY <1>8, <2>1, <2>2
    <3> QED
      BY <1>11, <2>1, <2>2, <3>1, Zenon
  <2>3. CASE ~IsData(pos + 1) /\ pos' = After(pos + 1) /\ unread_marker' = Marker(pos + 1)
    <3>1. pos' = pos + 2 /\ unread_marker' = items[pos + 1] /\ items[pos + 1] \in Items
      BY <2>3, FileItems DEF After, Marker
    <3>2. pos' = o + Period + 1 /\ pos' - 1 = pos + 1
      BY <1>8, <2>1, <3>1, FileItems
    <3>3. unread_marker' # NoMarker /\ unread_marker' = items'[pos' - 1]
      BY <1>6, <3>1, <3>2, NotNoMarker
    <3> QED
      BY <1>12, <2>1, <3>2, <3>3, Zenon
  <2> QED
    BY <1>5, <2>2, <2>3 DEF ReadTo
<1> QED
  BY <1>9, <1>10

\* At the end of the interval the marker it expects is the next one.
LEMMA CourseAhead ==
  ASSUME TypeOK, NEW o \in Int, OnCourse(o), restarts_to_go = 0,
         o + Period \in 1 .. Len(items), ~IsData(o + Period)
  PROVE  Ahead(o + Period)
<1>1. CASE unread_marker = NoMarker
  <2>1. pos = o + Period
    BY <1>1, Sizes DEF OnCourse
  <2>2. next_marker(pos) = {o + Period}
    BY <2>1, FileItems, NextMarker
  <2> QED
    BY <1>1, <2>2 DEF Ahead
<1>2. CASE unread_marker # NoMarker
  <2>1. pos = o + Period + 1 /\ pos - 1 = o + Period /\ unread_marker = items[pos - 1]
    BY <1>2, Sizes DEF OnCourse
  <2> QED
    BY <1>2, <2>1 DEF Ahead
<1> QED
  BY <1>1, <1>2

\* A decoder that restarts before the first MCU of an interval is on course.
LEMMA CourseBegins ==
  ASSUME TypeOK, UNCHANGED file, NEW K \in 0 .. Intervals - 1, NEW o \in Int,
         Restart(NoMarker, o + 1), o + 1 \in 1 .. Len(items), items[o + 1] = MCU(First(K))
  PROVE  OnCourse(o)' /\ unread_marker' = NoMarker /\ pos' = o + 1
<1>1. First(K) % Interval = 0
  <2>1. K \in Int /\ Interval \in Nat \ {0}
    BY Sizes
  <2>2. ASSUME NEW p \in Nat \ {0}, NEW k \in Int PROVE (k * p) % p = 0
    OBVIOUS
  <2> QED
    BY <2>1, <2>2 DEF First
<1>2. InOrder(o + 1)
  BY <1>1 DEF InOrder, MCU
<1>3. /\ pos' = o + 1 /\ unread_marker' = NoMarker /\ restarts_to_go' = Interval
      /\ ~insufficient_data' /\ ~resync' /\ insync'
  BY <1>2 DEF Restart
<1>4. pos' = o + Period - restarts_to_go'
  BY <1>3, Sizes
<1> QED
  BY <1>3, <1>4 DEF OnCourse

-----------------------------------------------------------------------------
(* Where the decoder finds itself after the damage. *)

LEMMA DueNext ==
  ASSUME NEW i \in Nat
  PROVE  /\ Due(i) \in Nat /\ Due(i + 1) \in Nat
         /\ Due(i) <= Due(i + 1) /\ Due(i + 1) <= Due(i) + 1
         /\ Due(i) < Due(i + 1) => i + 1 = Offset(Due(i) + 1)
<1>1. PICK d \in Nat : d = Due(i)
  BY DueAndOffset
<1>2. PICK e \in Nat : e = Due(i + 1)
  BY DueAndOffset
<1>3. Offset(d) <= i /\ i < Offset(d) + Period
  BY <1>1, DueAndOffset
<1>4. /\ d <= e <=> Offset(d) <= i + 1
      /\ d + 1 <= e <=> Offset(d + 1) <= i + 1
      /\ d + 2 <= e <=> Offset(d + 2) <= i + 1
  BY <1>1, <1>2, DueAndOffset
<1>5. /\ Offset(d) \in Int /\ Offset(d + 1) = Offset(d) + Period
      /\ Offset(d + 2) = Offset(d) + Period + Period
  <2>1. d \in Int /\ d + 1 \in Int /\ (d + 1) + 1 = d + 2
    OBVIOUS
  <2>2. Offset(d) \in Int /\ Offset(d + 1) = Offset(d) + Period
    BY <2>1, Offsets, Zenon
  <2>3. Offset((d + 1) + 1) = Offset(d + 1) + Period
    BY <2>1, Offsets, Zenon
  <2> QED
    BY <2>1, <2>2, <2>3
<1>6. d <= e /\ e <= d + 1 /\ (d < e => i + 1 = Offset(d + 1))
  BY <1>3, <1>4, <1>5, Sizes
<1> QED
  BY <1>1, <1>2, <1>6

LEMMA MarkersAmong ==
  ASSUME NEW i \in Nat
  PROVE  /\ i < Offset(Intervals) => RSTs(i) = Due(i) /\ Due(i) \in 0 .. Intervals - 1
         /\ i >= Offset(Intervals) => RSTs(i) = Intervals - 1
         /\ RSTs(i) \in 0 .. Intervals - 1
<1>1. /\ Offset(Intervals) \in Nat \ {0} /\ Offset(Intervals) = Intervals * Period
      /\ Offset(Intervals) - 1 \in Nat
  <2>1. Offset(0) + Period <= Offset(Intervals) /\ Offset(0) = 0
    BY Offsets, Sizes
  <2> QED
    BY <2>1, Offsets, Sizes
<1>2. ASSUME i < Offset(Intervals)
      PROVE  RSTs(i) = Due(i) /\ Due(i) \in 0 .. Intervals - 1
  <2>1. Least(i, Intervals * Period - 1) = i
    BY <1>1, <1>2 DEF Least
  <2>2. ~(Intervals <= Due(i)) /\ Due(i) \in Nat
    BY <1>1, <1>2, DueAndOffset, Sizes
  <2> QED
    BY <2>1, <2>2, Sizes DEF RSTs
<1>3. ASSUME i >= Offset(Intervals) PROVE RSTs(i) = Intervals - 1
  <2>1. PICK e \in Nat : e = Offset(Intervals) - 1
    BY <1>1
  <2>2. Least(i, Intervals * Period - 1) = e
    BY <1>1, <1>3, <2>1 DEF Least
  <2>3. Due(e) = Intervals - 1
    <3>1. Intervals - 1 \in Nat /\ (Intervals - 1) + 1 = Intervals
      BY Sizes
    <3>2. Offset(Intervals) = Offset(Intervals - 1) + Period /\ Offset(Intervals - 1) \in Int
      BY <3>1, Offsets
    <3>3. Offset(Intervals - 1) <= e /\ e < Offset(Intervals - 1) + Period
      BY <1>1, <2>1, <3>2, Sizes
    <3> QED
      BY <3>1, <3>3, DueAndOffset
  <2> QED
    BY <2>2, <2>3 DEF RSTs
<1> QED
  BY <1>1, <1>2, <1>3, Sizes

\* From an item of the interval T - 1 that is behind the damage, the next
\* marker is the one after that interval.
LEMMA MarkerAfter ==
  ASSUME TypeOK, NEW T \in 1 .. Intervals - 1, NEW r \in Int, r >= file.resume,
         Offset(T) - Period < r, r <= Offset(T), NEW p, p = Shift + r
  PROVE  /\ p \in Nat \ {0} /\ next_marker(p) = {Shift + Offset(T)}
         /\ Shift + Offset(T) \in 1 .. Len(items) /\ ~IsData(Shift + Offset(T))
         /\ items[Shift + Offset(T)] = RST(T - 1) /\ Offset(T) >= file.resume
         /\ Shift + Offset(T) \in Nat \ {0} /\ Offset(T) \in Int
<1>1. /\ T \in 0 .. Intervals - 1 /\ T - 1 \in 0 .. Intervals - 1 /\ T # 0
      /\ (T - 1) + 1 = T /\ T - 1 \in Int
  BY Sizes
<1>2. /\ Offset(T) \in Int /\ Offset(T - 1) \in Int /\ Offset(T) = Offset(T - 1) + Period
  BY <1>1, Offsets
<1>3. /\ Shift \in Int /\ file.resume \in Int /\ Shift + file.resume >= 1 /\ Period \in Nat \ {0}
  BY AfterDamageIs, Sizes
<1>4. Offset(T) >= file.resume
  BY <1>2, <1>3
<1>5. Shift + Offset(T) \in 1 .. Len(items) /\ items[Shift + Offset(T)] = RST(T - 1)
  BY <1>1, <1>2, <1>4, ItemsAfter
<1>6. ~IsData(Shift + Offset(T))
  BY <1>5 DEF IsData, RST
<1>7. p \in Nat \ {0} /\ Shift + Offset(T) \in p .. Len(items) + 1
  <2>1. PICK h \in Int : h = Shift
    BY <1>3
  <2>2. PICK c \in Int : c = Offset(T)
    BY <1>2
  <2>3. PICK l \in Nat : l = Len(items)
    BY FileItems
  <2>4. p = h + r /\ r <= c /\ h + c \in 1 .. l
    BY <1>5, <2>1, <2>2, <2>3
  <2>5. h + r >= 1
    BY <1>3, <2>1
  <2>6. p \in Nat \ {0} /\ h + c \in p .. l + 1
    BY <2>4, <2>5
  <2> QED
    BY <2>1, <2>2, <2>3, <2>6
<1>8. ASSUME NEW x \in p .. (Shift + Offset(T)) - 1 PROVE IsData(x)
  <2>1. PICK y \in Int : x = Shift + y
    <3>1. x - Shift \in Int /\ x = Shift + (x - Shift)
      BY <1>3, <1>7
    <3> QED
      BY <3>1
  <2>2. y >= file.resume /\ Offset(T - 1) < y /\ y < Offset(T - 1) + Period
    <3>2. PICK t \in Int : t = Offset(T)
      BY <1>2
    <3>3. PICK s \in Int : s = Shift
      BY <1>3
    <3>1. p = s + r /\ x \in p .. (s + t) - 1 /\ x = s + y
      BY <2>1, <3>2, <3>3
    <3>4. s + r <= s + y /\ s + y <= s + t - 1
      BY <3>1
    <3>5. r <= y /\ y < t
      BY <3>4
    <3>6. Offset(T - 1) = t - Period /\ t - Period < r
      BY <1>2, <1>3, <3>2
    <3> QED
      BY <1>2, <1>3, <3>2, <3>5, <3>6
  <2>3. Shift + y \in 1 .. Len(items) /\ items[Shift + y].kind = "mcu"
    <3>1. /\ Shift + y \in 1 .. Len(items)
          /\ items[Shift + y] = MCU(First(T - 1) + (y - 1 - Offset(T - 1)))
      BY <1>1, <2>2, ItemsAfter
    <3> QED
      BY <3>1 DEF MCU
  <2> QED
    BY <2>1, <2>3, FileItems DEF IsData
<1>9. next_marker(p) = {Shift + Offset(T)}
  <2>1. PICK q \in p .. Len(items) + 1 : q = Shift + Offset(T)
    BY <1>7
  <2>2. ~IsData(q) /\ \A x \in p .. q - 1 : IsData(x)
    BY <1>6, <1>8, <2>1, Zenon
  <2> QED
    BY <1>7, <2>1, <2>2, NextMarker
<1>10. Shift + Offset(T) \in Nat \ {0}
  BY <1>5, FileItems
<1> QED
  BY <1>2, <1>4, <1>5, <1>6, <1>7, <1>9, <1>10, Zenon

\* A false marker takes no item away.
LEMMA FalseMarker ==
  ASSUME TypeOK, Marred \/ \E lead \in (-3 .. 4) \ {2} : Stray(lead)
  PROVE  /\ file.extra # <<>> /\ file.resume = file.keep + 1 /\ Shift = 1
         /\ file.keep + 1 \in 1 .. Len(items)
         /\ items[file.keep + 1] = file.extra[1]
         /\ ~IsData(file.keep + 1) /\ next_marker(file.keep + 1) = {file.keep + 1}
         /\ ~Cut /\ ~Repeat
         /\ Restored = Due(file.keep) + (IF Marred THEN 1 ELSE 3)
<1>1. PICK m \in Items : file.extra = <<m>> /\ m.kind # "mcu"
  <2>1. CASE Marred
    <3>1. Invalid \in Items /\ Invalid.kind # "mcu"
      BY DEF Invalid, Items
    <3> QED
      BY <2>1, <3>1 DEF Marred
  <2>2. ASSUME NEW lead \in (-3 .. 4) \ {2}, Stray(lead)
        PROVE  \E m \in Items : file.extra = <<m>> /\ m.kind # "mcu"
    <3>1. file.extra = <<RST(RSTs(file.keep) + lead)>>
      BY <2>2 DEF Stray
    <3>2. RSTs(file.keep) \in Int
      <4>1. PICK k \in Nat : k = file.keep
        BY FileRange
      <4> QED
        BY <4>1, MarkersAmong, Sizes
    <3>3. RST(RSTs(file.keep) + lead) \in Items /\ RST(RSTs(file.keep) + lead).kind # "mcu"
      BY <3>2 DEF RST, Items
    <3> QED
      BY <3>1, <3>3
  <2> QED
    BY <2>1, <2>2
<1>2. file.resume = file.keep + 1
  BY DEF Marred, Stray
<1>3. Len(file.extra) = 1 /\ file.extra[1] = m /\ file.extra # <<>>
  BY <1>1
<1>4. Shift = 1
  <2>1. PICK k \in Nat : k = file.keep
    BY FileRange
  <2>2. k + 1 + 1 = Shift + (k + 1) /\ Shift \in Int
    BY <1>2, <1>3, <2>1, FileRange
  <2> QED
    BY <2>2
<1>5. items[file.keep + 1] = m
  BY <1>3, FileRange
<1>6. file.keep + 1 \in 1 .. Len(items)
  <2>1. /\ Len(items) = Offset(Intervals) + 4 + Shift /\ Offset(Intervals) \in Int
        /\ file.keep \in Nat
    BY FileRange, Offsets, Sizes
  <2>2. file \in Damages
    BY DEF TypeOK
  <2>3. file.keep <= Len(Encoded) /\ Len(Encoded) = Offset(Intervals) + 4
    BY <2>2, Pieces, ScanIs, Offsets
  <2> QED
    BY <1>4, <2>1, <2>3
<1>7. ~IsData(file.keep + 1)
  BY <1>1, <1>5 DEF IsData
<1>8. next_marker(file.keep + 1) = {file.keep + 1}
  <2>1. PICK p \in Nat \ {0} : p = file.keep + 1
    BY FileRange
  <2>2. ~IsData(p) /\ p \in p .. Len(items) + 1
    BY <1>6, <1>7, <2>1, FileItems
  <2>3. next_marker(p) = {p}
    BY <2>2, NextMarker
  <2> QED
    BY <2>1, <2>3
<1>9. ~Cut /\ ~Repeat
  BY <1>3 DEF Cut, Repeat
<1>10. Restored = Due(file.keep) + (IF Marred THEN 1 ELSE 3)
  <2>1. file.resume - 1 = file.keep
    BY <1>2, FileRange
  <2> QED
    BY <1>9, <2>1 DEF Restored
<1> QED
  BY <1>2, <1>3, <1>4, <1>5, <1>6, <1>7, <1>8, <1>9, <1>10

\* The first marker behind the damage: the one after the interval T - 1, or
\* the false one.
Met(K, T) ==
  /\ next_marker(file.keep + 1) = {Shift + Offset(T)} /\ Offset(T) >= file.resume
  /\ T - 1 - K \in -2 .. 2 /\ (T <= Restored \/ T <= K + 1)
MetFalse ==
  /\ file.extra # <<>> /\ next_marker(file.keep + 1) = {file.keep + 1}
  /\ file.keep + 1 \in 1 .. Len(items) /\ ~IsData(file.keep + 1)

LEMMA CutEntry ==
  ASSUME TypeOK, Cut, NEW K \in 0 .. Intervals - 1, K = Due(file.keep)
  PROVE  /\ Restored > K
         /\ Over(K) \/ \E T \in 1 .. Intervals - 1 : Met(K, T)
<1>1. PICK k \in Nat : k = file.keep
  BY FileRange
<1>10. K = Due(k) /\ K \in Nat
  BY <1>1
<1>2. PICK r \in Nat : r + 1 = file.resume
  <2>1. file.resume - 1 \in Nat /\ (file.resume - 1) + 1 = file.resume
    BY FileRange
  <2> QED
    BY <2>1
<1>3. file.resume - 1 = r /\ k <= r /\ k + 1 = Shift + (r + 1)
  <2>1. Len(file.extra) = 0 /\ k < r + 1
    BY <1>1, <1>2 DEF Cut
  <2>2. k + Len(file.extra) + 1 = Shift + (r + 1)
    BY <1>1, <1>2, FileRange
  <2> QED
    BY <1>1, <1>2, <2>1, <2>2
<1>4. PICK T \in Nat : T = Due(r) + 1
  BY DueAndOffset
<1>5. Restored = T
  BY <1>3, <1>4 DEF Restored
<1>6. /\ Offset(T) \in Int /\ Offset(T) - Period <= r /\ r < Offset(T)
  <2>1. PICK d \in Nat : d = Due(r)
    BY DueAndOffset
  <2>2. Offset(d) <= r /\ r < Offset(d) + Period /\ Offset(d + 1) = Offset(d) + Period /\ Offset(d) \in Int
    BY <2>1, DueAndOffset, Offsets
  <2> QED
    BY <1>4, <2>1, <2>2, Sizes
<1>7. K + 1 <= T
  <2>1. K <= Due(r) <=> Offset(K) <= r
    BY DueAndOffset
  <2>2. Offset(K) <= k /\ Offset(K) \in Int
    BY <1>10, DueAndOffset, OffsetOrder
  <2> QED
    BY <1>3, <1>4, <2>1, <2>2, DueAndOffset
<1>8. CASE T <= Intervals - 1
  <2>1. r < Offset(Intervals)
    <3>1. /\ Offset(Intervals) \in Int
          /\ T < Intervals <=> Offset(T) + Period <= Offset(Intervals)
      <4>1. T \in Int /\ Intervals \in Int
        BY <1>4, Sizes
      <4> QED
        BY <4>1, OffsetOrder, Zenon
    <3> QED
      BY <1>6, <1>8, <3>1, Sizes
  <2>2. RSTs(r) = Due(r) /\ RSTs(k) = K
    <3>1. Offset(Intervals) \in Int
      BY Offsets, Sizes
    <3>2. k < Offset(Intervals)
      BY <1>3, <2>1, <3>1
    <3> QED
      BY <1>10, <2>1, <3>2, MarkersAmong
  <2>3. T - 1 - K <= 2
    <3>1. RSTs(file.resume - 1) - RSTs(file.keep) <= 2
      BY DEF Cut
    <3>2. Due(r) - K <= 2
      BY <1>1, <1>3, <2>2, <3>1
    <3> QED
      BY <1>4, <1>10, <3>2, DueAndOffset
  <2>4. T \in 1 .. Intervals - 1
    BY <1>7, <1>8
  <2>5. next_marker(k + 1) = {Shift + Offset(T)} /\ Offset(T) >= file.resume
    <3>1. r + 1 \in Int /\ r + 1 >= file.resume /\ Offset(T) - Period < r + 1 /\ r + 1 <= Offset(T)
      BY <1>2, <1>6, Sizes
    <3>2. k + 1 = Shift + (r + 1)
      BY <1>3
    <3> QED
      BY <2>4, <3>1, <3>2, MarkerAfter
  <2>6. Met(K, T)
    BY <1>1, <1>5, <1>7, <2>3, <2>4, <2>5 DEF Met
  <2> QED
    BY <1>5, <1>7, <2>4, <2>6
<1>9. CASE ~(T <= Intervals - 1)
  <2>1. Due(k + 1) <= K + 1 /\ Due(k + 1) \in Nat
    BY <1>1, DueNext
  <2>2. Over(K)
    BY <1>1, <1>5, <1>9, <2>1, Sizes DEF Over, Promised
  <2> QED
    BY <1>5, <1>7, <2>2
<1> QED
  BY <1>8, <1>9

LEMMA AtMarker ==
  ASSUME NEW i \in Nat, i % Period = 0
  PROVE  Offset(Due(i)) = i
<1>1. PICK p \in Nat \ {0} : p = Period
  BY Sizes
<1>2. i % p = 0 => (i \div p) * p = i
  OBVIOUS
<1> QED
  BY <1>1, <1>2 DEF Offset, Due

LEMMA RepeatEntry ==
  ASSUME TypeOK, Repeat, NEW K \in 0 .. Intervals - 1, K = Due(file.keep)
  PROVE  /\ file.keep + 1 = Offset(K + 1)
         /\ \E T \in 1 .. Intervals - 1 : Met(K, T)
<1>1. PICK k \in Nat : k = file.keep
  BY FileRange
<1>2. PICK r \in Nat : r + 1 = file.resume
  <2>1. file.resume - 1 \in Nat /\ (file.resume - 1) + 1 = file.resume
    BY FileRange
  <2> QED
    BY <2>1
<1>3. file.resume - 1 = r /\ r < k /\ k + 1 = Shift + (r + 1)
  <2>1. Len(file.extra) = 0 /\ r + 1 <= k
    BY <1>1, <1>2 DEF Repeat
  <2>2. k + Len(file.extra) + 1 = Shift + (r + 1)
    BY <1>1, <1>2, FileRange
  <2> QED
    BY <1>1, <1>2, <2>1, <2>2
<1>4. /\ k < Offset(Intervals) /\ (k + 1) % Period = 0 /\ (r + 1) % Period = 0
      /\ RSTs(k) - RSTs(r) <= 2
  BY <1>1, <1>2, <1>3, Offsets DEF Repeat
<1>5. K = Due(k) /\ K \in Int
  BY <1>1
<1>6. k + 1 = Offset(K + 1)
  <2>1. Offset(Due(k + 1)) = k + 1
    BY <1>4, AtMarker
  <2>2. Due(k) < Due(k + 1) => k + 1 = Offset(Due(k) + 1)
    BY DueNext
  <2>3. Due(k + 1) <= Due(k) <=> Offset(Due(k + 1)) <= k
    BY DueAndOffset, DueNext
  <2> QED
    BY <1>5, <2>1, <2>2, <2>3, DueNext
<1>7. PICK T \in Nat : T = Due(r + 1)
  BY DueAndOffset
<1>8. Offset(T) = r + 1
  BY <1>4, <1>7, AtMarker
<1>9. T \in 1 .. Intervals - 1
  <2>1. T # 0
    BY <1>8, Offsets
  <2>2. Intervals <= T <=> Offset(Intervals) <= Offset(T)
    <3>1. T \in Int /\ Intervals \in Int
      BY <1>7, Sizes
    <3> QED
      BY <3>1, OffsetOrder, Zenon
  <2>3. Offset(Intervals) \in Int
    BY Offsets, Sizes
  <2> QED
    BY <1>3, <1>4, <1>7, <1>8, <2>1, <2>2, <2>3, Sizes
<1>10. T <= K
  <2>1. T <= Due(k) <=> Offset(T) <= k
    BY <1>7, DueAndOffset
  <2> QED
    BY <1>3, <1>5, <1>8, <2>1
<1>11. Due(r) = T - 1
  <2>1. PICK t \in Nat : t = T - 1
    BY <1>9
  <2>2. Offset(t + 1) = Offset(t) + Period /\ Offset(t) \in Int
    <3>1. t \in Int
      BY <2>1
    <3> QED
      BY <3>1, Offsets, Zenon
  <2>3. t + 1 = T
    BY <1>7, <2>1
  <2>4. Offset(t) <= r /\ r < Offset(t) + Period
    BY <1>8, <2>2, <2>3, Sizes
  <2> QED
    BY <2>1, <2>4, DueAndOffset
<1>12. K - (T - 1) <= 2
  <2>1. RSTs(k) = K
    BY <1>4, <1>5, MarkersAmong
  <2>2. r < Offset(Intervals)
    BY <1>3, <1>4, Offsets, Sizes
  <2>3. RSTs(r) = T - 1
    BY <2>2, <1>11, MarkersAmong
  <2> QED
    BY <1>4, <2>1, <2>3
<1>13. next_marker(k + 1) = {Shift + Offset(T)} /\ Offset(T) >= file.resume
  <2>1. r + 1 \in Int /\ r + 1 >= file.resume /\ Offset(T) - Period < r + 1 /\ r + 1 <= Offset(T)
    BY <1>2, <1>8, Sizes
  <2>2. k + 1 = Shift + (r + 1)
    BY <1>3
  <2> QED
    BY <1>9, <2>1, <2>2, MarkerAfter
<1>14. T - 1 - K \in -2 .. 2
  BY <1>5, <1>9, <1>10, <1>12
<1>15. Met(K, T)
  BY <1>1, <1>5, <1>10, <1>13, <1>14 DEF Met
<1> QED
  BY <1>1, <1>6, <1>9, <1>15

\* Behind the damage the decoder meets a marker near enough to the one it
\* expects or a false one, unless the scan is over.
LEMMA Entry ==
  ASSUME TypeOK, Recoverable, NEW K \in 0 .. Intervals - 1, K = Due(file.keep)
  PROVE  /\ Due(file.keep + 1) <= K + 1 /\ Due(file.keep + 1) \in Nat
         /\ Promised(K) => file.keep + 1 = Offset(K + 1)
         /\ Over(K) \/ MetFalse \/ \E T \in 1 .. Intervals - 1 : Met(K, T)
<1>1. PICK k \in Nat : k = file.keep
  BY FileRange
<1>2. /\ Due(k + 1) <= K + 1 /\ Due(k + 1) \in Nat
      /\ K < Due(k + 1) => k + 1 = Offset(K + 1)
  BY <1>1, DueNext
<1>3. ASSUME ~(K >= Restored), Promised(K) PROVE k + 1 = Offset(K + 1)
  BY <1>1, <1>2, <1>3 DEF Promised
<1>4. CASE Cut
  <2>1. Restored > K /\ (Over(K) \/ \E T \in 1 .. Intervals - 1 : Met(K, T))
    BY <1>4, CutEntry
  <2>2. Restored \in Int
    <3>1. PICK r \in Nat : r = file.resume - 1
      BY FileRange
    <3> QED
      BY <1>4, <3>1, DueAndOffset DEF Restored
  <2>3. ~(K >= Restored)
    BY <2>1, <2>2
  <2> QED
    BY <1>1, <1>2, <1>3, <2>1, <2>3
<1>5. CASE Repeat
  BY <1>1, <1>2, <1>5, RepeatEntry
<1>6. CASE Marred \/ \E lead \in (-3 .. 4) \ {2} : Stray(lead)
  <2>1. MetFalse
    BY <1>6, FalseMarker DEF MetFalse
  <2>2. Restored = K + (IF Marred THEN 1 ELSE 3)
    BY <1>6, FalseMarker
  <2>3. ~(K >= Restored)
    BY <2>2
  <2> QED
    BY <1>1, <1>2, <1>3, <2>1, <2>3
<1> QED
  BY <1>4, <1>5, <1>6 DEF Recoverable

-----------------------------------------------------------------------------
(* What a step has to show of the state it leads to. *)

LEMMA AheadAfter ==
  ASSUME TypeOK, UNCHANGED file, NEW q \in Nat \ {0}, q <= Len(items), ~IsData(q),
         \/ unread_marker' = items[q] /\ pos' = q + 1
         \/ unread_marker' = NoMarker /\ pos' \in Nat \ {0} /\ next_marker(pos') = {q}
  PROVE  Ahead(q)'
<1>1. items' = items
  BY DEF items
<1>2. CASE unread_marker' = items[q] /\ pos' = q + 1
  <2>1. unread_marker' # NoMarker
    BY <1>2, FileItems, NotNoMarker
  <2> QED
    BY <1>1, <1>2, <2>1 DEF Ahead, IsData
<1>3. CASE unread_marker' = NoMarker /\ pos' \in Nat \ {0} /\ next_marker(pos') = {q}
  <2>1. PICK p \in Nat \ {0} : p = pos'
    BY <1>3
  <2>2. q \in next_marker(p)
    BY <1>3, <2>1
  <2>3. q \in p .. Len(items) + 1 /\ \A x \in p .. q - 1 : IsData(x)
    BY <2>2 DEF next_marker
  <2>4. q \in next_marker(pos)'
    BY <1>1, <2>1, <2>3 DEF next_marker, IsData
  <2> QED
    BY <1>1, <1>3, <2>4 DEF Ahead, IsData
<1> QED
  BY <1>2, <1>3

LEMMA ReadsAhead ==
  ASSUME TypeOK, UNCHANGED file, NEW p \in Nat \ {0}, NEW q \in Nat \ {0}, q <= Len(items),
         ~IsData(q), next_marker(p) = {q}, ReadTo(p)
  PROVE  Ahead(q)'
<1>1. CASE pos' = p /\ unread_marker' = NoMarker
  BY <1>1, AheadAfter
<1>2. CASE ~IsData(p) /\ pos' = After(p) /\ unread_marker' = Marker(p)
  <2>1. q \in next_marker(p)
    OBVIOUS
  <2>2. q \in p .. Len(items) + 1 /\ \A x \in p .. q - 1 : IsData(x)
    BY <2>1 DEF next_marker
  <2>3. q = p
    BY <1>2, <2>2, FileItems
  <2> QED
    BY <1>2, <2>3, AheadAfter, FileItems DEF After, Marker
<1> QED
  BY <1>1, <1>2 DEF ReadTo

LEMMA AdvancesAhead ==
  ASSUME TypeOK, UNCHANGED file, NEW q \in Nat \ {0}, q <= Len(items), ~IsData(q),
         next_marker(pos) = {q}, Advance
  PROVE  Ahead(q)'
<1>1. unread_marker' = Marker(q) /\ pos' = After(q)
  BY DEF Advance
<1> QED
  BY <1>1, AheadAfter, FileItems DEF After, Marker

\* The decoder of an interval that is not on course.
LEMMA OffCourseAfter ==
  ASSUME TypeOK, UNCHANGED file, NEW K \in Int, K + 1 >= Due(file.keep + 1),
         Promised(K) => restarts_to_go' = 0
  PROVE  OffCourse(K)'
<1>1. Promised(K)' <=> Promised(K)
  BY FileStays
<1> QED
  BY <1>1 DEF OffCourse

LEMMA OverAfter ==
  ASSUME TypeOK, UNCHANGED file, NEW K \in Int, Over(K)
  PROVE  Over(K)'
<1>1. \A k : Promised(k)' <=> Promised(k)
  BY FileStays
<1> QED
  BY <1>1 DEF Over

LEMMA MarkerAheadAfter ==
  ASSUME TypeOK, UNCHANGED file, NEW K \in Int, NEW T \in Int, Offset(T) >= file.resume,
         NEW q, q = Shift + Offset(T), Ahead(q)',
         T - 1 - K \in -2 .. 2, T <= Restored \/ T <= K + 1
  PROVE  MarkerAhead(K, T)'
<1>1. Shift' = Shift /\ Restored' = Restored
  BY FileStays
<1>2. Ahead(Shift + Offset(T))'
  BY <1>1, Zenon DEF Ahead, IsData, next_marker
<1> QED
  BY <1>1, <1>2 DEF MarkerAhead

LEMMA FalseAheadAfter ==
  ASSUME TypeOK, UNCHANGED file, NEW K \in Int, file.extra # <<>>,
         NEW q, q = file.keep + 1, Ahead(q)',
         K = Due(file.keep) \/ (Stray(1) /\ K = Due(file.keep) + 1)
  PROVE  FalseAhead(K)'
<1>1. Stray(1)' <=> Stray(1)
  BY FileStays
<1>2. Ahead(file.keep + 1)'
  BY Zenon DEF Ahead, IsData, next_marker
<1> QED
  BY <1>1, <1>2 DEF FalseAhead

LEMMA AfterDamageAfter ==
  ASSUME TypeOK, UNCHANGED file, NEW K \in Int, Offset(K) >= file.resume,
         NEW o, o = Shift + Offset(K), OnCourse(o)'
  PROVE  AfterDamage(K)'
<1>1. Shift' = Shift
  BY FileStays
<1>2. OnCourse(Shift + Offset(K))'
  BY <1>1, Zenon DEF OnCourse
<1> QED
  BY <1>2 DEF AfterDamage

LEMMA EntryStep ==
  ASSUME TypeOK, Recoverable, UNCHANGED file, NEW K \in 0 .. Intervals - 1,
         K = Due(file.keep), ReadTo(file.keep + 1), Promised(K) => restarts_to_go' = 0
  PROVE  Course(K)'
<1>1. /\ Due(file.keep + 1) <= K + 1 /\ Due(file.keep + 1) \in Nat
      /\ Over(K) \/ MetFalse \/ \E T \in 1 .. Intervals - 1 : Met(K, T)
  BY Entry
<1>2. PICK p \in Nat \ {0} : p = file.keep + 1
  BY FileRange
<1>3. OffCourse(K)'
  BY <1>1, OffCourseAfter
<1>4. CASE Over(K)
  BY <1>3, <1>4, OverAfter DEF Course
<1>5. CASE MetFalse
  <2>1. next_marker(p) = {p} /\ p <= Len(items) /\ ~IsData(p) /\ ReadTo(p) /\ file.extra # <<>>
    BY <1>2, <1>5 DEF MetFalse
  <2>2. Ahead(p)'
    BY <2>1, ReadsAhead
  <2>3. FalseAhead(K)'
    BY <1>2, <2>1, <2>2, FalseAheadAfter
  <2> QED
    BY <1>3, <2>3 DEF Course
<1>6. ASSUME NEW T \in 1 .. Intervals - 1, Met(K, T) PROVE Course(K)'
  <2>1. /\ next_marker(p) = {Shift + Offset(T)} /\ Offset(T) >= file.resume
        /\ T - 1 - K \in -2 .. 2 /\ (T <= Restored \/ T <= K + 1)
    BY <1>2, <1>6 DEF Met
  <2>2. /\ Shift + Offset(T) \in 1 .. Len(items) /\ ~IsData(Shift + Offset(T))
        /\ Shift + Offset(T) \in Nat \ {0}
    <3>1. PICK t \in Int : t = Offset(T)
      BY Offsets
    <3>2. t - Period < t /\ t <= t
      BY Sizes
    <3> QED
      BY <2>1, <3>1, <3>2, MarkerAfter
  <2>3. PICK q \in Nat \ {0} : q = Shift + Offset(T)
    BY <2>2
  <2>4. q <= Len(items) /\ ~IsData(q) /\ next_marker(p) = {q} /\ ReadTo(p)
    BY <1>2, <2>1, <2>2, <2>3
  <2>5. Ahead(q)'
    BY <2>4, ReadsAhead
  <2>6. MarkerAhead(K, T)'
    BY <2>1, <2>3, <2>5, MarkerAheadAfter
  <2> QED
    BY <1>3, <2>6 DEF Course
<1> QED
  BY <1>1, <1>4, <1>5, <1>6

\* The numbers of the restart markers: those from three behind the expected one
\* to four ahead of it can be told apart.
LEMMA Eighths ==
  ASSUME NEW K \in Nat, NEW d \in -3 .. 4, NEW e \in -3 .. 4
  PROVE  /\ (K + d) % 8 = ((K % 8) + e) % 8 <=> d = e
         /\ (K + d) % 8 = (K % 8) % 8 <=> d = 0
<1>1. PICK r \in 0 .. 7 : r = K % 8
  OBVIOUS
<1>2. PICK q \in Nat : K = 8 * q + r
  <2>1. K \div 8 \in Nat /\ K = (8 * (K \div 8)) + (K % 8)
    OBVIOUS
  <2> QED
    BY <1>1, <2>1
<1>3. (K + d) % 8 = (r + d) % 8
  BY <1>2
<1>4. (r + d) % 8 = (r + e) % 8 <=> d = e
  OBVIOUS
<1>5. (r + d) % 8 = r % 8 <=> d = 0
  OBVIOUS
<1> QED
  BY <1>1, <1>3, <1>4, <1>5

LEMMA ActionIs ==
  ASSUME NEW K \in Nat, next_restart_num = K % 8, NEW d \in -3 .. 4
  PROVE  /\ RST(K + d) = RST(next_restart_num) <=> d = 0
         /\ Action(RST(K + d)) = IF d \in {1, 2} THEN 3 ELSE IF d \in {-1, -2} THEN 2 ELSE 1
<1>1. RST(K + d) = RST(next_restart_num) <=> d = 0
  BY Eighths DEF RST
<1>2. ASSUME NEW e \in -3 .. 4 PROVE RST(K + d) = RST(next_restart_num + e) <=> d = e
  BY Eighths DEF RST
<1>3. Near(RST(K + d), {1, 2}) <=> d \in {1, 2}
  BY <1>2 DEF Near
<1>4. Near(RST(K + d), {-1, -2}) <=> d \in {-1, -2}
  BY <1>2 DEF Near
<1>5. RST(K + d).kind # "invalid" /\ RST(K + d).kind # "end"
  BY DEF RST
<1> QED
  BY <1>1, <1>3, <1>4, <1>5 DEF Action

-----------------------------------------------------------------------------
(* The steps. *)

LEMMA DecodeStep ==
  ASSUME TypeOK, Recoverable, PromiseKept, NEW K \in 0 .. Intervals - 1, InInterval(K),
         Course(K), LeaveZeros \/ DecodeMCU \/ DecodeGarbage \/ HitMarker
  PROVE  PromiseKept' /\ InInterval(K)' /\ Course(K)'
<1>0. /\ Decoding /\ UNCHANGED file /\ restarts_to_go' = restarts_to_go - 1
      /\ \E shows : Delivers(shows)
  BY DEF LeaveZeros, DecodeMCU, DecodeGarbage, HitMarker, Delivers
<1>1. InInterval(K)'
  BY <1>0, IntervalGoesOn
<1>2. /\ restarts_to_go \in 1 .. Interval /\ Period = Interval + 1 /\ Interval \in Nat \ {0}
      /\ Offset(K) \in Int /\ Offset(K + 1) = Offset(K) + Period /\ K \in Nat
      /\ file.keep \in Nat /\ file.keep <= Len(items) /\ Shift \in Int /\ Len(items) \in Nat
  <2>1. restarts_to_go \in 1 .. Interval
    BY <1>0, IntervalIs, Sizes DEF Decoding
  <2>2. K \in Int /\ K \in Nat
    BY Sizes
  <2>3. Offset(K) \in Int /\ Offset(K + 1) = Offset(K) + Period
    BY <2>2, Offsets, Zenon
  <2> QED
    BY <2>1, <2>2, <2>3, FileRange, FileItems, Sizes
<1>3. CASE BeforeDamage(K)
  <2>1. OnCourse(Offset(K)) /\ unread_marker = NoMarker /\ pos <= file.keep
    BY <1>2, <1>3 DEF BeforeDamage, OnCourse
  <2>2. pos = Offset(K) + Period - restarts_to_go /\ pos \in Nat \ {0}
    BY <2>1, FileItems DEF OnCourse, TypeOK
  <2>3. Offset(K) < pos /\ pos < Offset(K) + Period
    BY <1>2, <2>2
  <2>4. pos \in 1 .. Len(items) /\ items[pos] = MCU(First(K) + (pos - 1 - Offset(K)))
    BY <2>1, <2>2, <2>3, ItemsBefore
  <2>5. /\ Delivers(mcu) /\ ReadTo(pos + 1)
    BY <1>2, <2>1, <2>4, CourseDelivers
  <2>6. PromiseKept'
    BY <1>0, <2>5, PromiseStays
  <2>7. CASE pos + 1 <= file.keep
    <3>1. restarts_to_go > 1 => items[pos + 1] = MCU(First(K) + (pos - Offset(K)))
      <4>1. PICK p \in Nat : p = pos + 1
        BY <2>2
      <4>2. restarts_to_go > 1 => Offset(K) < p /\ p < Offset(K) + Period
        BY <1>2, <2>2, <4>1
      <4>3. p - 1 - Offset(K) = pos - Offset(K)
        BY <1>2, <2>2, <4>1
      <4> QED
        BY <2>7, <4>1, <4>2, <4>3, ItemsBefore
    <3>2. pos \in 1 .. Len(items) - 1
      <4>1. PICK k \in Nat : k = file.keep
        BY FileRange
      <4>2. k <= Len(items) /\ Len(items) \in Nat /\ pos \in 1 .. Len(items) + 1
        BY <4>1, FileRange, FileItems DEF TypeOK
      <4> QED
        BY <2>7, <4>1, <4>2
    <3>3. OnCourse(Offset(K))'
      BY <1>2, <2>1, <2>4, <3>1, <3>2, CourseGoesOn
    <3>4. pos' <= file.keep + (IF unread_marker' = NoMarker THEN 0 ELSE 1)
      <4>1. CASE pos' = pos + 1 /\ unread_marker' = NoMarker
        BY <1>2, <2>7, <4>1
      <4>2. CASE pos' = After(pos + 1) /\ unread_marker' = Marker(pos + 1)
        <5>1. pos' = pos + 2 /\ unread_marker' = items[pos + 1] /\ items[pos + 1] \in Items
          BY <3>2, <4>2, FileItems DEF After, Marker
        <5>2. unread_marker' # NoMarker
          BY <5>1, NotNoMarker
        <5>3. pos' <= file.keep + 1
          <6>1. PICK k \in Nat : k = file.keep
            BY <1>2
          <6>2. PICK p \in Nat : p = pos
            BY <2>2
          <6>3. pos' = p + 2 /\ p + 1 <= k
            BY <2>7, <5>1, <6>1, <6>2
          <6> QED
            BY <6>1, <6>3
        <5> QED
          BY <5>2, <5>3
      <4> QED
        BY <2>5, <4>1, <4>2 DEF ReadTo
    <3>5. BeforeDamage(K)'
      BY <1>0, <3>3, <3>4 DEF BeforeDamage
    <3> QED
      BY <1>1, <2>6, <3>5 DEF Course
  <2>8. CASE ~(pos + 1 <= file.keep)
    <3>1. pos = file.keep
      BY <1>2, <2>1, <2>2, <2>8
    <3>2. K = Due(file.keep)
      <4>1. PICK k \in Nat : k = file.keep
        BY <1>2
      <4>2. Offset(K) <= k /\ k < Offset(K) + Period /\ K \in Nat
        BY <1>2, <2>3, <3>1, <4>1
      <4> QED
        BY <4>1, <4>2, DueAndOffset
    <3>3. Promised(K) => restarts_to_go' = 0
      <4>1. Promised(K) => file.keep + 1 = Offset(K + 1)
        BY <3>2, Entry
      <4> QED
        BY <1>0, <1>2, <2>2, <3>1, <4>1
    <3>4. Course(K)'
      BY <1>0, <2>5, <3>1, <3>2, <3>3, EntryStep
    <3> QED
      BY <1>1, <2>6, <3>4
  <2> QED
    BY <2>7, <2>8
<1>4. CASE AfterDamage(K)
  <2>1. PICK o \in Int : o = Shift + Offset(K)
    BY <1>2
  <2>2. OnCourse(o) /\ Offset(K) >= file.resume
    BY <1>4, <2>1 DEF AfterDamage
  <2>3. unread_marker = NoMarker /\ pos = o + Period - restarts_to_go
    BY <1>2, <2>2 DEF OnCourse
  <2>4. PICK p \in Int : p = Offset(K) + Period - restarts_to_go
    BY <1>2
  <2>5. /\ Offset(K) < p /\ p < Offset(K) + Period /\ pos = Shift + p
        /\ p - 1 - Offset(K) = pos - 1 - o
    <3>1. PICK c \in Int : c = Offset(K)
      BY <1>2
    <3>2. PICK h \in Int : h = Shift
      BY <1>2
    <3>3. PICK g \in 1 .. Interval : g = restarts_to_go
      BY <1>2
    <3>4. o = h + c /\ pos = o + (Interval + 1) - g /\ p = c + (Interval + 1) - g
      BY <1>2, <2>1, <2>3, <2>4, <3>1, <3>2, <3>3
    <3>5. c < p /\ p < c + (Interval + 1) /\ pos = h + p /\ p - 1 - c = pos - 1 - o
      BY <1>2, <3>4
    <3> QED
      BY <1>2, <3>1, <3>2, <3>5
  <2>6. p >= file.resume /\ p + 1 >= file.resume
    <3>1. PICK r \in Int : r = file.resume
      BY FileRange
    <3>2. PICK c \in Int : c = Offset(K)
      BY <1>2
    <3>3. c >= r /\ c < p
      BY <2>2, <2>5, <3>1, <3>2
    <3> QED
      BY <3>1, <3>3
  <2>7. pos \in 1 .. Len(items) /\ items[pos] = MCU(First(K) + (pos - 1 - o))
    BY <2>5, <2>6, ItemsAfter
  <2>8. Delivers(mcu)
    BY <2>2, <2>7, CourseDelivers
  <2>9. pos \in 1 .. Len(items) - 1
    <3>1. Offset(K) + Period <= Offset(Intervals) /\ Offset(Intervals) \in Int
      <4>1. K \in Int /\ Intervals \in Int /\ K < Intervals
        BY Sizes
      <4> QED
        BY <4>1, OffsetOrder, Zenon
    <3>2. Len(items) = Offset(Intervals) + 4 + Shift
      BY FileRange
    <3>3. PICK h \in Int : h = Shift
      BY <1>2
    <3>4. PICK l \in Nat : l = Len(items)
      BY <1>2
    <3>5. pos <= h + Offset(K) + Period - 1 /\ l = Offset(Intervals) + 4 + h /\ pos \in 1 .. l
      BY <1>2, <2>1, <2>3, <2>7, <3>2, <3>3, <3>4
    <3>6. pos <= l - 1
      <4>1. PICK c \in Int : c = Offset(K)
        BY <1>2
      <4>2. PICK n \in Int : n = Offset(Intervals)
        BY <3>1
      <4>3. c + Period <= n /\ pos <= h + c + Period - 1 /\ l = n + 4 + h
        BY <3>1, <3>5, <4>1, <4>2
      <4>4. Period \in Int /\ pos \in Int
        BY <3>5, Sizes
      <4> QED
        BY <4>3, <4>4
    <3> QED
      BY <3>4, <3>5, <3>6
  <2>10. restarts_to_go > 1 => items[pos + 1] = MCU(First(K) + (pos - o))
    <3>1. PICK r \in Int : r = p + 1
      OBVIOUS
    <3>2. restarts_to_go > 1 => Offset(K) < r /\ r < Offset(K) + Period
      BY <1>2, <2>4, <3>1
    <3>3. r - 1 - Offset(K) = pos - o /\ r >= file.resume
      <4>1. pos \in Int
        BY <1>2, <2>7
      <4> QED
        BY <1>2, <2>5, <2>6, <3>1, <4>1
    <3>4. Shift + r = pos + 1
      BY <1>2, <2>5, <3>1
    <3> QED
      BY <3>2, <3>3, <3>4, ItemsAfter
  <2>11. OnCourse(o)'
    BY <2>2, <2>7, <2>9, <2>10, CourseGoesOn
  <2>12. AfterDamage(K)'
    BY <1>0, <1>2, <2>1, <2>2, <2>11, AfterDamageAfter
  <2> QED
    BY <1>0, <1>1, <2>8, <2>12, PromiseStays DEF Course
<1>5. CASE OffCourse(K) /\ ((\E T \in 1 .. Intervals - 1 : MarkerAhead(K, T)) \/ FalseAhead(K) \/ Over(K))
  <2>1. ~Promised(K) /\ K + 1 >= Due(file.keep + 1)
    BY <1>2, <1>5 DEF OffCourse
  <2>2. PromiseKept'
    BY <1>0, <2>1, PromiseStays
  <2>3. OffCourse(K)'
    BY <1>0, <1>2, <2>1, OffCourseAfter
  <2>4. ASSUME NEW T \in 1 .. Intervals - 1, MarkerAhead(K, T) PROVE Course(K)'
    <3>1. /\ Offset(T) >= file.resume /\ Ahead(Shift + Offset(T))
          /\ T - 1 - K \in -2 .. 2 /\ (T <= Restored \/ T <= K + 1)
      BY <2>4 DEF MarkerAhead
    <3>2. PICK q \in Nat \ {0} : q = Shift + Offset(T)
      <4>1. Offset(T) \in Int
        BY Offsets
      <4> QED
        BY <3>1, <4>1, AfterDamageIs
    <3>3. Ahead(q)'
      BY <1>0, <3>1, <3>2, AheadStays
    <3>4. MarkerAhead(K, T)'
      BY <1>0, <1>2, <3>1, <3>2, <3>3, MarkerAheadAfter
    <3> QED
      BY <2>3, <3>4 DEF Course
  <2>5. ASSUME FalseAhead(K) PROVE Course(K)'
    <3>1. PICK q \in Nat \ {0} : q = file.keep + 1
      BY <1>2
    <3>2. Ahead(q)'
      BY <1>0, <2>5, <3>1, AheadStays DEF FalseAhead
    <3>3. FalseAhead(K)'
      BY <1>0, <1>2, <2>5, <3>1, <3>2, FalseAheadAfter DEF FalseAhead
    <3> QED
      BY <2>3, <3>3 DEF Course
  <2>6. ASSUME Over(K) PROVE Course(K)'
    BY <1>0, <1>2, <2>3, <2>6, OverAfter DEF Course
  <2> QED
    BY <1>1, <1>5, <2>2, <2>4, <2>5, <2>6
<1> QED
  BY <1>3, <1>4, <1>5 DEF Course

LEMMA DueOfKeep ==
  ASSUME TypeOK
  PROVE  /\ Due(file.keep) \in Nat /\ Due(file.keep + 1) \in Nat /\ Restored \in Int
         /\ Due(file.keep + 1) <= Due(file.keep) + 1
         /\ Offset(Due(file.keep)) <= file.keep
         /\ file.keep < Offset(Due(file.keep)) + Period
<1>1. PICK k \in Nat : k = file.keep
  BY FileRange
<1>2. PICK r \in Nat : r = file.resume - 1
  BY FileRange
<1>3. /\ Due(k) \in Nat /\ Due(k + 1) \in Nat /\ Due(k + 1) <= Due(k) + 1
      /\ Offset(Due(k)) <= k /\ k < Offset(Due(k)) + Period
  BY DueAndOffset, DueNext
<1>4. Due(r) \in Nat
  BY DueAndOffset
<1>5. Restored \in Int
  BY <1>1, <1>2, <1>3, <1>4 DEF Restored
<1> QED
  BY <1>1, <1>3, <1>5

LEMMA FoundIs ==
  ASSUME NEW m, NEW p, Found(m, p)
  PROVE  /\ m = RST(next_restart_num) => Restart(NoMarker, p)
         /\ m # RST(next_restart_num) =>
              /\ unread_marker' = m /\ pos' = p
              /\ UNCHANGED <<next_restart_num, restarts_to_go>>
BY DEF Found

\* A restart at the marker before the interval K + 1, behind the damage.
LEMMA BackOnCourse ==
  ASSUME TypeOK, UNCHANGED file, NEW K \in 0 .. Intervals - 1, K # 0,
         Offset(K) >= file.resume, NEW q, q = Shift + Offset(K), Restart(NoMarker, q + 1)
  PROVE  AfterDamage(K)'
<1>1. /\ Offset(K) \in Int /\ Shift \in Int /\ q \in Int /\ file.resume \in Int
      /\ Period \in Nat \ {0} /\ Period >= 2 /\ K \in Int
  <2>1. K \in Int
    BY Sizes
  <2>2. Offset(K) \in Int
    BY <2>1, Offsets, Zenon
  <2> QED
    BY <2>1, <2>2, FileRange, Sizes
<1>2. PICK p \in Int : p = Offset(K) + 1
  BY <1>1
<1>3. /\ p >= file.resume /\ Offset(K) < p /\ p < Offset(K) + Period
      /\ p - 1 - Offset(K) = 0 /\ Shift + p = q + 1
  BY <1>1, <1>2
<1>4. q + 1 \in 1 .. Len(items) /\ items[q + 1] = MCU(First(K) + 0)
  BY <1>3, ItemsAfter
<1>5. First(K) + 0 = First(K)
  BY <1>1, Offsets
<1>6. OnCourse(q)'
  BY <1>1, <1>4, <1>5, CourseBegins
<1> QED
  BY <1>1, <1>6, AfterDamageAfter

\* What becomes of a decoder that comes to a marker it has to deal with.
LEMMA OverStep ==
  ASSUME TypeOK, UNCHANGED file, NEW K \in 0 .. Intervals - 1, OffCourse(K), Over(K),
         restarts_to_go = 0, mcu < Total, InInterval(K), mcu' = mcu,
         (\E u, p : Restart(u, p)) \/ UNCHANGED <<next_restart_num, restarts_to_go>>
  PROVE  \E L \in 0 .. Intervals - 1 : InInterval(L)' /\ Course(L)'
<1>1. K \in Int /\ K + 1 \in Int /\ K + 1 \in 0 .. Intervals - 1 /\ Due(file.keep + 1) \in Int
  BY IntervalIs, DueOfKeep, Sizes
<1>2. ASSUME NEW u, NEW p, Restart(u, p)
      PROVE  \E L \in 0 .. Intervals - 1 : InInterval(L)' /\ Course(L)'
  <2>1. InInterval(K + 1)'
    BY <1>2, IntervalEnds
  <2>2. ~Promised(K + 1) /\ Over(K + 1)
    BY <1>1 DEF Over
  <2>3. K + 1 + 1 >= Due(file.keep + 1)
    BY <1>1 DEF OffCourse
  <2>4. OffCourse(K + 1)' /\ Over(K + 1)'
    BY <1>1, <2>2, <2>3, OffCourseAfter, OverAfter
  <2> QED
    BY <1>1, <2>1, <2>4 DEF Course
<1>3. ASSUME UNCHANGED <<next_restart_num, restarts_to_go>>
      PROVE  \E L \in 0 .. Intervals - 1 : InInterval(L)' /\ Course(L)'
  <2>1. InInterval(K)'
    BY <1>3 DEF InInterval
  <2>2. OffCourse(K)' /\ Over(K)'
    BY <1>1, <1>3, OffCourseAfter, OverAfter DEF OffCourse
  <2> QED
    BY <2>1, <2>2 DEF Course
<1> QED
  BY <1>2, <1>3

\* At a true marker it finds its place, or comes nearer to it.
LEMMA MarkerStep ==
  ASSUME TypeOK, UNCHANGED file, NEW K \in 0 .. Intervals - 1, OffCourse(K),
         NEW T \in 1 .. Intervals - 1, MarkerAhead(K, T),
         restarts_to_go = 0, mcu < Total, InInterval(K), mcu' = mcu,
         NEW q, q = Shift + Offset(T),
         \/ T = K + 1 /\ Restart(NoMarker, q + 1)
         \/ T # K + 1 /\ unread_marker' = items[q] /\ pos' = q + 1
            /\ UNCHANGED <<next_restart_num, restarts_to_go>>
         \/ T > K + 1 /\ unread_marker = items[q] /\ pos = q + 1 /\ Restart(unread_marker, pos)
         \/ T < K + 1 /\ pos = q + 1 /\ Advance
            /\ UNCHANGED <<next_restart_num, restarts_to_go>>
  PROVE  \E L \in 0 .. Intervals - 1 : InInterval(L)' /\ Course(L)'
<1>1. /\ K \in Int /\ K + 1 \in Int /\ K + 1 \in 0 .. Intervals - 1 /\ K + 1 <= Intervals - 1
      /\ Due(file.keep + 1) \in Int /\ T \in Int /\ T + 1 \in Int /\ T \in 0 .. Intervals - 1
  BY IntervalIs, DueOfKeep, Sizes
<1>2. /\ Offset(T) >= file.resume /\ Ahead(q) /\ q = Shift + Offset(T)
      /\ T - 1 - K \in -2 .. 2 /\ (T <= Restored \/ T <= K + 1)
  BY DEF MarkerAhead
<1>3. q \in Nat \ {0} /\ Offset(T) \in Int /\ Offset(T + 1) = Offset(T) + Period /\ Shift \in Int
  <2>1. Offset(T) \in Int /\ Offset(T + 1) = Offset(T) + Period
    BY <1>1, Offsets, Zenon
  <2> QED
    BY <1>2, <2>1, AfterDamageIs
<1>4. q <= Len(items) /\ ~IsData(q)
  BY <1>2 DEF Ahead
<1>5. CASE T = K + 1 /\ Restart(NoMarker, q + 1)
  <2>1. InInterval(K + 1)'
    BY <1>5, IntervalEnds
  <2>2. AfterDamage(T)'
    BY <1>1, <1>2, <1>5, BackOnCourse
  <2> QED
    BY <1>1, <1>5, <2>1, <2>2 DEF Course
<1>6. CASE /\ T # K + 1 /\ unread_marker' = items[q] /\ pos' = q + 1
           /\ UNCHANGED <<next_restart_num, restarts_to_go>>
  <2>1. InInterval(K)'
    BY <1>6 DEF InInterval
  <2>2. Ahead(q)'
    BY <1>3, <1>4, <1>6, AheadAfter
  <2>3. MarkerAhead(K, T)'
    BY <1>1, <1>2, <2>2, MarkerAheadAfter
  <2>4. OffCourse(K)'
    BY <1>1, <1>6, OffCourseAfter DEF OffCourse
  <2> QED
    BY <2>1, <2>3, <2>4 DEF Course
<1>7. CASE /\ T > K + 1 /\ unread_marker = items[q] /\ pos = q + 1
           /\ Restart(unread_marker, pos)
  <2>1. InInterval(K + 1)'
    BY <1>7, IntervalEnds
  <2>2. unread_marker' = items[q] /\ pos' = q + 1
    BY <1>7 DEF Restart
  <2>3. Ahead(q)'
    BY <1>3, <1>4, <2>2, AheadAfter
  <2>4. T <= Restored /\ T - 1 - (K + 1) \in -2 .. 2
    BY <1>1, <1>2, <1>7
  <2>5. MarkerAhead(K + 1, T)'
    BY <1>1, <1>2, <2>3, <2>4, MarkerAheadAfter
  <2>6. K + 1 >= Due(file.keep + 1)
    BY DEF OffCourse
  <2>7. Restored \in Int
    BY DueOfKeep
  <2>8. ~Promised(K + 1)
    BY <1>1, <1>7, <2>4, <2>6, <2>7 DEF Promised
  <2>9. OffCourse(K + 1)'
    <3>1. K + 1 + 1 >= Due(file.keep + 1)
      BY <1>1, <2>6
    <3> QED
      BY <1>1, <2>8, <3>1, OffCourseAfter
  <2> QED
    BY <1>1, <2>1, <2>5, <2>9 DEF Course
<1>8. CASE /\ T < K + 1 /\ pos = q + 1 /\ Advance
           /\ UNCHANGED <<next_restart_num, restarts_to_go>>
  <2>1. InInterval(K)'
    BY <1>8 DEF InInterval
  <2>2. T + 1 \in 1 .. Intervals - 1 /\ T + 1 <= K + 1 /\ T + 1 - 1 - K \in -2 .. 2
    BY <1>1, <1>2, <1>8, Sizes
  <2>3. PICK r \in Int : r = Offset(T) + 1
    BY <1>3
  <2>4. /\ r >= file.resume /\ Offset(T + 1) - Period < r /\ r <= Offset(T + 1)
        /\ pos = Shift + r
    <3>1. file.resume \in Int
      BY FileRange
    <3> QED
      BY <1>2, <1>3, <1>8, <2>3, <3>1, Sizes
  <2>5. /\ next_marker(pos) = {Shift + Offset(T + 1)} /\ ~IsData(Shift + Offset(T + 1))
        /\ Shift + Offset(T + 1) \in 1 .. Len(items) /\ Offset(T + 1) >= file.resume
        /\ Shift + Offset(T + 1) \in Nat \ {0}
    BY <2>2, <2>4, MarkerAfter
  <2>6. PICK s \in Nat \ {0} : s = Shift + Offset(T + 1)
    BY <2>5
  <2>7. Ahead(s)'
    <3>1. s <= Len(items) /\ ~IsData(s) /\ next_marker(pos) = {s}
      BY <2>5, <2>6
    <3> QED
      BY <1>8, <3>1, AdvancesAhead
  <2>8. MarkerAhead(K, T + 1)'
    BY <1>1, <2>2, <2>5, <2>6, <2>7, MarkerAheadAfter
  <2>9. OffCourse(K)'
    BY <1>1, <1>8, OffCourseAfter DEF OffCourse
  <2> QED
    BY <2>1, <2>2, <2>8, <2>9 DEF Course
<1> QED
  BY <1>5, <1>6, <1>7, <1>8

\* At the false marker it loses no more than two intervals.
LEMMA FalseIs ==
  ASSUME TypeOK, Recoverable, NEW K \in 0 .. Intervals - 1, FalseAhead(K),
         K + 1 \in 0 .. Intervals - 1
  PROVE  LET D == Due(file.keep)
         IN  /\ D \in Nat /\ RSTs(file.keep) = D /\ D + 1 \in 1 .. Intervals - 1
             /\ K = D \/ (K = D + 1 /\ Stray(1))
             /\ Marred \/ \E lead \in (-3 .. 4) \ {2} : Stray(lead)
             /\ items[file.keep + 1] = file.extra[1] /\ Shift = 1
             /\ file.resume = file.keep + 1
             /\ file.keep + 1 <= Offset(D + 1) /\ Offset(D + 1) - Period < file.keep + 1
             /\ Marred => file.extra[1] = Invalid
             /\ \A lead \in (-3 .. 4) \ {2} : Stray(lead) => file.extra[1] = RST(D + lead)
             /\ ~Marred => Restored = D + 3
<1>1. PICK k \in Nat : k = file.keep
  BY FileRange
<1>2. PICK D \in Nat : D = Due(file.keep)
  BY DueOfKeep
<1>3. K = D \/ (K = D + 1 /\ Stray(1))
  BY <1>2 DEF FalseAhead
<1>4. D + 1 \in 1 .. Intervals - 1 /\ K \in Int /\ D \in Int /\ D < Intervals /\ Intervals \in Int
  BY <1>3, Sizes
<1>5. Offset(D) <= k /\ k < Offset(D) + Period
  BY <1>1, <1>2, DueOfKeep
<1>6. /\ Offset(D) \in Int /\ Offset(D + 1) = Offset(D) + Period
      /\ Offset(D) + Period <= Offset(Intervals) /\ Offset(Intervals) \in Int
  <2>1. Offset(D) \in Int /\ Offset(D + 1) = Offset(D) + Period
    BY <1>4, Offsets, Zenon
  <2>2. Offset(D) + Period <= Offset(Intervals) /\ Offset(Intervals) \in Int
    BY <1>4, OffsetOrder, Zenon
  <2> QED
    BY <2>1, <2>2
<1>7. RSTs(k) = Due(k)
  BY <1>5, <1>6, MarkersAmong, Sizes
<1>8. Marred \/ \E lead \in (-3 .. 4) \ {2} : Stray(lead)
  BY DEF FalseAhead, Recoverable, Cut, Repeat
<1>9. /\ file.resume = file.keep + 1 /\ Shift = 1 /\ items[file.keep + 1] = file.extra[1]
      /\ Restored = Due(file.keep) + (IF Marred THEN 1 ELSE 3)
  BY <1>8, FalseMarker
<1>10. k + 1 <= Offset(D + 1) /\ Offset(D + 1) - Period < k + 1
  BY <1>5, <1>6, Sizes
<1>11. Marred => file.extra[1] = Invalid
  BY DEF Marred
<1>12. \A lead \in (-3 .. 4) \ {2} : Stray(lead) => file.extra[1] = RST(D + lead)
  BY <1>1, <1>2, <1>7 DEF Stray
<1> QED
  BY <1>1, <1>2, <1>3, <1>4, <1>7, <1>8, <1>9, <1>10, <1>11, <1>12

LEMMA FalseStep ==
  ASSUME TypeOK, Recoverable, UNCHANGED file, NEW K \in 0 .. Intervals - 1, OffCourse(K),
         FalseAhead(K), restarts_to_go = 0, mcu < Total, InInterval(K), mcu' = mcu,
         NEW q, q = file.keep + 1,
         \/ ~Marred /\ Restart(NoMarker, q + 1)
         \/ unread_marker' = items[q] /\ pos' = q + 1
            /\ UNCHANGED <<next_restart_num, restarts_to_go>>
         \/ Stray(1) /\ K = Due(file.keep) /\ unread_marker = items[q] /\ pos = q + 1
            /\ Restart(unread_marker, pos)
         \/ pos = q + 1 /\ Advance /\ UNCHANGED <<next_restart_num, restarts_to_go>>
  PROVE  \E L \in 0 .. Intervals - 1 : InInterval(L)' /\ Course(L)'
<1>1. K + 1 \in 0 .. Intervals - 1 /\ K \in Int /\ K + 1 \in Int
  BY IntervalIs, Sizes
<1>2. PICK D \in Nat : D = Due(file.keep)
  BY DueOfKeep
<1>3. /\ D + 1 \in 1 .. Intervals - 1
      /\ (K = D \/ (K = D + 1 /\ Stray(1))) /\ Shift = 1 /\ file.resume = file.keep + 1
      /\ file.keep + 1 <= Offset(D + 1) /\ Offset(D + 1) - Period < file.keep + 1
      /\ ~Marred => Restored = D + 3
  BY <1>1, <1>2, FalseIs
<1>4. file.extra # <<>> /\ q \in Nat \ {0} /\ q <= Len(items) /\ ~IsData(q)
  <2>1. file.extra # <<>> /\ q <= Len(items) /\ ~IsData(q)
    BY DEF FalseAhead, Ahead
  <2>2. file.keep \in Nat
    BY FileRange
  <2> QED
    BY <2>1, <2>2
<1>5. Due(file.keep + 1) <= D + 1 /\ Due(file.keep + 1) \in Nat /\ Restored \in Int
  BY <1>2, DueOfKeep
\* The next true marker is the one after the interval that is under way.
<1>6. PICK s \in Nat \ {0} :
        /\ s = Shift + Offset(D + 1) /\ s <= Len(items) /\ ~IsData(s)
        /\ q + 1 \in Nat \ {0} /\ next_marker(q + 1) = {s} /\ Offset(D + 1) >= file.resume
  <2>1. q \in Int /\ q >= file.resume /\ Offset(D + 1) - Period < q /\ q <= Offset(D + 1)
    BY <1>3, <1>4
  <2>2. q + 1 = Shift + q
    BY <1>3, <1>4
  <2>3. /\ Shift + Offset(D + 1) \in 1 .. Len(items) /\ ~IsData(Shift + Offset(D + 1))
        /\ q + 1 \in Nat \ {0} /\ next_marker(q + 1) = {Shift + Offset(D + 1)}
        /\ Offset(D + 1) >= file.resume /\ Shift + Offset(D + 1) \in Nat \ {0}
    BY <1>3, <2>1, <2>2, MarkerAfter
  <2>4. PICK s \in Nat \ {0} : s = Shift + Offset(D + 1)
    BY <2>3
  <2> QED
    BY <2>3, <2>4
<1>7. CASE ~Marred /\ Restart(NoMarker, q + 1)
  <2>1. InInterval(K + 1)'
    BY <1>7, IntervalEnds
  <2>2. unread_marker' = NoMarker /\ pos' = q + 1
    BY <1>7 DEF Restart
  <2>3. Ahead(s)'
    BY <1>6, <2>2, AheadAfter
  <2>4. D + 1 \in Int /\ (D + 1) - 1 - (K + 1) \in -2 .. 2 /\ D + 1 <= K + 1 + 1
    BY <1>1, <1>3
  <2>5. MarkerAhead(K + 1, D + 1)'
    BY <1>1, <1>6, <2>3, <2>4, MarkerAheadAfter
  <2>6. ~Promised(K + 1)
    BY <1>1, <1>3, <1>5, <1>7 DEF Promised
  <2>7. K + 1 + 1 >= Due(file.keep + 1)
    BY <1>1, <1>3, <1>5
  <2>8. OffCourse(K + 1)'
    BY <1>1, <2>6, <2>7, OffCourseAfter
  <2> QED
    BY <1>1, <1>3, <2>1, <2>5, <2>8 DEF Course
<1>8. CASE /\ unread_marker' = items[q] /\ pos' = q + 1
           /\ UNCHANGED <<next_restart_num, restarts_to_go>>
  <2>1. InInterval(K)'
    BY <1>8 DEF InInterval
  <2>2. Ahead(q)'
    BY <1>4, <1>8, AheadAfter
  <2>3. FalseAhead(K)'
    BY <1>1, <1>4, <2>2, FalseAheadAfter DEF FalseAhead
  <2>4. OffCourse(K)'
    BY <1>1, <1>8, OffCourseAfter DEF OffCourse
  <2> QED
    BY <2>1, <2>3, <2>4 DEF Course
<1>9. CASE /\ Stray(1) /\ K = Due(file.keep) /\ unread_marker = items[q] /\ pos = q + 1
           /\ Restart(unread_marker, pos)
  <2>1. InInterval(K + 1)'
    BY <1>9, IntervalEnds
  <2>2. unread_marker' = items[q] /\ pos' = q + 1
    BY <1>9 DEF Restart
  <2>3. Ahead(q)'
    BY <1>4, <2>2, AheadAfter
  <2>4. K + 1 = Due(file.keep) + 1
    BY <1>9
  <2>5. FalseAhead(K + 1)'
    BY <1>1, <1>4, <1>9, <2>3, <2>4, FalseAheadAfter
  <2>6. ~Marred
    <3>1. file.extra[1].kind = "RST"
      BY <1>9 DEF Stray, RST
    <3> QED
      BY <3>1 DEF Marred, Invalid
  <2>7. ~Promised(K + 1)
    BY <1>1, <1>2, <1>3, <1>5, <1>9, <2>6 DEF Promised
  <2>8. K + 1 + 1 >= Due(file.keep + 1)
    BY <1>1, <1>2, <1>5, <1>9
  <2>9. OffCourse(K + 1)'
    BY <1>1, <2>7, <2>8, OffCourseAfter
  <2> QED
    BY <1>1, <2>1, <2>5, <2>9 DEF Course
<1>10. CASE pos = q + 1 /\ Advance /\ UNCHANGED <<next_restart_num, restarts_to_go>>
  <2>1. InInterval(K)'
    BY <1>10 DEF InInterval
  <2>2. next_marker(pos) = {s}
    BY <1>6, <1>10
  <2>3. Ahead(s)'
    BY <1>6, <1>10, <2>2, AdvancesAhead
  <2>4. D + 1 \in Int /\ (D + 1) - 1 - K \in -2 .. 2 /\ D + 1 <= K + 1
    BY <1>1, <1>3
  <2>5. MarkerAhead(K, D + 1)'
    BY <1>1, <1>6, <2>3, <2>4, MarkerAheadAfter
  <2>6. OffCourse(K)'
    BY <1>1, <1>10, OffCourseAfter DEF OffCourse
  <2> QED
    BY <1>3, <2>1, <2>5, <2>6 DEF Course
<1> QED
  BY <1>7, <1>8, <1>9, <1>10

LEMMA RestartStep ==
  ASSUME TypeOK, Recoverable, NEW K \in 0 .. Intervals - 1, InInterval(K), Course(K),
         read_restart_marker
  PROVE  \E L \in 0 .. Intervals - 1 : InInterval(L)' /\ Course(L)'
<1>0. /\ ~resync /\ restarts_to_go = 0 /\ mcu < Total /\ UNCHANGED <<file, mcu, image>>
  BY DEF read_restart_marker
<1>1. /\ K \in Nat /\ K + 1 \in 0 .. Intervals - 1 /\ K + 1 # 0 /\ (K + 1) - 1 = K
      /\ Offset(K) \in Int /\ Offset(K + 1) = Offset(K) + Period /\ Offset(K + 1) \in Int
      /\ next_restart_num = K % 8
  <2>1. K \in Int /\ K \in Nat /\ K + 1 \in 0 .. Intervals - 1 /\ K + 1 \in Int
    BY <1>0, IntervalIs, Sizes
  <2>2. Offset(K) \in Int /\ Offset(K + 1) = Offset(K) + Period /\ Offset(K + 1) \in Int
    BY <2>1, Offsets, Zenon
  <2> QED
    BY <2>1, <2>2 DEF InInterval
<1>2. RST(K) = RST(next_restart_num)
  BY <1>1 DEF RST
<1>3. Period \in Nat /\ Period >= 2 /\ Interval \in Nat
  BY Sizes
<1>4. /\ file.keep \in Nat /\ file.keep <= Len(items) /\ Len(items) \in Nat
      /\ Shift \in Int /\ file.resume \in Int /\ Shift + file.resume >= 1
  <2>1. /\ file.keep \in Nat /\ file.keep <= Len(items) /\ Shift \in Int
        /\ file.resume \in Int /\ Len(file.extra) \in Nat
        /\ file.keep + Len(file.extra) + 1 = Shift + file.resume
    BY FileRange
  <2> QED
    BY <2>1, FileItems
<1>5. CASE BeforeDamage(K)
  <2>1. OnCourse(Offset(K))
    BY <1>5 DEF BeforeDamage
  <2>2. Offset(K + 1) <= file.keep
    <3>1. pos <= file.keep + (IF unread_marker = NoMarker THEN 0 ELSE 1)
      BY <1>5 DEF BeforeDamage
    <3>2. IF unread_marker = NoMarker THEN pos = Offset(K + 1) ELSE pos = Offset(K + 1) + 1
      BY <1>0, <1>1, <1>3, <2>1 DEF OnCourse
    <3> QED
      BY <1>1, <1>4, <3>1, <3>2
  <2>3. PICK q \in Int : q = Offset(K + 1)
    BY <1>1
  <2>4. q \in 1 .. Len(items) /\ items[q] = RST(K)
    BY <1>1, <2>2, <2>3, ItemsBefore
  <2>5. q \in Nat \ {0} /\ ~IsData(q) /\ q = Offset(K) + Period
    BY <1>1, <2>3, <2>4 DEF IsData, RST
  <2>6. Ahead(q)
    BY <1>0, <1>1, <2>1, <2>4, <2>5, CourseAhead
  <2>7. Restart(NoMarker, q + 1)
    BY <1>2, <2>4, <2>5, <2>6, AheadRead, FoundIs
  <2>8. InInterval(K + 1)'
    BY <1>0, <2>7, IntervalEnds
  <2>9. unread_marker' = NoMarker /\ pos' = q + 1
    BY <2>7 DEF Restart
  <2>10. CASE q + 1 <= file.keep
    <3>1. PICK p \in Int : p = q + 1
      BY <2>5
    <3>2. /\ Offset(K + 1) < p /\ p < Offset(K + 1) + Period
          /\ p - 1 - Offset(K + 1) = 0
      BY <1>3, <2>3, <3>1
    <3>3. p \in 1 .. Len(items) /\ items[p] = MCU(First(K + 1) + 0)
      BY <1>1, <2>10, <3>1, <3>2, ItemsBefore
    <3>4. First(K + 1) + 0 = First(K + 1)
      <4>1. First(K + 1) \in Int
        BY <1>1, Offsets
      <4> QED
        BY <4>1
    <3>5. OnCourse(q)'
      BY <1>0, <1>1, <2>7, <3>1, <3>3, <3>4, CourseBegins
    <3>6. OnCourse(Offset(K + 1))'
      BY <2>3, <3>5
    <3>7. BeforeDamage(K + 1)'
      BY <1>0, <1>4, <2>9, <2>10, <3>6 DEF BeforeDamage
    <3> QED
      BY <1>1, <2>8, <3>7 DEF Course
  <2>11. CASE ~(q + 1 <= file.keep)
    <3>1. q = file.keep
      BY <1>4, <2>2, <2>3, <2>11
    <3>2. K + 1 = Due(file.keep)
      <4>1. PICK k \in Nat : k = file.keep
        BY <1>4
      <4>2. Offset(K + 1) <= k /\ k < Offset(K + 1) + Period /\ K + 1 \in Nat
        BY <1>1, <1>3, <2>3, <3>1, <4>1
      <4> QED
        BY <4>1, <4>2, DueAndOffset
    <3>3. ~Promised(K + 1)
      <4>1. Promised(K + 1) => file.keep + 1 = Offset(K + 1 + 1)
        BY <1>1, <3>2, Entry
      <4>2. Offset(K + 1 + 1) = Offset(K + 1) + Period
        BY <1>1, Offsets
      <4> QED
        BY <1>3, <2>3, <2>5, <3>1, <4>1, <4>2
    <3>4. ReadTo(file.keep + 1)
      BY <2>9, <3>1 DEF ReadTo
    <3>5. Course(K + 1)'
      BY <1>0, <1>1, <3>2, <3>3, <3>4, EntryStep
    <3> QED
      BY <1>1, <2>8, <3>5
  <2> QED
    BY <2>10, <2>11
<1>6. CASE AfterDamage(K)
  <2>1. OnCourse(Shift + Offset(K)) /\ Offset(K) >= file.resume
    BY <1>6 DEF AfterDamage
  <2>2. PICK o \in Int : o = Shift + Offset(K)
    BY <1>1, <1>4
  <2>3. PICK q \in Int : q = o + Period
    BY <1>3
  <2>4. q = Shift + Offset(K + 1) /\ Offset(K + 1) >= file.resume
    <3>1. PICK c \in Int : c = Offset(K)
      BY <1>1
    <3>2. PICK h \in Int : h = Shift
      BY <1>4
    <3>3. q = h + (c + Period)
      BY <1>3, <2>2, <2>3, <3>1, <3>2
    <3>4. Offset(K + 1) = c + Period /\ c >= file.resume
      BY <1>1, <1>3, <2>1, <3>1
    <3>5. c + Period >= file.resume
      BY <1>3, <1>4, <3>4, Sizes
    <3> QED
      BY <3>2, <3>3, <3>4, <3>5
  <2>5. q \in 1 .. Len(items) /\ items[q] = RST(K)
    BY <1>1, <2>4, ItemsAfter
  <2>6. q \in Nat \ {0} /\ ~IsData(q)
    BY <2>5 DEF IsData, RST
  <2>7. Ahead(q)
    <3>1. OnCourse(o)
      BY <2>1, <2>2
    <3>2. o + Period \in 1 .. Len(items) /\ ~IsData(o + Period)
      BY <2>3, <2>5, <2>6
    <3> QED
      BY <1>0, <2>3, <3>1, <3>2, CourseAhead
  <2>8. Restart(NoMarker, q + 1)
    BY <1>2, <2>5, <2>6, <2>7, AheadRead, FoundIs
  <2>9. InInterval(K + 1)'
    BY <1>0, <2>8, IntervalEnds
  <2>10. AfterDamage(K + 1)'
    BY <1>0, <1>1, <2>4, <2>8, BackOnCourse
  <2> QED
    BY <1>1, <2>9, <2>10 DEF Course
<1>7. ASSUME OffCourse(K), NEW T \in 1 .. Intervals - 1, MarkerAhead(K, T)
      PROVE  \E L \in 0 .. Intervals - 1 : InInterval(L)' /\ Course(L)'
  <2>1. Offset(T) >= file.resume /\ Ahead(Shift + Offset(T)) /\ T - 1 - K \in -2 .. 2
    BY <1>7 DEF MarkerAhead
  <2>2. T \in Int /\ T \in 0 .. Intervals - 1 /\ T # 0 /\ Offset(T) \in Int
    <3>1. T \in Int /\ T \in 0 .. Intervals - 1 /\ T # 0
      BY Sizes
    <3> QED
      BY <3>1, Offsets
  <2>3. PICK q \in Nat \ {0} : q = Shift + Offset(T)
    BY <1>4, <2>1, <2>2
  <2>4. items[q] = RST(T - 1)
    BY <2>1, <2>2, <2>3, ItemsAfter
  <2>5. Found(items[q], q + 1)
    BY <2>1, <2>3, AheadRead
  <2>6. PICK d \in -2 .. 2 : T - 1 = K + d
    <3>1. T - 1 = K + (T - 1 - K)
      BY <1>1, <2>2
    <3> QED
      BY <2>1, <3>1
  <2>7. RST(T - 1) = RST(next_restart_num) <=> T = K + 1
    <3>1. d \in -3 .. 4
      BY <2>6
    <3>2. RST(K + d) = RST(next_restart_num) <=> d = 0
      BY <1>1, <3>1, ActionIs
    <3> QED
      BY <1>1, <2>2, <2>6, <3>2
  <2> QED
    BY <1>0, <1>7, <2>3, <2>4, <2>5, <2>7, FoundIs, MarkerStep
<1>8. ASSUME OffCourse(K), FalseAhead(K)
      PROVE  \E L \in 0 .. Intervals - 1 : InInterval(L)' /\ Course(L)'
  <2>1. PICK q \in Nat \ {0} : q = file.keep + 1
    BY <1>4
  <2>2. Found(items[q], q + 1)
    BY <1>8, <2>1, AheadRead DEF FalseAhead
  <2>3. Marred => items[q] # RST(next_restart_num)
    <3>1. Marred => items[q] = Invalid
      BY <1>1, <1>8, <2>1, FalseIs
    <3> QED
      BY <3>1 DEF Invalid, RST
  <2> QED
    BY <1>0, <1>8, <2>1, <2>2, <2>3, FoundIs, FalseStep
<1>9. ASSUME OffCourse(K), Over(K)
      PROVE  \E L \in 0 .. Intervals - 1 : InInterval(L)' /\ Course(L)'
  <2>1. (\E u, p : Restart(u, p)) \/ UNCHANGED <<next_restart_num, restarts_to_go>>
    BY DEF read_restart_marker, Found
  <2> QED
    BY <1>0, <1>9, <2>1, OverStep
<1> QED
  BY <1>5, <1>6, <1>7, <1>8, <1>9 DEF Course

LEMMA ResynchroniseStep ==
  ASSUME TypeOK, ResyncWired, Recoverable, NEW K \in 0 .. Intervals - 1, InInterval(K),
         Course(K), jpeg_resync_to_restart
  PROVE  \E L \in 0 .. Intervals - 1 : InInterval(L)' /\ Course(L)'
<1>0. /\ resync /\ unread_marker # NoMarker /\ restarts_to_go = 0 /\ mcu < Total
      /\ UNCHANGED <<file, mcu, image>>
  BY DEF jpeg_resync_to_restart, ResyncWired
<1>1. K \in Nat /\ K + 1 \in 0 .. Intervals - 1 /\ next_restart_num = K % 8
  BY <1>0, IntervalIs, Sizes DEF InInterval
<1>2. OffCourse(K) /\ ((\E T \in 1 .. Intervals - 1 : MarkerAhead(K, T)) \/ FalseAhead(K) \/ Over(K))
  BY <1>0 DEF Course, BeforeDamage, AfterDamage, OnCourse
<1>3. /\ Action(unread_marker) = 1 => Restart(NoMarker, pos)
      /\ Action(unread_marker) = 2 => Advance /\ UNCHANGED <<next_restart_num, restarts_to_go>>
      /\ Action(unread_marker) = 3 => Restart(unread_marker, pos)
      /\ Action(unread_marker) \in {1, 2, 3}
  <2>1. Action(unread_marker) \in {1, 2, 3}
    BY DEF Action
  <2>2. ASSUME Action(unread_marker) = 1
        PROVE  Restart(NoMarker, pos)
    BY <2>2 DEF jpeg_resync_to_restart
  <2>3. ASSUME Action(unread_marker) = 2
        PROVE  Advance /\ UNCHANGED <<next_restart_num, restarts_to_go>>
    <3>1. /\ Advance
          /\ UNCHANGED <<next_restart_num, restarts_to_go, insufficient_data, resync, insync>>
      BY <2>3 DEF jpeg_resync_to_restart
    <3> QED
      BY <3>1
  <2>4. ASSUME Action(unread_marker) = 3
        PROVE  Restart(unread_marker, pos)
    BY <2>4 DEF jpeg_resync_to_restart
  <2> QED
    BY <2>1, <2>2, <2>3, <2>4, Zenon
<1>4. ASSUME NEW T \in 1 .. Intervals - 1, MarkerAhead(K, T)
      PROVE  \E L \in 0 .. Intervals - 1 : InInterval(L)' /\ Course(L)'
  <2>1. Offset(T) >= file.resume /\ Ahead(Shift + Offset(T)) /\ T - 1 - K \in -2 .. 2
    BY <1>4 DEF MarkerAhead
  <2>2. T \in Int /\ T \in 0 .. Intervals - 1 /\ T # 0 /\ Offset(T) \in Int
    <3>1. T \in Int /\ T \in 0 .. Intervals - 1 /\ T # 0
      BY Sizes
    <3> QED
      BY <3>1, Offsets
  <2>3. PICK q \in Nat \ {0} : q = Shift + Offset(T)
    <3> QED
      BY <2>1, <2>2, AfterDamageIs
  <2>4. items[q] = RST(T - 1)
    BY <2>1, <2>2, <2>3, ItemsAfter
  <2>5. unread_marker = items[q] /\ pos = q + 1
    BY <1>0, <2>1, <2>3, AheadIs
  <2>6. PICK d \in -2 .. 2 : T - 1 = K + d
    <3>1. T - 1 = K + (T - 1 - K)
      BY <1>1, <2>2
    <3> QED
      BY <2>1, <3>1
  <2>7. Action(RST(K + d)) = IF d \in {1, 2} THEN 3 ELSE IF d \in {-1, -2} THEN 2 ELSE 1
    <3>1. d \in -3 .. 4
      BY <2>6
    <3> QED
      BY <1>1, <3>1, ActionIs
  <2>8. /\ T = K + 1 => Action(unread_marker) = 1
        /\ T > K + 1 => Action(unread_marker) = 3
        /\ T < K + 1 => Action(unread_marker) = 2
    <3>1. (T = K + 1 => d = 0) /\ (T > K + 1 => d \in {1, 2}) /\ (T < K + 1 => d \in {-1, -2})
      BY <1>1, <2>2, <2>6
    <3> QED
      BY <2>4, <2>5, <2>6, <2>7, <3>1
  <2>9. T = K + 1 \/ T > K + 1 \/ T < K + 1
    BY <1>1, <2>2
  <2>10. CASE T = K + 1
    BY <1>0, <1>2, <1>3, <1>4, <2>3, <2>5, <2>8, <2>10, MarkerStep
  <2>11. CASE T > K + 1
    BY <1>0, <1>2, <1>3, <1>4, <2>3, <2>5, <2>8, <2>11, MarkerStep
  <2>12. CASE T < K + 1
    BY <1>0, <1>2, <1>3, <1>4, <2>3, <2>5, <2>8, <2>12, MarkerStep
  <2> QED
    BY <2>9, <2>10, <2>11, <2>12
<1>5. ASSUME FalseAhead(K)
      PROVE  \E L \in 0 .. Intervals - 1 : InInterval(L)' /\ Course(L)'
  <2>1. PICK q \in Nat \ {0} : q = file.keep + 1
    BY FileRange
  <2>2. unread_marker = items[q] /\ pos = q + 1
    BY <1>0, <1>5, <2>1, AheadIs DEF FalseAhead
  <2>3. PICK D \in Nat : D = Due(file.keep)
    BY DueOfKeep
  <2>4. /\ K = D \/ (K = D + 1 /\ Stray(1))
        /\ Marred \/ \E lead \in (-3 .. 4) \ {2} : Stray(lead)
        /\ Marred => items[q] = Invalid
        /\ \A lead \in (-3 .. 4) \ {2} : Stray(lead) => items[q] = RST(D + lead)
    BY <1>1, <1>5, <2>1, <2>3, FalseIs
  <2>5. CASE Marred
    <3>1. Action(unread_marker) = 2
      BY <2>2, <2>4, <2>5 DEF Action, Invalid
    <3> QED
      BY <1>0, <1>2, <1>3, <1>5, <2>1, <2>2, <3>1, FalseStep
  <2>6. ASSUME NEW lead \in (-3 .. 4) \ {2}, Stray(lead), ~Marred
        PROVE  \E L \in 0 .. Intervals - 1 : InInterval(L)' /\ Course(L)'
    <3>1. unread_marker = RST(D + lead)
      BY <2>2, <2>4, <2>6
    <3>2. CASE K = D /\ lead = 1
      <4>1. Action(RST(K + 1)) = 3
        BY <1>1, ActionIs
      <4>2. Restart(unread_marker, pos) /\ Stray(1) /\ K = Due(file.keep)
        BY <1>3, <2>3, <2>6, <3>1, <3>2, <4>1
      <4> QED
        BY <1>0, <1>2, <1>5, <2>1, <2>2, <4>2, FalseStep
    <3>3. CASE K = D /\ lead # 1
      <4>1. Action(RST(K + lead)) \in {1, 2}
        BY <1>1, <2>6, <3>3, ActionIs
      <4>2. Restart(NoMarker, pos) \/ (Advance /\ UNCHANGED <<next_restart_num, restarts_to_go>>)
        BY <1>3, <3>1, <3>3, <4>1
      <4>3. CASE Restart(NoMarker, pos)
        BY <1>0, <1>2, <1>5, <2>1, <2>2, <2>6, <4>3, FalseStep
      <4>4. CASE Advance /\ UNCHANGED <<next_restart_num, restarts_to_go>>
        BY <1>0, <1>2, <1>5, <2>1, <2>2, <4>4, FalseStep
      <4> QED
        BY <4>2, <4>3, <4>4
    <3>4. CASE K = D + 1 /\ Stray(1)
      <4>1. unread_marker = RST(K + 0)
        <5>1. D + 1 = K + 0
          BY <1>1, <3>4
        <5> QED
          BY <2>2, <2>4, <3>4, <5>1
      <4>2. Action(RST(K + 0)) = 1
        BY <1>1, ActionIs
      <4>3. Restart(NoMarker, pos)
        BY <1>3, <4>1, <4>2
      <4> QED
        BY <1>0, <1>2, <1>5, <2>1, <2>2, <2>6, <4>3, FalseStep
    <3> QED
      BY <2>4, <3>2, <3>3, <3>4
  <2> QED
    BY <2>4, <2>5, <2>6
<1>6. ASSUME Over(K)
      PROVE  \E L \in 0 .. Intervals - 1 : InInterval(L)' /\ Course(L)'
  <2>1. (\E u, p : Restart(u, p)) \/ UNCHANGED <<next_restart_num, restarts_to_go>>
    BY <1>3
  <2> QED
    BY <1>0, <1>2, <1>6, <2>1, OverStep
<1> QED
  BY <1>2, <1>4, <1>5, <1>6

-----------------------------------------------------------------------------
(* The invariant, and what it says of a scan that has been decoded. *)

LEMMA RestartInit == Init => RestartInv
<1> SUFFICES ASSUME Init, Recoverable
             PROVE  PromiseKept /\ \E K \in 0 .. Intervals - 1 : InInterval(K) /\ Course(K)
  BY DEF RestartInv
<1>1. TypeOK
  BY TypeInit
<1>2. PromiseKept
  <2>1. ASSUME NEW k \in 0 .. Intervals - 1, NEW m \in First(k) .. First(k + 1) - 1
        PROVE  ~(m < 0)
    <3>1. k \in Int /\ 0 \in Int /\ 0 <= k
      BY Sizes
    <3>2. First(k) \in Int /\ (0 < k => First(0) + Interval <= First(k)) /\ First(0) = 0
      BY <3>1, Offsets
    <3>3. First(k + 1) \in Int
      BY <3>1, Offsets
    <3>4. First(k) >= 0
      BY <3>1, <3>2, Sizes
    <3> QED
      BY <2>1, <3>2, <3>3, <3>4
  <2> QED
    BY <2>1 DEF PromiseKept, Init
<1>3. 0 \in 0 .. Intervals - 1
  BY Sizes
<1>4. InInterval(0)
  <2>1. First(0 + 1) = First(0) + Interval /\ First(0) = 0
    BY Offsets
  <2> QED
    BY <2>1, Sizes DEF InInterval, Init
<1>5. Course(0)
  <2>1. PICK k \in Nat : k = file.keep
    BY <1>1, FileRange
  <2>2. /\ pos = 1 /\ unread_marker = NoMarker /\ restarts_to_go = Interval
        /\ insync = InOrder(1) /\ ~resync /\ ~insufficient_data
    BY DEF Init
  <2>3. Offset(0) = 0 /\ First(0) = 0
    BY Offsets
  <2>4. CASE k >= 1
    <3>1. 0 < 1 /\ 1 < 0 + Period /\ 1 - 1 - 0 = 0
      BY Sizes
    <3>2. items[1] = MCU(0 + 0)
      <4>1. 1 <= file.keep /\ Offset(0) < 1 /\ 1 < Offset(0) + Period /\ 1 - 1 - Offset(0) = 0
        BY <2>1, <2>3, <2>4, <3>1
      <4> QED
        BY <1>1, <1>3, <2>3, <4>1, ItemsBefore
    <3>3. InOrder(1)
      BY <3>2, Sizes DEF InOrder, MCU
    <3>4. OnCourse(Offset(0))
      BY <2>2, <2>3, <3>3, Sizes DEF OnCourse
    <3>5. BeforeDamage(0)
      BY <2>1, <2>2, <2>4, <3>4 DEF BeforeDamage
    <3> QED
      BY <3>5 DEF Course
  <2>5. CASE k = 0
    <3>1. 0 = Due(file.keep)
      <4>1. Offset(0) <= k /\ k < Offset(0) + Period /\ 0 \in Nat
        BY <2>3, <2>5, Sizes
      <4> QED
        BY <2>1, <4>1, DueAndOffset
    <3>2. /\ Due(file.keep + 1) <= 0 + 1
          /\ Promised(0) => file.keep + 1 = Offset(0 + 1)
          /\ Over(0) \/ MetFalse \/ \E T \in 1 .. Intervals - 1 : Met(0, T)
      BY <1>1, <1>3, <3>1, Entry
    <3>3. ~Promised(0)
      <4>1. Offset(0 + 1) = Offset(0) + Period
        BY Offsets
      <4> QED
        BY <2>1, <2>3, <2>5, <3>2, <4>1, Sizes
    <3>4. OffCourse(0)
      BY <3>2, <3>3 DEF OffCourse
    <3>5. pos = file.keep + 1
      BY <2>1, <2>2, <2>5
    <3>6. MetFalse => FalseAhead(0)
      BY <2>2, <3>1, <3>5 DEF MetFalse, FalseAhead, Ahead
    <3>7. ASSUME NEW T \in 1 .. Intervals - 1, Met(0, T) PROVE MarkerAhead(0, T)
      <4>1. next_marker(pos) = {Shift + Offset(T)} /\ Offset(T) >= file.resume
        BY <3>5, <3>7 DEF Met
      <4>2. PICK t \in Int : t = Offset(T)
        BY Offsets
      <4>3. t - Period < t /\ t <= t
        BY Sizes
      <4>4. Shift + Offset(T) \in 1 .. Len(items) /\ ~IsData(Shift + Offset(T))
        BY <1>1, <4>1, <4>2, <4>3, MarkerAfter
      <4>5. Ahead(Shift + Offset(T))
        <5>1. Shift + Offset(T) <= Len(items)
          BY <1>1, <4>4, FileItems
        <5> QED
          BY <2>2, <4>1, <4>4, <5>1 DEF Ahead
      <4> QED
        BY <3>7, <4>1, <4>5 DEF MarkerAhead, Met
    <3> QED
      BY <3>2, <3>4, <3>6, <3>7 DEF Course
  <2> QED
    BY <2>1, <2>4, <2>5
<1> QED
  BY <1>2, <1>3, <1>4, <1>5

LEMMA RestartInvStep == TypeOK /\ ResyncWired /\ RestartInv /\ [Next]_vars => RestartInv'
<1> SUFFICES ASSUME TypeOK, ResyncWired, RestartInv, [Next]_vars PROVE RestartInv'
  OBVIOUS
<1>0. UNCHANGED file
  BY DEF Next, LeaveZeros, DecodeMCU, DecodeGarbage, HitMarker, Delivers,
         read_restart_marker, jpeg_resync_to_restart, vars
<1>1. SUFFICES ASSUME Recoverable
               PROVE  PromiseKept' /\ \E L \in 0 .. Intervals - 1 : InInterval(L)' /\ Course(L)'
  BY <1>0, FileStays DEF RestartInv
<1>2. PICK K \in 0 .. Intervals - 1 : InInterval(K) /\ Course(K)
  BY <1>1 DEF RestartInv
<1>3. PromiseKept
  BY <1>1 DEF RestartInv
<1>4. ASSUME UNCHANGED <<mcu, image>> PROVE PromiseKept'
  BY <1>0, <1>3, <1>4, FileStays DEF PromiseKept
<1>5. CASE LeaveZeros \/ DecodeMCU \/ DecodeGarbage \/ HitMarker
  BY <1>1, <1>2, <1>3, <1>5, DecodeStep
<1>6. CASE read_restart_marker
  BY <1>1, <1>2, <1>4, <1>6, RestartStep DEF read_restart_marker
<1>7. CASE jpeg_resync_to_restart
  BY <1>1, <1>2, <1>4, <1>7, ResynchroniseStep DEF jpeg_resync_to_restart
<1>8. CASE UNCHANGED vars
  <2>1. InInterval(K)'
    BY <1>2, <1>8 DEF vars, InInterval
  <2> USE <1>8 DEF vars
  <2>2. items' = items
    BY DEF items
  <2>3. /\ Shift' = Shift /\ Restored' = Restored
        /\ \A k \in Int : Promised(k)' = Promised(k)
    BY DEF Shift, Restored, Promised, Cut, Repeat, Marred
  <2>4. \A o : OnCourse(o)' <=> OnCourse(o)
    BY <2>2 DEF OnCourse
  <2>5. \A q : Ahead(q)' <=> Ahead(q)
    BY <2>2 DEF Ahead, IsData, next_marker
  <2>6. ASSUME BeforeDamage(K) PROVE BeforeDamage(K)'
    BY <2>4, <2>6 DEF BeforeDamage
  <2>7. ASSUME AfterDamage(K) PROVE AfterDamage(K)'
    BY <2>3, <2>4, <2>7 DEF AfterDamage
  <2>8. ASSUME OffCourse(K) PROVE OffCourse(K)'
    BY <2>3, <2>8 DEF OffCourse
  <2>9. ASSUME NEW T \in 1 .. Intervals - 1, MarkerAhead(K, T) PROVE MarkerAhead(K, T)'
    BY <2>3, <2>5, <2>9 DEF MarkerAhead
  <2>10. ASSUME FalseAhead(K) PROVE FalseAhead(K)'
    BY <2>5, <2>10 DEF FalseAhead, Stray
  <2>11. ASSUME Over(K) PROVE Over(K)'
    BY <2>3, <2>11 DEF Over
  <2>12. Course(K)'
    BY <1>2, <2>6, <2>7, <2>8, <2>9, <2>10, <2>11 DEF Course
  <2> QED
    BY <1>2, <1>4, <1>8, <2>1, <2>12 DEF vars
<1> QED
  BY <1>5, <1>6, <1>7, <1>8 DEF Next

\* A scan that has been decoded shows what it promised.
LEMMA PromisesShown ==
  ASSUME TypeOK, RestartInv, Recoverable, mcu = Total, NEW k \in 0 .. Intervals - 1, Promised(k)
  PROVE  InPlace(k)
<1>1. k \in Int /\ k + 1 \in Int /\ Intervals \in Int /\ k + 1 <= Intervals
  BY Sizes
<1>2. First(k + 1) \in Int /\ First(k) \in Int /\ First(k + 1) = First(k) + Interval
  BY <1>1, Offsets
<1>3. First(k) + Interval <= First(Intervals) /\ First(Intervals) = Total
  <2>1. k < Intervals
    BY <1>1
  <2>2. k < Intervals <=> First(k) + Interval <= First(Intervals)
    BY <1>1, OffsetOrder, Zenon
  <2> QED
    BY <2>1, <2>2, Offsets
<1>4. ASSUME NEW m \in First(k) .. First(k + 1) - 1 PROVE image[m] = m
  <2>1. m < mcu
    BY <1>2, <1>3, TotalIsNat
  <2> QED
    BY <2>1 DEF RestartInv, PromiseKept
<1> QED
  BY <1>4 DEF InPlace, First

LEMMA IntactIsPromised ==
  ASSUME TypeOK, Cut \/ Repeat \/ Marred, NEW k \in 0 .. Intervals - 1, Intact(k)
  PROVE  Promised(k)
<1>1. PICK g \in Nat : g = file.keep + 1
  BY FileRange
<1>2. PICK r \in Nat : r = file.resume - 1
  BY FileRange
<1>3. k \in Nat /\ k + 1 \in Nat /\ file.resume \in Int
  BY FileRange, Sizes
<1>4. CASE (k + 1) * Period <= file.keep + 1
  <2>1. Offset(k + 1) <= g
    BY <1>1, <1>4 DEF Offset
  <2>2. k + 1 <= Due(g)
    BY <1>3, <2>1, DueAndOffset
  <2> QED
    BY <1>1, <1>3, <2>2, DueAndOffset DEF Promised
<1>5. CASE k * Period >= file.resume
  <2>1. Offset(k) >= file.resume /\ Offset(k) \in Int
    BY <1>3, <1>5, Offsets DEF Offset
  <2>2. ~(k <= Due(r))
    BY <1>2, <1>3, <2>1, DueAndOffset
  <2>3. Restored = Due(r) + 1
    BY <1>2 DEF Restored
  <2> QED
    BY <1>3, <2>2, <2>3, DueAndOffset DEF Promised
<1> QED
  BY <1>4, <1>5 DEF Intact

LEMMA SpecInvariants == Spec => [](TypeOK /\ ResyncWired /\ RestartInv)
<1>1. Init => ResyncWired
  BY DEF Init, ResyncWired
<1> QED
  BY <1>1, TypeInit, RestartInit, TypeStep, ResyncStep, RestartInvStep, PTL DEF Spec, SafetySpec

\* Where the decoder is, in a file whose damage takes or repeats at most two
\* restart markers or puts in a false one: at the MCU it takes it for, or
\* outside what is promised and with a marker ahead that it will recognise.
THEOREM DecoderKeepsItsPlace == Spec => []RestartInv
<1> QED
  BY SpecInvariants, PTL

\* jpeg_resync_to_restart: damage that takes or repeats no more than two
\* restart markers, wherever it is, costs only the intervals it touches,
\* however many there are.
THEOREM DamageIsContained == Spec => []Resynchronised
<1>1. TypeOK /\ RestartInv => Resynchronised
  <2> SUFFICES ASSUME TypeOK, RestartInv, mcu = Total, Cut \/ Repeat \/ Marred,
                      NEW k \in 0 .. Intervals - 1, Intact(k)
               PROVE  InPlace(k)
    BY DEF Resynchronised
  <2>1. Recoverable
    BY DEF Recoverable
  <2> QED
    BY <2>1, IntactIsPromised, PromisesShown
<1> QED
  BY <1>1, SpecInvariants, PTL

\* The same for a false restart marker of any number but the second after the
\* one that is due: from the third interval on the image is as written.
THEOREM StrayIsForgotten == Spec => []StrayForgotten
<1>1. TypeOK /\ RestartInv => StrayForgotten
  <2> SUFFICES ASSUME TypeOK, RestartInv, mcu = Total, NEW lead \in (-3 .. 4) \ {2}, Stray(lead),
                      NEW k \in RSTs(file.keep) + 3 .. Intervals - 1
               PROVE  InPlace(k)
    BY DEF StrayForgotten
  <2>1. Recoverable
    BY DEF Recoverable
  <2>2. PICK g \in Nat : g = file.keep
    BY FileRange
  <2>3. RSTs(g) \in 0 .. Intervals - 1
    BY MarkersAmong
  <2>4. k \in 0 .. Intervals - 1 /\ RSTs(g) + 3 <= k /\ k \in Int /\ RSTs(g) \in Int
    BY <2>2, <2>3, Sizes
  <2>5. RSTs(g) = Due(g)
    BY <2>3, <2>4, MarkersAmong, Offsets, Sizes
  <2>6. ~Marred
    <3>1. file.extra[1].kind = "RST"
      BY DEF Stray, RST
    <3> QED
      BY <3>1 DEF Marred, Invalid
  <2>7. Restored = Due(g) + 3
    BY <2>2, <2>6, FalseMarker
  <2>8. Promised(k)
    BY <2>4, <2>5, <2>7 DEF Promised
  <2> QED
    BY <2>1, <2>4, <2>8, PromisesShown
<1> QED
  BY <1>1, SpecInvariants, PTL
=============================================================================

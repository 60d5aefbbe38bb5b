-------------------------- MODULE MapRenderProofs --------------------------
(***************************************************************************)
(* Proofs, for images, windows and markers of any size, of the safety      *)
(* properties of MapRender, and of the arithmetic they rest on: for every  *)
(* position an int can hold the restored window lies within the image, and *)
(* for a position that moved by at most Window - Radius it covers the old  *)
(* marker.                                                                 *)
(***************************************************************************)
EXTENDS MapRender, TLAPS

\* The far end of the window, in the unsigned arithmetic of the comparison.
LEMMA EndClips ==
  ASSUME NEW n \in Nat \ {0}, n + Window <= Half, NEW c \in SignedInt
  PROVE  /\ End(c, n) \in Int /\ End(c, n) < n
         /\ c >= 0 /\ c + Window < n => End(c, n) = c + Window
         /\ c + Window >= n \/ c + Window < 0 => End(c, n) = n - 1
  <1> DEFINE d == 2 * Half
  <1> DEFINE a == c + Window
  <1>1. Half \in Nat /\ Window \in Nat /\ Half > 0
    BY RenderAssumption
  <1>2. a \in Int /\ -Half <= a /\ a < d /\ d \in Nat /\ d > 0
    BY <1>1 DEF SignedInt
  <1> HIDE DEF d, a
  <1>3. CASE a >= 0
    <2>1. a % d = a
      BY <1>2, <1>3
    <2> QED
      BY <1>1, <1>2, <1>3, <2>1 DEF End, a, d
  <1>4. CASE a < 0
    <2>1. a \div d \in Int /\ a = d * (a \div d) + (a % d) /\ 0 <= a % d /\ a % d < d
      BY <1>2
    <2>2. -d <= a
      BY <1>1, <1>2 DEF d
    <2>3. a \div d = -1
      BY <1>2, <1>4, <2>1, <2>2
    <2>4. a % d = a + d
      BY <1>2, <2>1, <2>3
    <2>5. n <= a + d
      BY <1>1, <1>2 DEF d
    <2>6. End(c, n) = n - 1
      BY <1>2, <2>4, <2>5 DEF End, a, d
    <2> QED
      BY <1>1, <1>4, <2>6 DEF a, SignedInt
  <1> QED
    BY <1>2, <1>3, <1>4

\* loadJPEG copies no pixel outside the image, whatever ints circleX and
\* circleY are.
THEOREM WindowInImage ==
  \A p \in SignedInt \X SignedInt : Restored(p) \subseteq Image
  <1> SUFFICES ASSUME NEW p \in SignedInt \X SignedInt, NEW q \in Restored(p)
               PROVE  q \in Image
    OBVIOUS
  <1>1. p[1] \in SignedInt /\ p[2] \in SignedInt
    OBVIOUS
  <1>2. p[1] \in Int /\ p[2] \in Int
    BY <1>1, RenderAssumption DEF SignedInt
  <1>3. End(p[1], Width) \in Int /\ End(p[1], Width) < Width
    BY <1>1, EndClips, RenderAssumption
  <1>4. End(p[2], Height) \in Int /\ End(p[2], Height) < Height
    BY <1>1, EndClips, RenderAssumption
  <1>5. Start(p[1]) \in Nat /\ Start(p[2]) \in Nat
    BY <1>2, RenderAssumption DEF Start
  <1>6. PICK x \in Start(p[1]) .. End(p[1], Width), y \in Start(p[2]) .. End(p[2], Height) : q = <<x, y>>
    BY DEF Restored
  <1>7. x \in 0 .. Width - 1 /\ y \in 0 .. Height - 1
    BY <1>3, <1>4, <1>5, RenderAssumption
  <1> QED
    BY <1>6, <1>7 DEF Image

\* On one axis: what is within the image and within Window of a position on
\* or beyond it is restored.
LEMMA WindowReaches ==
  ASSUME NEW n \in Nat \ {0}, n + Window <= Half, NEW c \in SignedInt, c >= 0,
         NEW x \in 0 .. n - 1, Near(x, c, Window)
  PROVE  x \in Start(c) .. End(c, n)
  <1>1. c \in Int /\ Window \in Nat
    BY RenderAssumption DEF SignedInt
  <1>2. Start(c) \in Nat /\ Start(c) <= x
    BY <1>1 DEF Start, Near
  <1>3. End(c, n) \in Int /\ x <= End(c, n)
    BY <1>1, EndClips DEF Near
  <1> QED
    BY <1>2, <1>3

\* The window around p restores all of a marker at a position q from which p
\* is no farther than Window - Radius, p's own included.
LEMMA OldMarkerRestored ==
  ASSUME NEW p \in Positions, NEW q \in Positions,
         Near(p[1], q[1], Window - Radius), Near(p[2], q[2], Window - Radius)
  PROVE  Stamp(q) \subseteq Restored(p)
  <1>1. /\ p[1] \in SignedInt /\ p[1] >= 0 /\ p[2] \in SignedInt /\ p[2] >= 0
        /\ q[1] \in Nat /\ q[2] \in Nat /\ p[1] \in Nat /\ p[2] \in Nat
    BY RenderAssumption DEF SignedInt
  <1> SUFFICES ASSUME NEW r \in Stamp(q) PROVE r \in Restored(p)
    OBVIOUS
  <1>2. PICK x \in 0 .. Width - 1, y \in 0 .. Height - 1 : r = <<x, y>>
    BY DEF Stamp, Image
  <1>3. Near(x, q[1], Radius) /\ Near(y, q[2], Radius)
    BY <1>2 DEF Stamp
  <1>4. Near(x, p[1], Window) /\ Near(y, p[2], Window)
    BY <1>1, <1>3, RenderAssumption DEF Near
  <1>5. x \in Start(p[1]) .. End(p[1], Width)
    BY <1>1, <1>4, WindowReaches, RenderAssumption
  <1>6. y \in Start(p[2]) .. End(p[2], Height)
    BY <1>1, <1>4, WindowReaches, RenderAssumption
  <1> QED
    BY <1>2, <1>5, <1>6 DEF Restored

\* What is left of a view that ended is well typed, and nothing is painted.
LEMMA ClosesTyped ==
  ASSUME Closes
  PROVE  /\ map' = "none" /\ file' \in Files /\ firstDraw' \in BOOLEAN /\ dirty' \in BOOLEAN
         /\ pixels' \in [Image -> Maps \cup {"blank"}] /\ stained' \subseteq Image
         /\ circle' \in Positions \cup {NoFix} /\ jumped' \in BOOLEAN
         /\ onBitmap' \in Places /\ onScreen' \in Places
  BY DEF Closes, Blank, Files, Places

LEMMA TypeStep ==
  TypeOK /\ [Next]_vars => TypeOK'
  <1> SUFFICES ASSUME TypeOK, [Next]_vars PROVE TypeOK'
    OBVIOUS
  <1>0. CASE UNCHANGED vars
    BY <1>0 DEF vars, viewVars, bitmapVars, TypeOK
  <1>1. ASSUME NEW m \in Maps, NEW f \in Files, Open(m, f) PROVE TypeOK'
    BY <1>1 DEF Open, bitmapVars, TypeOK
  <1>2. CASE Close
    BY <1>2, ClosesTyped DEF Close, TypeOK
  <1>3. CASE Die
    BY <1>3, ClosesTyped DEF Die, TypeOK
  <1>4. ASSUME NEW p \in Positions, UpdateLocation(p) PROVE TypeOK'
    BY <1>4 DEF UpdateLocation, bitmapVars, TypeOK
  <1>5. CASE Invalidate
    BY <1>5 DEF Invalidate, viewVars, bitmapVars, TypeOK
  <1>6. CASE Draw
    <2>1. map \in Maps
      BY <1>6 DEF Draw, TypeOK
    <2>2. Clean \in [Image -> Maps \cup {"blank"}]
      <3>1. CASE Decodes
        BY <2>1, <3>1 DEF Clean, TypeOK
      <3>2. CASE ~Decodes
        <4>1. bitmapData \in Maps
          BY <3>2 DEF Decodes, TypeOK
        <4> QED
          BY <3>2, <4>1 DEF Clean, TypeOK
      <3> QED
        BY <3>1, <3>2
    <2>3. CleanStains \subseteq Image /\ Stamp(circle) \subseteq Image
      BY DEF CleanStains, Stamp, TypeOK
    <2>4. bitmapData' \in Maps \cup {"none"} /\ pixels' \in [Image -> Maps \cup {"blank"}]
      BY <1>6, <2>1, <2>2 DEF Draw, TypeOK
    <2>5. stained' \subseteq Image
      BY <1>6, <2>3 DEF Draw
    <2>6. onBitmap' \in Places /\ onScreen' \in Places
      BY <1>6 DEF Draw, TypeOK, Places
    <2>7. jumped' \in BOOLEAN /\ firstDraw' \in BOOLEAN /\ dirty' \in BOOLEAN
      BY <1>6 DEF Draw, TypeOK, Jumps
    <2> QED
      BY <1>6, <2>4, <2>5, <2>6, <2>7 DEF Draw, TypeOK
  <1>7. CASE DrawWithoutMemory
    BY <1>7, ClosesTyped DEF DrawWithoutMemory, TypeOK
  <1> QED
    BY <1>0, <1>1, <1>2, <1>3, <1>4, <1>5, <1>6, <1>7 DEF Next

LEMMA TypeInit == Init => TypeOK
  BY DEF Init, NoView, TypeOK, Blank, Files, Places

\* Every reachable state is well typed.
THEOREM TypeCorrect == SafetySpec => []TypeOK
  BY TypeInit, TypeStep, PTL DEF SafetySpec

-----------------------------------------------------------------------------
LEMMA ClosesInv ==
  ASSUME Closes PROVE IndInv'
  <1>1. map' = "none" /\ onBitmap' = Nowhere /\ stained' = {} /\ ~jumped'
    BY DEF Closes
  <1>2. Nowhere \notin Positions
    BY RenderAssumption DEF Nowhere
  <1> QED
    BY <1>1, <1>2 DEF IndInv, ShowsOwnMap, OneMarker, DrawnState

\* A draw repaints the marker, and cleans up the previous one unless the fix
\* jumped.
LEMMA DrawMarks ==
  ASSUME TypeOK, IndInv, Draw PROVE OneMarker'
  <1>1. onBitmap' = circle /\ file' = file /\ stained' = CleanStains \cup Stamp(circle)
    BY DEF Draw
  <1> SUFFICES ASSUME ~jumped', HasHeader
               PROVE  CleanStains \subseteq Stamp(circle) \cup Stamp(NoFix)
    BY <1>1 DEF OneMarker, HasHeader
  <1>2. ~jumped /\ ~Jumps
    BY DEF Draw
  <1>3. map # "none"
    BY DEF Draw
  <1>4. NoFix \notin Positions /\ NoFix # Nowhere
    BY RenderAssumption DEF NoFix, Nowhere
  <1>5. CASE Decodes
    BY <1>5 DEF CleanStains
  <1>6. CASE ~Decodes
    <2>1. ~firstDraw
      BY <1>6 DEF Decodes
    <2>2. onBitmap # Nowhere
      BY <1>3, <2>1 DEF IndInv, DrawnState
    <2>3. stained \subseteq Stamp(onBitmap) \cup Stamp(NoFix)
      BY <1>2, <2>2 DEF IndInv, OneMarker
    <2>4. CASE circle \in Positions
      <3>1. Restores
        BY <1>6, <2>4, RenderAssumption DEF Restores
      <3>2. CleanStains = stained \ Restored(circle)
        BY <1>6, <3>1 DEF CleanStains
      <3>3. CASE onBitmap \in Positions
        <4>1. Stamp(onBitmap) \subseteq Restored(circle)
          BY <1>2, <2>4, <3>3, OldMarkerRestored DEF Jumps
        <4> QED
          BY <2>3, <3>2, <4>1
      <3>4. CASE onBitmap = NoFix
        BY <2>3, <3>2, <3>4
      <3> QED
        BY <2>2, <3>3, <3>4 DEF TypeOK, Places
    <2>5. CASE circle = NoFix
      <3>1. onBitmap = NoFix
        BY <1>4, <2>2, <2>5 DEF TypeOK, Places, IndInv, DrawnState
      <3>2. CleanStains \subseteq stained
        BY <1>6 DEF CleanStains
      <3> QED
        BY <2>3, <3>1, <3>2
    <2> QED
      BY <2>4, <2>5 DEF TypeOK
  <1> QED
    BY <1>5, <1>6

LEMMA DrawInv ==
  ASSUME TypeOK, IndInv, Draw PROVE IndInv'
  <1>1. /\ map' = map /\ map # "none" /\ file' = file /\ circle' = circle /\ ~firstDraw'
        /\ onBitmap' = circle /\ pixels' = Clean
        /\ bitmapData' = IF Decodes /\ HasHeader THEN map ELSE bitmapData
    BY DEF Draw, TypeOK
  <1>2. circle # Nowhere
    BY RenderAssumption DEF TypeOK, NoFix, Nowhere
  <1>3. HasHeader => bitmapData' = map
    BY <1>1 DEF IndInv, DrawnState, Decodes
  <1>4. HasHeader => pixels' = [q \in Image |-> map]
    <2> SUFFICES ASSUME HasHeader PROVE Clean = [q \in Image |-> map]
      BY <1>1
    <2>1. CASE Decodes
      BY <2>1 DEF Clean
    <2>2. CASE ~Decodes
      <3>1. bitmapData = map /\ pixels = [q \in Image |-> map]
        BY <1>1, <2>2 DEF Decodes, IndInv, DrawnState, ShowsOwnMap
      <3> QED
        BY <2>2, <3>1 DEF Clean
    <2> QED
      BY <2>1, <2>2
  <1>5. ASSUME circle \in Positions, HasHeader
        PROVE  \A q \in stained' : q \in Restored(circle) => q \in Stamp(circle)
    <2>1. stained' = CleanStains \cup Stamp(circle)
      BY DEF Draw
    <2>2. \A q \in CleanStains : q \notin Restored(circle)
      BY <1>5, RenderAssumption DEF CleanStains, Restores
    <2> QED
      BY <2>1, <2>2
  <1>6. Restored(circle)' = Restored(circle) /\ Stamp(circle)' = Stamp(circle)
    BY <1>1 DEF Restored, Stamp
  <1>7. ShowsOwnMap' /\ DrawnState'
    BY <1>1, <1>2, <1>3, <1>4, <1>5, <1>6 DEF ShowsOwnMap, DrawnState, HasHeader, TypeOK
  <1> QED
    BY <1>7, DrawMarks DEF IndInv

LEMMA InvStep ==
  TypeOK /\ IndInv /\ [Next]_vars => IndInv'
  <1> SUFFICES ASSUME TypeOK, IndInv, [Next]_vars PROVE IndInv'
    OBVIOUS
  <1> USE DEF ShowsOwnMap, OneMarker, DrawnState, HasHeader
  <1>0. CASE UNCHANGED vars
    BY <1>0 DEF vars, viewVars, bitmapVars, IndInv
  <1>1. ASSUME NEW m \in Maps, NEW f \in Files, Open(m, f) PROVE IndInv'
    BY <1>1, RenderAssumption DEF Open, bitmapVars, IndInv
  <1>2. CASE Close
    BY <1>2, ClosesInv DEF Close
  <1>3. CASE Die
    BY <1>3, ClosesInv DEF Die
  <1>4. ASSUME NEW p \in Positions, UpdateLocation(p) PROVE IndInv'
    BY <1>4 DEF UpdateLocation, bitmapVars, IndInv
  <1>5. CASE Invalidate
    BY <1>5 DEF Invalidate, viewVars, bitmapVars, IndInv
  <1>6. CASE Draw
    BY <1>6, DrawInv
  <1>7. CASE DrawWithoutMemory
    BY <1>7, ClosesInv DEF DrawWithoutMemory
  <1> QED
    BY <1>0, <1>1, <1>2, <1>3, <1>4, <1>5, <1>6, <1>7 DEF Next

LEMMA InvInit == Init => IndInv
  <1>1. Nowhere \notin Positions
    BY RenderAssumption DEF Nowhere
  <1> QED
    BY <1>1 DEF Init, NoView, IndInv, ShowsOwnMap, OneMarker, DrawnState

\* The inductive invariant holds in every reachable state.
THEOREM Inductive == SafetySpec => []IndInv
  BY TypeCorrect, InvInit, InvStep, PTL DEF SafetySpec

\* A drawn view shows its own map, if its file had a header.
THEOREM OwnMapShown == SafetySpec => []ShowsOwnMap
  BY Inductive, PTL DEF IndInv

\* The marker is complete and, without jumps, alone but for the corner.
THEOREM MarkerAlone == SafetySpec => []OneMarker
  BY Inductive, PTL DEF IndInv
-----------------------------------------------------------------------------
LEMMA RedrawStep ==
  TypeOK /\ IndInv /\ [Next]_vars =>
    (map' = map /\ dirty /\ ~dirty' /\ ~firstDraw /\ HasHeader /\ circle = onBitmap
       => pixels' = pixels /\ stained' = stained)
  <1> SUFFICES ASSUME TypeOK, IndInv, [Next]_vars, map' = map, dirty, ~dirty', ~firstDraw,
                      HasHeader, circle = onBitmap
               PROVE  pixels' = pixels /\ stained' = stained
    OBVIOUS
  <1>0. CASE UNCHANGED vars
    BY <1>0 DEF vars, bitmapVars
  <1>1. ASSUME NEW m \in Maps, NEW f \in Files, Open(m, f) PROVE FALSE
    BY <1>1 DEF Open
  <1>2. ASSUME Closes PROVE map = "none"
    BY <1>2 DEF Closes
  <1>3. CASE Close \/ Die \/ DrawWithoutMemory
    <2>1. onBitmap = Nowhere
      BY <1>2, <1>3 DEF Close, Die, DrawWithoutMemory, IndInv, DrawnState
    <2> QED
      BY <2>1, RenderAssumption DEF TypeOK, NoFix, Nowhere
  <1>4. ASSUME NEW p \in Positions, UpdateLocation(p) PROVE FALSE
    BY <1>4 DEF UpdateLocation
  <1>5. CASE Invalidate
    BY <1>5 DEF Invalidate
  <1>6. CASE Draw
    <2>1. bitmapData = map /\ map # "none" /\ pixels = [q \in Image |-> map]
      BY <1>6 DEF Draw, IndInv, DrawnState, ShowsOwnMap
    <2>2. ~Decodes
      BY <2>1 DEF Decodes
    <2>3. pixels' = pixels
      BY <1>6, <2>1, <2>2 DEF Draw, Clean
    <2>4. circle # Nowhere
      BY RenderAssumption DEF TypeOK, NoFix, Nowhere
    <2>5. Stamp(circle) \subseteq stained
      BY <2>4 DEF IndInv, OneMarker
    <2>6. stained \subseteq CleanStains \cup Stamp(circle)
      <3>1. CASE circle \in Positions
        <4>1. \A q \in stained : q \in Restored(circle) => q \in Stamp(circle)
          BY <3>1 DEF IndInv, DrawnState
        <4> QED
          BY <2>2, <4>1 DEF CleanStains
      <3>2. CASE circle = NoFix
        BY <2>2, <3>2 DEF CleanStains, Restores, NoFix
      <3> QED
        BY <3>1, <3>2 DEF TypeOK
    <2>7. CleanStains \subseteq stained
      BY <2>2 DEF CleanStains
    <2> QED
      BY <1>6, <2>3, <2>5, <2>6, <2>7 DEF Draw
  <1> QED
    BY <1>0, <1>1, <1>3, <1>4, <1>5, <1>6 DEF Next

\* A redraw at the same position changes nothing.
THEOREM RedrawsAreStable == SafetySpec => RedrawIsStable
  BY TypeCorrect, Inductive, RedrawStep, PTL DEF SafetySpec, RedrawIsStable
=============================================================================

----------------------------- MODULE MapRender -----------------------------
(***************************************************************************)
(* How a map gets on the screen: MapView.onDraw and the native renderer    *)
(* it calls (jni/bitmap/bitmap.c).                                         *)
(*                                                                         *)
(* One bitmap belongs to each view.  The first draw decodes the image file *)
(* into it and, beside it, into bitmapData, a global of the process that   *)
(* outlives the view.  Every draw then paints the position marker on the   *)
(* same bitmap, so the next one first copies a window of the clean pixels  *)
(* back, around the position the marker is about to have.  All of it runs  *)
(* on the UI thread: a draw is one step.                                   *)
(*                                                                         *)
(* Maps have one size here, and a file decodes to just that size.  What    *)
(* decodes it is in JpegDecoder; this module keeps of a file whether it    *)
(* has a header.                                                           *)
(***************************************************************************)
EXTENDS Integers

CONSTANTS Maps,
          Width, Height,  \* of every map image
          Window,         \* 100: how far from the marker pixels are restored
          Radius,         \* how far the marker reaches, however it is rotated
          Half,           \* 2^31
          Positions       \* positions of the user, in pixels of the image

\* The range of a C int; unsigned int is 0 .. 2 * Half - 1.
SignedInt == -Half .. Half - 1

ASSUME RenderAssumption ==
  /\ Width \in Nat \ {0} /\ Height \in Nat \ {0}
  /\ Radius \in Nat /\ Window \in Nat /\ Radius <= Window
  /\ Half \in Nat /\ Width + Window <= Half /\ Height + Window <= Half
  /\ "none" \notin Maps /\ "blank" \notin Maps
  /\ Positions \subseteq Nat \X Nat
  /\ \A p \in Positions : p[1] + Window < Half /\ p[2] + Window < Half

Image == (0 .. Width - 1) \X (0 .. Height - 1)

\* circleX and circleY before the first fix.
NoFix == <<-1, -1>>

\* What decryptImage leaves for the decoder: a whole image, one that breaks
\* off after its header, or nothing, if the encrypted file is empty or gone.
Files == {"image", "cut", "empty"}

VARIABLES
  bitmapData,  \* the map whose pixels it has, or "none" for NULL
  map,         \* the map of the open view, or "none"
  file,        \* the decrypted file of that map
  firstDraw,   \* MapView.firstDraw
  pixels,      \* the image in mapBitmap: for each pixel the map it comes from
  stained,     \* the pixels of mapBitmap that have marker paint
  circle,      \* MapView.circleX and circleY
  dirty,       \* the view has been invalidated
  onBitmap,    \* position of the marker painted last on mapBitmap
  onScreen,    \* position of that marker when the bitmap was last shown
  jumped       \* history: a marker moved by more than the window restores

viewVars == <<map, file, firstDraw, circle>>
bitmapVars == <<pixels, stained, onBitmap, onScreen, jumped>>
vars == <<bitmapData, viewVars, bitmapVars, dirty>>

Blank == [q \in Image |-> "blank"]

\* Of no marker: nothing painted yet, or nothing shown.
Nowhere == <<-2, -2>>
Places == Positions \cup {NoFix, Nowhere}

TypeOK ==
  /\ bitmapData \in Maps \cup {"none"} /\ map \in Maps \cup {"none"}
  /\ file \in Files /\ firstDraw \in BOOLEAN /\ dirty \in BOOLEAN
  /\ pixels \in [Image -> Maps \cup {"blank"}] /\ stained \subseteq Image
  /\ circle \in Positions \cup {NoFix}
  /\ onBitmap \in Places /\ onScreen \in Places /\ jumped \in BOOLEAN

NoView ==
  /\ map = "none" /\ file = "empty" /\ firstDraw = FALSE /\ dirty = FALSE
  /\ pixels = Blank /\ stained = {} /\ circle = NoFix
  /\ onBitmap = Nowhere /\ onScreen = Nowhere /\ jumped = FALSE

Init == bitmapData = "none" /\ NoView

-----------------------------------------------------------------------------
(* loadJPEG: the window around a marker, one axis at a time.  The test of   *)
(* the far end compares an int with an unsigned int, so it is unsigned.     *)

Start(c) == IF c - Window > 0 THEN c - Window ELSE 0

End(c, n) == IF (c + Window) % (2 * Half) < n THEN c + Window ELSE n - 1

Restored(p) ==
  (Start(p[1]) .. End(p[1], Width)) \X (Start(p[2]) .. End(p[2], Height))

Near(a, b, r) == a - b <= r /\ b - a <= r

\* drawBitmap of the marker, clipped to the bitmap.
Stamp(p) == {q \in Image : Near(q[1], p[1], Radius) /\ Near(q[2], p[2], Radius)}

-----------------------------------------------------------------------------
(* The view. *)

\* MapViewActivity.onCreate: a new MapView, an empty bitmap, and a file from
\* decryptImage.  (If decryptImage throws, there is no view.)
Open(m, f) ==
  /\ map = "none"
  /\ map' = m /\ file' = f /\ firstDraw' = TRUE /\ dirty' = TRUE
  /\ UNCHANGED <<bitmapData, circle, bitmapVars>>

Closes ==
  /\ map' = "none" /\ file' = "empty" /\ firstDraw' = FALSE /\ dirty' = FALSE
  /\ pixels' = Blank /\ stained' = {} /\ circle' = NoFix
  /\ onBitmap' = Nowhere /\ onScreen' = Nowhere /\ jumped' = FALSE

\* onDestroy: neither the activity nor closeDown() frees bitmapData.
Close == map # "none" /\ Closes /\ UNCHANGED bitmapData
Die == bitmapData' = "none" /\ Closes /\ (map # "none" \/ bitmapData # "none")

\* updateLocation, for a fix within the map, and then invalidate().
UpdateSwapped(p) ==    \* mutant: row and column swapped
  /\ map # "none" /\ circle' = <<p[2], p[1]>> /\ dirty' = TRUE
  /\ UNCHANGED <<bitmapData, map, file, firstDraw, bitmapVars>>
UpdateLocation(p) ==
  /\ map # "none" /\ circle' = p /\ dirty' = TRUE
  /\ UNCHANGED <<bitmapData, map, file, firstDraw, bitmapVars>>

\* onSensorChanged, and whatever else makes the platform redraw the view.
InvalidateNever == FALSE    \* mutant: the compass does not redraw the map
Invalidate ==
  /\ map # "none" /\ ~dirty /\ dirty' = TRUE
  /\ UNCHANGED <<bitmapData, viewVars, bitmapVars>>

-----------------------------------------------------------------------------
(* onDraw. *)

\* renderBitmap: whether it decodes the file or restores a window.
DecodesOnce == bitmapData = "none"    \* mutant: "first" is not asked
Decodes == bitmapData = "none" \/ firstDraw
Restores == ~Decodes /\ circle[1] # -1 /\ circle[2] # -1

\* read_JPEG fills both bitmaps; without a header it returns before it has
\* allocated anything.  That is one outcome of an error_exit that returns: a
\* file without SOI may also be searched for it without end, and after other
\* errors libjpeg runs on with whatever it has.  Those are left out.
HasHeader == file # "empty"

\* The bitmap has the size that the database gives for the map.  read_JPEG
\* writes as many pixels as the file has, without comparing; here they agree.
Clean ==
  IF Decodes THEN (IF HasHeader THEN [q \in Image |-> map] ELSE pixels)
  ELSE [q \in Image |-> IF Restores /\ q \in Restored(circle) THEN bitmapData ELSE pixels[q]]

CleanStainsOld ==    \* mutant: the window restored is that of the marker before
  IF Decodes THEN (IF HasHeader THEN {} ELSE stained)
  ELSE IF Restores /\ onBitmap \in Positions THEN stained \ Restored(onBitmap) ELSE stained
CleanStains ==
  IF Decodes THEN (IF HasHeader THEN {} ELSE stained)
  ELSE IF Restores THEN stained \ Restored(circle) ELSE stained

\* The marker moves farther than the window reaches back to clean it.
Jumps ==
  /\ onBitmap \in Positions /\ circle \in Positions
  /\ ~ /\ Near(circle[1], onBitmap[1], Window - Radius)
       /\ Near(circle[2], onBitmap[2], Window - Radius)

DrawStampFirst ==    \* mutant: the marker is drawn before the window is restored
  /\ map # "none" /\ dirty /\ dirty' = FALSE
  /\ onScreen' = onBitmap /\ pixels' = Clean /\ firstDraw' = FALSE
  /\ bitmapData' = IF Decodes /\ HasHeader THEN map ELSE bitmapData
  /\ stained' = IF Restores THEN (stained \cup Stamp(circle)) \ Restored(circle)
                ELSE CleanStains \cup Stamp(circle)
  /\ onBitmap' = circle /\ jumped' = (jumped \/ Jumps)
  /\ UNCHANGED <<map, file, circle>>

\* super.onDraw shows the bitmap as the last draw left it; then the window is
\* restored and the marker painted, for the next draw to show.
Draw ==
  /\ map # "none" /\ dirty /\ dirty' = FALSE
  /\ onScreen' = onBitmap
  /\ bitmapData' = IF Decodes /\ HasHeader THEN map ELSE bitmapData
  /\ pixels' = Clean /\ firstDraw' = FALSE
  /\ stained' = CleanStains \cup Stamp(circle)
  /\ onBitmap' = circle
  /\ jumped' = (jumped \/ Jumps)
  /\ UNCHANGED <<map, file, circle>>

\* calloc fails and its result is used: the process ends.
DrawWithoutMemory ==
  map # "none" /\ dirty /\ Decodes /\ HasHeader /\ bitmapData' = "none" /\ Closes

-----------------------------------------------------------------------------
Next ==
  \/ \E m \in Maps, f \in Files : Open(m, f)
  \/ Close \/ Die \/ Invalidate \/ Draw \/ DrawWithoutMemory
  \/ \E p \in Positions : UpdateLocation(p)

\* The compass goes on reporting, and an invalidated view is drawn.
Fairness == WF_vars(Invalidate) /\ WF_vars(Draw)

SafetySpec == Init /\ [][Next]_vars
Spec == SafetySpec /\ Fairness

-----------------------------------------------------------------------------
(* Properties. *)

\* Once a view has been drawn it shows its own map all over, whatever an
\* earlier view left in bitmapData.  Without a header in the file this is
\* not so: bitmapData keeps the pixels of the map before, and the windows
\* restored around fixes show them.
ShowsOwnMap ==
  map # "none" /\ ~firstDraw /\ HasHeader => pixels = [q \in Image |-> map]

\* The marker painted last is complete; and unless a fix jumped, the only
\* other paint is that of the draws before the first fix, in the corner: the
\* markers of earlier fixes are gone although only the surroundings of the
\* new one are restored.
OneMarker ==
  onBitmap # Nowhere =>
    /\ Stamp(onBitmap) \subseteq stained
    /\ ~jumped /\ HasHeader => stained \subseteq Stamp(onBitmap) \cup Stamp(NoFix)

\* Drawing a decoded map again at the same position changes neither image nor
\* paint, whatever trail the bitmap has.
RedrawIsStable ==
  [][map' = map /\ dirty /\ ~dirty' /\ ~firstDraw /\ HasHeader /\ circle = onBitmap
       => pixels' = pixels /\ stained' = stained]_vars

\* What the proofs add: a view that was drawn has its map in bitmapData, and
\* the surroundings of the marker are clean.
DrawnState ==
  /\ map # "none" /\ ~firstDraw /\ HasHeader => bitmapData = map
  /\ onBitmap = Nowhere => stained = {} /\ ~jumped
  /\ map # "none" => (onBitmap = Nowhere <=> firstDraw)
  /\ map = "none" => onBitmap = Nowhere
  /\ onBitmap \in Positions => circle \in Positions
  /\ onBitmap \in Positions /\ HasHeader =>
       \A q \in stained : q \in Restored(onBitmap) => q \in Stamp(onBitmap)

IndInv == ShowsOwnMap /\ OneMarker /\ DrawnState

\* A position the user keeps gets on the screen, which takes two draws.
PositionShown ==
  \A p \in Positions : circle = p ~> onScreen = p \/ circle # p
=============================================================================

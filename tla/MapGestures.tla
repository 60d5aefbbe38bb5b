----------------------------- MODULE MapGestures -----------------------------
(***************************************************************************)
(* MapView.onTouchEvent: one finger drags the map, two zoom it.  The code  *)
(* keeps in fields what the last event left there; an event shows only the *)
(* fingers that are down, in the order of their numbers, so that the       *)
(* "first finger" is another one when a finger is lifted or added.         *)
(*                                                                         *)
(* One axis is modelled: the code treats the other alike, and distances    *)
(* and movements are compared, not computed with.                          *)
(***************************************************************************)
EXTENDS Integers, FiniteSets

CONSTANTS Fingers,    \* pointer ids
          Coords,     \* positions on the screen
          Unit        \* the scale of 1, in the unit in which it is counted

MIN_SCALE == Unit \div 2
MAX_SCALE == (17 * Unit) \div 10

ASSUME GestureAssumption ==
  Fingers \subseteq Nat /\ IsFiniteSet(Fingers) /\ Coords \subseteq Nat /\ Unit \in Nat /\ Unit >= 4

VARIABLES
  held,          \* where each finger is that is down
  isMultiTouch, doMove, prevX, curX, distPre, scale,
  dx,            \* how far the last event moved the map
  owner,         \* history: the finger prevX is of, or -1
  alone,         \* history: the only one since the first touched, or -1
  pair,          \* history: the fingers distPre is of, or {} if one was lifted since
  broken         \* history: a gesture of several fingers was cancelled

codeVars == <<isMultiTouch, doMove, prevX, curX, distPre>>
vars == <<held, codeVars, scale, dx, owner, alone, pair, broken>>

Down == DOMAIN held
NoFingers == [f \in {} |-> 0]
Least(S) == CHOOSE x \in S : \A y \in S : x <= y
First(h) == Least(DOMAIN h)                     \* getX(0)
Second(h) == Least(DOMAIN h \ {First(h)})       \* getX(1)
\* mutant: the distance has a sign
DistanceSigned(a, b) == b - a

Distance(a, b) == IF a > b THEN a - b ELSE b - a

TypeOK ==
  /\ Down \subseteq Fingers /\ held \in [Down -> Coords]
  /\ isMultiTouch \in BOOLEAN /\ doMove \in BOOLEAN
  /\ prevX \in Coords \cup {-1, 0} /\ curX \in Coords \cup {0}
  /\ distPre \in Nat \cup {-1} /\ scale \in Nat \ {0}
  /\ dx \in Int
  /\ owner \in Fingers \cup {-1} /\ alone \in Fingers \cup {-1}
  /\ pair \subseteq Fingers /\ broken \in BOOLEAN

Init ==
  /\ held = NoFingers /\ isMultiTouch = FALSE /\ doMove = TRUE
  /\ prevX = -1 /\ curX = 0 /\ distPre = -1 /\ scale = Unit
  /\ dx = 0 /\ owner = -1 /\ alone = -1 /\ pair = {} /\ broken = FALSE

-----------------------------------------------------------------------------
(* Zooming. *)

\* zoomIn and zoomOut, which refuse once the scale is past its bound; a step
\* is a twentieth of the scale.  Without an earlier distance the map shrinks.
Step == (scale + 19) \div 20
Zoom(distCur) ==
  scale' = IF distPre > -1 /\ distCur > distPre
             THEN IF scale > MAX_SCALE THEN scale ELSE scale + Step
           ELSE IF distCur = distPre \/ scale < MIN_SCALE THEN scale
           ELSE scale - Step

NoEffect == dx' = 0 /\ UNCHANGED <<scale, distPre, pair>>

-----------------------------------------------------------------------------
(* The events.  The first of all is swallowed: it only sets prevX. *)

Swallowed(h) ==
  /\ prevX' = h[First(h)] /\ owner' = First(h)
  /\ NoEffect /\ UNCHANGED <<isMultiTouch, doMove, curX>>

\* After every other event prevX is curX, which some events do not set.
Remembers(x, f) == prevX' = x /\ owner' = f

\* mutant: a new gesture does not let the map move again
PressStays(f, x) ==
  LET h == [g \in {f} |-> x]
  IN /\ Down = {} /\ held' = h /\ alone' = f
     /\ IF prevX = -1 THEN Swallowed(h)
        ELSE /\ curX' = x /\ Remembers(x, f)
             /\ NoEffect /\ UNCHANGED <<isMultiTouch, doMove>>
     /\ UNCHANGED broken

Press(f, x) ==    \* ACTION_DOWN
  LET h == [g \in {f} |-> x]
  IN /\ Down = {} /\ held' = h /\ alone' = f
     /\ IF prevX = -1 THEN Swallowed(h)
        ELSE /\ curX' = x /\ doMove' = TRUE /\ Remembers(x, f)
             /\ NoEffect /\ UNCHANGED isMultiTouch
     /\ UNCHANGED broken

Add(f, x) ==    \* ACTION_POINTER_DOWN
  LET h == [g \in Down \cup {f} |-> IF g = f THEN x ELSE held[g]]
  IN /\ Down # {} /\ f \notin Down /\ held' = h /\ alone' = -1
     /\ isMultiTouch' = TRUE /\ Remembers(curX, -1)
     /\ NoEffect /\ UNCHANGED <<doMove, curX, broken>>

\* mutant: the finger that stays drags on
LiftDrags(f) ==
  /\ f \in Down /\ held' = [g \in Down \ {f} |-> held[g]]
  /\ IF Down = {f} THEN UNCHANGED <<isMultiTouch, broken>>
     ELSE isMultiTouch' = FALSE /\ broken' = FALSE
  /\ Remembers(curX, -1) /\ alone' = -1
  /\ dx' = 0 /\ pair' = {}
  /\ UNCHANGED <<doMove, curX, distPre, scale>>

\* mutant: the finger that stays zooms on
LiftZooms(f) ==
  /\ f \in Down /\ held' = [g \in Down \ {f} |-> held[g]]
  /\ IF Down = {f} THEN UNCHANGED <<doMove, broken>>
     ELSE doMove' = FALSE /\ broken' = FALSE
  /\ Remembers(curX, -1) /\ alone' = -1
  /\ dx' = 0 /\ pair' = {}
  /\ UNCHANGED <<isMultiTouch, curX, distPre, scale>>

Lift(f) ==
  /\ f \in Down /\ held' = [g \in Down \ {f} |-> held[g]]
  /\ IF Down = {f} THEN UNCHANGED <<isMultiTouch, doMove, broken>>    \* ACTION_UP
     ELSE isMultiTouch' = FALSE /\ doMove' = FALSE /\ broken' = FALSE  \* ACTION_POINTER_UP
  /\ Remembers(curX, -1) /\ alone' = -1
  /\ dx' = 0 /\ pair' = {}
  /\ UNCHANGED <<curX, distPre, scale>>

\* The event takes another way, to another window or to none.
Cancel ==    \* ACTION_CANCEL
  /\ Down # {} /\ held' = NoFingers /\ broken' = (broken \/ isMultiTouch)
  /\ Remembers(curX, -1) /\ alone' = -1
  /\ dx' = 0 /\ pair' = {}
  /\ UNCHANGED <<isMultiTouch, doMove, curX, distPre, scale>>

\* Without a second finger getX(1) gives what was in the event before.
SecondX(h) == IF Cardinality(DOMAIN h) > 1 THEN {h[Second(h)]} ELSE Coords

Drag(h) ==
  /\ ~isMultiTouch /\ dx' = IF doMove THEN h[First(h)] - prevX ELSE 0
  /\ UNCHANGED <<scale, distPre, pair>>
\* mutant: distances are compared with that of the first pinch
PinchForgets(h) ==
  /\ isMultiTouch
  /\ \E x \in SecondX(h) :
       LET distCur == Distance(x, h[First(h)])
       IN Zoom(distCur) /\ distPre' = IF distPre = -1 THEN distCur ELSE distPre
  /\ pair' = IF Cardinality(DOMAIN h) > 1 THEN {First(h), Second(h)} ELSE {}
  /\ dx' = 0

Pinch(h) ==
  /\ isMultiTouch
  /\ \E x \in SecondX(h) :
       LET distCur == Distance(x, h[First(h)])
       IN Zoom(distCur) /\ distPre' = distCur
  /\ pair' = IF Cardinality(DOMAIN h) > 1 THEN {First(h), Second(h)} ELSE {}
  /\ dx' = 0
Move(h) ==    \* ACTION_MOVE
  /\ Down # {} /\ held' = h /\ curX' = h[First(h)]
  /\ Drag(h) \/ Pinch(h)
  /\ Remembers(h[First(h)], First(h))
  /\ UNCHANGED <<isMultiTouch, doMove, alone, broken>>

-----------------------------------------------------------------------------
Next ==
  \/ \E f \in Fingers, x \in Coords : Press(f, x) \/ Add(f, x)
  \/ \E f \in Fingers : Lift(f)
  \/ Cancel
  \/ \E h \in [Down -> Coords] : Move(h)

Spec == Init /\ [][Next]_vars

-----------------------------------------------------------------------------
(* What ties the fields to the fingers. *)

\* While a finger may drag, prevX is where it was; a gesture of several fingers
\* has several, unless one was cancelled.
DragWired ==
  /\ prevX = -1 => doMove /\ Down = {}
  /\ doMove /\ ~isMultiTouch /\ Down # {} => owner = First(held) /\ prevX = held[owner]
  /\ isMultiTouch /\ ~broken => Cardinality(Down) >= 2
  /\ alone # -1 => Down = {alone} /\ doMove

\* The distance of a pinch is that of two fingers that are still down.
PairWired ==
  pair # {} =>
    /\ isMultiTouch
    /\ \E a, b \in Down : a < b /\ pair = {a, b} /\ distPre = Distance(held[a], held[b])

IndInv == TypeOK /\ DragWired /\ PairWired

-----------------------------------------------------------------------------
(* Properties. *)

\* The map is moved by the movement of one finger, never by the distance from
\* one finger to another, whichever fingers came and went.
NoJump ==
  [][dx' # 0 => /\ owner = First(held') /\ dx' = held'[owner] - held[owner]]_vars

\* A finger that is alone from the first touch on takes the map along, unless
\* a gesture of several fingers was cancelled before.
DragFollows ==
  [][alone # -1 /\ alone' = alone /\ ~broken => dx' = held'[alone] - held[alone]]_vars

\* Only two fingers zoom, unless a gesture of several fingers was cancelled:
\* isMultiTouch then remains set.
TwoFingersZoom ==
  [][scale' # scale /\ ~broken => Cardinality(Down) >= 2]_vars

\* While the two fingers of a pinch stay down, whoever joins them, the map grows
\* and shrinks with their distance, up to its bounds.
ZoomFollows ==
  [][pair # {} /\ pair' = pair =>
       LET a == Least(pair)
           b == Least(pair \ {a})
           change == Distance(held'[a], held'[b]) - distPre
       IN /\ scale' > scale <=> change > 0 /\ scale <= MAX_SCALE
          /\ scale' < scale <=> change < 0 /\ scale >= MIN_SCALE]_vars
=============================================================================

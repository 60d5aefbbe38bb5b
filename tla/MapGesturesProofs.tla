-------------------------- MODULE MapGesturesProofs --------------------------
(***************************************************************************)
(* The theorems about MapGestures: for any number of fingers, and wherever *)
(* they are, the fields that outlive an event fit the fingers of the next. *)
(***************************************************************************)
EXTENDS MapGestures, FiniteSetTheorems, WellFoundedInduction, TLAPS

LEMMA LeastExists ==
  ASSUME NEW S \in SUBSET Nat, S # {}
  PROVE  Least(S) \in S /\ \A y \in S : Least(S) <= y
<1>1. IsWellFoundedOn(OpToRel(<, Nat), Nat)
  BY NatLessThanWellFounded, Zenon
<1>2. PICK x \in S : \A y \in S : ~ (<<y, x>> \in OpToRel(<, Nat))
  BY <1>1, WFMin, Zenon
<1>3. ASSUME NEW y \in S, y < x
      PROVE  FALSE
  <2>1. <<y, x>> \in Nat \X Nat /\ <<y, x>>[1] < <<y, x>>[2]
    BY <1>3
  <2>2. <<y, x>> \in OpToRel(<, Nat)
    BY <2>1, Zenon DEF OpToRel
  <2> QED
    BY <1>2, <2>2, Zenon
<1>4. \A y \in S : x <= y
  BY <1>3
<1> QED
  BY <1>4 DEF Least

LEMMA FingersAreFinite ==
  ASSUME TypeOK
  PROVE  Down \in SUBSET Nat /\ IsFiniteSet(Down) /\ Cardinality(Down) \in Nat
BY GestureAssumption, FS_Subset, FS_CardinalityType DEF TypeOK

\* The first two fingers of an event are two.
LEMMA FirstTwo ==
  ASSUME NEW S \in SUBSET Nat, IsFiniteSet(S), Cardinality(S) > 1,
         NEW a, a = Least(S), NEW b, b = Least(S \ {a})
  PROVE  a \in S /\ b \in S /\ a < b
<1>1. S # {} /\ S # {a}
  BY FS_EmptySet, FS_Singleton
<1>2. a \in S /\ \A y \in S : a <= y
  BY <1>1, LeastExists
<1>3. S \ {a} # {}
  BY <1>1, <1>2
<1>4. b \in S \ {a}
  BY <1>3, LeastExists
<1> QED
  BY <1>2, <1>4

LEMMA Pair ==
  ASSUME NEW a \in Nat, NEW b \in Nat, a < b
  PROVE  Least({a, b}) = a /\ Least({a, b} \ {a}) = b
<1>1. {a, b} \ {a} = {b}
  OBVIOUS
<1>2. Least({a, b}) \in {a, b} /\ Least({a, b}) <= a
  BY LeastExists
<1>3. Least({b}) \in {b}
  BY LeastExists
<1> QED
  BY <1>1, <1>2, <1>3

LEMMA DistanceType ==
  ASSUME NEW x \in Nat, NEW y \in Nat
  PROVE  Distance(x, y) \in Nat /\ Distance(x, y) = Distance(y, x)
BY DEF Distance

LEMMA ZoomType ==
  ASSUME TypeOK, NEW d \in Nat, Zoom(d)
  PROVE  scale' \in Nat \ {0}
<1>1. scale \in Nat \ {0} /\ Step \in Nat \ {0} /\ (scale >= 2 => Step < scale)
  BY DEF TypeOK, Step
<1>2. MIN_SCALE \in Nat /\ MIN_SCALE >= 2 /\ MAX_SCALE \in Nat
  BY GestureAssumption DEF MIN_SCALE, MAX_SCALE
<1> QED
  BY <1>1, <1>2 DEF Zoom

-----------------------------------------------------------------------------
(* Every event keeps the fields fitted to the fingers. *)

LEMMA PressKeeps ==
  ASSUME IndInv, NEW f \in Fingers, NEW x \in Coords, Press(f, x)
  PROVE  IndInv'
<1> DEFINE h == [g \in {f} |-> x]
<1>1. Down = {} /\ held' = h /\ Down' = {f} /\ held'[f] = x
  BY DEF Press, Down
<1>2. First(held') = f
  <2>1. f \in Nat
    BY GestureAssumption
  <2> QED
    BY <1>1, <2>1, LeastExists DEF First, Down
<1>3. pair = {} /\ pair' = {} /\ alone' = f
  BY <1>1 DEF IndInv, PairWired, Press, Swallowed, NoEffect
<1>4. x \in Nat /\ f \in Nat /\ x # -1
  BY GestureAssumption
<1>5. isMultiTouch => broken
  BY <1>1, FS_EmptySet DEF IndInv, DragWired
<1>6. /\ prevX' = x /\ owner' = f /\ doMove' /\ dx' = 0
      /\ UNCHANGED <<scale, distPre, pair, broken, isMultiTouch>>
      /\ curX' \in {curX, x} /\ doMove' \in BOOLEAN
  BY <1>1, <1>2 DEF Press, Swallowed, NoEffect, Remembers, IndInv, DragWired, TypeOK
<1>7. TypeOK'
  BY <1>1, <1>3, <1>6 DEF TypeOK, IndInv, Down
<1>8. DragWired'
  BY <1>1, <1>2, <1>3, <1>4, <1>5, <1>6 DEF DragWired
<1> QED
  BY <1>3, <1>7, <1>8 DEF IndInv, PairWired

LEMMA AddKeeps ==
  ASSUME IndInv, NEW f \in Fingers, NEW x \in Coords, Add(f, x)
  PROVE  IndInv'
<1>1. /\ Down # {} /\ f \notin Down /\ Down' = Down \cup {f}
      /\ held' \in [Down' -> Coords] /\ \A g \in Down : held'[g] = held[g]
  BY DEF Add, Down, IndInv, TypeOK
<1>2. Cardinality(Down') >= 2
  <2>1. IsFiniteSet(Down) /\ Cardinality(Down) \in Nat \ {0}
    BY <1>1, FingersAreFinite, FS_EmptySet DEF IndInv
  <2>2. Cardinality(Down \cup {f}) = Cardinality(Down) + 1
    BY <1>1, <2>1, FS_AddElement
  <2> QED
    BY <1>1, <2>1, <2>2
<1>3. /\ isMultiTouch' = TRUE /\ prevX' = curX /\ owner' = -1 /\ alone' = -1
      /\ dx' = 0 /\ UNCHANGED <<scale, distPre, pair, doMove, curX, broken>>
  BY DEF Add, Remembers, NoEffect
<1>4. curX \in Nat
  BY GestureAssumption DEF IndInv, TypeOK
<1>5. TypeOK'
  BY <1>1, <1>3, <1>4 DEF TypeOK, IndInv
<1>6. DragWired'
  BY <1>2, <1>3, <1>4 DEF DragWired
<1>7. PairWired'
  BY <1>1, <1>3 DEF PairWired, IndInv
<1> QED
  BY <1>5, <1>6, <1>7 DEF IndInv

LEMMA LiftKeeps ==
  ASSUME IndInv, NEW f \in Fingers, Lift(f)
  PROVE  IndInv'
<1>1. Down' = Down \ {f} /\ held' \in [Down' -> Coords]
  BY DEF Lift, Down, IndInv, TypeOK
<1>2. /\ prevX' = curX /\ owner' = -1 /\ alone' = -1 /\ dx' = 0 /\ pair' = {}
      /\ UNCHANGED <<curX, distPre, scale>>
  BY DEF Lift, Remembers
<1>3. curX \in Nat /\ curX # -1
  BY GestureAssumption DEF IndInv, TypeOK
<1>4. CASE Down = {f}
  <2>1. Down' = {} /\ UNCHANGED <<isMultiTouch, doMove, broken>>
    BY <1>1, <1>4 DEF Lift
  <2>2. isMultiTouch => broken
    BY <1>4, FS_Singleton DEF IndInv, DragWired
  <2>3. TypeOK'
    BY <1>1, <1>2, <1>3, <2>1 DEF IndInv, TypeOK
  <2>4. DragWired'
    BY <1>2, <1>3, <2>1, <2>2, Zenon DEF DragWired
  <2> QED
    BY <1>2, <2>3, <2>4 DEF IndInv, PairWired
<1>5. CASE Down # {f}
  <2>1. isMultiTouch' = FALSE /\ doMove' = FALSE /\ broken' = FALSE
    BY <1>5 DEF Lift
  <2>2. TypeOK'
    <3>1. isMultiTouch' \in BOOLEAN /\ doMove' \in BOOLEAN /\ broken' \in BOOLEAN
      BY <2>1
    <3> QED
      BY <1>1, <1>2, <1>3, <3>1 DEF IndInv, TypeOK
  <2>3. DragWired'
    BY <1>2, <1>3, <2>1, Zenon DEF DragWired
  <2> QED
    BY <1>2, <2>2, <2>3 DEF IndInv, PairWired
<1> QED
  BY <1>4, <1>5

LEMMA CancelKeeps ==
  ASSUME IndInv, Cancel
  PROVE  IndInv'
<1>1. Down' = {} /\ held' \in [Down' -> Coords]
  BY DEF Cancel, Down, NoFingers
<1>2. /\ prevX' = curX /\ owner' = -1 /\ alone' = -1 /\ dx' = 0 /\ pair' = {}
      /\ broken' = (broken \/ isMultiTouch)
      /\ UNCHANGED <<isMultiTouch, doMove, curX, distPre, scale>>
  BY DEF Cancel, Remembers
<1>3. curX \in Nat /\ curX # -1
  BY GestureAssumption DEF IndInv, TypeOK
<1>4. TypeOK'
  BY <1>1, <1>2 DEF IndInv, TypeOK
<1>5. isMultiTouch' => broken'
  BY <1>2
<1>6. DragWired'
  BY <1>1, <1>2, <1>3, <1>5, Zenon DEF DragWired
<1> QED
  BY <1>2, <1>4, <1>6 DEF IndInv, PairWired

-----------------------------------------------------------------------------
(* Movements. *)

LEMMA Moved ==
  ASSUME IndInv, NEW h \in [Down -> Coords], Move(h)
  PROVE  /\ Down # {} /\ Down' = Down /\ held' = h
         /\ First(held') = First(held) /\ First(h) \in Down /\ h[First(h)] \in Nat
         /\ curX' = h[First(h)] /\ prevX' = h[First(h)] /\ owner' = First(h)
         /\ UNCHANGED <<isMultiTouch, doMove, alone, broken>>
<1>1. Down # {} /\ Down' = Down /\ held' = h /\ First(h) = First(held)
  BY DEF Move, Down, First
<1>2. First(h) \in Down
  BY <1>1, FingersAreFinite, LeastExists DEF First, Down, IndInv
<1>3. h[First(h)] \in Nat
  BY <1>2, GestureAssumption
<1> QED
  BY <1>1, <1>2, <1>3 DEF Move, Remembers

\* A pinch leaves the distance of the fingers it saw.
LEMMA Pinched ==
  ASSUME IndInv, NEW h \in [Down -> Coords], Move(h), Pinch(h)
  PROVE  /\ isMultiTouch /\ dx' = 0 /\ distPre' \in Nat /\ scale' \in Nat \ {0}
         /\ Zoom(distPre')
         /\ IF Cardinality(Down) > 1
              THEN \E a, b \in Down : /\ a < b /\ pair' = {a, b}
                                      /\ distPre' = Distance(held'[a], held'[b])
              ELSE pair' = {}
<1>1. PICK x \in SecondX(h) :
        Zoom(Distance(x, h[First(h)])) /\ distPre' = Distance(x, h[First(h)])
  BY DEF Pinch
<1>2. /\ First(h) \in Down /\ h[First(h)] \in Nat /\ held' = h /\ DOMAIN h = Down
      /\ First(h) = Least(Down)
  BY Moved DEF First
<1>3. /\ IsFiniteSet(Down) /\ Down \in SUBSET Nat /\ Cardinality(Down) \in Nat
  BY FingersAreFinite DEF IndInv
<1>4. CASE Cardinality(Down) > 1
  <2>1. Second(h) = Least(Down \ {First(h)})
    BY <1>2 DEF Second
  <2>2. Second(h) \in Down /\ First(h) < Second(h)
    BY <1>2, <1>3, <1>4, <2>1, FirstTwo
  <2>3. x = h[Second(h)] /\ x \in Nat
    BY <1>1, <1>2, <1>4, <2>2, GestureAssumption DEF SecondX
  <2>4. /\ Distance(x, h[First(h)]) \in Nat
        /\ Distance(x, h[First(h)]) = Distance(held'[First(h)], held'[Second(h)])
    BY <1>2, <2>3, DistanceType
  <2>5. pair' = {First(h), Second(h)}
    BY <1>2, <1>4 DEF Pinch
  <2>6. isMultiTouch /\ dx' = 0 /\ distPre' \in Nat /\ Zoom(distPre')
    BY <1>1, <2>4 DEF Pinch
  <2>7. scale' \in Nat \ {0}
    BY <2>6, ZoomType DEF IndInv
  <2> QED
    BY <1>1, <1>2, <1>4, <2>2, <2>4, <2>5, <2>6, <2>7
<1>5. CASE ~(Cardinality(Down) > 1)
  <2>1. x \in Nat
    BY <1>1, <1>2, <1>5, GestureAssumption DEF SecondX
  <2>2. Distance(x, h[First(h)]) \in Nat
    BY <1>2, <2>1, DistanceType
  <2>3. isMultiTouch /\ dx' = 0 /\ pair' = {} /\ distPre' \in Nat /\ Zoom(distPre')
    BY <1>1, <1>2, <1>5, <2>2 DEF Pinch
  <2>4. scale' \in Nat \ {0}
    BY <2>3, ZoomType DEF IndInv
  <2> QED
    BY <1>5, <2>3, <2>4
<1> QED
  BY <1>4, <1>5

LEMMA MoveKeeps ==
  ASSUME IndInv, NEW h \in [Down -> Coords], Move(h)
  PROVE  IndInv'
<1>1. /\ Down # {} /\ Down' = Down /\ held' = h
      /\ First(held') = First(held) /\ First(h) \in Down /\ h[First(h)] \in Nat
      /\ curX' = h[First(h)] /\ prevX' = h[First(h)] /\ owner' = First(h)
      /\ UNCHANGED <<isMultiTouch, doMove, alone, broken>>
  BY Moved
<1>2. DragWired'
  BY <1>1 DEF DragWired, IndInv
<1>3. CASE Drag(h)
  <2>1. /\ ~isMultiTouch /\ UNCHANGED <<scale, distPre, pair>>
        /\ dx' = IF doMove THEN h[First(h)] - prevX ELSE 0
    BY <1>3 DEF Drag
  <2>2. pair = {}
    BY <2>1 DEF IndInv, PairWired
  <2>3. dx' \in Int
    BY <1>1, <2>1, GestureAssumption DEF IndInv, TypeOK
  <2>4. TypeOK'
    BY <1>1, <2>1, <2>3 DEF IndInv, TypeOK
  <2> QED
    BY <1>2, <2>1, <2>2, <2>4 DEF IndInv, PairWired
<1>4. CASE Pinch(h)
  <2>1. /\ isMultiTouch /\ dx' = 0 /\ distPre' \in Nat /\ scale' \in Nat \ {0}
        /\ \/ pair' = {}
           \/ \E a, b \in Down : /\ a < b /\ pair' = {a, b}
                                 /\ distPre' = Distance(held'[a], held'[b])
    BY <1>4, Pinched
  <2>2. TypeOK'
    BY <1>1, <2>1 DEF IndInv, TypeOK
  <2>3. PairWired'
    BY <1>1, <2>1 DEF PairWired
  <2> QED
    BY <1>2, <2>2, <2>3 DEF IndInv
<1> QED
  BY <1>3, <1>4 DEF Move

LEMMA NextKeeps ==
  ASSUME IndInv, [Next]_vars
  PROVE  IndInv'
<1>1. CASE UNCHANGED vars
  BY <1>1 DEF vars, codeVars, IndInv, TypeOK, DragWired, PairWired, Down, First
<1>2. CASE Next
  BY <1>2, PressKeeps, AddKeeps, LiftKeeps, CancelKeeps, MoveKeeps DEF Next
<1> QED
  BY <1>1, <1>2

\* IndInv is an invariant: the fields fit the fingers that are down.
THEOREM Inductive == Spec => []IndInv
<1>1. Init => IndInv
  <2> SUFFICES ASSUME Init PROVE IndInv
    OBVIOUS
  <2>1. Down = {} /\ held \in [Down -> Coords]
    BY DEF Init, Down, NoFingers
  <2>2. scale \in Nat \ {0}
    BY GestureAssumption DEF Init
  <2>3. TypeOK
    <3>1. isMultiTouch \in BOOLEAN /\ doMove \in BOOLEAN /\ broken \in BOOLEAN
      BY DEF Init
    <3>2. /\ prevX = -1 /\ curX = 0 /\ distPre = -1 /\ dx = 0 /\ owner = -1 /\ alone = -1
          /\ pair = {}
      BY DEF Init
    <3> QED
      BY <2>1, <2>2, <3>1, <3>2 DEF TypeOK
  <2>4. DragWired
    BY <2>1, Zenon DEF Init, DragWired
  <2> QED
    BY <2>3, <2>4 DEF Init, IndInv, PairWired
<1>2. IndInv /\ [Next]_vars => IndInv'
  BY NextKeeps
<1> QED
  BY <1>1, <1>2, PTL DEF Spec

\* The variables keep their types, whichever fingers come and go.
THEOREM TypeCorrect == Spec => []TypeOK
<1>1. IndInv => TypeOK
  BY DEF IndInv
<1> QED
  BY <1>1, Inductive, PTL

\* A step that is no movement moves nothing.
LEMMA OthersAreStill ==
  ASSUME IndInv, Next, ~ \E h \in [Down -> Coords] : Move(h)
  PROVE  dx' = 0 /\ scale' = scale /\ (pair' = {} \/ Down # {})
<1>1. CASE \E f \in Fingers, x \in Coords : Press(f, x)
  BY <1>1 DEF Press, Swallowed, NoEffect, IndInv, PairWired
<1>2. CASE \E f \in Fingers, x \in Coords : Add(f, x)
  BY <1>2 DEF Add, NoEffect
<1>3. CASE \E f \in Fingers : Lift(f)
  BY <1>3 DEF Lift
<1>4. CASE Cancel
  BY <1>4 DEF Cancel
<1> QED
  BY <1>1, <1>2, <1>3, <1>4 DEF Next

\* onTouchEvent moves the map by the movement of one finger, never from one
\* finger to another.
THEOREM MapDoesNotJump == Spec => NoJump
<1> DEFINE Still == dx' # 0 => /\ owner = First(held') /\ dx' = held'[owner] - held[owner]
<1>1. IndInv /\ [Next]_vars => [Still]_vars
  <2> SUFFICES ASSUME IndInv, Next PROVE Still
    BY DEF vars, codeVars
  <2>1. CASE \E h \in [Down -> Coords] : Move(h)
    <3>1. PICK h \in [Down -> Coords] : Move(h)
      BY <2>1
    <3>2. /\ Down # {} /\ held' = h /\ First(held') = First(held)
      BY <3>1, Moved
    <3>3. CASE Drag(h) /\ doMove
      <4>1. owner = First(held) /\ prevX = held[owner]
        BY <3>2, <3>3 DEF Drag, IndInv, DragWired
      <4> QED
        BY <3>2, <3>3, <4>1 DEF Drag
    <3>4. CASE ~(Drag(h) /\ doMove)
      BY <3>1, <3>4 DEF Move, Drag, Pinch
    <3> QED
      BY <3>3, <3>4
  <2>2. CASE ~ \E h \in [Down -> Coords] : Move(h)
    BY <2>2, OthersAreStill
  <2> QED
    BY <2>1, <2>2
<1> QED
  BY <1>1, Inductive, PTL DEF Spec, NoJump

\* A finger that is alone takes the map along, all the way.
THEOREM OneFingerDrags == Spec => DragFollows
<1> DEFINE Follows ==
      alone # -1 /\ alone' = alone /\ ~broken => dx' = held'[alone] - held[alone]
<1>1. IndInv /\ [Next]_vars => [Follows]_vars
  <2> SUFFICES ASSUME IndInv, Next, alone # -1, alone' = alone, ~broken
               PROVE  dx' = held'[alone] - held[alone]
    BY DEF vars, codeVars
  <2>1. Down = {alone} /\ doMove /\ alone \in Nat
    BY GestureAssumption DEF IndInv, DragWired, TypeOK
  <2>2. ~isMultiTouch
    <3>1. Cardinality(Down) = 1
      BY <2>1, FS_Singleton
    <3> QED
      BY <3>1 DEF IndInv, DragWired
  <2>3. PICK h \in [Down -> Coords] : Move(h)
    BY <2>1 DEF Next, Press, Add, Lift, Cancel
  <2>4. held' = h /\ First(h) \in Down /\ First(held) = First(h)
    BY <2>3, Moved
  <2>5. owner = First(held) /\ prevX = held[owner] /\ First(h) = alone
    BY <2>1, <2>2, <2>4 DEF IndInv, DragWired
  <2> QED
    BY <2>1, <2>2, <2>3, <2>4, <2>5 DEF Move, Drag, Pinch
<1> QED
  BY <1>1, Inductive, PTL DEF Spec, DragFollows

\* One finger does not zoom.
THEOREM OnlyTwoFingersZoom == Spec => TwoFingersZoom
<1> DEFINE Two == scale' # scale /\ ~broken => Cardinality(Down) >= 2
<1>1. IndInv /\ [Next]_vars => [Two]_vars
  <2> SUFFICES ASSUME IndInv, Next, scale' # scale, ~broken PROVE Cardinality(Down) >= 2
    BY DEF vars, codeVars
  <2>1. PICK h \in [Down -> Coords] : Move(h)
    BY OthersAreStill
  <2>2. isMultiTouch
    BY <2>1 DEF Move, Drag, Pinch
  <2> QED
    BY <2>2 DEF IndInv, DragWired
<1> QED
  BY <1>1, Inductive, PTL DEF Spec, TwoFingersZoom

\* While the two fingers of a pinch stay down the map grows and shrinks with
\* their distance.
THEOREM ZoomFollowsFingers == Spec => ZoomFollows
<1> DEFINE a == Least(pair)
           b == Least(pair \ {a})
           change == Distance(held'[a], held'[b]) - distPre
           Follows == pair # {} /\ pair' = pair =>
                        /\ scale' > scale <=> change > 0 /\ scale <= MAX_SCALE
                        /\ scale' < scale <=> change < 0 /\ scale >= MIN_SCALE
<1>1. IndInv /\ [Next]_vars => [Follows]_vars
  <2> SUFFICES ASSUME IndInv, Next, pair # {}, pair' = pair
               PROVE  /\ scale' > scale <=> change > 0 /\ scale <= MAX_SCALE
                      /\ scale' < scale <=> change < 0 /\ scale >= MIN_SCALE
    BY DEF vars, codeVars
  <2> HIDE DEF change
  <2>1. PICK c, d \in Down : c < d /\ pair = {c, d} /\ distPre = Distance(held[c], held[d])
    BY DEF IndInv, PairWired
  <2>2. /\ c \in Nat /\ d \in Nat /\ held[c] \in Nat /\ held[d] \in Nat
        /\ scale \in Nat \ {0} /\ isMultiTouch
    BY <2>1, GestureAssumption DEF IndInv, TypeOK, PairWired
  <2>3. a = c /\ b = d
    BY <2>1, <2>2, Pair
  <2>4. distPre \in Nat /\ MIN_SCALE \in Nat /\ MAX_SCALE \in Nat
    <3>1. distPre \in Nat
      BY <2>1, <2>2, DistanceType
    <3>2. MIN_SCALE \in Nat /\ MAX_SCALE \in Nat
      BY GestureAssumption DEF MIN_SCALE, MAX_SCALE
    <3> QED
      BY <3>1, <3>2
  <2>5. CASE \E h \in [Down -> Coords] : Move(h)
    <3>1. PICK h \in [Down -> Coords] : Move(h)
      BY <2>5
    <3>2. Pinch(h)
      BY <2>2, <3>1 DEF Move, Drag
    <3>3. /\ Zoom(distPre') /\ distPre' \in Nat
          /\ \E e, f \in Down : /\ e < f /\ pair' = {e, f}
                                /\ distPre' = Distance(held'[e], held'[f])
      BY <3>1, <3>2, Pinched
    <3>4. distPre' = Distance(held'[c], held'[d])
      BY <2>1, <2>2, <3>3, FingersAreFinite DEF IndInv
    <3>5. change = distPre' - distPre
      BY <2>3, <3>4 DEF change
    <3>6. Step \in Nat \ {0}
      BY <2>2 DEF Step
    <3> QED
      BY <2>2, <2>4, <3>3, <3>5, <3>6 DEF Zoom
  <2>6. CASE ~ \E h \in [Down -> Coords] : Move(h)
    <3>1. dx' = 0 /\ scale' = scale
      BY <2>6, OthersAreStill
    <3>2. \E f \in Fingers, x \in Coords : Add(f, x)
      BY <2>1, <2>6 DEF Next, Press, Lift, Cancel
    <3>3. held'[c] = held[c] /\ held'[d] = held[d]
      BY <2>1, <3>2 DEF Add
    <3>4. change = 0
      BY <2>1, <2>3, <2>4, <3>3 DEF change
    <3> QED
      BY <2>2, <3>1, <3>4
  <2> QED
    BY <2>5, <2>6
<1> QED
  BY <1>1, Inductive, PTL DEF Spec, ZoomFollows
=============================================================================

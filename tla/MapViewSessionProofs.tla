------------------------ MODULE MapViewSessionProofs ------------------------
(***************************************************************************)
(* Proofs, for any height of the image, any latitudes and any number of    *)
(* queued fixes, of the safety properties of MapViewSession.  The dialogs  *)
(* take turns because the wait dialog ends for good at the first fix and   *)
(* is hidden at the only timeout: SourcesWired says what else is going on  *)
(* while each dialog is there.                                             *)
(***************************************************************************)
EXTENDS MapViewSession, TLAPS

\* A marker is never above row 8, nor more than 8 rows below the image.
LEMMA MarkerIsNear ==
  \A lat \in Lats, lonIn \in BOOLEAN :
    /\ RowsIn(lat) \in Int
    /\ InRange(lat, lonIn) => MarkerRow(lat) \in 8 .. Height + 8
  BY ConstantsAssumption DEF RowsIn, InRange, MarkerRow

\* What is left of a life that ended, or has not begun, is well typed.
LEMMA EndsTyped ==
  ASSUME NEW l \in {"none", "crashed"}, Ends(l)
  PROVE  TypeOK'
  <1>1. dialog' \in [Dialogs -> {"null", "shown", "hidden", "gone"}] /\ posted' \subseteq Dialogs
    BY DEF Ends
  <1>2. 0 \in 0 .. MaxInbox
    BY ConstantsAssumption
  <1>3. circleY' \in {NoMarker} \cup (8 .. Height + 8) /\ centre' \in Int
    BY DEF Ends, NoMarker, Uncentred
  <1>4. /\ finishing' \in BOOLEAN /\ timer' \in BOOLEAN /\ listening' \in BOOLEAN
        /\ compass' \in BOOLEAN /\ view' \in BOOLEAN /\ map' \in BOOLEAN /\ fixed' \in BOOLEAN
    BY DEF Ends
  <1>5. inbox' \in 0 .. MaxInbox
    BY <1>2 DEF Ends
  <1> QED
    BY <1>1, <1>3, <1>4, <1>5 DEF Ends, TypeOK

LEMMA TypeStep ==
  TypeOK /\ [Next]_vars => TypeOK'
  <1> SUFFICES ASSUME TypeOK, [Next]_vars PROVE TypeOK'
    OBVIOUS
  <1> USE ConstantsAssumption DEF vars, lifeVars, dialogVars, sourceVars, viewVars,
             TypeOK, Dialogs, Alerts, NoMarker, Uncentred
  <1>0. CASE UNCHANGED vars
    BY <1>0
  <1>1. CASE Open
    BY <1>1 DEF Open
  <1>2. CASE OpenOutOfMemory
    BY <1>2 DEF OpenOutOfMemory
  <1>3. CASE Pause
    BY <1>3 DEF Pause
  <1>4. CASE Resume
    BY <1>4 DEF Resume
  <1>5. CASE Destroy
    BY <1>5 DEF Destroy, Dismissed
  <1>6. CASE NextLife
    BY <1>6, EndsTyped DEF NextLife
  <1>7. CASE Kill
    BY <1>7, EndsTyped DEF Kill
  <1>8. CASE DrawWithoutMap
    BY <1>8, EndsTyped DEF DrawWithoutMap, Crash
  <1>9. CASE Fix
    BY <1>9 DEF Fix
  <1>10. CASE LateFixThrows
    BY <1>10, EndsTyped DEF LateFixThrows, Crash
  <1>11. CASE LateFixOutOfRange
    BY <1>11 DEF LateFixOutOfRange
  <1>12. CASE Timeout
    BY <1>12 DEF Timeout, IsShowing
  <1>13. CASE User
    <2>1. CASE CancelWait
      BY <2>1 DEF CancelWait, Input, OnTop
    <2>2. CASE ExitMap
      BY <2>2 DEF ExitMap, Input, NoDialog
    <2>3. CASE CurrentLocation
      BY <2>3 DEF CurrentLocation, Input, NoDialog
    <2>4. ASSUME NEW x \in Alerts, PressGoBack(x) PROVE TypeOK'
      BY <2>4 DEF PressGoBack, Input, OnTop
    <2>5. ASSUME NEW x \in Alerts, DismissAlert(x) PROVE TypeOK'
      BY <2>5 DEF DismissAlert, Input, OnTop
    <2> QED
      BY <1>13, <2>1, <2>2, <2>3, <2>4, <2>5 DEF User
  <1>14. ASSUME NEW lat \in Lats, NEW lonIn \in BOOLEAN, LocationChanged(lat, lonIn) PROVE TypeOK'
    <2>1. circleY' \in {NoMarker} \cup (8 .. Height + 8) /\ centre' \in Int
      BY <1>14, MarkerIsNear DEF LocationChanged
    <2> QED
      BY <1>14, <2>1 DEF LocationChanged, Found, IsShowing
  <1>15. ASSUME NEW x \in Dialogs, Listener(x) PROVE TypeOK'
    BY <1>15 DEF Listener
  <1> QED
    BY <1>0, <1>1, <1>2, <1>3, <1>4, <1>5, <1>6, <1>7, <1>8, <1>9, <1>10, <1>11, <1>12, <1>13, <1>14, <1>15 DEF Next

\* The session's variables keep their types.
THEOREM TypeCorrect == SafetySpec => []TypeOK
  <1>1. Init => TypeOK
    <2> SUFFICES ASSUME Init PROVE TypeOK
      OBVIOUS
    <2>1. dialog \in [Dialogs -> {"null", "shown", "hidden", "gone"}] /\ posted \subseteq Dialogs
      BY DEF Init
    <2>2. 0 \in 0 .. MaxInbox
      BY ConstantsAssumption
    <2>3. circleY \in {NoMarker} \cup (8 .. Height + 8) /\ centre \in Int
      BY DEF Init, NoMarker, Uncentred
    <2> QED
      BY <2>1, <2>2, <2>3 DEF Init, TypeOK
  <1> QED
    BY <1>1, TypeStep, PTL DEF SafetySpec

LEMMA InductiveStep ==
  TypeOK /\ IndInv /\ [Next]_vars => IndInv'
  <1> SUFFICES ASSUME TypeOK, IndInv, [Next]_vars PROVE IndInv'
    OBVIOUS
  <1> USE DEF vars, lifeVars, dialogVars, sourceVars, viewVars, TypeOK, Dialogs, Alerts,
              Alive, IsShowing, IndInv, DialogsTakeTurns, SourcesWired
  <1>0. CASE UNCHANGED vars
    BY <1>0
  <1>1. CASE Open
    BY <1>1 DEF Open
  <1>2. CASE OpenOutOfMemory
    BY <1>2 DEF OpenOutOfMemory
  <1>3. CASE Pause
    BY <1>3 DEF Pause
  <1>4. CASE Resume
    BY <1>4 DEF Resume
  <1>5. CASE Destroy
    BY <1>5 DEF Destroy, Dismissed
  <1>6. CASE NextLife
    BY <1>6 DEF NextLife, Ends
  <1>7. CASE Kill
    BY <1>7 DEF Kill, Ends
  <1>8. CASE DrawWithoutMap
    BY <1>8 DEF DrawWithoutMap, Crash, Ends, Alive
  <1>9. CASE Fix
    BY <1>9 DEF Fix
  <1>10. CASE LateFixThrows
    BY <1>10 DEF LateFixThrows, Crash, Ends
  <1>11. CASE LateFixOutOfRange
    BY <1>11 DEF LateFixOutOfRange
  <1>12. CASE Timeout
    BY <1>12 DEF Timeout, IsShowing
  <1>13. CASE User
    <2>1. CASE CancelWait
      BY <2>1 DEF CancelWait, Input, OnTop
    <2>2. CASE ExitMap
      BY <2>2 DEF ExitMap, Input, NoDialog
    <2>3. CASE CurrentLocation
      BY <2>3 DEF CurrentLocation, Input, NoDialog
    <2>4. ASSUME NEW x \in Alerts, PressGoBack(x) PROVE IndInv'
      BY <2>4 DEF PressGoBack, Input, OnTop
    <2>5. ASSUME NEW x \in Alerts, DismissAlert(x) PROVE IndInv'
      BY <2>5 DEF DismissAlert, Input, OnTop
    <2> QED
      BY <1>13, <2>1, <2>2, <2>3, <2>4, <2>5 DEF User
  <1>14. ASSUME NEW lat \in Lats, NEW lonIn \in BOOLEAN, LocationChanged(lat, lonIn) PROVE IndInv'
    BY <1>14 DEF LocationChanged, Found, IsShowing
  <1>15. ASSUME NEW x \in Dialogs, Listener(x) PROVE IndInv'
    BY <1>15 DEF Listener
  <1> QED
    BY <1>0, <1>1, <1>2, <1>3, <1>4, <1>5, <1>6, <1>7, <1>8, <1>9, <1>10, <1>11, <1>12, <1>13, <1>14, <1>15 DEF Next

\* The conjunction the run checks is inductive, for every value of the
\* constants.
THEOREM Inductive == SafetySpec => []IndInv
  <1>1. Init => IndInv
    BY DEF Init, IndInv, DialogsTakeTurns, SourcesWired, Alive, IsShowing, Dialogs, Alerts
  <1> QED
    BY <1>1, TypeCorrect, InductiveStep, PTL DEF SafetySpec

\* "Waiting for GPS..." and the alerts are never visible together.
THEOREM DialogsAlternate == SafetySpec => []DialogsTakeTurns
  <1>1. IndInv => DialogsTakeTurns
    BY DEF IndInv
  <1> QED
    BY <1>1, Inductive, PTL

LEMMA AlarmStep ==
  TypeOK /\ IndInv /\ [Next]_vars =>
    (dialog["noGps"] # "shown" /\ dialog'["noGps"] = "shown" => ~fixed)
  <1> SUFFICES ASSUME TypeOK, IndInv, [Next]_vars, dialog["noGps"] # "shown" /\ dialog'["noGps"] = "shown"
               PROVE ~fixed
    OBVIOUS
  <1> USE DEF vars, lifeVars, dialogVars, sourceVars, viewVars, TypeOK, Dialogs, Alerts,
               Alive, IsShowing, IndInv, DialogsTakeTurns, SourcesWired
  <1>0. CASE UNCHANGED vars
    BY <1>0
  <1>1. CASE Open
    BY <1>1 DEF Open
  <1>2. CASE OpenOutOfMemory
    BY <1>2 DEF OpenOutOfMemory
  <1>3. CASE Pause
    BY <1>3 DEF Pause
  <1>4. CASE Resume
    BY <1>4 DEF Resume
  <1>5. CASE Destroy
    BY <1>5 DEF Destroy, Dismissed
  <1>6. CASE NextLife
    BY <1>6 DEF NextLife, Ends
  <1>7. CASE Kill
    BY <1>7 DEF Kill, Ends
  <1>8. CASE DrawWithoutMap
    BY <1>8 DEF DrawWithoutMap, Crash, Ends, Alive
  <1>9. CASE Fix
    BY <1>9 DEF Fix
  <1>10. CASE LateFixThrows
    BY <1>10 DEF LateFixThrows, Crash, Ends
  <1>11. CASE LateFixOutOfRange
    BY <1>11 DEF LateFixOutOfRange
  <1>12. CASE Timeout
    BY <1>12 DEF Timeout, IsShowing
  <1>13. CASE User
    BY <1>13 DEF User, CancelWait, ExitMap, CurrentLocation, PressGoBack, DismissAlert, Input, OnTop, NoDialog
  <1>14. ASSUME NEW lat \in Lats, NEW lonIn \in BOOLEAN, LocationChanged(lat, lonIn) PROVE ~fixed
    BY <1>14 DEF LocationChanged, Found
  <1>15. ASSUME NEW x \in Dialogs, Listener(x) PROVE ~fixed
    BY <1>15 DEF Listener
  <1> QED
    BY <1>0, <1>1, <1>2, <1>3, <1>4, <1>5, <1>6, <1>7, <1>8, <1>9, <1>10, <1>11, <1>12, <1>13, <1>14, <1>15 DEF Next

\* The timeout's alert appears only while no fix has been handled.
THEOREM AlarmIsNotFalse == SafetySpec => NoFalseAlarm
  BY TypeCorrect, Inductive, AlarmStep, PTL DEF SafetySpec, NoFalseAlarm

LEMMA CentreStep ==
  TypeOK /\ IndInv /\ [Next]_vars =>
    (Alive /\ life' = life /\ inbox' < inbox /\ centre' # centre => ~fixed)
  <1> SUFFICES ASSUME TypeOK, IndInv, [Next]_vars, Alive /\ life' = life /\ inbox' < inbox /\ centre' # centre
               PROVE ~fixed
    OBVIOUS
  <1> USE DEF vars, lifeVars, dialogVars, sourceVars, viewVars, TypeOK, Dialogs, Alerts,
               Alive, IsShowing, IndInv, DialogsTakeTurns, SourcesWired
  <1>0. CASE UNCHANGED vars
    BY <1>0
  <1>1. CASE Open
    BY <1>1 DEF Open
  <1>2. CASE OpenOutOfMemory
    BY <1>2 DEF OpenOutOfMemory
  <1>3. CASE Pause
    BY <1>3 DEF Pause
  <1>4. CASE Resume
    BY <1>4 DEF Resume
  <1>5. CASE Destroy
    BY <1>5 DEF Destroy, Dismissed
  <1>6. CASE NextLife
    BY <1>6 DEF NextLife, Ends
  <1>7. CASE Kill
    BY <1>7 DEF Kill, Ends
  <1>8. CASE DrawWithoutMap
    BY <1>8 DEF DrawWithoutMap, Crash, Ends, Alive
  <1>9. CASE Fix
    BY <1>9 DEF Fix
  <1>10. CASE LateFixThrows
    BY <1>10 DEF LateFixThrows, Crash, Ends
  <1>11. CASE LateFixOutOfRange
    BY <1>11 DEF LateFixOutOfRange
  <1>12. CASE Timeout
    BY <1>12 DEF Timeout, IsShowing
  <1>13. CASE User
    BY <1>13 DEF User, CancelWait, ExitMap, CurrentLocation, PressGoBack, DismissAlert, Input, OnTop, NoDialog
  <1>14. ASSUME NEW lat \in Lats, NEW lonIn \in BOOLEAN, LocationChanged(lat, lonIn) PROVE ~fixed
    BY <1>14 DEF LocationChanged, Found
  <1>15. ASSUME NEW x \in Dialogs, Listener(x) PROVE ~fixed
    BY <1>15 DEF Listener
  <1> QED
    BY <1>0, <1>1, <1>2, <1>3, <1>4, <1>5, <1>6, <1>7, <1>8, <1>9, <1>10, <1>11, <1>12, <1>13, <1>14, <1>15 DEF Next

\* A fix moves the view only if it is the first one.
THEOREM CentresOnlyOnFirst == SafetySpec => CentresOnFirst
  BY TypeCorrect, Inductive, CentreStep, PTL DEF SafetySpec, CentresOnFirst

LEMMA FailStep ==
  TypeOK /\ IndInv /\ [Next]_vars =>
    (life' = "crashed" /\ Alive => dialog["memory"] # "null")
  <1> SUFFICES ASSUME TypeOK, IndInv, [Next]_vars, life' = "crashed" /\ Alive
               PROVE dialog["memory"] # "null"
    OBVIOUS
  <1> USE DEF vars, lifeVars, dialogVars, sourceVars, viewVars, TypeOK, Dialogs, Alerts,
               Alive, IsShowing, IndInv, DialogsTakeTurns, SourcesWired
  <1>0. CASE UNCHANGED vars
    BY <1>0
  <1>1. CASE Open
    BY <1>1 DEF Open
  <1>2. CASE OpenOutOfMemory
    BY <1>2 DEF OpenOutOfMemory
  <1>3. CASE Pause
    BY <1>3 DEF Pause
  <1>4. CASE Resume
    BY <1>4 DEF Resume
  <1>5. CASE Destroy
    BY <1>5 DEF Destroy, Dismissed
  <1>6. CASE NextLife
    BY <1>6 DEF NextLife, Ends
  <1>7. CASE Kill
    BY <1>7 DEF Kill, Ends
  <1>8. CASE DrawWithoutMap
    BY <1>8 DEF DrawWithoutMap, Crash, Ends, Alive
  <1>9. CASE Fix
    BY <1>9 DEF Fix
  <1>10. CASE LateFixThrows
    BY <1>10 DEF LateFixThrows, Crash, Ends
  <1>11. CASE LateFixOutOfRange
    BY <1>11 DEF LateFixOutOfRange
  <1>12. CASE Timeout
    BY <1>12 DEF Timeout, IsShowing
  <1>13. CASE User
    BY <1>13 DEF User, CancelWait, ExitMap, CurrentLocation, PressGoBack, DismissAlert, Input, OnTop, NoDialog
  <1>14. ASSUME NEW lat \in Lats, NEW lonIn \in BOOLEAN, LocationChanged(lat, lonIn) PROVE dialog["memory"] # "null"
    BY <1>14 DEF LocationChanged, Found
  <1>15. ASSUME NEW x \in Dialogs, Listener(x) PROVE dialog["memory"] # "null"
    BY <1>15 DEF Listener
  <1> QED
    BY <1>0, <1>1, <1>2, <1>3, <1>4, <1>5, <1>6, <1>7, <1>8, <1>9, <1>10, <1>11, <1>12, <1>13, <1>14, <1>15 DEF Next

\* No message throws while the activity exists and its map was loaded.
THEOREM LiveSessionsDoNotFail == SafetySpec => FailsOnlyLate
  BY TypeCorrect, Inductive, FailStep, PTL DEF SafetySpec, FailsOnlyLate
=============================================================================

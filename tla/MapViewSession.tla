--------------------------- MODULE MapViewSession ---------------------------
(***************************************************************************)
(* One life of MapViewActivity, from onCreate to the last message that     *)
(* reaches it after onDestroy: the wait for the GPS with its two-minute    *)
(* timeout, the alerts, the position marker, the compass listener.         *)
(*                                                                         *)
(* Everything runs on the UI thread, so a handler is one step; what can    *)
(* vary is the order of the messages in its queue.  Fixes are posted there *)
(* by the location service, and the listeners of a dialog's buttons are    *)
(* messages as well, so both can arrive later than what made them due.     *)
(* Lives share nothing modelled here; the next begins when this one's      *)
(* messages are gone.                                                      *)
(*                                                                         *)
(* Positions are rows of the image; columns are treated alike and reduced  *)
(* to whether the longitude is in range.                                   *)
(***************************************************************************)
EXTENDS Integers

CONSTANTS Height,    \* rows of the map image
          Lats,      \* latitudes of fixes, in rows above the lower edge
          MaxInbox   \* bound: fixes waiting in the queue

ASSUME ConstantsAssumption ==
  Height \in Nat \ {0} /\ Lats \subseteq Int /\ MaxInbox \in Nat

\* The dialogs: d, the alert of the timeout, outOfRangeAlert, memoryError.
Alerts == {"noGps", "range", "memory"}
Dialogs == Alerts \cup {"wait"}

VARIABLES
  life,       \* "none", "resumed", "paused", "destroyed" or "crashed"
  finishing,  \* finish() has been called
  dialog,     \* each dialog: "null", "shown", "hidden" or "gone"
  posted,     \* dialogs whose button or cancel listener is a queued message
  timer,      \* mRemoveGPSWaiting is posted
  listening,  \* locationListener is registered
  inbox,      \* queued fixes
  compass,    \* the compass listener is registered
  view,       \* myMapView is not null
  map,        \* MapView.myMap is not null
  circleY,    \* MapView.circleY, the row of the position marker
  centre,     \* the row centred last by centerOnPoint(..., true)
  fixed       \* history: a fix has been handled

lifeVars   == <<life, finishing>>
dialogVars == <<dialog, posted>>
sourceVars == <<timer, listening, inbox, compass>>
viewVars   == <<view, map, circleY, centre>>
vars == <<lifeVars, dialogVars, sourceVars, viewVars, fixed>>

\* circleY before the first fix, and no centring yet: rows are not negative.
NoMarker == -1
Uncentred == -2

TypeOK ==
  /\ life \in {"none", "resumed", "paused", "destroyed", "crashed"}
  /\ finishing \in BOOLEAN
  /\ dialog \in [Dialogs -> {"null", "shown", "hidden", "gone"}]
  /\ posted \subseteq Dialogs
  /\ timer \in BOOLEAN /\ listening \in BOOLEAN
  /\ inbox \in 0 .. MaxInbox /\ compass \in BOOLEAN
  /\ view \in BOOLEAN /\ map \in BOOLEAN /\ fixed \in BOOLEAN
  /\ circleY \in {NoMarker} \cup (8 .. Height + 8)
  /\ centre \in Int

Init ==
  /\ life = "none" /\ finishing = FALSE
  /\ dialog = [x \in Dialogs |-> "null"] /\ posted = {}
  /\ timer = FALSE /\ listening = FALSE /\ inbox = 0 /\ compass = FALSE
  /\ view = FALSE /\ map = FALSE /\ circleY = NoMarker /\ centre = Uncentred
  /\ fixed = FALSE

-----------------------------------------------------------------------------
(* android.app.Dialog: hide() only makes it invisible, so that isShowing()  *)
(* stays true; dismiss() ends it.                                           *)

IsShowing(x) == dialog[x] \in {"shown", "hidden"}
Dismissed(x) == IF dialog[x] = "null" THEN "null" ELSE "gone"
Alive == life \in {"resumed", "paused"}

\* Nothing of a life is left.
Ends(l) ==
  /\ life' = l /\ finishing' = FALSE
  /\ dialog' = [x \in Dialogs |-> "null"] /\ posted' = {}
  /\ timer' = FALSE /\ listening' = FALSE /\ inbox' = 0 /\ compass' = FALSE
  /\ view' = FALSE /\ map' = FALSE /\ circleY' = NoMarker /\ centre' = Uncentred
  /\ fixed' = FALSE

-----------------------------------------------------------------------------
(* The activity's life. *)

\* onCreate and onResume.
OpenUntimed ==    \* mutant: no postDelayed
  /\ life = "none" /\ life' = "resumed"
  /\ compass' = TRUE /\ view' = TRUE
  /\ dialog' = [dialog EXCEPT !["wait"] = "shown"]
  /\ map' = TRUE /\ listening' = TRUE
  /\ UNCHANGED <<finishing, posted, timer, inbox, circleY, centre, fixed>>
Open ==
  /\ life = "none" /\ life' = "resumed"
  /\ compass' = TRUE /\ view' = TRUE
  /\ dialog' = [dialog EXCEPT !["wait"] = "shown"]
  /\ map' = TRUE /\ listening' = TRUE /\ timer' = TRUE
  /\ UNCHANGED <<finishing, posted, inbox, circleY, centre, fixed>>

\* Without memory for the bitmap the rest of the try block is skipped: no map
\* in the view, no GPS, no timer.
OpenOutOfMemory ==
  /\ life = "none" /\ life' = "resumed"
  /\ compass' = TRUE /\ view' = TRUE
  /\ dialog' = [dialog EXCEPT !["memory"] = "shown"]
  /\ UNCHANGED <<finishing, posted, timer, listening, inbox, map, circleY, centre, fixed>>

PauseCleansUp ==    \* mutant: the cleanup of onDestroy in onPause
  /\ life = "resumed" /\ life' = "paused"
  /\ compass' = FALSE /\ view' = FALSE
  /\ UNCHANGED <<finishing, dialogVars, timer, listening, inbox, map, circleY, centre, fixed>>
Pause ==
  /\ life = "resumed" /\ life' = "paused"
  /\ compass' = FALSE
  /\ UNCHANGED <<finishing, dialogVars, timer, listening, inbox, viewVars, fixed>>

Resume ==
  /\ life = "paused" /\ ~finishing /\ life' = "resumed"
  /\ compass' = TRUE
  /\ UNCHANGED <<finishing, dialogVars, timer, listening, inbox, viewVars, fixed>>

\* After finish(), to be recreated, or because the system wants the memory.
Destroy ==
  /\ life = "paused" /\ life' = "destroyed"
  /\ timer' = FALSE /\ listening' = FALSE
  /\ dialog' = [dialog EXCEPT !["wait"] = Dismissed("wait"), !["range"] = Dismissed("range")]
  /\ view' = FALSE
  /\ UNCHANGED <<finishing, posted, inbox, compass, map, circleY, centre, fixed>>

\* The next life: this one's messages are gone, or the process is.
NextLife == life = "destroyed" /\ inbox = 0 /\ posted = {} /\ Ends("none")
Kill == life # "none" /\ Ends("none")

\* An exception no one catches.
Crash == Ends("crashed")

\* onDraw, which every layout, fix and compass event asks for, reads
\* myMap.getFilename().
DrawWithoutMap == Alive /\ ~map /\ Crash

-----------------------------------------------------------------------------
(* The location service and the timeout. *)

\* inRange, for a positive number of degrees per pixel.
InRangeEast(lat, lonIn) == lonIn    \* mutant: no test of the latitude
InRange(lat, lonIn) == lonIn /\ lat \in 0 .. Height

\* numLatitudeIn / latPerPixel, and the row updateLocation is given.
RowsIn(lat) == IF lat < 0 THEN -lat ELSE lat
MarkerRow(lat) == Height - RowsIn(lat) + 8

Fix ==
  /\ listening /\ inbox < MaxInbox
  /\ inbox' = inbox + 1
  /\ UNCHANGED <<lifeVars, dialogVars, timer, listening, compass, viewVars, fixed>>

\* The wait dialog after a fix.
FoundHides == IF IsShowing("wait") THEN "hidden" ELSE dialog["wait"]    \* mutant: no dismiss()
Found == IF IsShowing("wait") THEN "gone" ELSE dialog["wait"]

LocationChanged(lat, lonIn) ==
  /\ inbox > 0 /\ view
  /\ inbox' = inbox - 1 /\ fixed' = TRUE
  /\ centre' = IF IsShowing("wait") THEN RowsIn(lat) ELSE centre
  /\ IF InRange(lat, lonIn)
       THEN circleY' = MarkerRow(lat) /\ dialog' = [dialog EXCEPT !["wait"] = Found]
       ELSE /\ dialog' = [dialog EXCEPT !["wait"] = Found, !["range"] = "shown"]
            /\ UNCHANGED circleY
  /\ UNCHANGED <<lifeVars, posted, timer, listening, compass, view, map>>

\* A fix after onDestroy: myMapView is null in setBearing or updateLocation.
\* Or the position is out of range, and showing the alert of an activity
\* that is gone throws or not.
LateFixThrows == inbox > 0 /\ ~view /\ Crash

LateFixOutOfRange ==
  /\ inbox > 0 /\ ~view
  /\ inbox' = inbox - 1 /\ fixed' = TRUE
  /\ dialog' = [dialog EXCEPT !["range"] = "shown"]
  /\ UNCHANGED <<lifeVars, posted, timer, listening, compass, viewVars>>

TimeoutAnyway ==    \* mutant: isShowing() is not asked
  /\ timer /\ timer' = FALSE
  /\ dialog' = [dialog EXCEPT !["wait"] = "hidden", !["noGps"] = "shown"]
  /\ UNCHANGED <<lifeVars, posted, listening, inbox, compass, viewVars, fixed>>
TimeoutShowing ==    \* mutant: no hide()
  /\ timer /\ timer' = FALSE
  /\ dialog' = IF IsShowing("wait") THEN [dialog EXCEPT !["noGps"] = "shown"] ELSE dialog
  /\ UNCHANGED <<lifeVars, posted, listening, inbox, compass, viewVars, fixed>>
Timeout ==
  /\ timer /\ timer' = FALSE
  /\ dialog' = IF IsShowing("wait")
                 THEN [dialog EXCEPT !["wait"] = "hidden", !["noGps"] = "shown"]
                 ELSE dialog
  /\ UNCHANGED <<lifeVars, posted, listening, inbox, compass, viewVars, fixed>>

-----------------------------------------------------------------------------
(* The user.  The topmost dialog takes the input; the out-of-range alert is *)
(* always shown after the other.                                            *)

Input == life = "resumed" /\ ~finishing
OnTop(x) == dialog[x] = "shown" /\ (x # "range" => dialog["range"] # "shown")
NoDialog == \A x \in Dialogs : dialog[x] # "shown"

\* The back key cancels the wait: its listener is posted, then dismiss().
CancelWait ==
  /\ Input /\ OnTop("wait")
  /\ dialog' = [dialog EXCEPT !["wait"] = "gone"]
  /\ posted' = posted \cup {"wait"}
  /\ UNCHANGED <<lifeVars, sourceVars, viewVars, fixed>>

PressGoBack(x) ==
  /\ Input /\ OnTop(x)
  /\ posted' = posted \cup {x}
  /\ UNCHANGED <<lifeVars, dialog, sourceVars, viewVars, fixed>>

\* The back key only takes an alert away.
DismissAlert(x) ==
  /\ Input /\ OnTop(x)
  /\ dialog' = [dialog EXCEPT ![x] = "gone"]
  /\ UNCHANGED <<lifeVars, posted, sourceVars, viewVars, fixed>>

\* The listeners of all dialogs call finish().
Listener(x) ==
  /\ x \in posted /\ posted' = posted \ {x}
  /\ finishing' = TRUE
  /\ dialog' = [dialog EXCEPT ![x] = "gone"]
  /\ UNCHANGED <<life, sourceVars, viewVars, fixed>>

\* "Exit Map", or the back key.
ExitMap ==
  /\ Input /\ NoDialog /\ finishing' = TRUE
  /\ UNCHANGED <<life, dialogVars, sourceVars, viewVars, fixed>>

\* "Current Location", before the first fix as well.
CurrentLocation ==
  /\ Input /\ NoDialog /\ centre' = circleY
  /\ UNCHANGED <<lifeVars, dialogVars, sourceVars, view, map, circleY, fixed>>

-----------------------------------------------------------------------------
User ==
  \/ CancelWait \/ ExitMap \/ CurrentLocation
  \/ \E x \in Alerts : PressGoBack(x) \/ DismissAlert(x)

Next ==
  \/ Open \/ OpenOutOfMemory \/ Pause \/ Resume \/ Destroy \/ NextLife \/ Kill \/ DrawWithoutMap
  \/ Fix \/ LateFixThrows \/ LateFixOutOfRange \/ Timeout \/ User
  \/ \E lat \in Lats, lonIn \in BOOLEAN : LocationChanged(lat, lonIn)
  \/ \E x \in Dialogs : Listener(x)

\* A delayed message is delivered some time after it is due.
Fairness == WF_vars(Timeout)

SafetySpec == Init /\ [][Next]_vars
Spec == SafetySpec /\ Fairness

-----------------------------------------------------------------------------
(* Properties. *)

\* The dialogs take turns: while "Waiting for GPS..." is visible no alert is,
\* and the alert of the timeout belongs to a wait that has ended.
DialogsTakeTurns ==
  /\ dialog["wait"] = "shown" => \A x \in Alerts : ~IsShowing(x)
  /\ dialog["noGps"] = "shown" => dialog["wait"] \in {"hidden", "gone"}

\* "No GPS Signal could be found" appears only while no fix has been handled.
NoFalseAlarm ==
  [][dialog["noGps"] # "shown" /\ dialog'["noGps"] = "shown" => ~fixed]_vars

\* "Center on the first point": a fix that moves the view is the first one.
CentresOnFirst ==
  [][Alive /\ life' = life /\ inbox' < inbox /\ centre' # centre => ~fixed]_vars

\* While the activity exists and its map was loaded, no message it gets in
\* whatever order throws; a fix delivered after onDestroy can, and so does
\* drawing after the memory ran out.
FailsOnlyLate == [][life' = "crashed" /\ Alive => dialog["memory"] # "null"]_vars

\* What the proofs add.
SourcesWired ==
  /\ life \in {"none", "crashed"} =>
       /\ \A x \in Dialogs : dialog[x] = "null"
       /\ posted = {} /\ inbox = 0 /\ ~map /\ ~fixed /\ ~timer /\ ~listening
  /\ view <=> Alive
  /\ timer \/ listening => Alive
  /\ compass <=> life = "resumed"
  /\ IsShowing("wait") => Alive /\ ~fixed
  /\ dialog["wait"] = "shown" => timer
  /\ dialog["wait"] = "hidden" => ~timer
  /\ dialog["wait"] # "null" => map
  /\ dialog["range"] # "null" => fixed
  /\ fixed => dialog["wait"] # "null"
  /\ dialog["noGps"] # "null" => dialog["wait"] # "shown" /\ dialog["wait"] # "null"
  /\ dialog["memory"] # "null" => ~map /\ dialog["wait"] = "null" /\ ~listening /\ inbox = 0 /\ ~timer
  /\ Alive => map \/ dialog["memory"] # "null"
  /\ inbox > 0 => dialog["wait"] # "null"
  /\ listening => dialog["wait"] # "null"
  /\ \A x \in posted : dialog[x] # "null"

IndInv == DialogsTakeTurns /\ SourcesWired

\* "Waiting for GPS..." does not stay: a fix, the user, the end of the
\* activity or the timeout takes it away.
WaitEnds == dialog["wait"] = "shown" ~> dialog["wait"] # "shown"

\* MapViewActivity.java:208, "Center on the first point": the view goes where
\* the marker goes, give or take the 8 rows by which the marker is lowered.
CentresOnMarker ==
  [][centre' # centre /\ circleY' # circleY => circleY' - centre' \in 0 .. 8]_vars
=============================================================================

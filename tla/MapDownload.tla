---------------------------- MODULE MapDownload ----------------------------
(***************************************************************************)
(* Downloading map images onto the phone: DownloadMapsActivity (the list   *)
(* of maps, its progress dialog, the waiter thread and the loader thread   *)
(* that one tap starts), Map.isDownloaded / Map.loadImage, and the part of *)
(* MainMenu.clearCache that deletes the image files.                       *)
(*                                                                         *)
(* Three kinds of threads interleave.  The UI thread runs the activity's   *)
(* callbacks, one at a time.  A waiter polls Map.imageLoadState of the     *)
(* activity's currentMap field.  A loader reads currentMap once, when it   *)
(* starts, and then works on that Map object.  The image files and the     *)
(* process-wide clear thread outlive an activity; the Map objects of a     *)
(* list, the dialogs and the waiter do not.                                *)
(***************************************************************************)
EXTENDS Integers

CONSTANTS Maps,      \* rows of the map table; their image files are distinct
          NoMap,     \* a null Map reference
          Loaders,   \* bound: loader threads that can be alive at once
          Chunks,    \* bound: blocks of 1024 bytes in an image
          BadKeys,   \* maps to which some database gives a key TEA rejects
          EarlyEOF   \* TRUE: a broken connection may look like end of file

ASSUME ConstantsAssumption ==
  /\ NoMap \notin Maps
  /\ Chunks \in Nat \ {0}
  /\ BadKeys \subseteq Maps
  /\ EarlyEOF \in BOOLEAN

\* The values of Map.imageLoadState.
Unknown == 0
Loaded  == 1
Failed  == 2
Loading == 3

VARIABLES
  screen,          \* "menu", "list", or "broken": the corrupted-database alert
  alert,           \* the "error in downloading the map" alert is showing
  progress,        \* the modal "Downloading map..." dialog is showing
  waiter,          \* where the waiter thread of the last tap is
  currentMap,      \* DownloadMapsActivity.currentMap
  currentView,     \* the map of the row in DownloadMapsActivity.currentView
  listed,          \* maps with a check mark in the adapter's data
  ticked,          \* maps with a check mark on the screen
  imageLoadState,  \* Map.imageLoadState of each Map object of the list
  lpc, lmap,       \* where each loader is, and the map it works on
  written,         \* blocks each loader has written to its open file
  unlinked,        \* loaders whose open file has lost its name
  attached,        \* loaders working on Map objects of the current list
  onDisk,          \* maps whose .enc file exists
  chunks,          \* the blocks each .enc file holds
  clearer, toClear,\* the clear thread, and the files it has yet to delete
  retried,         \* history: this list started a second load of one Map
  wiped            \* history: maps whose mark in this list a clear thread made void

listVars   == <<screen, alert, progress, waiter, listed, ticked, retried, wiped>>
fieldVars  == <<currentMap, currentView>>
loaderVars == <<lpc, lmap, written, unlinked, attached>>
fileVars   == <<onDisk, chunks>>
clearVars  == <<clearer, toClear>>
vars == <<listVars, fieldVars, imageLoadState, loaderVars, fileVars, clearVars>>

AllChunks == 1 .. Chunks
FreshObjects == [m \in Maps |-> Unknown]

LoaderAt == {"idle", "start", "check", "found", "missing", "connect", "copy"}
WaiterAt == {"none", "unknown", "loading", "switch", "ok", "error"}

TypeOK ==
  /\ screen \in {"menu", "list", "broken"}
  /\ alert \in BOOLEAN /\ progress \in BOOLEAN
  /\ retried \in BOOLEAN /\ wiped \subseteq Maps
  /\ waiter \in WaiterAt
  /\ currentMap \in Maps \cup {NoMap} /\ currentView \in Maps \cup {NoMap}
  /\ listed \subseteq Maps /\ ticked \subseteq Maps
  /\ imageLoadState \in [Maps -> {Unknown, Loaded, Failed, Loading}]
  /\ lpc \in [Loaders -> LoaderAt]
  /\ lmap \in [Loaders -> Maps \cup {NoMap}]
  /\ written \in [Loaders -> 0 .. Chunks]
  /\ unlinked \subseteq Loaders /\ attached \subseteq Loaders
  /\ onDisk \subseteq Maps
  /\ chunks \in [Maps -> SUBSET AllChunks]
  /\ clearer \in {"idle", "start", "delete"}
  /\ toClear \subseteq Maps

Init ==
  /\ screen = "menu" /\ alert = FALSE /\ progress = FALSE /\ waiter = "none"
  /\ currentMap = NoMap /\ currentView = NoMap
  /\ listed = {} /\ ticked = {}
  /\ retried = FALSE /\ wiped = {}
  /\ imageLoadState = FreshObjects
  /\ lpc = [l \in Loaders |-> "idle"]
  /\ lmap = [l \in Loaders |-> NoMap]
  /\ written = [l \in Loaders |-> 0]
  /\ unlinked = {} /\ attached = {}
  /\ onDisk = {} /\ chunks = [m \in Maps |-> {}]
  /\ clearer = "idle" /\ toClear = {}

-----------------------------------------------------------------------------
(* The activity's life: created, destroyed, recreated; the process's death. *)

\* A new activity instance: no waiter, no dialog, new Map objects.  Loaders
\* of the old instance go on with its fields and its Map objects, which
\* nobody else can reach any more.
NewInstance ==
  /\ alert' = FALSE /\ progress' = FALSE /\ waiter' = "none"
  /\ currentMap' = NoMap /\ currentView' = NoMap
  /\ retried' = FALSE
  /\ imageLoadState' = FreshObjects
  /\ attached' = {}
  /\ lmap' = [l \in Loaders |->
                IF l \in attached /\ lpc[l] = "start" THEN currentMap ELSE lmap[l]]
  /\ UNCHANGED <<lpc, written, unlinked, fileVars, clearVars>>

\* onCreate with a readable database: a row per map, ticked if isDownloaded().
ShowList ==
  /\ screen' = "list" /\ listed' = onDisk /\ ticked' = onDisk /\ wiped' = {}

\* onCreate's catch: the database could not be read.
ShowBroken ==
  /\ screen' = "broken" /\ listed' = {} /\ ticked' = {} /\ wiped' = {}

OpenActivity == screen = "menu" /\ NewInstance /\ (ShowList \/ ShowBroken)

\* A configuration change that the manifest does not list (keyboardHidden)
\* recreates the activity even under its dialogs.  The old waiter's later
\* dismiss() of the lost dialog can only crash the process: see Kill.
Recreate == screen # "menu" /\ NewInstance /\ (ShowList \/ ShowBroken)

\* The dialogs are modal: only without them do rows and the back key work.
ListReadyUnderDialog == screen = "list" /\ ~alert    \* mutant: the dialog is not modal
ListReady == screen = "list" /\ ~progress /\ ~alert

CloseActivity ==
  /\ ListReady \/ screen = "broken"
  /\ NewInstance
  /\ screen' = "menu" /\ listed' = {} /\ ticked' = {} /\ wiped' = {}

\* Everything in memory is gone; the files are as they were.
ProcessDies ==
  /\ screen' = "menu" /\ alert' = FALSE /\ progress' = FALSE /\ waiter' = "none"
  /\ currentMap' = NoMap /\ currentView' = NoMap
  /\ listed' = {} /\ ticked' = {}
  /\ retried' = FALSE /\ wiped' = {}
  /\ imageLoadState' = FreshObjects
  /\ lpc' = [l \in Loaders |-> "idle"]
  /\ lmap' = [l \in Loaders |-> NoMap]
  /\ written' = [l \in Loaders |-> 0]
  /\ unlinked' = {} /\ attached' = {}
  /\ clearer' = "idle" /\ toClear' = {}
  /\ UNCHANGED fileVars

Kill == ProcessDies

-----------------------------------------------------------------------------
(* Taps on the list. *)

TapDownloaded(m) ==
  /\ ListReady /\ m \in onDisk
  /\ currentMap' = m
  /\ UNCHANGED <<listVars, currentView, imageLoadState, loaderVars, fileVars, clearVars>>

TapMissing(m, l) ==
  /\ ListReady /\ m \notin onDisk
  /\ lpc[l] = "idle"
  /\ currentMap' = m /\ currentView' = m
  /\ progress' = TRUE /\ waiter' = "unknown"
  /\ lpc' = [lpc EXCEPT ![l] = "start"]
  /\ attached' = attached \cup {l}
  /\ retried' = (retried \/ imageLoadState[m] # Unknown)
  /\ UNCHANGED <<screen, alert, listed, ticked, wiped, imageLoadState,
                 lmap, written, unlinked, fileVars, clearVars>>

\* The row scrolls out of sight and back: SimpleAdapter binds it again from
\* the data made in onCreate, which a download never updates.
RebindRow(m) ==
  /\ ListReady /\ m \in ticked \ listed
  /\ ticked' = ticked \ {m}
  /\ UNCHANGED <<screen, alert, progress, waiter, listed, retried, wiped,
                 fieldVars, imageLoadState, loaderVars, fileVars, clearVars>>

DismissAlert ==
  /\ alert /\ alert' = FALSE
  /\ UNCHANGED <<screen, progress, waiter, listed, ticked, retried, wiped,
                 fieldVars, imageLoadState, loaderVars, fileVars, clearVars>>

-----------------------------------------------------------------------------
(* waitImageLoaded: three separate reads of currentMap.getImageLoadState(), *)
(* then at most one runnable posted to the UI thread.                       *)

WaiterGoes(from, to) ==
  /\ waiter = from /\ waiter' = to
  /\ UNCHANGED <<screen, alert, progress, listed, ticked, retried, wiped,
                 fieldVars, imageLoadState, loaderVars, fileVars, clearVars>>

LeaveUnknownLoop == WaiterGoes("unknown", "loading") /\ imageLoadState[currentMap] # Unknown
LeaveLoadingLoopAtOnce == WaiterGoes("loading", "switch")    \* mutant: no second loop
LeaveLoadingLoop == WaiterGoes("loading", "switch") /\ imageLoadState[currentMap] # Loading

\* The switch has no default: on any other value the thread just ends.
OutcomeSwapped(s) == CASE s = Loaded -> "error" [] s = Failed -> "ok" [] OTHER -> "none"    \* mutant
Outcome(s) == CASE s = Loaded -> "ok" [] s = Failed -> "error" [] OTHER -> "none"
SwitchOnState == WaiterGoes("switch", Outcome(imageLoadState[currentMap]))

UiLoaded ==
  /\ waiter = "ok" /\ waiter' = "none"
  /\ ticked' = ticked \cup {currentView}
  /\ wiped' = wiped \ (onDisk \cap {currentView})
  /\ progress' = FALSE
  /\ UNCHANGED <<screen, alert, listed, retried,
                 fieldVars, imageLoadState, loaderVars, fileVars, clearVars>>

UiFailed ==
  /\ waiter = "error" /\ waiter' = "none"
  /\ progress' = FALSE /\ alert' = TRUE
  /\ UNCHANGED <<screen, listed, ticked, retried, wiped,
                 fieldVars, imageLoadState, loaderVars, fileVars, clearVars>>

-----------------------------------------------------------------------------
(* loadImage, one action per access to shared state. *)

At(l, pc) == lpc[l] = pc
Goto(l, pc) == lpc' = [lpc EXCEPT ![l] = pc]

\* Only the loaders of the current list reach its Map objects.
SetLoadState(l, s) ==
  imageLoadState' = IF l \in attached THEN [imageLoadState EXCEPT ![lmap[l]] = s]
                                      ELSE imageLoadState

\* The thread ends.
Return(l) ==
  /\ Goto(l, "idle")
  /\ lmap' = [lmap EXCEPT ![l] = NoMap]
  /\ written' = [written EXCEPT ![l] = 0]
  /\ unlinked' = unlinked \ {l}
  /\ attached' = attached \ {l}

LoaderStart(l) ==
  /\ At(l, "start") /\ Goto(l, "check")
  /\ lmap' = IF l \in attached THEN [lmap EXCEPT ![l] = currentMap] ELSE lmap
  /\ UNCHANGED <<listVars, fieldVars, imageLoadState, written, unlinked, attached,
                 fileVars, clearVars>>

\* new TEA(...) throws a RuntimeException that no one catches.  Each list
\* reads the database anew, so a map in BadKeys has a bad key only sometimes.
LoaderBadKey(l) == At(l, "check") /\ lmap[l] \in BadKeys /\ ProcessDies

LoaderCheck(l) ==
  /\ At(l, "check")
  /\ Goto(l, IF lmap[l] \in onDisk THEN "found" ELSE "missing")
  /\ UNCHANGED <<listVars, fieldVars, imageLoadState, lmap, written, unlinked, attached,
                 fileVars, clearVars>>

LoaderFound(l) ==
  /\ At(l, "found") /\ SetLoadState(l, Loaded) /\ Return(l)
  /\ UNCHANGED <<listVars, fieldVars, fileVars, clearVars>>

LoaderMissing(l) ==
  /\ At(l, "missing") /\ SetLoadState(l, Loading) /\ Goto(l, "connect")
  /\ UNCHANGED <<listVars, fieldVars, lmap, written, unlinked, attached, fileVars, clearVars>>

\* openFileOutput creates the file or truncates the one that is there.
LoaderOpen(l) ==
  /\ At(l, "connect") /\ Goto(l, "copy")
  /\ onDisk' = onDisk \cup {lmap[l]}
  /\ chunks' = [chunks EXCEPT ![lmap[l]] = {}]
  /\ UNCHANGED <<listVars, fieldVars, imageLoadState, lmap, written, unlinked, attached,
                 clearVars>>

LoaderCopyOverrun(l) ==    \* mutant: one block more than the image has
  /\ At(l, "copy")
  /\ written' = [written EXCEPT ![l] = @ + 1]
  /\ UNCHANGED <<listVars, fieldVars, imageLoadState, lpc, lmap, unlinked, attached,
                 fileVars, clearVars>>
LoaderCopy(l) ==
  /\ At(l, "copy") /\ written[l] < Chunks
  /\ written' = [written EXCEPT ![l] = @ + 1]
  /\ chunks' = IF l \in unlinked THEN chunks
                                 ELSE [chunks EXCEPT ![lmap[l]] = @ \cup {written[l] + 1}]
  /\ UNCHANGED <<listVars, fieldVars, imageLoadState, lpc, lmap, unlinked, attached,
                 onDisk, clearVars>>

\* A malformed URL or any exception of the connection or of a read.
LoaderFailSilent(l) ==    \* mutant: the catch forgets imageLoadState
  /\ lpc[l] \in {"connect", "copy"} /\ Return(l)
  /\ UNCHANGED <<listVars, fieldVars, imageLoadState, fileVars, clearVars>>
LoaderFailFallsThrough(l) ==    \* mutant: the catch has no return
  /\ lpc[l] \in {"connect", "copy"}
  /\ SetLoadState(l, Loaded) /\ Return(l)
  /\ UNCHANGED <<listVars, fieldVars, fileVars, clearVars>>
LoaderFail(l) ==
  /\ lpc[l] \in {"connect", "copy"}
  /\ SetLoadState(l, Failed) /\ Return(l)
  /\ UNCHANGED <<listVars, fieldVars, fileVars, clearVars>>

\* read() returned -1; nothing compares the length with Content-Length.
EndOfStream(l) == written[l] = Chunks \/ EarlyEOF
LoaderEnd(l) ==
  /\ At(l, "copy") /\ EndOfStream(l)
  /\ SetLoadState(l, Loaded) /\ Return(l)
  /\ UNCHANGED <<listVars, fieldVars, fileVars, clearVars>>

LoaderStep(l) ==
  \/ LoaderStart(l) \/ LoaderBadKey(l) \/ LoaderCheck(l) \/ LoaderFound(l)
  \/ LoaderMissing(l) \/ LoaderOpen(l) \/ LoaderCopy(l) \/ LoaderFail(l) \/ LoaderEnd(l)

-----------------------------------------------------------------------------
(* The file half of MainMenu.clearCache, started from the main menu; its    *)
(* dialog is dismissed by MainMenu.onPause, so the list can open meanwhile. *)

StartClear ==
  /\ screen = "menu" /\ clearer = "idle" /\ clearer' = "start"
  /\ UNCHANGED <<listVars, fieldVars, imageLoadState, loaderVars, fileVars, toClear>>

ClearList ==
  /\ clearer = "start" /\ clearer' = "delete" /\ toClear' = onDisk
  /\ UNCHANGED <<listVars, fieldVars, imageLoadState, loaderVars, fileVars>>

\* delete() takes the name away; a loader that has the file open writes on.
\* The list on the screen, if there is one, is not told.
ClearFile(m) ==
  /\ clearer = "delete" /\ m \in toClear
  /\ toClear' = toClear \ {m}
  /\ onDisk' = onDisk \ {m}
  /\ chunks' = [chunks EXCEPT ![m] = {}]
  /\ unlinked' = unlinked \cup {l \in Loaders : At(l, "copy") /\ lmap[l] = m}
  /\ wiped' = IF screen = "list" THEN wiped \cup {m} ELSE wiped
  /\ UNCHANGED <<screen, alert, progress, waiter, listed, ticked, retried,
                 fieldVars, imageLoadState, lpc, lmap, written, attached, clearer>>

ClearDone ==
  /\ clearer = "delete" /\ toClear = {} /\ clearer' = "idle"
  /\ UNCHANGED <<listVars, fieldVars, imageLoadState, loaderVars, fileVars, toClear>>

-----------------------------------------------------------------------------
WaiterStep == LeaveUnknownLoop \/ LeaveLoadingLoop \/ SwitchOnState
UiStep == UiLoaded \/ UiFailed

Next ==
  \/ OpenActivity \/ Recreate \/ CloseActivity \/ Kill
  \/ \E m \in Maps : TapDownloaded(m) \/ RebindRow(m)
  \/ \E m \in Maps, l \in Loaders : TapMissing(m, l)
  \/ DismissAlert \/ WaiterStep \/ UiStep
  \/ \E l \in Loaders : LoaderStep(l)
  \/ StartClear \/ ClearList \/ ClearDone \/ \E m \in Maps : ClearFile(m)

\* The scheduler runs the threads and the UI queue, and the network answers
\* or fails.  Nothing obliges the user, the system or the clear thread.
Fairness == WF_vars(WaiterStep) /\ WF_vars(UiStep) /\ \A l \in Loaders : WF_vars(LoaderStep(l))

SafetySpec == Init /\ [][Next]_vars
Spec == SafetySpec /\ Fairness

-----------------------------------------------------------------------------
(* Properties. *)

\* A row with a check mark is a map whose image file exists, unless a clear
\* thread deleted that very file since the row was last marked: the mark made
\* in onCreate or by the waiter's runnable is never left over from a load that
\* did not happen, also in a list whose other files are being deleted.
CheckedIsOnDisk == ticked \subseteq onDisk \cup wiped

\* As long as no Map of the list is loaded a second time, one tap's threads
\* are alone: at most one loader works for the list, the dialog is up
\* exactly while a waiter will take it down, the waiter leaves its loops only
\* after that loader has ended, and the state it then reads is the loader's
\* result, never Unknown or Loading.
SoleDownload ==
  ~retried =>
    /\ \A k, l \in attached : k = l
    /\ progress <=> waiter # "none"
    /\ waiter \in {"switch", "ok", "error"} =>
         /\ attached = {}
         /\ imageLoadState[currentMap] \in {Loaded, Failed}
    /\ waiter = "ok" => imageLoadState[currentMap] = Loaded
    /\ waiter = "error" => imageLoadState[currentMap] = Failed

\* What the proofs add to make those two inductive.  At any time:
Wired ==
  /\ screen # "list" =>
       /\ ticked = {} /\ wiped = {} /\ attached = {} /\ ~progress
  /\ waiter # "none" => progress /\ currentView = currentMap
  /\ progress => currentMap \in Maps /\ currentView \in Maps
  /\ \A l \in Loaders :
       /\ l \in attached => lpc[l] # "idle" /\ currentMap \in Maps
       /\ lpc[l] # "idle" /\ ~(l \in attached /\ lpc[l] = "start") => lmap[l] \in Maps

\* Whatever will be marked is on disk, or was deleted under this list:
Backed ==
  screen = "list" =>
    /\ \A m \in Maps : imageLoadState[m] = Loaded => m \in onDisk \cup wiped
    /\ \A l \in attached : lpc[l] \in {"found", "copy"} => lmap[l] \in onDisk \cup wiped
    /\ waiter = "ok" => currentView \in onDisk \cup wiped

\* While no Map is loaded twice, the loader, the state and the waiter agree:
Handshake ==
  ~retried =>
    /\ \A l \in attached :
         /\ waiter \in {"unknown", "loading"}
         /\ lpc[l] # "start" => lmap[l] = currentMap
         /\ imageLoadState[currentMap] =
              IF lpc[l] \in {"connect", "copy"} THEN Loading ELSE Unknown
    /\ waiter # "none" /\ attached = {} => imageLoadState[currentMap] \in {Loaded, Failed}
    /\ waiter = "loading" => imageLoadState[currentMap] # Unknown

IndInv == CheckedIsOnDisk /\ SoleDownload /\ Wired /\ Backed /\ Handshake

\* While a waiter of this list is alive, the field it polls stays the map of
\* the row its runnable will tick: no tap gets past the modal dialog.
WatchStable ==
  [][waiter # "none" /\ waiter' # "none" =>
       currentMap' = currentMap /\ currentView' = currentMap]_vars

\* The "Downloading map..." dialog, which the user cannot cancel, goes away.
Answered == (progress /\ ~retried) ~> ~progress

\* The threads implement the one-request shelf.  A mark whose file a clear
\* thread deleted under the list promises nothing until it is made again.
Shelf == INSTANCE MapShelf WITH
  stored <- onDisk,
  marked <- ticked \ wiped,
  wanted <- IF progress THEN currentView ELSE NoMap
ImplementsShelf == Shelf!ShelfSpec

\* Map.java:274, "Exit here - don't try to write invalid/no data to phone":
\* a first load that failed leaves no incomplete image file behind.
NoInvalidDataOnPhone ==
  \A m \in onDisk :
    imageLoadState[m] = Failed /\ ~retried => chunks[m] = AllChunks
=============================================================================

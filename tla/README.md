# Verification of the NY-NJ Mohonk trails map application

TLA+ models of the Android application in this repository, the TLC runs that
check them on small instances, and theorems about them with proofs for TLAPS.
The program has no tests and no documentation besides its comments, so the
source is the only reference. `PROJECT.json` maps every definition to the lines
it models, and lists the hazards the properties are for.

## 1. Inventory

| component | source | state it keeps | operations |
|---|---|---|---|
| Main menu and its threads | `MainMenu.java` | the dialog field `d`, resumed or paused | start-up, New database, Clear cache, Open Map, `newDatabaseCheck`, `downloadDatabase`, `clearCache`, `onPause`, `onDestroy` |
| Map database file | `MapDatabaseHelper.java` | `maps.sqlite`, `maps.sqlite.tmp`, static `dbLoadState`, one cached helper | `downloadDB`, `setupDatabase`, `createDatabase`, `openDatabase`, `selectFromDatabase` |
| Map download | `DownloadMapsActivity.java` | list and check marks, `currentMap`, `currentView`, dialogs | `onCreate`, tap, waiter thread, loader thread, their runnables |
| Map rows | `Map.java` | `imageLoadState`, `.enc` files, decrypted files | `isDownloaded`, `loadImage`, `decryptImage`, parcelling |
| Map session | `MapViewActivity.java`, `CompassListener.java` | GPS wait dialog, alerts, last position, listeners | `onCreate`, location updates, two-minute timeout, menu, `onDestroy` |
| Map view | `MapView.java` | image matrix, gesture state, marker position | `onTouchEvent`, `onDraw`, centring, zoom |
| Native renderer | `jni/bitmap/bitmap.c` | global `bitmapData`, the bitmap's pixels | `renderBitmap`, `read_JPEG`, `loadJPEG` |
| libjpeg, decompressor | `jni/jpeg/jd*.c` | `global_state`, the position in the file, the rows buffered, the restart state | the calls of its interface; per MCU: decode, restart, resynchronise |
| TEA cipher | `TEA.java` | the key | `encrypt`, `decrypt` |
| Polygon | `Polygon.java` | none | `contains` (its only use is commented out) |
| Splash screen | `SplashScreen.java` | one delayed runnable | start the main menu after five seconds |
| Support, Information | static screens | none | none |

Not part of the program's own logic: the rest of `jni/jpeg` (libjpeg's encoder,
transcoder and tools), and `obj`, `bin`, `gen`, `libs` (build output).

**How the parts interact.** The splash screen starts the main menu, which at
start-up either downloads the database (no file yet) or checks whether the
server has a newer one. "Download Maps" starts the download screen, which reads
the rows of the database and downloads an image for a tapped row. "Open Map"
lists the rows whose image file exists and starts a map session, which decrypts
the file, draws it through the native renderer and follows the GPS. The renderer
decodes the file with libjpeg on the first draw of a view, and copies from its
own decoded image on the later ones. Clear cache
deletes the image files and the database under whatever screen shows by then.

**What is hard.**

- *Threads without locks.* Waiters poll a field that another thread sets:
  `Map.imageLoadState`, one per `Map` object, and `dbLoadState`, one per
  process. Neither is reset before a retry; `currentMap`, `currentView` and `d`
  are fields read long after the tap that set them.
- *Dialogs as locks.* What keeps the threads of two operations apart is that a
  progress dialog takes the input. `MainMenu.onPause` dismisses it while its
  thread runs on, and a configuration change destroys the activity under it.
- *Files as state.* Whether a map is downloaded is whether a file exists; whether
  a database is current is its modification time. Files survive a crash between
  any two steps; the threads' state does not.
- *The network* fails at any read, seems to end early, or answers with
  something else.
- *State that outlives its owner.* `bitmapData` is a global of the process; the
  fields of `onTouchEvent` keep what the last gesture left, finished or not.
- *Damaged and unfinished files.* What was downloaded is decoded, whatever it is:
  libjpeg must deliver every row, and guess where it is in the file.

`PROJECT.json`, "hazards", lists these one by one at their lines.

**What makes each part correct.**

- *Map download*: check marks are true; one tap is served by one loader, whose
  own result is reported; the dialog goes away; a failed load leaves no file.
- *Database*: the final name never refers to half a file; what is installed is
  what was fetched, and a database; a newer one is noticed; the dialog has a
  thread left that takes it down.
- *Session*: at most one of the wait dialog and the two alerts shows; a destroyed
  activity is not touched by late messages; the first fix is centred once.
- *Renderer*: the view shows its own map; copying stays inside both buffers; at
  most one marker is visible; a position gets on the screen.
- *Gestures*: whichever fingers come and go, the map does not jump, one finger
  drags and two zoom.
- *Decompressor*: the lines come out in order and once; nothing is put out before
  it was read; every call returns; damage costs only its surroundings.
- *TEA*: decryption undoes encryption. *Polygon*: the even-odd rule.

## 2. Modules

| module | what it is |
|---|---|
| `MapShelf` | abstract specification: a list that marks stored maps, one request at a time, no threads |
| `MapDownload` | download screen, waiter, loaders, clear thread; refines `MapShelf` |
| `MapDownloadProofs` | theorems about it |
| `MCMapDownload` | symmetry for TLC |
| `DatabaseUpdate` | main menu, its threads, the database files, the server |
| `DatabaseUpdateProofs` | theorems about it |
| `MCDatabaseUpdate` | symmetry for TLC |
| `MapViewSession` | one life of the map screen: GPS wait, timeout, alerts, marker, compass |
| `MapViewSessionProofs` | theorems about it |
| `MCMapViewSession` | latitudes for TLC |
| `MapRender` | `onDraw`, the native renderer and its bitmaps, over several views of one process |
| `MapRenderProofs` | theorems about it |
| `MCMapRender` | positions for TLC |
| `MapGestures` | `onTouchEvent`: fingers, dragging, zooming |
| `MapGesturesProofs` | theorems about it |
| `JpegGeometry` | the sizes libjpeg computes from a header |
| `JpegDecoder` | the calls of the decompressor, its input and its output; extends `JpegGeometry` |
| `JpegDecoderProofs` | theorems about it |
| `JpegBlocksProofs` | theorems about its blocks |
| `MCJpegDecoder` | components and sampling factors for TLC |
| `JpegRestart` | a scan of a damaged file: entropy decoder and restart markers |
| `JpegRestartProofs` | theorems about it |
| `MCJpegRestart` | the damaged files for TLC |

### MapDownload

One action per callback of the UI thread (`OpenActivity`, `TapMissing`,
`RebindRow`, `UiLoaded`, ...), and one per access to shared state in the two
threads a tap starts. The waiter reads `imageLoadState` three times
(`LeaveUnknownLoop`, `LeaveLoadingLoop`, `SwitchOnState`) and posts one runnable
or none. A loader reads `currentMap` when it starts, tests for the file, sets 1
or 3, opens (creates or truncates) the file, copies blocks, and sets 1 or 2.
The `Map` objects belong to an activity instance: `attached` holds the loaders
that still work for the current one. The clear thread is the part of
`clearCache` that lists and deletes the image files.

`retried` and `wiped` are history variables. They name the two situations the
code does not handle: a second load of one `Map` object in one list, and a clear
thread that deletes a file under a list. The exceptions are as narrow as the code
allows. `wiped` holds just the maps deleted under the current list and not marked
anew: every other mark of that list must be true, whatever the clear thread does.
`retried` excepts a whole list from `SoleDownload`, `Answered` and the claim that is
violated (`NoInvalidDataOnPhone`), but from nothing else. It cannot be narrowed to the map that was tapped twice: its second loader may
not have read `currentMap` yet when the false error lets the user tap another row,
and then works on that one. After a
retry the state is still 2 when the new waiter reads it
(`DownloadMapsActivity.java:98`): it reports a false error or, if the 3 arrives between two of its reads, leaves
without posting anything, and the dialog stays.

Read the model with these assumptions:

- The rows have distinct image file names (they are the last part of each URL).
- A dialog takes the input from `show()` on, before the call returns.
- The busy waits re-read their field: it is not `volatile`, but the interpreter
  of this platform (API level 8) does not cache fields across iterations.
- A handler of the UI thread is one step. Its threads are started inside it, so
  the loader could read `currentMap` only after the handler set it.
- The waiter of a destroyed activity may later dismiss a dialog whose window is
  gone, which can throw: the process dies, as it may at any moment (`Kill`).
- One clear thread runs at a time. More only delete more.
- A map in `BadKeys` has a key shorter than 16 bytes in some version of the
  database: reading it may end the process (`LoaderBadKey`).

### DatabaseUpdate

A worker is a thread with the runnable it posts last; its `wpc` walks through
the statements of `downloadDB` and of the polling loop, of `newDatabaseCheck`
or of `clearCache`. All share `dbLoadState`, the dialog field `d`
(`progress`), and the files. A clear leaves two things behind, a download and a
posted `dismiss`, hence `posts`.

Files are modelled by what their names refer to (`db`, `tmp`), page by page, so
that a shared or truncated `.tmp` can become a mixture; `fd` says which name the
file of a writing thread has by now, so that deletes and renames under an open
file do what the file system does. A page holds a publication's number, `Junk`
(another HTTP entity) or `Hole`. Time is the number of publications: it is the
server's Last-Modified and the phone's clock.

Read the model with these assumptions:

- `openDatabase` fails without a file, succeeds on a database, and may do either
  on anything else; `getReadableDatabase` may return a connection it has open,
  create an empty database, or refuse a file. These are more behaviours than
  SQLite has.
- The asset that `copyDatabase` copies is not in the repository, so that
  `createDatabase` without a database always fails.
- The phone and the server agree on the time.
- An alert that only has to be acknowledged is left out; the "corrupted" alert,
  which starts a download, is in.
- Whatever entity the server answers with becomes the database
  (`MapDatabaseHelper.java:261` does not look at the status): `Junk` pages are
  installed like others, and the properties are about which file, not what is
  in it. `Junk` also stands for an entity that an early end of the connection cut
  short (line 237), for no length is compared either: `NeverHalf` is about
  crashes and failures between fetching and renaming, not about what was fetched.
- `deleteDatabase` and `File.delete` succeed; so does `renameTo` in one directory.

### MapViewSession

All of it runs on the UI thread, so an action is a whole handler; what varies is
the order in which messages reach it. `inbox` counts fixes the location service
has queued, `posted` holds the dialogs whose button or cancel listener is
queued, `timer` is the delayed `mRemoveGPSWaiting`. `dialog` gives each of the
four dialogs its state: `hide()` leaves `isShowing()` true, `dismiss()` does
not. `view` and `map` are the references that late handlers find null.
`Destroy` removes the timeout and the location updates, but not a fix that is
queued already: `LateFixThrows` and `LateFixOutOfRange` are what it then does.

`fixed` is a history variable: a fix has been handled.

Read the model with these assumptions:

- Positions are rows of the image; the longitude is in range or not. The number
  of degrees per pixel is positive.
- A fix carries its position when it is handled: which one is chosen there.
- The GPS goes on while the activity is paused: the code stops it in `onDestroy`.
- Drawing is reduced to the one thing that can fail in it here, a view without a
  map (`DrawWithoutMap`). What is drawn belongs to the renderer.
- Lives share nothing modelled here. The next begins when the messages of the
  last are gone (`NextLife`) or its process is (`Kill`).
- Showing an alert of a destroyed activity throws or does not.

### MapRender

One view after another in one process, each with its bitmap; `bitmapData`
stays. All of it runs on the UI thread, so `Draw` is a whole `onDraw`:
`super.onDraw` shows the bitmap as the draw before left it, `renderBitmap`
decodes (`Decodes`) or copies a window of clean pixels back (`Restores`), and
the marker is painted on top, to be seen one draw later. A pixel is the map it
comes from (`pixels`) and whether it has marker paint (`stained`). `Start` and
`End` are `loadJPEG`'s clipping in C's types: `circleX + 100 < info->width`
compares an `int` with an unsigned one.

What the code does that one might not expect, and the properties name:

- If the decrypted file has no header, libjpeg calls `error_exit`, which here
  returns; no image is read, and `bitmapData` keeps the map before. The windows
  restored around later fixes then show that map (`HasHeader`).
- The window restored is that around the new position. A marker that moves by
  more than the window less its own reach leaves its old paint (`jumped`).
- Before the first fix a marker is painted at (-1, -1): the corner has paint that
  a fix does not remove.

Assumptions: all maps have one size (the model says which map a pixel is of, not
where a row of another width would end up), and the decoded image has it too: the
bitmap is made with the size that the database gives for the map
(`MapViewActivity.java`), and `read_JPEG` (`bitmap.c:97-117`) writes as many pixels
as the file has without comparing the two. Of the errors of a returning
`error_exit` only that outcome is modelled in which no header is found; after others
libjpeg runs on with what it has, and a file without SOI may be searched for one
without end (`jdmarker.c:969-972`). A marker reaches `Radius` pixels in
any rotation; `lockPixels` and the format test succeed. `calloc` may fail, which
ends the process.

### MapGestures

One action per kind of event (`Press`, `Add`, `Move`, `Lift`, `Cancel`), each
with the fields `onTouchEvent` sets in it, the assignment at its end (`Remembers`)
and the first event of a view, which only sets `prevX`. An event shows the
fingers that are down in the order of their numbers, so that index 0 is another
finger when one is lifted. One axis is modelled: the other is treated alike.
The scale is counted in units of which `Unit` are 1.

`owner`, `alone`, `pair` and `broken` are history variables: whose coordinate
`prevX` is, which finger has been alone since it touched, whose distance
`distPre` is, and whether a gesture of several fingers was cancelled.

What the code does, and the properties name or allow: after a pinch the finger
that stays does not drag until all are up; when one of three fingers is lifted
the other two no longer zoom; ACTION_CANCEL leaves `isMultiTouch` set, so that
one finger then zooms with whatever `getX(1)` gives (`broken`); the first move
of the first pinch shrinks the map, as there is no earlier distance, and that of
a later pinch compares with the last distance of the one before.

### JpegGeometry and JpegDecoder

The interface of the decompressor, with every call and every state of
`global_state`, for a caller that makes any sequence of them, the renderer's
being one. A call is a sequence of steps, since input may run out inside a row
and the call is then repeated: `call` says which is going on, and each step is
the work on one marker, MCU or row group. `consume_markers` and `consume_data`
are the two values of `inputctl->consume_input`; `decompress_onepass` and
`decompress_data` the two of the coefficient controller. The counters of the row
path (`output_row`, `buffer_full`, `rowgroup_ctr`, `next_row_out`,
`rows_to_go`, `output_scanline`) are the code's.

A file is what the markers bring, chosen when they are read: components of each
scan, progressive or not, pseudo SOS, end. `stored` and `done` keep which blocks
and rows have been decoded; values are not kept. `failed` is that `error_exit`
was called: libjpeg requires that it does not return, so that only abort and
destroy may follow. (The renderer's does return; what that does to the view is
in `MapRender`.) Of the errors in headers only those about the order of markers are
actions; another one would lead to the same `failed` object.

### JpegRestart

The decoder of one scan, MCU by MCU, over a file with one damage. An item of the
file is the data of one MCU or a marker. `insync` says whether the decoder is at
the beginning of what it expects; if not it makes garbage, of as many items as it
will. The six `decode_mcu` functions of `jdhuff.c` treat markers, missing data
and restarts alike and are one set of actions. `read_restart_marker` and
`jpeg_resync_to_restart` with its three actions are whole. An MCU without data shows
gray (`LeaveZeros`); the code may still get one right that needs none, within a run
of empty blocks or in `decode_mcu_DC_refine`, so that it keeps more than is claimed.

`Encoded` is the file as it was written. A damaged file has its first `keep` items,
then `extra` ones, and goes on with the item `resume` of what was written: a later
one if items got lost (`Cut`), an earlier one if they came twice (`Repeat`), the next
one if an invalid code (`Marred`) or a restart marker (`Stray(lead)`, `lead` ahead of
the due one) appeared between two items. What it costs, which the properties state:
up to two markers lost or repeated cost only the intervals touched; three shift the
rest of the image; a false marker costs at most three intervals, except when it is
two ahead of the one that is due: then the true ones look like past ones and the rest
is shifted. A valid marker other than a restart blanks the rest of the scan.

## 3. Runs

| run | instance | shows |
|---|---|---|
| `map_download` | 2 maps, 2 loaders, 1 block, bad keys, early ends | `TypeOK`, `CheckedIsOnDisk`, `SoleDownload`, `WatchStable`, `ImplementsShelf` |
| `map_download_live` | 1 map, 2 loaders, 2 blocks, bad keys, fairness | `Answered` |
| `map_partial_file` | 1 map, 2 blocks | violation of `NoInvalidDataOnPhone` |
| `database` | 2 workers, 1 page, 2 publications | `TypeOK`, `DialogBacked`, `LoadStateBacked`, `NeverHalf`, `Installs` |
| `database_live` | 2 workers, 1 page, the second publication out, fairness | `DialogDismissed` |
| `database_missed` | 1 worker, 2 pages, 2 publications | violation of `CheckFindsNewer` |
| `session` | 20 rows, 2 queued fixes, timeout is fair | `TypeOK`, `DialogsTakeTurns`, `NoFalseAlarm`, `CentresOnFirst`, `FailsOnlyLate`, `WaitEnds` |
| `session_centre` | 20 rows, 1 queued fix | violation of `CentresOnMarker` |
| `render` | 2 maps of 8 by 6 pixels, window 3, marker 1, drawing is fair | `TypeOK`, `ShowsOwnMap`, `OneMarker`, `RedrawIsStable`, `PositionShown` |
| `gestures` | 3 fingers, 3 coordinates, 20 units | `TypeOK`, `NoJump`, `DragFollows`, `TwoFingersZoom`, `ZoomFollows` |
| `jpeg_decoder` | 2 components, 5 by 5 pixels, 2 scans, fairness | `TypeOK`, `LinesInOrder`, `ScanComplete`, `FinishCanRead`, `OutputBehindInput`, `LinesAreGiven`, `CallReturns` |
| `jpeg_restart` | 10 intervals of 3 MCUs, every single damage, fairness | `TypeOK`, `Resynchronised`, `StrayForgotten`, `ScanKept`, `Finishes` |

**Map download.** `CheckedIsOnDisk`: no mark without a file, but for files that a
clear thread deleted under the list. `SoleDownload`: as
long as no `Map` is loaded a second time, one loader works for the list, the
dialog is up exactly while a waiter lives, and the waiter leaves its loops after
that loader has ended, with that loader's result. `WatchStable`: nothing changes
the fields a living waiter uses. `ImplementsShelf`: under the refinement mapping
(stored = files, marked = marks less `wiped`, wanted = the row of the dialog; a
deleted file takes its own mark along and no other) every step is a
step of `MapShelf` or a stutter. `Answered`: the dialog of a first load goes
away; after a retry it may not.

**Database.** `DialogBacked`: while a dialog shows, some thread or runnable is
left that will dismiss it, although threads dismiss each other's dialogs and
read each other's results. `LoadStateBacked`: the reason for it. `NeverHalf` and
`Installs`: no half database under the final name, and a rename installs what
that download fetched, as long as no download has opened the `.tmp` of another.
`DialogDismissed`: the dialog goes away.

**Session.** `DialogsTakeTurns`: no alert while "Waiting for GPS..." is visible,
in whatever order fixes, timeout and listeners come. `NoFalseAlarm`: the alert
"No GPS Signal could be found" never follows a fix, although the timeout stays
posted after one. `CentresOnFirst`: only the first fix moves the view; a later
one would fight the user's scrolling. `FailsOnlyLate`: while the activity exists
and its map was loaded, no message throws, paused or not. It names the two
exceptions: a fix handled after `onDestroy`, and a view left without a map when
the memory ran out. `WaitEnds`: the wait dialog goes away.

**Render.** `ShowsOwnMap`: a drawn view shows its map all over, whatever the view
before left in `bitmapData`. `OneMarker`: although only the surroundings of the
new position are cleaned, no paint of an earlier fix remains unless one jumped.
`RedrawIsStable`: drawing again changes nothing. `PositionShown`: a position that
is kept gets on the screen, two draws later.

**Gestures.** `NoJump`: the map is moved only by the movement of one finger, never
by the distance between two. `DragFollows`, `TwoFingersZoom`, `ZoomFollows`: one
finger that is alone drags, only two zoom, and they do it in the direction in
which they move.

**Decompressor.** `LinesInOrder`: the number of lines given agrees with the five
counters that say what comes next. `ScanComplete`: a scan that has been read has
stored every block of the image, and none outside the arrays. `OutputBehindInput`:
no row is shown before the scan that is shown was read for it.
`FinishCanRead`: jpeg_finish_decompress never waits for data that only output
would read. `LinesAreGiven`: the renderer's loop over the lines ends.
`CallReturns`: every call does. In a damaged scan: `Resynchronised` and
`StrayForgotten` (what survives), `ScanKept` (nothing is read past the marker
that ends the scan), `Finishes` (all MCUs are delivered).

**Violations** (the runs that TLC must find; "findings" in `PROJECT.json`):

1. *A failed download counts as downloaded* (`Map.java:274`). The file exists
   from `openFileOutput` on; the catch leaves it.
2. *A newer database is overlooked* (`MainMenu.java:307`): one published between
   the answer to the GET and the last write of the file is older than the file.
3. *The first fix is centred on the wrong row* (`MapViewActivity.java:245`). The
   marker is put at the image's height minus the rows above its lower edge; the
   view is centred at the rows above the lower edge, its mirror image.

**Bounds, and why they are enough.** Two loaders let the loader of a destroyed
activity meet that of its successor, or a first load meet a retry. Two maps let
a tap, a mark or a file be the wrong one. One block already separates opened
from written; two (live and violation runs) separate incomplete from empty and
from complete. Two workers give every pair of check, download and clear; a third
thread adds no new kind of meeting. With one page a body is either empty or
whole, and mixtures of two bodies need two downloads in one file, about which
the properties claim nothing; the proofs hold for any number of pages. Two
publications are an old and a new database. The live run begins, to be small
enough, in a state the other run reaches (`OutOfDate`): the first database is
installed, the second published, so that the check at start-up finds a newer one and
a second dialog follows the first. `MaxVersion`, `Chunks`, `Pages`,
`Loaders` and `Workers` are the only bounds there. In the session two queued
fixes let one be handled before and one after any other message (`MaxInbox`);
the latitudes lie on both edges of the image, inside it and on either side, and
the height is such that the mirrored row differs from the marker's. The image of
`render` is wider and higher than a window and a marker, so that fixes can be
near, just within reach, and too far; a second map is one before or after. With
three fingers one may join or leave while two pinch, as first, second or last;
three coordinates let distances grow, shrink and stay. The scale is bounded by
the code itself. The image of `jpeg_decoder` is one block more than an MCU wide
and high and has an odd number of lines, so that the last column, row and line
are all partial; one component is subsampled; the second scan can be a
refinement, another component, or missing; `MaxScans` and `MaxLines` bound scans
and lines asked for. Ten intervals in `jpeg_restart` let the numbers of the
markers, modulo 8, come round; three MCUs let a damage be at the beginning, in
the middle and at the end of an interval; `MaxSpan` is the number of markers lost
or repeated, one more than the code can repair. Symmetry is used in the safety
runs `map_download` and `database` only, where no definition tells maps, loaders
or workers apart.

**Fairness.** Weak fairness of each thread's steps and of the UI queue: the
scheduler runs every runnable thread, and the looper every posted runnable. For
a thread in a network call it says that the network answers or fails in the end;
the code sets no timeouts, so this is an assumption about the platform, not a
fact about the code. In the session only the timeout is fair: a delayed message
is delivered some time after it is due; no fix need ever come. Nothing is assumed
of the user, of pausing, killing and restarting, of the server, or (in
`MapDownload`) of the clear thread. In `render` the compass goes on reporting
(`onSensorChanged` invalidates the view) and the platform draws an invalidated
view. A call of the decompressor that has begun goes on; whether it is ever made
again after it ran out of input is left to the caller. The decoder of
`jpeg_restart` is a loop over a source that never suspends (`jdatasrc.c` inserts
an EOI at the end of the file).

**Where the system may stop.** Deadlock is not checked in `jpeg_restart`, because a
scan ends.

**Mutants.** Each property has a mutant of a mapped definition, written just
before it and marked `mutant`: a plausible slip (a `return` missing from a
catch, a state not set, swapped cases, a dialog that is not modal, a file not
closed) that makes TLC find the property violated under the same configuration.

## 4. Proofs

The theorems hold for any values of the constants that satisfy the assumptions
named in the modules: any sets of maps, loaders and workers, any numbers of
blocks, pages and publications; any height, latitudes and queue of a session; any
image, window and marker within C's integers; any fingers and coordinates; any
image size, sampling factors, scans and damaged files. Each invariant was first
checked with TLC, as was the strengthening that makes it inductive.

`MapDownloadProofs`

- `TypeCorrect`: `Spec`'s variables keep their types.
- `Inductive`: `IndInv` is an invariant. `CheckedIsOnDisk` is not inductive: a
  mark set by the runnable is true only if the waiter read 1, which is true only
  if the loader saw or made the file. `Backed` says so. `SoleDownload` needs to
  know what the state is at each place of the loader (`Handshake`), and both
  need to know which fields are set when (`Wired`).
- `ChecksAreTrue`, `OneDownloadAtATime`: its parts.
- `WatchIsStable`: the action property, because taps need `~progress` and
  `Wired` has `progress` while a waiter lives.
- `DownloadImplementsShelf`: initial states map to initial states, each action to
  a step of `MapShelf` or a stutter. The step for `UiLoaded` needs `Backed` (the
  map it ticks is stored, or was deleted under the list, and then the request counts
  as refused); that for `ClearFile` is a map lost with its mark.

`DatabaseUpdateProofs`

- `TypeCorrect`, `Inductive` as above. `NeverHalf` rests on `PrivateTmp` (while
  nothing overlapped, the `.tmp` holds what its one download has written, and
  all of it once closed), and that on `FilesWired` (which thread has which file
  open). `DialogBacked` rests on `LoadStateBacked`: a waiter that reads 3 ends
  without a runnable, but then another thread is downloading.
- `NoDialogIsForgotten`, `LoadStateIsTrue`, `NoHalfDatabase`: its parts.
- `InstallsWhatItFetched`: the action property, from `PrivateTmp`.

`MapViewSessionProofs`

- `TypeCorrect`, `Inductive` as above. `DialogsTakeTurns` is not inductive: a
  timeout may show its alert only because the wait dialog is hidden in the same
  step, and nothing shows the wait dialog again. `SourcesWired` says which
  message can still come in which state: the timer as long as the wait is
  visible, no fix and no wait without a map, no wait dialog after a fix.
- `DialogsAlternate`: its part.
- `AlarmIsNotFalse`, `CentresOnlyOnFirst`: action properties, because a wait
  dialog that is showing means no fix yet. `LiveSessionsDoNotFail`: because the
  view exists exactly while the activity does.

`MapRenderProofs`

- `WindowInImage`: the window `loadJPEG` copies lies in the image, for every
  marker in it or outside it, with the unsigned comparison of the code.
- `TypeCorrect`, `Inductive`, `OwnMapShown`, `MarkerAlone`: `ShowsOwnMap` is not
  inductive without `bitmapData = map` in a drawn view, nor `OneMarker` without
  the fact that the surroundings of the marker are clean (`DrawnState`): what
  the next window does not reach has no paint, unless the marker jumped.
- `RedrawsAreStable`: the action property, from the same facts.

`MapGesturesProofs`

- `Inductive`: `DragWired` ties `prevX` to the finger that may drag, and
  `isMultiTouch` to the number of fingers; `PairWired` ties `distPre` to two
  fingers that are still down.
- `MapDoesNotJump`, `OneFingerDrags`, `OnlyTwoFingersZoom`,
  `ZoomFollowsFingers`: the action properties, by the kind of event.

`JpegDecoderProofs`

- The lemma `Sizes`: the image's lines end in its last row of MCUs, for every
  size, sampling factor and scale. It is what bounds all counters.
- `Inductive`: `LinesInOrder` is not inductive by itself. `RowsWired` adds where
  `next_row_out` is between rows, `CallsWired` which call goes on in which state
  and that a call for lines has lines left, `LockStep` that without arrays input
  and output are at one row, `InputWired` which rows have been read for the
  current scan, `HeaderWired` that only the first scan is read before the start.
- `TypeCorrect`, `LinesComeInOrder`, `FinishReads`: its parts. `FinishReads`
  combines them: if the data were not read, `LockStep` and `Sizes` say that lines
  are missing, and then the call is an error.
- `LinesAreGivenToTheCaller`, `OutputStaysBehind`: the action properties.

`JpegBlocksProofs`, for any components and sampling factors

- The geometry: the blocks of a component fill all MCUs but the last of a row or
  column, of which they fill `LastBlocks` (`AcrossTheImage`, `DownTheImage`), and
  the blocks of one MCU are the ones between two positions in the order of the scan
  (`MCUStored`).
- `BlocksAreWired`: `ScanComplete` speaks of the end of a scan only. The
  strengthening, `BlocksWired`, says of every moment which blocks must have been
  stored, those that the MCUs so far have passed (`Passed`), and which cannot: none
  outside the arrays, and without arrays none that the image does not have.
- `ScansAreComplete`: when the last MCU is read, all blocks have been passed.

`JpegRestartProofs`, for any file, damaged in whatever way

- `TypeCorrect`; `ScanIsKept`: nothing after the marker that ends the scan is
  read, because it stays in `unread_marker`, whichever action is taken for it.

and for scans of any length with one of the damages above, at any place,

- `DecoderKeepsItsPlace`. `Resynchronised` and `StrayForgotten` compare a whole
  image with a whole file and say nothing of the way there. The inductive
  invariant, `RestartInv`, follows the decoder: it is in an interval K, by its
  counters (`InInterval`), and either reads what it takes it for, before the damage
  or after it (`OnCourse`), or is in an interval that is lost. Then the next marker
  decides: it is a true one near enough to be recognised (`MarkerAhead`), the false
  one (`FalseAhead`), or nothing that is promised is left. With it goes
  `PromiseKept`: what has been delivered of the promised intervals is right.
- The argument for a marker (`Eighths`, `ActionIs`) is arithmetic modulo 8: numbers
  at most two apart are told apart and put in order, so that
  `jpeg_resync_to_restart` skips a past one, waits for a future one and takes the
  due one. `lead = 2` is where it ends: then the true ones are three behind, which
  cannot be told from five ahead.
- `DamageIsContained`, `StrayIsForgotten`: its consequences at the end of the scan.

So every safety property that a run checks, invariant or action property, is also a
theorem. Only model-checked are the liveness properties (`Answered`,
`DialogDismissed`, `WaitEnds`, `PositionShown`, `CallReturns`, `Finishes`), which
rest on fairness and on when actions are enabled, which these provers do not
handle; and the three violations. `BlocksWired` and `RestartInv` with `ResyncWired`
were checked by TLC before they were proved, on the instances of the runs (the scan
also on smaller ones, down to one interval of one MCU), and are no invariants of a
run, since the theorems say more.

## 5. Not modelled, and what is left

Of the application:

- *TEA*: its rejection of short keys is in `MapDownload`. The rounds are a pure
  function of one block; the length it takes from the first decrypted word only
  decides whether a view opens and what file the decoder is given (`Files`).
- *Polygon*: its only use, `inPolygonRange`, is commented out.
- *Splash screen*: one delayed runnable that starts the main menu; it is not
  removed when the user leaves, so that the menu may open later. It shares no
  state with the parts modelled.
- *Support, Information, layouts, resources*: no state.
- Of the parts modelled: the rows' data, the wording of dialogs and SQL are
  success or failure; the bearing's value, the second axis of a gesture and the
  columns of a position are left out.

Of libjpeg, which makes up most of the lines of the repository but is vendored:

- Its encoder, transcoder and command line tools, the colour quantizers and the
  arithmetic coder are never called by the application. They are left out, and
  with them most of `jni/jpeg`.
- Called, but pure arithmetic on samples: the inverse DCT in all its sizes,
  colour conversion, dequantization, Huffman tables. Models of them would be
  transliterations, without states or interleavings to check.
- Called, with state, and left: the memory manager (with `jmemnobs.c` its arrays
  are always whole in memory, so that its swapping is dead code in this build)
  and block smoothing.
- The quantization passes: `DSTATE_PRESCAN` never outlives a call without them.

So the map covers a small share of the repository's lines. Of the application's
own code it covers what has states.

Left to do: an abstract specification of the database (a name that refers to
nothing, to the empty database or to a whole entity, replaced in one step) that
`DatabaseUpdate` implements while nothing overlaps; the composition of the
session's file with clears and downloads on other screens.

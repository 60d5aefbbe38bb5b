--------------------------- MODULE DatabaseUpdate ---------------------------
(***************************************************************************)
(* The map database and the threads of MainMenu that replace it: the check *)
(* for a newer database at start-up, the download (downloadDatabase and    *)
(* MapDatabaseHelper.downloadDB) and clearCache.  They share one static    *)
(* load state, one progress dialog field, and the files maps.sqlite and    *)
(* maps.sqlite.tmp; a paused activity dismisses the dialog, so any number  *)
(* of them can run at once.                                                *)
(*                                                                         *)
(* A worker is a thread together with the runnable it posts last.  Its pc  *)
(* says what it does next.  Downloads: begin, fetch, setup, open, write,   *)
(* delete, rename, done, then the polling unknown, loading, switch.        *)
(* Checks: check, compare, then the runnable new.  Clears: clear, spawn.   *)
(* Both other kinds end in the runnable dismiss, or in none.               *)
(***************************************************************************)
EXTENDS Integers

CONSTANTS Workers,      \* bound: threads alive at once
          Pages,        \* bound: blocks of 16384 bytes in a database
          MaxVersion,   \* bound: databases the server ever publishes
          Absent,       \* what the name of a missing file refers to
          Schema        \* the tableless database SQLiteOpenHelper creates

PageNo == 1 .. Pages

\* What a page can hold: nothing, part of a database the server published,
\* or part of some other HTTP entity (an error page, a portal's login page,
\* or a database whose transfer ended early).
Hole == 0
Junk == -1
Versions == Nat \ {0}
Entities == Versions \cup {Junk}
Bodies == [PageNo -> Entities \cup {Hole}]

ASSUME ConstantsAssumption ==
  /\ Pages \in Nat \ {0} /\ MaxVersion \in Nat
  /\ Absent # Schema /\ Absent \notin Bodies /\ Schema \notin Bodies

VARIABLES
  running,      \* the process and its MainMenu exist
  foreground,   \* MainMenu is resumed
  progress,     \* the dialog MainMenu.d refers to is showing
  corrupted,    \* the "database is corrupted" alert is showing
  dbLoadState,  \* MapDatabaseHelper.dbLoadState: 0, 1, 2 or 3
  wpc,          \* what each worker does next
  posts,        \* clears whose final dismiss runnable is in the UI queue
  body,         \* the entity each download has fetched
  written,      \* pages each download has written
  fd,           \* the name of the file each download has open
  seen,         \* the Last-Modified each check has read
  db, tmp,      \* contents of maps.sqlite and maps.sqlite.tmp
  dbTime, tmpTime, \* their modification times
  remote,       \* publications so far: time, and the server's Last-Modified
  overlapped    \* history: a download opened the .tmp of another one

uiVars     == <<running, foreground, progress, corrupted>>
workVars   == <<body, written, fd, seen>>
fileVars   == <<db, tmp, dbTime, tmpTime>>
threadVars == <<wpc, posts>>
vars == <<uiVars, dbLoadState, threadVars, workVars, fileVars, remote, overlapped>>

WorkerAt ==
  {"idle", "begin", "fetch", "setup", "open", "write", "delete", "rename", "done",
   "unknown", "loading", "switch", "check", "compare", "new", "clear", "spawn", "dismiss"}

\* downloadDB between its two assignments to dbLoadState.
Downloading == {"fetch", "setup", "open", "write", "delete", "rename", "done"}
\* The stretch in which a download owns maps.sqlite.tmp.
Installing == {"write", "delete", "rename"}

TypeOK ==
  /\ running \in BOOLEAN /\ foreground \in BOOLEAN /\ progress \in BOOLEAN
  /\ corrupted \in BOOLEAN
  /\ dbLoadState \in 0 .. 3
  /\ wpc \in [Workers -> WorkerAt] /\ posts \subseteq Workers
  /\ body \in [Workers -> Entities \cup {Hole}]
  /\ written \in [Workers -> 0 .. Pages]
  /\ fd \in [Workers -> {"none", "tmp", "db", "lost"}]
  /\ seen \in [Workers -> Nat]
  /\ db \in Bodies \cup {Absent, Schema} /\ tmp \in Bodies \cup {Absent}
  /\ dbTime \in Nat /\ tmpTime \in Nat /\ remote \in Versions
  /\ overlapped \in BOOLEAN

Init ==
  /\ running = FALSE /\ foreground = FALSE /\ progress = FALSE
  /\ corrupted = FALSE
  /\ dbLoadState = 0
  /\ wpc = [w \in Workers |-> "idle"] /\ posts = {}
  /\ body = [w \in Workers |-> Hole]
  /\ written = [w \in Workers |-> 0]
  /\ fd = [w \in Workers |-> "none"]
  /\ seen = [w \in Workers |-> 0]
  /\ db = Absent /\ tmp = Absent /\ dbTime = 0 /\ tmpTime = 0
  /\ remote = 1 /\ overlapped = FALSE

-----------------------------------------------------------------------------
(* Contents and names of files. *)

Copy(e) == [n \in PageNo |-> e]
Empty == Copy(Hole)
Uniform(c) == \A n \in PageNo : c[n] = c[1]
IsDatabase(c) == c \notin {Absent, Schema} /\ Uniform(c) /\ c[1] \in Versions
Whole(c) == c \in {Absent, Schema} \/ (Uniform(c) /\ c[1] # Hole)

\* SQLiteDatabase.openDatabase fails without a file, succeeds on a database,
\* and may do either on anything else.
CanOpen(c) ==
  IF c = Absent THEN {FALSE} ELSE IF c = Schema \/ IsDatabase(c) THEN {TRUE} ELSE BOOLEAN

\* Open files keep their contents when the name goes.
Unlink == [w \in Workers |-> IF fd[w] = "db" THEN "lost" ELSE fd[w]]
Renamed == [w \in Workers |-> CASE fd[w] = "db" -> "lost"
                                [] fd[w] = "tmp" -> "db"
                                [] OTHER -> fd[w]]

RemoveDatabase ==
  /\ db' = Absent /\ dbTime' = 0 /\ fd' = Unlink
  /\ UNCHANGED <<tmp, tmpTime>>

\* getReadableDatabase(): the helper returns a connection it opened before,
\* touching nothing, or opens the file: without one it makes an empty
\* database, and one that is no database it may refuse.
GetReadable(ok) ==
  \/ ok /\ UNCHANGED fileVars
  \/ /\ ok /\ db = Absent
     /\ db' = Schema /\ dbTime' = remote
     /\ UNCHANGED <<tmp, tmpTime>>
  \/ ~ok /\ db # Absent /\ UNCHANGED fileVars

\* databaseExists(), and getReadableDatabase() if it does not; ok unless that
\* throws.  createDatabase and setupDatabase both begin so.
ExistsOrCreate(exists, ok) ==
  /\ exists \in CanOpen(db)
  /\ IF exists THEN ok /\ UNCHANGED fileVars ELSE GetReadable(ok)

-----------------------------------------------------------------------------
(* The process. *)

Idle(w) == wpc[w] = "idle" /\ w \notin posts
Goto(w, pc) == wpc' = [wpc EXCEPT ![w] = pc]

Launch(w) ==
  /\ ~running /\ running' = TRUE /\ foreground' = TRUE
  /\ progress' = TRUE
  /\ Idle(w) /\ Goto(w, IF db = Absent THEN "begin" ELSE "check")
  /\ UNCHANGED <<corrupted, dbLoadState, posts, workVars, fileVars, remote, overlapped>>

\* Exit, the back key (onDestroy calls System.exit), the system, a crash.
Kill ==
  /\ running /\ running' = FALSE /\ foreground' = FALSE /\ progress' = FALSE
  /\ corrupted' = FALSE
  /\ dbLoadState' = 0
  /\ wpc' = [w \in Workers |-> "idle"] /\ posts' = {}
  /\ body' = [w \in Workers |-> Hole]
  /\ written' = [w \in Workers |-> 0]
  /\ fd' = [w \in Workers |-> "none"]
  /\ seen' = [w \in Workers |-> 0]
  /\ UNCHANGED <<fileVars, remote, overlapped>>

Pause ==
  /\ foreground /\ foreground' = FALSE
  /\ progress' = FALSE
  /\ UNCHANGED <<running, corrupted, dbLoadState, threadVars, workVars, fileVars, remote, overlapped>>

Resume ==
  /\ running /\ ~foreground /\ foreground' = TRUE
  /\ UNCHANGED <<running, progress, corrupted, dbLoadState, threadVars, workVars,
                 fileVars, remote, overlapped>>

Publish ==
  /\ remote < MaxVersion /\ remote' = remote + 1
  /\ UNCHANGED <<uiVars, dbLoadState, threadVars, workVars, fileVars, overlapped>>

-----------------------------------------------------------------------------
(* The user, on the main menu or on the list that "Download Maps" opens.    *)

\* d is modal, and so is the alert beneath it.
Ready == foreground /\ ~progress /\ ~corrupted

ShowAndStart(w, pc) ==
  /\ progress' = TRUE /\ Idle(w) /\ Goto(w, pc)
  /\ UNCHANGED <<running, foreground, dbLoadState, posts, workVars, fileVars,
                 remote, overlapped>>

NewDatabase(w) == Ready /\ ShowAndStart(w, "begin") /\ UNCHANGED corrupted
ClearCache(w) == Ready /\ ShowAndStart(w, "clear") /\ UNCHANGED corrupted
CorruptedOk(w) == corrupted /\ foreground /\ ~progress /\ corrupted' = FALSE /\ ShowAndStart(w, "begin")

CorruptedCancel ==
  /\ corrupted /\ foreground /\ ~progress /\ corrupted' = FALSE
  /\ UNCHANGED <<running, foreground, progress, dbLoadState, threadVars, workVars,
                 fileVars, remote, overlapped>>

\* Map.getAllMaps: createDatabase, openDatabase, SELECT.  After an existing
\* database only a copy of the server's has the table.  Otherwise the asset
\* that createDatabase would copy does not exist, so the call fails; it also
\* fails, and makes nothing, if a worker deletes the file half-way.
GetAllMaps(listed) ==
  \/ /\ listed
     /\ TRUE \in CanOpen(db) /\ db # Schema
     /\ UNCHANGED fileVars
  \/ /\ ~listed /\ ~IsDatabase(db)
     /\ \/ \E exists, ok \in BOOLEAN : ExistsOrCreate(exists, ok)
        \/ UNCHANGED fileVars

\* openMap.onClick: the corrupted alert appears, or a map is picked; then
\* the "Loading map..." dialog lasts until startActivity pauses MainMenu.
OpenMap ==
  /\ Ready
  /\ \/ GetAllMaps(TRUE) /\ foreground' = FALSE /\ UNCHANGED corrupted
     \/ GetAllMaps(FALSE) /\ corrupted' = TRUE /\ UNCHANGED foreground
  /\ UNCHANGED <<running, progress, dbLoadState, threadVars, workVars, remote, overlapped>>

\* DownloadMapsActivity.onCreate, MainMenu being paused.
ListMaps ==
  /\ running /\ ~foreground
  /\ \E listed \in BOOLEAN : GetAllMaps(listed)
  /\ UNCHANGED <<uiVars, dbLoadState, threadVars, workVars, remote, overlapped>>

-----------------------------------------------------------------------------
(* downloadDB.  Leaving it either way, the thread goes on to poll.          *)

Begin(w) ==
  /\ wpc[w] = "begin" /\ Goto(w, "fetch")
  /\ dbLoadState' = 3
  /\ UNCHANGED <<uiVars, posts, workVars, fileVars, remote, overlapped>>

\* The whole entity is read into memory; its HTTP status is not looked at,
\* nor its length: one cut short by an early end of the connection is Junk too.
Fetch(w) ==
  /\ wpc[w] = "fetch" /\ Goto(w, "setup")
  /\ \E e \in {remote, Junk} : body' = [body EXCEPT ![w] = e]
  /\ UNCHANGED <<uiVars, dbLoadState, posts, written, fd, seen, fileVars, remote, overlapped>>

Setup(w) ==
  /\ wpc[w] = "setup"
  /\ \E exists, ok \in BOOLEAN :
       /\ ExistsOrCreate(exists, ok)
       /\ Goto(w, IF ok THEN "open" ELSE "unknown")
       /\ dbLoadState' = IF ok THEN dbLoadState ELSE 2
       /\ body' = IF ok THEN body ELSE [body EXCEPT ![w] = Hole]
  /\ UNCHANGED <<uiVars, posts, written, fd, seen, remote, overlapped>>

\* FileOutputStream truncates the file that is there, whoever writes to it.
Open(w) ==
  /\ wpc[w] = "open" /\ Goto(w, "write")
  /\ tmp' = Empty /\ tmpTime' = remote
  /\ fd' = [fd EXCEPT ![w] = "tmp"]
  /\ overlapped' = (overlapped \/ \E v \in Workers : wpc[v] \in Installing)
  /\ UNCHANGED <<uiVars, dbLoadState, posts, body, written, seen, db, dbTime, remote>>

WritePageOverrun(w) ==    \* mutant: the loop does not end with the entity
  /\ wpc[w] = "write"
  /\ written' = [written EXCEPT ![w] = @ + 1]
  /\ UNCHANGED <<uiVars, dbLoadState, threadVars, body, fd, seen, fileVars, remote, overlapped>>
WritePage(w) ==
  /\ wpc[w] = "write" /\ written[w] < Pages
  /\ written' = [written EXCEPT ![w] = @ + 1]
  /\ IF fd[w] = "tmp"
       THEN tmp' = [tmp EXCEPT ![written[w] + 1] = body[w]] /\ tmpTime' = remote
       ELSE UNCHANGED <<tmp, tmpTime>>
  /\ IF fd[w] = "db"
       THEN db' = [db EXCEPT ![written[w] + 1] = body[w]] /\ dbTime' = remote
       ELSE UNCHANGED <<db, dbTime>>
  /\ UNCHANGED <<uiVars, dbLoadState, threadVars, body, fd, seen, remote, overlapped>>

CloseEarly(w) ==    \* mutant: a short read ends the loop
  /\ wpc[w] = "write" /\ Goto(w, "delete")
  /\ fd' = [fd EXCEPT ![w] = "none"] /\ written' = [written EXCEPT ![w] = 0]
  /\ UNCHANGED <<uiVars, dbLoadState, posts, body, seen, fileVars, remote, overlapped>>
Close(w) ==
  /\ wpc[w] = "write" /\ written[w] = Pages /\ Goto(w, "delete")
  /\ fd' = [fd EXCEPT ![w] = "none"] /\ written' = [written EXCEPT ![w] = 0]
  /\ UNCHANGED <<uiVars, dbLoadState, posts, body, seen, fileVars, remote, overlapped>>

\* An exception of the connection or of a write.
DownloadFailsSilent(w) ==    \* mutant: the catch forgets dbLoadState
  /\ wpc[w] \in {"fetch", "open", "write"} /\ Goto(w, "unknown")
  /\ fd' = [fd EXCEPT ![w] = "none"] /\ written' = [written EXCEPT ![w] = 0]
  /\ body' = [body EXCEPT ![w] = Hole]
  /\ UNCHANGED <<uiVars, dbLoadState, posts, seen, fileVars, remote, overlapped>>
DownloadFailsFallsThrough(w) ==    \* mutant: the catch has no return
  /\ wpc[w] \in {"fetch", "open", "write"} /\ Goto(w, "delete")
  /\ fd' = [fd EXCEPT ![w] = "none"] /\ written' = [written EXCEPT ![w] = 0]
  /\ UNCHANGED <<uiVars, dbLoadState, posts, body, seen, fileVars, remote, overlapped>>
DownloadFails(w) ==
  /\ wpc[w] \in {"fetch", "open", "write"} /\ Goto(w, "unknown")
  /\ dbLoadState' = 2
  /\ fd' = [fd EXCEPT ![w] = "none"] /\ written' = [written EXCEPT ![w] = 0]
  /\ body' = [body EXCEPT ![w] = Hole]
  /\ UNCHANGED <<uiVars, posts, seen, fileVars, remote, overlapped>>

DeleteOld(w) ==
  /\ wpc[w] = "delete" /\ Goto(w, "rename")
  /\ RemoveDatabase
  /\ UNCHANGED <<uiVars, dbLoadState, posts, body, written, seen, remote, overlapped>>

RenameNew(w) ==
  /\ wpc[w] = "rename" /\ Goto(w, "done")
  /\ IF tmp = Absent
       THEN UNCHANGED <<fd, fileVars>>
       ELSE /\ db' = tmp /\ dbTime' = tmpTime
            /\ tmp' = Absent /\ tmpTime' = 0
            /\ fd' = Renamed
  /\ body' = [body EXCEPT ![w] = Hole]
  /\ UNCHANGED <<uiVars, dbLoadState, posts, written, seen, remote, overlapped>>

Done(w) ==
  /\ wpc[w] = "done" /\ Goto(w, "unknown")
  /\ dbLoadState' = 1
  /\ UNCHANGED <<uiVars, posts, workVars, fileVars, remote, overlapped>>

-----------------------------------------------------------------------------
(* The rest of downloadDatabase: polling the static state, then a runnable. *)

WorkerGoes(w, from, to) ==
  /\ wpc[w] = from /\ Goto(w, to)
  /\ UNCHANGED <<uiVars, dbLoadState, posts, workVars, fileVars, remote, overlapped>>

LeaveUnknownLoop(w) == WorkerGoes(w, "unknown", "loading") /\ dbLoadState # 0
LeaveLoadingLoop(w) == WorkerGoes(w, "loading", "switch") /\ dbLoadState # 3
SwitchOnState(w) ==
  WorkerGoes(w, "switch", IF dbLoadState \in {1, 2} THEN "dismiss" ELSE "idle")

\* d.dismiss(), whichever dialog d refers to by now.  An error also shows an
\* alert, which has no effect but to be acknowledged and is left out.
UiDismiss(w) ==
  /\ wpc[w] = "dismiss" /\ Goto(w, "idle")
  /\ progress' = FALSE
  /\ UNCHANGED <<running, foreground, corrupted, dbLoadState, posts, workVars,
                 fileVars, remote, overlapped>>

-----------------------------------------------------------------------------
(* newDatabaseCheck. *)

\* One HTTP exchange: no length or an unreadable date, or the date.
CheckHeaders(w) ==
  /\ wpc[w] = "check"
  /\ \/ Goto(w, "dismiss") /\ UNCHANGED seen
     \/ Goto(w, "compare") /\ seen' = [seen EXCEPT ![w] = remote]
  /\ UNCHANGED <<uiVars, dbLoadState, posts, body, written, fd, fileVars, remote, overlapped>>

\* No Last-Modified header: parse(null) throws what the catch does not name.
CheckCrashes(w) == wpc[w] = "check" /\ Kill

Compare(w) ==
  /\ wpc[w] = "compare"
  /\ Goto(w, IF db # Absent /\ dbTime < seen[w] THEN "new" ELSE "dismiss")
  /\ seen' = [seen EXCEPT ![w] = 0]
  /\ UNCHANGED <<uiVars, dbLoadState, posts, body, written, fd, fileVars, remote, overlapped>>

\* The runnable dismisses d, shows another and starts the download.
UiNewDatabaseForgets(w) ==    \* mutant: the new dialog without its thread
  /\ wpc[w] = "new" /\ Goto(w, "idle")
  /\ progress' = TRUE
  /\ UNCHANGED <<running, foreground, corrupted, dbLoadState, posts, workVars,
                 fileVars, remote, overlapped>>
UiNewDatabase(w) ==
  /\ wpc[w] = "new" /\ Goto(w, "begin")
  /\ progress' = TRUE
  /\ UNCHANGED <<running, foreground, corrupted, dbLoadState, posts, workVars,
                 fileVars, remote, overlapped>>

-----------------------------------------------------------------------------
(* clearCache; for the image files see MapDownload. *)

ClearDatabase(w) ==
  /\ wpc[w] = "clear" /\ Goto(w, "spawn")
  /\ RemoveDatabase
  /\ UNCHANGED <<uiVars, dbLoadState, posts, body, written, seen, remote, overlapped>>

\* The download takes the worker over; the dismiss runnable is posted.
ClearSpawns(w) ==
  /\ wpc[w] = "spawn" /\ Goto(w, "begin")
  /\ posts' = posts \cup {w}
  /\ UNCHANGED <<uiVars, dbLoadState, workVars, fileVars, remote, overlapped>>

UiCleared(w) ==
  /\ w \in posts /\ posts' = posts \ {w}
  /\ progress' = FALSE
  /\ UNCHANGED <<running, foreground, corrupted, dbLoadState, wpc, workVars,
                 fileVars, remote, overlapped>>

-----------------------------------------------------------------------------
DownloadStep(w) ==
  \/ Begin(w) \/ Fetch(w) \/ Setup(w) \/ Open(w) \/ WritePage(w) \/ Close(w)
  \/ DownloadFails(w) \/ DeleteOld(w) \/ RenameNew(w) \/ Done(w)
  \/ LeaveUnknownLoop(w) \/ LeaveLoadingLoop(w) \/ SwitchOnState(w)

CheckStep(w) == CheckHeaders(w) \/ CheckCrashes(w) \/ Compare(w)
ClearStep(w) == ClearDatabase(w) \/ ClearSpawns(w)
UiStep(w) == UiDismiss(w) \/ UiNewDatabase(w) \/ UiCleared(w)
UserStep(w) == NewDatabase(w) \/ ClearCache(w) \/ CorruptedOk(w)

Next ==
  \/ Kill \/ Pause \/ Resume \/ Publish
  \/ CorruptedCancel \/ OpenMap \/ ListMaps
  \/ \E w \in Workers :
       Launch(w) \/ UserStep(w) \/ DownloadStep(w) \/ CheckStep(w) \/ ClearStep(w) \/ UiStep(w)

\* Threads and the UI queue are scheduled, and the network answers or fails.
\* The user and the system owe nothing.
Fairness ==
  \A w \in Workers :
    /\ WF_vars(DownloadStep(w)) /\ WF_vars(CheckStep(w)) /\ WF_vars(ClearStep(w))
    /\ WF_vars(UiDismiss(w)) /\ WF_vars(UiNewDatabase(w)) /\ WF_vars(UiCleared(w))

SafetySpec == Init /\ [][Next]_vars
Spec == SafetySpec /\ Fairness

-----------------------------------------------------------------------------
(* Properties. *)

\* The dialog cannot be cancelled, and threads dismiss each other's dialogs
\* and read each other's results; still, while it shows, some thread or
\* runnable remains that will take it down.  A waiter that finds another
\* download's 3 in its switch ends without a runnable, but then that other
\* download has its own still to come.
DialogBacked ==
  progress => posts # {} \/ \E w \in Workers : wpc[w] # "idle"

\* ... because the static state is 3 only while a download is under way, and
\* no waiter polls it before the first download has begun.
LoadStateBacked ==
  /\ dbLoadState = 3 => \E w \in Workers : wpc[w] \in Downloading
  /\ \A w \in Workers :
       wpc[w] \in Downloading \cup {"unknown", "loading", "switch"} => dbLoadState # 0

\* Unless two downloads have shared a .tmp file, the name maps.sqlite never
\* refers to half of what a download fetched, whenever the process dies or a
\* download fails.  (What was fetched may itself be Junk.)
NeverHalf == ~overlapped => Whole(db)

\* What the proofs add.  Which thread has which file open:
FilesWired ==
  \A w \in Workers :
    /\ fd[w] # "none" => wpc[w] = "write"
    /\ fd[w] = "tmp" => tmp # Absent
    /\ fd[w] = "db" => db \in Bodies
    /\ wpc[w] # "write" => written[w] = 0
    /\ wpc[w] \in {"setup", "open"} \cup Installing => body[w] \in Entities

\* While no two downloads have shared it, the .tmp file is one download's:
\* it holds what that download has written, and in the end all of it.
PrivateTmp ==
  ~overlapped =>
    /\ \A v, w \in Workers : wpc[v] \in Installing /\ wpc[w] \in Installing => v = w
    /\ \A w \in Workers :
         /\ wpc[w] = "write" =>
              /\ fd[w] = "tmp"
              /\ \A n \in PageNo : n <= written[w] => tmp[n] = body[w]
         /\ wpc[w] \in {"delete", "rename"} => tmp = Copy(body[w])

IndInv == DialogBacked /\ LoadStateBacked /\ NeverHalf /\ FilesWired /\ PrivateTmp

\* Unless two downloads have shared a .tmp file, a rename puts in place just
\* the entity that download fetched.
Installs ==
  [][\A w \in Workers :
       wpc[w] = "rename" /\ wpc'[w] = "done" /\ ~overlapped => db' = Copy(body[w])]_vars

\* The dialog, which the user cannot cancel, goes away.
DialogDismissed == progress ~> ~progress

\* MainMenu.java:269, "to see if there is a new database available": a check
\* that says no has not overlooked one.
CheckFindsNewer ==
  [][\A w \in Workers :
       wpc[w] = "compare" /\ wpc'[w] = "dismiss" =>
         (IsDatabase(db) => db[1] >= seen[w])]_vars
=============================================================================

------------------------- MODULE MapDownloadProofs -------------------------
(***************************************************************************)
(* Proofs, for every set of maps, every number of loader threads and every *)
(* image size, of what MapDownload's runs check on two maps: its typing,   *)
(* CheckedIsOnDisk, SoleDownload, WatchStable and the refinement to        *)
(* MapShelf.  Each conjunct of IndInv has a lemma saying that every step   *)
(* preserves it, with one case per action.                                 *)
(***************************************************************************)
EXTENDS MapDownload, TLAPS

\* A loader may start with nothing written.
LEMMA Counters == 0 \in 0 .. Chunks
  BY ConstantsAssumption

\* Where the threads are and what their fields refer to.
LEMMA WiredStep ==
  TypeOK /\ Wired /\ [Next]_vars => Wired'
  <1> SUFFICES ASSUME TypeOK, Wired, [Next]_vars PROVE Wired'
    OBVIOUS
  <1> USE ConstantsAssumption DEF vars, listVars, fieldVars, loaderVars, fileVars, clearVars,
             Unknown, Loaded, Failed, Loading,
             TypeOK, Wired, LoaderAt, WaiterAt, FreshObjects
  <1>0. CASE UNCHANGED vars
    BY <1>0
  <1>1. CASE OpenActivity
    BY <1>1 DEF OpenActivity, ShowList, ShowBroken, NewInstance
  <1>2. CASE Recreate
    BY <1>2 DEF Recreate, ShowList, ShowBroken, NewInstance
  <1>3. CASE CloseActivity
    BY <1>3 DEF CloseActivity, ListReady, NewInstance
  <1>4. CASE Kill
    BY <1>4 DEF Kill, ProcessDies
  <1>5. ASSUME NEW m \in Maps, TapDownloaded(m) PROVE Wired'
    BY <1>5 DEF TapDownloaded, ListReady
  <1>6. ASSUME NEW m \in Maps, RebindRow(m) PROVE Wired'
    BY <1>6 DEF RebindRow, ListReady
  <1>7. ASSUME NEW m \in Maps, NEW l \in Loaders, TapMissing(m, l) PROVE Wired'
    BY <1>7 DEF TapMissing, ListReady
  <1>8. CASE DismissAlert
    BY <1>8 DEF DismissAlert
  <1>9. CASE WaiterStep
    BY <1>9 DEF WaiterStep, LeaveUnknownLoop, LeaveLoadingLoop, SwitchOnState, WaiterGoes, Outcome
  <1>10. CASE UiStep
    BY <1>10 DEF UiStep, UiLoaded, UiFailed
  <1>11. ASSUME NEW l \in Loaders, LoaderStart(l) PROVE Wired'
    BY <1>11 DEF LoaderStart, At, Goto
  <1>12. ASSUME NEW l \in Loaders, LoaderBadKey(l) PROVE Wired'
    BY <1>12 DEF LoaderBadKey, ProcessDies
  <1>13. ASSUME NEW l \in Loaders, LoaderCheck(l) PROVE Wired'
    BY <1>13 DEF LoaderCheck, At, Goto
  <1>14. ASSUME NEW l \in Loaders, LoaderFound(l) PROVE Wired'
    BY <1>14 DEF LoaderFound, At, SetLoadState, Return, Goto
  <1>15. ASSUME NEW l \in Loaders, LoaderMissing(l) PROVE Wired'
    BY <1>15 DEF LoaderMissing, At, SetLoadState, Goto
  <1>16. ASSUME NEW l \in Loaders, LoaderOpen(l) PROVE Wired'
    BY <1>16 DEF LoaderOpen, At, Goto
  <1>17. ASSUME NEW l \in Loaders, LoaderCopy(l) PROVE Wired'
    BY <1>17 DEF LoaderCopy, At
  <1>18. ASSUME NEW l \in Loaders, LoaderFail(l) PROVE Wired'
    BY <1>18 DEF LoaderFail, SetLoadState, Return, Goto
  <1>19. ASSUME NEW l \in Loaders, LoaderEnd(l) PROVE Wired'
    BY <1>19 DEF LoaderEnd, At, SetLoadState, Return, Goto
  <1>20. CASE StartClear
    BY <1>20 DEF StartClear
  <1>21. CASE ClearList
    BY <1>21 DEF ClearList
  <1>22. CASE ClearDone
    BY <1>22 DEF ClearDone
  <1>23. ASSUME NEW m \in Maps, ClearFile(m) PROVE Wired'
    BY <1>23 DEF ClearFile, At
  <1> QED
    BY <1>0, <1>1, <1>2, <1>3, <1>4, <1>5, <1>6, <1>7, <1>8, <1>9, <1>10, <1>11, <1>12, <1>13, <1>14, <1>15, <1>16, <1>17, <1>18, <1>19, <1>20, <1>21, <1>22, <1>23 DEF Next, LoaderStep

\* Typing needs Wired: a file is made for the map of a loader, a mark for the
\* row of a waiter, and both must be maps.
LEMMA TypeStep ==
  TypeOK /\ Wired /\ [Next]_vars => TypeOK'
  <1> SUFFICES ASSUME TypeOK, Wired, [Next]_vars PROVE TypeOK'
    OBVIOUS
  <1> USE ConstantsAssumption DEF vars, listVars, fieldVars, loaderVars, fileVars, clearVars,
             Unknown, Loaded, Failed, Loading,
             TypeOK, AllChunks, Wired, LoaderAt, WaiterAt, FreshObjects
  <1>0. CASE UNCHANGED vars
    BY <1>0
  <1>1. CASE OpenActivity
    BY <1>1 DEF OpenActivity, ShowList, ShowBroken, NewInstance
  <1>2. CASE Recreate
    BY <1>2 DEF Recreate, ShowList, ShowBroken, NewInstance
  <1>3. CASE CloseActivity
    BY <1>3 DEF CloseActivity, ListReady, NewInstance
  <1>4. CASE Kill
    BY <1>4, Counters DEF Kill, ProcessDies
  <1>5. ASSUME NEW m \in Maps, TapDownloaded(m) PROVE TypeOK'
    BY <1>5 DEF TapDownloaded, ListReady
  <1>6. ASSUME NEW m \in Maps, RebindRow(m) PROVE TypeOK'
    BY <1>6 DEF RebindRow, ListReady
  <1>7. ASSUME NEW m \in Maps, NEW l \in Loaders, TapMissing(m, l) PROVE TypeOK'
    BY <1>7 DEF TapMissing, ListReady
  <1>8. CASE DismissAlert
    BY <1>8 DEF DismissAlert
  <1>9. CASE WaiterStep
    BY <1>9 DEF WaiterStep, LeaveUnknownLoop, LeaveLoadingLoop, SwitchOnState, WaiterGoes, Outcome
  <1>10. CASE UiStep
    BY <1>10 DEF UiStep, UiLoaded, UiFailed
  <1>11. ASSUME NEW l \in Loaders, LoaderStart(l) PROVE TypeOK'
    BY <1>11 DEF LoaderStart, At, Goto
  <1>12. ASSUME NEW l \in Loaders, LoaderBadKey(l) PROVE TypeOK'
    BY <1>12, Counters DEF LoaderBadKey, ProcessDies
  <1>13. ASSUME NEW l \in Loaders, LoaderCheck(l) PROVE TypeOK'
    BY <1>13 DEF LoaderCheck, At, Goto
  <1>14. ASSUME NEW l \in Loaders, LoaderFound(l) PROVE TypeOK'
    BY <1>14 DEF LoaderFound, At, SetLoadState, Return, Goto
  <1>15. ASSUME NEW l \in Loaders, LoaderMissing(l) PROVE TypeOK'
    BY <1>15 DEF LoaderMissing, At, SetLoadState, Goto
  <1>16. ASSUME NEW l \in Loaders, LoaderOpen(l) PROVE TypeOK'
    BY <1>16 DEF LoaderOpen, At, Goto
  <1>17. ASSUME NEW l \in Loaders, LoaderCopy(l) PROVE TypeOK'
    BY <1>17 DEF LoaderCopy, At
  <1>18. ASSUME NEW l \in Loaders, LoaderFail(l) PROVE TypeOK'
    BY <1>18 DEF LoaderFail, SetLoadState, Return, Goto
  <1>19. ASSUME NEW l \in Loaders, LoaderEnd(l) PROVE TypeOK'
    BY <1>19 DEF LoaderEnd, At, SetLoadState, Return, Goto
  <1>20. CASE StartClear
    BY <1>20 DEF StartClear
  <1>21. CASE ClearList
    BY <1>21 DEF ClearList
  <1>22. CASE ClearDone
    BY <1>22 DEF ClearDone
  <1>23. ASSUME NEW m \in Maps, ClearFile(m) PROVE TypeOK'
    BY <1>23 DEF ClearFile, At
  <1> QED
    BY <1>0, <1>1, <1>2, <1>3, <1>4, <1>5, <1>6, <1>7, <1>8, <1>9, <1>10, <1>11, <1>12, <1>13, <1>14, <1>15, <1>16, <1>17, <1>18, <1>19, <1>20, <1>21, <1>22, <1>23 DEF Next, LoaderStep

\* What will be marked is on disk: only ClearFile makes a file disappear, and
\* under a list it records in wiped which.
LEMMA BackedStep ==
  TypeOK /\ Wired /\ Backed /\ [Next]_vars => Backed'
  <1> SUFFICES ASSUME TypeOK, Wired, Backed, [Next]_vars PROVE Backed'
    OBVIOUS
  <1> USE ConstantsAssumption DEF vars, listVars, fieldVars, loaderVars, fileVars, clearVars,
             Unknown, Loaded, Failed, Loading,
             TypeOK, Backed, Wired, LoaderAt, WaiterAt, FreshObjects
  <1>0. CASE UNCHANGED vars
    BY <1>0
  <1>1. CASE OpenActivity
    BY <1>1 DEF OpenActivity, ShowList, ShowBroken, NewInstance
  <1>2. CASE Recreate
    BY <1>2 DEF Recreate, ShowList, ShowBroken, NewInstance
  <1>3. CASE CloseActivity
    BY <1>3 DEF CloseActivity, ListReady, NewInstance
  <1>4. CASE Kill
    BY <1>4 DEF Kill, ProcessDies
  <1>5. ASSUME NEW m \in Maps, TapDownloaded(m) PROVE Backed'
    BY <1>5 DEF TapDownloaded, ListReady
  <1>6. ASSUME NEW m \in Maps, RebindRow(m) PROVE Backed'
    BY <1>6 DEF RebindRow, ListReady
  <1>7. ASSUME NEW m \in Maps, NEW l \in Loaders, TapMissing(m, l) PROVE Backed'
    BY <1>7 DEF TapMissing, ListReady
  <1>8. CASE DismissAlert
    BY <1>8 DEF DismissAlert
  <1>9. CASE WaiterStep
    BY <1>9 DEF WaiterStep, LeaveUnknownLoop, LeaveLoadingLoop, SwitchOnState, WaiterGoes, Outcome
  <1>10. CASE UiStep
    BY <1>10 DEF UiStep, UiLoaded, UiFailed
  <1>11. ASSUME NEW l \in Loaders, LoaderStart(l) PROVE Backed'
    BY <1>11 DEF LoaderStart, At, Goto
  <1>12. ASSUME NEW l \in Loaders, LoaderBadKey(l) PROVE Backed'
    BY <1>12 DEF LoaderBadKey, ProcessDies
  <1>13. ASSUME NEW l \in Loaders, LoaderCheck(l) PROVE Backed'
    BY <1>13 DEF LoaderCheck, At, Goto
  <1>14. ASSUME NEW l \in Loaders, LoaderFound(l) PROVE Backed'
    BY <1>14 DEF LoaderFound, At, SetLoadState, Return, Goto
  <1>15. ASSUME NEW l \in Loaders, LoaderMissing(l) PROVE Backed'
    BY <1>15 DEF LoaderMissing, At, SetLoadState, Goto
  <1>16. ASSUME NEW l \in Loaders, LoaderOpen(l) PROVE Backed'
    BY <1>16 DEF LoaderOpen, At, Goto
  <1>17. ASSUME NEW l \in Loaders, LoaderCopy(l) PROVE Backed'
    BY <1>17 DEF LoaderCopy, At
  <1>18. ASSUME NEW l \in Loaders, LoaderFail(l) PROVE Backed'
    BY <1>18 DEF LoaderFail, SetLoadState, Return, Goto
  <1>19. ASSUME NEW l \in Loaders, LoaderEnd(l) PROVE Backed'
    BY <1>19 DEF LoaderEnd, At, SetLoadState, Return, Goto
  <1>20. CASE StartClear
    BY <1>20 DEF StartClear
  <1>21. CASE ClearList
    BY <1>21 DEF ClearList
  <1>22. CASE ClearDone
    BY <1>22 DEF ClearDone
  <1>23. ASSUME NEW m \in Maps, ClearFile(m) PROVE Backed'
    BY <1>23 DEF ClearFile, At
  <1> QED
    BY <1>0, <1>1, <1>2, <1>3, <1>4, <1>5, <1>6, <1>7, <1>8, <1>9, <1>10, <1>11, <1>12, <1>13, <1>14, <1>15, <1>16, <1>17, <1>18, <1>19, <1>20, <1>21, <1>22, <1>23 DEF Next, LoaderStep

\* Marks are only made in onCreate and by UiLoaded, which Backed covers.
LEMMA CheckedStep ==
  TypeOK /\ Wired /\ Backed /\ CheckedIsOnDisk /\ [Next]_vars => CheckedIsOnDisk'
  <1> SUFFICES ASSUME TypeOK, Wired, Backed, CheckedIsOnDisk, [Next]_vars PROVE CheckedIsOnDisk'
    OBVIOUS
  <1> USE ConstantsAssumption DEF vars, listVars, fieldVars, loaderVars, fileVars, clearVars,
             Unknown, Loaded, Failed, Loading,
             TypeOK, Backed, CheckedIsOnDisk, Wired, LoaderAt, WaiterAt, FreshObjects
  <1>0. CASE UNCHANGED vars
    BY <1>0
  <1>1. CASE OpenActivity
    BY <1>1 DEF OpenActivity, ShowList, ShowBroken, NewInstance
  <1>2. CASE Recreate
    BY <1>2 DEF Recreate, ShowList, ShowBroken, NewInstance
  <1>3. CASE CloseActivity
    BY <1>3 DEF CloseActivity, ListReady, NewInstance
  <1>4. CASE Kill
    BY <1>4 DEF Kill, ProcessDies
  <1>5. ASSUME NEW m \in Maps, TapDownloaded(m) PROVE CheckedIsOnDisk'
    BY <1>5 DEF TapDownloaded, ListReady
  <1>6. ASSUME NEW m \in Maps, RebindRow(m) PROVE CheckedIsOnDisk'
    BY <1>6 DEF RebindRow, ListReady
  <1>7. ASSUME NEW m \in Maps, NEW l \in Loaders, TapMissing(m, l) PROVE CheckedIsOnDisk'
    BY <1>7 DEF TapMissing, ListReady
  <1>8. CASE DismissAlert
    BY <1>8 DEF DismissAlert
  <1>9. CASE WaiterStep
    BY <1>9 DEF WaiterStep, LeaveUnknownLoop, LeaveLoadingLoop, SwitchOnState, WaiterGoes, Outcome
  <1>10. CASE UiStep
    BY <1>10 DEF UiStep, UiLoaded, UiFailed
  <1>11. ASSUME NEW l \in Loaders, LoaderStart(l) PROVE CheckedIsOnDisk'
    BY <1>11 DEF LoaderStart, At, Goto
  <1>12. ASSUME NEW l \in Loaders, LoaderBadKey(l) PROVE CheckedIsOnDisk'
    BY <1>12 DEF LoaderBadKey, ProcessDies
  <1>13. ASSUME NEW l \in Loaders, LoaderCheck(l) PROVE CheckedIsOnDisk'
    BY <1>13 DEF LoaderCheck, At, Goto
  <1>14. ASSUME NEW l \in Loaders, LoaderFound(l) PROVE CheckedIsOnDisk'
    BY <1>14 DEF LoaderFound, At, SetLoadState, Return, Goto
  <1>15. ASSUME NEW l \in Loaders, LoaderMissing(l) PROVE CheckedIsOnDisk'
    BY <1>15 DEF LoaderMissing, At, SetLoadState, Goto
  <1>16. ASSUME NEW l \in Loaders, LoaderOpen(l) PROVE CheckedIsOnDisk'
    BY <1>16 DEF LoaderOpen, At, Goto
  <1>17. ASSUME NEW l \in Loaders, LoaderCopy(l) PROVE CheckedIsOnDisk'
    BY <1>17 DEF LoaderCopy, At
  <1>18. ASSUME NEW l \in Loaders, LoaderFail(l) PROVE CheckedIsOnDisk'
    BY <1>18 DEF LoaderFail, SetLoadState, Return, Goto
  <1>19. ASSUME NEW l \in Loaders, LoaderEnd(l) PROVE CheckedIsOnDisk'
    BY <1>19 DEF LoaderEnd, At, SetLoadState, Return, Goto
  <1>20. CASE StartClear
    BY <1>20 DEF StartClear
  <1>21. CASE ClearList
    BY <1>21 DEF ClearList
  <1>22. CASE ClearDone
    BY <1>22 DEF ClearDone
  <1>23. ASSUME NEW m \in Maps, ClearFile(m) PROVE CheckedIsOnDisk'
    BY <1>23 DEF ClearFile, At
  <1> QED
    BY <1>0, <1>1, <1>2, <1>3, <1>4, <1>5, <1>6, <1>7, <1>8, <1>9, <1>10, <1>11, <1>12, <1>13, <1>14, <1>15, <1>16, <1>17, <1>18, <1>19, <1>20, <1>21, <1>22, <1>23 DEF Next, LoaderStep

\* The tap, its loader and its waiter.  A tap that does not set retried finds
\* a fresh Map object and, the dialog being down, no thread of an earlier tap.
LEMMA HandshakeStep ==
  TypeOK /\ Wired /\ Handshake /\ SoleDownload /\ [Next]_vars => (Handshake /\ SoleDownload)'
  <1> SUFFICES ASSUME TypeOK, Wired, Handshake, SoleDownload, [Next]_vars PROVE (Handshake /\ SoleDownload)'
    OBVIOUS
  <1> USE ConstantsAssumption DEF vars, listVars, fieldVars, loaderVars, fileVars, clearVars,
             Unknown, Loaded, Failed, Loading,
             TypeOK, Handshake, SoleDownload, Wired, LoaderAt, WaiterAt, FreshObjects
  <1>0. CASE UNCHANGED vars
    BY <1>0
  <1>1. CASE OpenActivity
    BY <1>1 DEF OpenActivity, ShowList, ShowBroken, NewInstance
  <1>2. CASE Recreate
    BY <1>2 DEF Recreate, ShowList, ShowBroken, NewInstance
  <1>3. CASE CloseActivity
    BY <1>3 DEF CloseActivity, ListReady, NewInstance
  <1>4. CASE Kill
    BY <1>4 DEF Kill, ProcessDies
  <1>5. ASSUME NEW m \in Maps, TapDownloaded(m) PROVE (Handshake /\ SoleDownload)'
    BY <1>5 DEF TapDownloaded, ListReady
  <1>6. ASSUME NEW m \in Maps, RebindRow(m) PROVE (Handshake /\ SoleDownload)'
    BY <1>6 DEF RebindRow, ListReady
  <1>7. ASSUME NEW m \in Maps, NEW l \in Loaders, TapMissing(m, l) PROVE (Handshake /\ SoleDownload)'
    <2>1. CASE retried'
      BY <2>1, <1>7
    <2>2. CASE ~retried'
      <3>1. ~retried /\ imageLoadState[m] = Unknown /\ ~progress
        BY <2>2, <1>7 DEF TapMissing, ListReady
      <3>2. waiter = "none"
        BY <3>1
      <3>3. attached = {}
        BY <3>1, <3>2
      <3>4. attached' = {l}
        BY <3>3, <1>7 DEF TapMissing
      <3>5. lpc'[l] = "start"
        BY <1>7 DEF TapMissing
      <3> QED
        BY <3>1, <3>4, <3>5, <1>7 DEF TapMissing
    <2> QED
      BY <2>1, <2>2
  <1>8. CASE DismissAlert
    BY <1>8 DEF DismissAlert
  <1>9. CASE WaiterStep
    BY <1>9 DEF WaiterStep, LeaveUnknownLoop, LeaveLoadingLoop, SwitchOnState, WaiterGoes, Outcome
  <1>10. CASE UiStep
    BY <1>10 DEF UiStep, UiLoaded, UiFailed
  <1>11. ASSUME NEW l \in Loaders, LoaderStart(l) PROVE (Handshake /\ SoleDownload)'
    BY <1>11 DEF LoaderStart, At, Goto
  <1>12. ASSUME NEW l \in Loaders, LoaderBadKey(l) PROVE (Handshake /\ SoleDownload)'
    BY <1>12 DEF LoaderBadKey, ProcessDies
  <1>13. ASSUME NEW l \in Loaders, LoaderCheck(l) PROVE (Handshake /\ SoleDownload)'
    BY <1>13 DEF LoaderCheck, At, Goto
  <1>14. ASSUME NEW l \in Loaders, LoaderFound(l) PROVE (Handshake /\ SoleDownload)'
    BY <1>14 DEF LoaderFound, At, SetLoadState, Return, Goto
  <1>15. ASSUME NEW l \in Loaders, LoaderMissing(l) PROVE (Handshake /\ SoleDownload)'
    BY <1>15 DEF LoaderMissing, At, SetLoadState, Goto
  <1>16. ASSUME NEW l \in Loaders, LoaderOpen(l) PROVE (Handshake /\ SoleDownload)'
    BY <1>16 DEF LoaderOpen, At, Goto
  <1>17. ASSUME NEW l \in Loaders, LoaderCopy(l) PROVE (Handshake /\ SoleDownload)'
    BY <1>17 DEF LoaderCopy, At
  <1>18. ASSUME NEW l \in Loaders, LoaderFail(l) PROVE (Handshake /\ SoleDownload)'
    BY <1>18 DEF LoaderFail, SetLoadState, Return, Goto
  <1>19. ASSUME NEW l \in Loaders, LoaderEnd(l) PROVE (Handshake /\ SoleDownload)'
    BY <1>19 DEF LoaderEnd, At, SetLoadState, Return, Goto
  <1>20. CASE StartClear
    BY <1>20 DEF StartClear
  <1>21. CASE ClearList
    BY <1>21 DEF ClearList
  <1>22. CASE ClearDone
    BY <1>22 DEF ClearDone
  <1>23. ASSUME NEW m \in Maps, ClearFile(m) PROVE (Handshake /\ SoleDownload)'
    BY <1>23 DEF ClearFile, At
  <1> QED
    BY <1>0, <1>1, <1>2, <1>3, <1>4, <1>5, <1>6, <1>7, <1>8, <1>9, <1>10, <1>11, <1>12, <1>13, <1>14, <1>15, <1>16, <1>17, <1>18, <1>19, <1>20, <1>21, <1>22, <1>23 DEF Next, LoaderStep

-----------------------------------------------------------------------------
Inv == TypeOK /\ IndInv

LEMMA InitInv == Init => Inv
  BY ConstantsAssumption, Counters
  DEF Init, Inv, IndInv, TypeOK, Wired, Backed, Handshake, SoleDownload, CheckedIsOnDisk,
      LoaderAt, WaiterAt, FreshObjects, AllChunks, Unknown, Loaded, Failed, Loading

LEMMA StepInv == Inv /\ [Next]_vars => Inv'
  BY TypeStep, WiredStep, BackedStep, CheckedStep, HandshakeStep DEF Inv, IndInv

LEMMA InvAlways == SafetySpec => []Inv
  BY InitInv, StepInv, PTL DEF SafetySpec

\* Every variable keeps its type, for every value of the constants.
THEOREM TypeCorrect == SafetySpec => []TypeOK
  <1>1. Inv => TypeOK
    BY DEF Inv
  <1> QED
    BY <1>1, InvAlways, PTL

\* DownloadMapsActivity never shows a check mark for a map that has no file,
\* unless MainMenu.clearCache deleted that file under the list.
THEOREM ChecksAreTrue == SafetySpec => []CheckedIsOnDisk
  <1>1. Inv => CheckedIsOnDisk
    BY DEF Inv, IndInv
  <1> QED
    BY <1>1, InvAlways, PTL

\* One tap, one loader, one waiter, and the waiter reports that loader's
\* result, as long as no Map object is loaded twice.
THEOREM OneDownloadAtATime == SafetySpec => []SoleDownload
  <1>1. Inv => SoleDownload
    BY DEF Inv, IndInv
  <1> QED
    BY <1>1, InvAlways, PTL

\* The strengthened invariant the run checks is indeed invariant.
THEOREM Inductive == SafetySpec => []IndInv
  <1>1. Inv => IndInv
    BY DEF Inv
  <1> QED
    BY <1>1, InvAlways, PTL

\* No tap changes the field a live waiter polls.
LEMMA WatchStep ==
  Inv /\ [Next]_vars =>
    (waiter # "none" /\ waiter' # "none" => currentMap' = currentMap /\ currentView' = currentMap)
  <1> SUFFICES ASSUME Inv, [Next]_vars, waiter # "none", waiter' # "none"
               PROVE  currentMap' = currentMap /\ currentView' = currentMap
    OBVIOUS
  <1> USE DEF vars, listVars, fieldVars, loaderVars, fileVars, clearVars
  <1>a. progress /\ currentView = currentMap
    BY DEF Inv, IndInv, Wired
  <1>0. CASE UNCHANGED vars
    BY <1>0, <1>a
  <1>1. CASE OpenActivity
    BY <1>1, <1>a DEF OpenActivity, NewInstance
  <1>2. CASE Recreate
    BY <1>2, <1>a DEF Recreate, NewInstance
  <1>3. CASE CloseActivity
    BY <1>3, <1>a DEF CloseActivity, ListReady, NewInstance
  <1>4. CASE Kill
    BY <1>4, <1>a DEF Kill, ProcessDies
  <1>5. ASSUME NEW m \in Maps, TapDownloaded(m)
        PROVE  currentMap' = currentMap /\ currentView' = currentMap
    BY <1>5, <1>a DEF TapDownloaded, ListReady
  <1>6. ASSUME NEW m \in Maps, RebindRow(m)
        PROVE  currentMap' = currentMap /\ currentView' = currentMap
    BY <1>6, <1>a DEF RebindRow, ListReady
  <1>7. ASSUME NEW m \in Maps, NEW l \in Loaders, TapMissing(m, l)
        PROVE  currentMap' = currentMap /\ currentView' = currentMap
    BY <1>7, <1>a DEF TapMissing, ListReady
  <1>8. CASE DismissAlert
    BY <1>8, <1>a DEF DismissAlert
  <1>9. CASE WaiterStep
    BY <1>9, <1>a DEF WaiterStep, LeaveUnknownLoop, LeaveLoadingLoop, SwitchOnState, WaiterGoes
  <1>10. CASE UiStep
    BY <1>10, <1>a DEF UiStep, UiLoaded, UiFailed
  <1>11. ASSUME NEW l \in Loaders, LoaderStart(l)
        PROVE  currentMap' = currentMap /\ currentView' = currentMap
    BY <1>11, <1>a DEF LoaderStart
  <1>12. ASSUME NEW l \in Loaders, LoaderBadKey(l)
        PROVE  currentMap' = currentMap /\ currentView' = currentMap
    BY <1>12, <1>a DEF LoaderBadKey, ProcessDies
  <1>13. ASSUME NEW l \in Loaders, LoaderCheck(l)
        PROVE  currentMap' = currentMap /\ currentView' = currentMap
    BY <1>13, <1>a DEF LoaderCheck
  <1>14. ASSUME NEW l \in Loaders, LoaderFound(l)
        PROVE  currentMap' = currentMap /\ currentView' = currentMap
    BY <1>14, <1>a DEF LoaderFound
  <1>15. ASSUME NEW l \in Loaders, LoaderMissing(l)
        PROVE  currentMap' = currentMap /\ currentView' = currentMap
    BY <1>15, <1>a DEF LoaderMissing
  <1>16. ASSUME NEW l \in Loaders, LoaderOpen(l)
        PROVE  currentMap' = currentMap /\ currentView' = currentMap
    BY <1>16, <1>a DEF LoaderOpen
  <1>17. ASSUME NEW l \in Loaders, LoaderCopy(l)
        PROVE  currentMap' = currentMap /\ currentView' = currentMap
    BY <1>17, <1>a DEF LoaderCopy
  <1>18. ASSUME NEW l \in Loaders, LoaderFail(l)
        PROVE  currentMap' = currentMap /\ currentView' = currentMap
    BY <1>18, <1>a DEF LoaderFail
  <1>19. ASSUME NEW l \in Loaders, LoaderEnd(l)
        PROVE  currentMap' = currentMap /\ currentView' = currentMap
    BY <1>19, <1>a DEF LoaderEnd
  <1>20. CASE StartClear
    BY <1>20, <1>a DEF StartClear
  <1>21. CASE ClearList
    BY <1>21, <1>a DEF ClearList
  <1>22. CASE ClearDone
    BY <1>22, <1>a DEF ClearDone
  <1>23. ASSUME NEW m \in Maps, ClearFile(m)
        PROVE  currentMap' = currentMap /\ currentView' = currentMap
    BY <1>23, <1>a DEF ClearFile
  <1> QED
    BY <1>0, <1>1, <1>2, <1>3, <1>4, <1>5, <1>6, <1>7, <1>8, <1>9, <1>10, <1>11, <1>12, <1>13, <1>14, <1>15, <1>16, <1>17, <1>18, <1>19, <1>20, <1>21, <1>22, <1>23 DEF Next, LoaderStep

\* The waiter thread and the runnable it posts speak of the tapped map, though
\* both read it from a field of the activity.
THEOREM WatchIsStable == SafetySpec => WatchStable
  BY InvAlways, WatchStep, PTL DEF SafetySpec, WatchStable

-----------------------------------------------------------------------------
(* Refinement: each step of the threads is a step of the shelf or none. *)

LEMMA ShelfInitially == Init => Shelf!ShelfInit
  BY DEF Init, Shelf!ShelfInit

LEMMA ShelfStep == Inv /\ [Next]_vars => [Shelf!ShelfNext]_(Shelf!shelfVars)
  <1> SUFFICES ASSUME Inv, [Next]_vars PROVE [Shelf!ShelfNext]_(Shelf!shelfVars)
    OBVIOUS
  <1> USE ConstantsAssumption
      DEF vars, listVars, fieldVars, loaderVars, fileVars, clearVars, Inv, IndInv, Shelf!shelfVars
  <1>0. CASE UNCHANGED vars
    BY <1>0
  <1>1. CASE OpenActivity
    BY <1>1 DEF OpenActivity, ShowList, ShowBroken, NewInstance, TypeOK, Wired, Shelf!ShelfNext, Shelf!Show
  <1>2. CASE Recreate
    BY <1>2 DEF Recreate, ShowList, ShowBroken, NewInstance, TypeOK, Wired, Shelf!ShelfNext, Shelf!Show
  <1>3. CASE CloseActivity
    BY <1>3 DEF CloseActivity, ListReady, NewInstance, TypeOK, Wired, Shelf!ShelfNext, Shelf!Show
  <1>4. CASE Kill
    BY <1>4 DEF Kill, ProcessDies, TypeOK, Wired, Shelf!ShelfNext, Shelf!Show
  <1>5. ASSUME NEW m \in Maps, TapDownloaded(m)
        PROVE  [Shelf!ShelfNext]_(Shelf!shelfVars)
    BY <1>5 DEF TapDownloaded, ListReady
  <1>6. ASSUME NEW m \in Maps, RebindRow(m)
        PROVE  [Shelf!ShelfNext]_(Shelf!shelfVars)
    BY <1>6 DEF RebindRow, ListReady, TypeOK, Wired, Shelf!ShelfNext, Shelf!Forget
  <1>7. ASSUME NEW m \in Maps, NEW l \in Loaders, TapMissing(m, l)
        PROVE  [Shelf!ShelfNext]_(Shelf!shelfVars)
    BY <1>7 DEF TapMissing, ListReady, TypeOK, Wired, Shelf!ShelfNext, Shelf!Request
  <1>8. CASE DismissAlert
    BY <1>8 DEF DismissAlert
  <1>9. CASE WaiterStep
    BY <1>9 DEF WaiterStep, LeaveUnknownLoop, LeaveLoadingLoop, SwitchOnState, WaiterGoes
  <1>10. CASE UiStep
    <2>1. CASE UiLoaded
      BY <2>1 DEF UiLoaded, TypeOK, Wired, Backed, Shelf!ShelfNext, Shelf!Fulfil, Shelf!Refuse
    <2>2. CASE UiFailed
      BY <2>2 DEF UiFailed, TypeOK, Wired, Shelf!ShelfNext, Shelf!Refuse
    <2> QED
      BY <1>10, <2>1, <2>2 DEF UiStep
  <1>11. ASSUME NEW l \in Loaders, LoaderStart(l)
        PROVE  [Shelf!ShelfNext]_(Shelf!shelfVars)
    BY <1>11 DEF LoaderStart
  <1>12. ASSUME NEW l \in Loaders, LoaderBadKey(l)
        PROVE  [Shelf!ShelfNext]_(Shelf!shelfVars)
    BY <1>12 DEF LoaderBadKey, ProcessDies, TypeOK, Wired, Shelf!ShelfNext, Shelf!Show
  <1>13. ASSUME NEW l \in Loaders, LoaderCheck(l)
        PROVE  [Shelf!ShelfNext]_(Shelf!shelfVars)
    BY <1>13 DEF LoaderCheck
  <1>14. ASSUME NEW l \in Loaders, LoaderFound(l)
        PROVE  [Shelf!ShelfNext]_(Shelf!shelfVars)
    BY <1>14 DEF LoaderFound
  <1>15. ASSUME NEW l \in Loaders, LoaderMissing(l)
        PROVE  [Shelf!ShelfNext]_(Shelf!shelfVars)
    BY <1>15 DEF LoaderMissing
  <1>16. ASSUME NEW l \in Loaders, LoaderOpen(l)
        PROVE  [Shelf!ShelfNext]_(Shelf!shelfVars)
    BY <1>16 DEF LoaderOpen, At, Goto, TypeOK, Wired, Shelf!ShelfNext, Shelf!Store
  <1>17. ASSUME NEW l \in Loaders, LoaderCopy(l)
        PROVE  [Shelf!ShelfNext]_(Shelf!shelfVars)
    BY <1>17 DEF LoaderCopy
  <1>18. ASSUME NEW l \in Loaders, LoaderFail(l)
        PROVE  [Shelf!ShelfNext]_(Shelf!shelfVars)
    BY <1>18 DEF LoaderFail
  <1>19. ASSUME NEW l \in Loaders, LoaderEnd(l)
        PROVE  [Shelf!ShelfNext]_(Shelf!shelfVars)
    BY <1>19 DEF LoaderEnd
  <1>20. CASE StartClear
    BY <1>20 DEF StartClear
  <1>21. CASE ClearList
    BY <1>21 DEF ClearList
  <1>22. CASE ClearDone
    BY <1>22 DEF ClearDone
  <1>23. ASSUME NEW m \in Maps, ClearFile(m)
        PROVE  [Shelf!ShelfNext]_(Shelf!shelfVars)
    BY <1>23 DEF ClearFile, TypeOK, Wired, Shelf!ShelfNext, Shelf!Lose
  <1> QED
    BY <1>0, <1>1, <1>2, <1>3, <1>4, <1>5, <1>6, <1>7, <1>8, <1>9, <1>10, <1>11, <1>12, <1>13, <1>14, <1>15, <1>16, <1>17, <1>18, <1>19, <1>20, <1>21, <1>22, <1>23 DEF Next, LoaderStep

\* The download screen with its threads keeps the promises of MapShelf.
THEOREM DownloadImplementsShelf == SafetySpec => ImplementsShelf
  BY ShelfInitially, ShelfStep, InvAlways, PTL DEF SafetySpec, ImplementsShelf, Shelf!ShelfSpec

=============================================================================

------------------------ MODULE DatabaseUpdateProofs ------------------------
(***************************************************************************)
(* Proofs, for any number of threads, pages and published databases, of    *)
(* what DatabaseUpdate's safety run checks on two threads.  DialogBacked   *)
(* and LoadStateBacked are inductive together; NeverHalf and Installs rest *)
(* on PrivateTmp, and that on FilesWired.                                  *)
(***************************************************************************)
EXTENDS DatabaseUpdate, TLAPS

LEMMA Counters ==
  /\ 0 \in 0 .. 3 /\ 0 \in 0 .. Pages /\ 1 \in PageNo
  /\ \A n \in 0 .. Pages : n < Pages => n + 1 \in 0 .. Pages /\ n + 1 \in PageNo
  BY ConstantsAssumption DEF PageNo

\* Contents and missing files are told apart.
LEMMA BodiesArePresent == \A c \in Bodies : c # Absent /\ c # Schema
  BY ConstantsAssumption

LEMMA CopyIsBody == \A e \in Entities \cup {Hole} : Copy(e) \in Bodies
  BY DEF Copy, Bodies

\* Typing needs FilesWired: a page is written into a file that is there.
LEMMA TypeStep ==
  TypeOK /\ FilesWired /\ [Next]_vars => TypeOK'
  <1> SUFFICES ASSUME TypeOK, FilesWired, [Next]_vars PROVE TypeOK'
    OBVIOUS
  <1> USE ConstantsAssumption DEF vars, uiVars, threadVars, workVars, fileVars,
             TypeOK, FilesWired, WorkerAt, Entities, Versions, Hole, Junk
  <1>0. CASE UNCHANGED vars
    BY <1>0
  <1>1. CASE Kill
    <2>1. wpc' \in [Workers -> WorkerAt] /\ posts' \subseteq Workers
      BY <1>1 DEF Kill, CheckCrashes
    <2>2. body' \in [Workers -> Entities \cup {Hole}] /\ written' \in [Workers -> 0 .. Pages]
      BY <1>1, Counters DEF Kill, CheckCrashes
    <2>3. fd' \in [Workers -> {"none", "tmp", "db", "lost"}] /\ seen' \in [Workers -> Nat]
      BY <1>1 DEF Kill, CheckCrashes
    <2> QED
      BY <1>1, <2>1, <2>2, <2>3, Counters DEF Kill, CheckCrashes
  <1>2. CASE Pause
    BY <1>2 DEF Pause
  <1>3. CASE Resume
    BY <1>3 DEF Resume
  <1>4. CASE Publish
    BY <1>4 DEF Publish
  <1>5. CASE CorruptedCancel
    BY <1>5 DEF CorruptedCancel
  <1>6. CASE OpenMap
    BY <1>6 DEF OpenMap, Ready, GetAllMaps, ExistsOrCreate, GetReadable
  <1>7. CASE ListMaps
    BY <1>7 DEF ListMaps, GetAllMaps, ExistsOrCreate, GetReadable
  <1>8. ASSUME NEW w \in Workers, Launch(w) PROVE TypeOK'
    BY <1>8 DEF Launch, Idle, Goto
  <1>9. ASSUME NEW w \in Workers, UserStep(w) PROVE TypeOK'
    BY <1>9 DEF UserStep, NewDatabase, ClearCache, CorruptedOk, ShowAndStart, Idle, Goto
  <1>10. ASSUME NEW w \in Workers, Begin(w) PROVE TypeOK'
    BY <1>10 DEF Begin, Goto
  <1>11. ASSUME NEW w \in Workers, Fetch(w) PROVE TypeOK'
    BY <1>11 DEF Fetch, Goto
  <1>12. ASSUME NEW w \in Workers, Setup(w) PROVE TypeOK'
    BY <1>12 DEF Setup, ExistsOrCreate, GetReadable, Goto
  <1>13. ASSUME NEW w \in Workers, Open(w) PROVE TypeOK'
    <2>1. tmp' \in Bodies /\ tmpTime' \in Nat
      BY <1>13, CopyIsBody DEF Open, Empty
    <2> QED
      BY <1>13, <2>1 DEF Open, Goto
  <1>14. ASSUME NEW w \in Workers, WritePage(w) PROVE TypeOK'
    <2>1. written' \in [Workers -> 0 .. Pages] /\ written[w] + 1 \in PageNo
      BY <1>14, Counters DEF WritePage
    <2>2. body[w] \in Entities \cup {Hole}
      OBVIOUS
    <2>3. tmp' \in Bodies \cup {Absent} /\ tmpTime' \in Nat
      BY <1>14, <2>1, <2>2 DEF WritePage, Bodies
    <2>4. db' \in Bodies \cup {Absent, Schema} /\ dbTime' \in Nat
      BY <1>14, <2>1, <2>2 DEF WritePage, Bodies
    <2> QED
      BY <1>14, <2>1, <2>3, <2>4 DEF WritePage
  <1>15. ASSUME NEW w \in Workers, Close(w) PROVE TypeOK'
    BY <1>15 DEF Close, Goto
  <1>16. ASSUME NEW w \in Workers, DownloadFails(w) PROVE TypeOK'
    BY <1>16 DEF DownloadFails, Goto
  <1>17. ASSUME NEW w \in Workers, DeleteOld(w) PROVE TypeOK'
    BY <1>17 DEF DeleteOld, RemoveDatabase, Unlink, Goto
  <1>18. ASSUME NEW w \in Workers, RenameNew(w) PROVE TypeOK'
    BY <1>18 DEF RenameNew, Renamed, Goto
  <1>19. ASSUME NEW w \in Workers, Done(w) PROVE TypeOK'
    BY <1>19 DEF Done, Goto
  <1>20. ASSUME NEW w \in Workers, (LeaveUnknownLoop(w) \/ LeaveLoadingLoop(w)) PROVE TypeOK'
    BY <1>20 DEF LeaveUnknownLoop, LeaveLoadingLoop, WorkerGoes, Goto
  <1>21. ASSUME NEW w \in Workers, SwitchOnState(w) PROVE TypeOK'
    BY <1>21 DEF SwitchOnState, WorkerGoes, Goto
  <1>22. ASSUME NEW w \in Workers, CheckHeaders(w) PROVE TypeOK'
    <2>1. wpc' \in [Workers -> WorkerAt]
      BY <1>22 DEF CheckHeaders, Goto
    <2>2. seen' \in [Workers -> Nat]
      BY <1>22 DEF CheckHeaders
    <2> QED
      BY <1>22, <2>1, <2>2 DEF CheckHeaders
  <1>23. ASSUME NEW w \in Workers, CheckCrashes(w) PROVE TypeOK'
    <2>1. wpc' \in [Workers -> WorkerAt] /\ posts' \subseteq Workers
      BY <1>23 DEF Kill, CheckCrashes
    <2>2. body' \in [Workers -> Entities \cup {Hole}] /\ written' \in [Workers -> 0 .. Pages]
      BY <1>23, Counters DEF Kill, CheckCrashes
    <2>3. fd' \in [Workers -> {"none", "tmp", "db", "lost"}] /\ seen' \in [Workers -> Nat]
      BY <1>23 DEF Kill, CheckCrashes
    <2> QED
      BY <1>23, <2>1, <2>2, <2>3, Counters DEF Kill, CheckCrashes
  <1>24. ASSUME NEW w \in Workers, Compare(w) PROVE TypeOK'
    BY <1>24 DEF Compare, Goto
  <1>25. ASSUME NEW w \in Workers, ClearDatabase(w) PROVE TypeOK'
    BY <1>25 DEF ClearDatabase, RemoveDatabase, Unlink, Goto
  <1>26. ASSUME NEW w \in Workers, ClearSpawns(w) PROVE TypeOK'
    BY <1>26 DEF ClearSpawns, Goto
  <1>27. ASSUME NEW w \in Workers, UiStep(w) PROVE TypeOK'
    BY <1>27 DEF UiStep, UiDismiss, UiNewDatabase, UiCleared, Goto
  <1> QED
    BY <1>0, <1>1, <1>2, <1>3, <1>4, <1>5, <1>6, <1>7, <1>8, <1>9, <1>10, <1>11, <1>12, <1>13,
       <1>14, <1>15, <1>16, <1>17, <1>18, <1>19, <1>20, <1>21, <1>22, <1>23, <1>24, <1>25, <1>26, <1>27
    DEF Next, DownloadStep, CheckStep, ClearStep

\* Only the thread in its copy loop has a file open.
LEMMA FilesStep ==
  TypeOK /\ FilesWired /\ [Next]_vars => FilesWired'
  <1> SUFFICES ASSUME TypeOK, FilesWired, [Next]_vars PROVE FilesWired'
    OBVIOUS
  <1> USE ConstantsAssumption DEF vars, uiVars, threadVars, workVars, fileVars,
             TypeOK, FilesWired, WorkerAt, Entities, Versions, Hole, Junk, Installing
  <1>0. CASE UNCHANGED vars
    BY <1>0
  <1>1. CASE Kill
    BY <1>1 DEF Kill
  <1>2. CASE Pause
    BY <1>2 DEF Pause
  <1>3. CASE Resume
    BY <1>3 DEF Resume
  <1>4. CASE Publish
    BY <1>4 DEF Publish
  <1>5. CASE CorruptedCancel
    BY <1>5 DEF CorruptedCancel
  <1>6. CASE OpenMap
    BY <1>6 DEF OpenMap, Ready, GetAllMaps, ExistsOrCreate, GetReadable
  <1>7. CASE ListMaps
    BY <1>7 DEF ListMaps, GetAllMaps, ExistsOrCreate, GetReadable
  <1>8. ASSUME NEW w \in Workers, Launch(w) PROVE FilesWired'
    BY <1>8 DEF Launch, Idle, Goto
  <1>9. ASSUME NEW w \in Workers, UserStep(w) PROVE FilesWired'
    BY <1>9 DEF UserStep, NewDatabase, ClearCache, CorruptedOk, ShowAndStart, Idle, Goto
  <1>10. ASSUME NEW w \in Workers, Begin(w) PROVE FilesWired'
    BY <1>10 DEF Begin, Goto
  <1>11. ASSUME NEW w \in Workers, Fetch(w) PROVE FilesWired'
    BY <1>11 DEF Fetch, Goto
  <1>12. ASSUME NEW w \in Workers, Setup(w) PROVE FilesWired'
    BY <1>12 DEF Setup, ExistsOrCreate, GetReadable, Goto
  <1>13. ASSUME NEW w \in Workers, Open(w) PROVE FilesWired'
    <2>1. tmp' # Absent
      BY <1>13, CopyIsBody, BodiesArePresent DEF Open, Empty
    <2> QED
      BY <1>13, <2>1 DEF Open, Goto
  <1>14. ASSUME NEW w \in Workers, WritePage(w) PROVE FilesWired'
    <2>1. written[w] + 1 \in PageNo /\ body[w] \in Entities \cup {Hole}
      BY <1>14, Counters DEF WritePage
    <2>2. fd[w] = "tmp" => tmp' \in Bodies
      BY <1>14, <2>1 DEF WritePage, Bodies
    <2>3. fd[w] = "db" => db' \in Bodies
      BY <1>14, <2>1 DEF WritePage, Bodies
    <2>4. tmp # Absent => tmp' # Absent
      BY <1>14, <2>2, BodiesArePresent DEF WritePage
    <2>5. db \in Bodies => db' \in Bodies
      BY <1>14, <2>3 DEF WritePage
    <2> QED
      BY <1>14, <2>4, <2>5 DEF WritePage
  <1>15. ASSUME NEW w \in Workers, Close(w) PROVE FilesWired'
    BY <1>15 DEF Close, Goto
  <1>16. ASSUME NEW w \in Workers, DownloadFails(w) PROVE FilesWired'
    BY <1>16 DEF DownloadFails, Goto
  <1>17. ASSUME NEW w \in Workers, DeleteOld(w) PROVE FilesWired'
    BY <1>17 DEF DeleteOld, RemoveDatabase, Unlink, Goto
  <1>18. ASSUME NEW w \in Workers, RenameNew(w) PROVE FilesWired'
    BY <1>18 DEF RenameNew, Renamed, Goto
  <1>19. ASSUME NEW w \in Workers, Done(w) PROVE FilesWired'
    BY <1>19 DEF Done, Goto
  <1>20. ASSUME NEW w \in Workers, (LeaveUnknownLoop(w) \/ LeaveLoadingLoop(w)) PROVE FilesWired'
    BY <1>20 DEF LeaveUnknownLoop, LeaveLoadingLoop, WorkerGoes, Goto
  <1>21. ASSUME NEW w \in Workers, SwitchOnState(w) PROVE FilesWired'
    BY <1>21 DEF SwitchOnState, WorkerGoes, Goto
  <1>22. ASSUME NEW w \in Workers, CheckHeaders(w) PROVE FilesWired'
    BY <1>22 DEF CheckHeaders, Goto
  <1>23. ASSUME NEW w \in Workers, CheckCrashes(w) PROVE FilesWired'
    BY <1>23 DEF CheckCrashes, Kill
  <1>24. ASSUME NEW w \in Workers, Compare(w) PROVE FilesWired'
    BY <1>24 DEF Compare, Goto
  <1>25. ASSUME NEW w \in Workers, ClearDatabase(w) PROVE FilesWired'
    BY <1>25 DEF ClearDatabase, RemoveDatabase, Unlink, Goto
  <1>26. ASSUME NEW w \in Workers, ClearSpawns(w) PROVE FilesWired'
    BY <1>26 DEF ClearSpawns, Goto
  <1>27. ASSUME NEW w \in Workers, UiStep(w) PROVE FilesWired'
    BY <1>27 DEF UiStep, UiDismiss, UiNewDatabase, UiCleared, Goto
  <1> QED
    BY <1>0, <1>1, <1>2, <1>3, <1>4, <1>5, <1>6, <1>7, <1>8, <1>9, <1>10, <1>11, <1>12, <1>13,
       <1>14, <1>15, <1>16, <1>17, <1>18, <1>19, <1>20, <1>21, <1>22, <1>23, <1>24, <1>25, <1>26, <1>27
    DEF Next, DownloadStep, CheckStep, ClearStep

\* A waiter that gives up has read 3: another thread is still downloading.
LEMMA DialogStep ==
  TypeOK /\ DialogBacked /\ LoadStateBacked /\ [Next]_vars => (DialogBacked /\ LoadStateBacked)'
  <1> SUFFICES ASSUME TypeOK, DialogBacked, LoadStateBacked, [Next]_vars PROVE (DialogBacked /\ LoadStateBacked)'
    OBVIOUS
  <1> USE ConstantsAssumption DEF vars, uiVars, threadVars, workVars, fileVars,
             TypeOK, DialogBacked, LoadStateBacked, WorkerAt, Downloading
  <1>0. CASE UNCHANGED vars
    BY <1>0
  <1>1. CASE Kill
    BY <1>1 DEF Kill
  <1>2. CASE Pause
    BY <1>2 DEF Pause
  <1>3. CASE Resume
    BY <1>3 DEF Resume
  <1>4. CASE Publish
    BY <1>4 DEF Publish
  <1>5. CASE CorruptedCancel
    BY <1>5 DEF CorruptedCancel
  <1>6. CASE OpenMap
    BY <1>6 DEF OpenMap, Ready, GetAllMaps, ExistsOrCreate, GetReadable
  <1>7. CASE ListMaps
    BY <1>7 DEF ListMaps, GetAllMaps, ExistsOrCreate, GetReadable
  <1>8. ASSUME NEW w \in Workers, Launch(w) PROVE (DialogBacked /\ LoadStateBacked)'
    BY <1>8 DEF Launch, Idle, Goto
  <1>9. ASSUME NEW w \in Workers, UserStep(w) PROVE (DialogBacked /\ LoadStateBacked)'
    BY <1>9 DEF UserStep, NewDatabase, ClearCache, CorruptedOk, ShowAndStart, Idle, Goto
  <1>10. ASSUME NEW w \in Workers, Begin(w) PROVE (DialogBacked /\ LoadStateBacked)'
    BY <1>10 DEF Begin, Goto
  <1>11. ASSUME NEW w \in Workers, Fetch(w) PROVE (DialogBacked /\ LoadStateBacked)'
    BY <1>11 DEF Fetch, Goto
  <1>12. ASSUME NEW w \in Workers, Setup(w) PROVE (DialogBacked /\ LoadStateBacked)'
    BY <1>12 DEF Setup, ExistsOrCreate, GetReadable, Goto
  <1>13. ASSUME NEW w \in Workers, Open(w) PROVE (DialogBacked /\ LoadStateBacked)'
    BY <1>13 DEF Open, Goto
  <1>14. ASSUME NEW w \in Workers, WritePage(w) PROVE (DialogBacked /\ LoadStateBacked)'
    BY <1>14 DEF WritePage
  <1>15. ASSUME NEW w \in Workers, Close(w) PROVE (DialogBacked /\ LoadStateBacked)'
    BY <1>15 DEF Close, Goto
  <1>16. ASSUME NEW w \in Workers, DownloadFails(w) PROVE (DialogBacked /\ LoadStateBacked)'
    BY <1>16 DEF DownloadFails, Goto
  <1>17. ASSUME NEW w \in Workers, DeleteOld(w) PROVE (DialogBacked /\ LoadStateBacked)'
    BY <1>17 DEF DeleteOld, RemoveDatabase, Unlink, Goto
  <1>18. ASSUME NEW w \in Workers, RenameNew(w) PROVE (DialogBacked /\ LoadStateBacked)'
    BY <1>18 DEF RenameNew, Renamed, Goto
  <1>19. ASSUME NEW w \in Workers, Done(w) PROVE (DialogBacked /\ LoadStateBacked)'
    BY <1>19 DEF Done, Goto
  <1>20. ASSUME NEW w \in Workers, (LeaveUnknownLoop(w) \/ LeaveLoadingLoop(w)) PROVE (DialogBacked /\ LoadStateBacked)'
    BY <1>20 DEF LeaveUnknownLoop, LeaveLoadingLoop, WorkerGoes, Goto
  <1>21. ASSUME NEW w \in Workers, SwitchOnState(w) PROVE (DialogBacked /\ LoadStateBacked)'
    BY <1>21 DEF SwitchOnState, WorkerGoes, Goto
  <1>22. ASSUME NEW w \in Workers, CheckHeaders(w) PROVE (DialogBacked /\ LoadStateBacked)'
    BY <1>22 DEF CheckHeaders, Goto
  <1>23. ASSUME NEW w \in Workers, CheckCrashes(w) PROVE (DialogBacked /\ LoadStateBacked)'
    BY <1>23 DEF CheckCrashes, Kill
  <1>24. ASSUME NEW w \in Workers, Compare(w) PROVE (DialogBacked /\ LoadStateBacked)'
    BY <1>24 DEF Compare, Goto
  <1>25. ASSUME NEW w \in Workers, ClearDatabase(w) PROVE (DialogBacked /\ LoadStateBacked)'
    BY <1>25 DEF ClearDatabase, RemoveDatabase, Unlink, Goto
  <1>26. ASSUME NEW w \in Workers, ClearSpawns(w) PROVE (DialogBacked /\ LoadStateBacked)'
    BY <1>26 DEF ClearSpawns, Goto
  <1>27. ASSUME NEW w \in Workers, UiStep(w) PROVE (DialogBacked /\ LoadStateBacked)'
    BY <1>27 DEF UiStep, UiDismiss, UiNewDatabase, UiCleared, Goto
  <1> QED
    BY <1>0, <1>1, <1>2, <1>3, <1>4, <1>5, <1>6, <1>7, <1>8, <1>9, <1>10, <1>11, <1>12, <1>13,
       <1>14, <1>15, <1>16, <1>17, <1>18, <1>19, <1>20, <1>21, <1>22, <1>23, <1>24, <1>25, <1>26, <1>27
    DEF Next, DownloadStep, CheckStep, ClearStep

\* Steps that leave the downloads' files, and the threads that are
\* installing, as they are.
LEMMA TmpFrame ==
  ASSUME TypeOK, PrivateTmp, UNCHANGED <<tmp, fd, written, body, overlapped>>,
         \A v \in Workers : wpc'[v] \in Installing => wpc'[v] = wpc[v]
  PROVE  PrivateTmp'
  BY DEF TypeOK, PrivateTmp, Installing

\* The .tmp file stays its download's: opening it second sets overlapped.
LEMMA TmpStep ==
  TypeOK /\ FilesWired /\ PrivateTmp /\ [Next]_vars => PrivateTmp'
  <1> SUFFICES ASSUME TypeOK, FilesWired, PrivateTmp, [Next]_vars PROVE PrivateTmp'
    OBVIOUS
  <1> USE ConstantsAssumption DEF vars, uiVars, threadVars, workVars, fileVars,
             TypeOK, FilesWired, PrivateTmp, WorkerAt, Installing
  <1>0. CASE UNCHANGED vars
    BY <1>0
  <1>1. CASE Kill
    BY <1>1 DEF Kill
  <1>2. CASE Pause
    BY <1>2 DEF Pause
  <1>3. CASE Resume
    BY <1>3 DEF Resume
  <1>4. CASE Publish
    BY <1>4 DEF Publish
  <1>5. CASE CorruptedCancel
    BY <1>5 DEF CorruptedCancel
  <1>6. CASE OpenMap
    <2>1. UNCHANGED <<tmp, fd, written, body, overlapped>>
      BY <1>6 DEF OpenMap, Ready, GetAllMaps, ExistsOrCreate, GetReadable
    <2>2. \A v \in Workers : wpc'[v] \in Installing => wpc'[v] = wpc[v]
      BY <1>6 DEF OpenMap, Ready, GetAllMaps, ExistsOrCreate, GetReadable
    <2> QED
      BY <2>1, <2>2, TmpFrame
  <1>7. CASE ListMaps
    <2>1. UNCHANGED <<tmp, fd, written, body, overlapped>>
      BY <1>7 DEF ListMaps, GetAllMaps, ExistsOrCreate, GetReadable
    <2>2. \A v \in Workers : wpc'[v] \in Installing => wpc'[v] = wpc[v]
      BY <1>7 DEF ListMaps, GetAllMaps, ExistsOrCreate, GetReadable
    <2> QED
      BY <2>1, <2>2, TmpFrame
  <1>8. ASSUME NEW w \in Workers, Launch(w) PROVE PrivateTmp'
    BY <1>8 DEF Launch, Idle, Goto
  <1>9. ASSUME NEW w \in Workers, UserStep(w) PROVE PrivateTmp'
    BY <1>9 DEF UserStep, NewDatabase, ClearCache, CorruptedOk, ShowAndStart, Idle, Goto
  <1>10. ASSUME NEW w \in Workers, Begin(w) PROVE PrivateTmp'
    BY <1>10 DEF Begin, Goto
  <1>11. ASSUME NEW w \in Workers, Fetch(w) PROVE PrivateTmp'
    BY <1>11 DEF Fetch, Goto
  <1>12. ASSUME NEW w \in Workers, Setup(w) PROVE PrivateTmp'
    BY <1>12 DEF Setup, ExistsOrCreate, GetReadable, Goto
  <1>13. ASSUME NEW w \in Workers, Open(w) PROVE PrivateTmp'
    <2> SUFFICES ASSUME ~overlapped' PROVE PrivateTmp'
      BY DEF PrivateTmp
    <2>1. ~overlapped /\ \A v \in Workers : wpc[v] \notin Installing
      BY <1>13 DEF Open
    <2>2. \A v \in Workers : wpc'[v] \in Installing => v = w
      BY <1>13, <2>1 DEF Open, Goto
    <2>3. wpc'[w] = "write" /\ fd'[w] = "tmp" /\ written'[w] = 0
      BY <1>13 DEF Open, Goto, FilesWired
    <2>4. \A n \in PageNo : ~(n <= written'[w])
      BY <2>3 DEF PageNo
    <2> QED
      BY <2>2, <2>3, <2>4
  <1>14. ASSUME NEW w \in Workers, WritePage(w) PROVE PrivateTmp'
    <2> SUFFICES ASSUME ~overlapped' PROVE PrivateTmp'
      BY DEF PrivateTmp
    <2>1. ~overlapped /\ wpc' = wpc /\ fd' = fd /\ body' = body /\ wpc[w] = "write"
      BY <1>14 DEF WritePage
    <2>2. \A v \in Workers : wpc[v] \in Installing => v = w
      BY <2>1
    <2>3. fd[w] = "tmp" /\ tmp \in Bodies
      BY <2>1, FilesWired DEF FilesWired
    <2>4. written'[w] = written[w] + 1 /\ tmp' = [tmp EXCEPT ![written[w] + 1] = body[w]]
      BY <1>14, <2>3 DEF WritePage
    <2>5. written[w] \in Nat
      OBVIOUS
    <2>6. ASSUME NEW n \in PageNo, n <= written'[w] PROVE tmp'[n] = body'[w]
      <3>1. CASE n = written[w] + 1
        BY <3>1, <2>1, <2>3, <2>4 DEF Bodies
      <3>2. CASE n <= written[w]
        BY <3>2, <2>1, <2>3, <2>4, <2>5 DEF Bodies
      <3> QED
        BY <3>1, <3>2, <2>4, <2>5, <2>6 DEF PageNo
    <2> QED
      BY <2>1, <2>2, <2>3, <2>6
  <1>15. ASSUME NEW w \in Workers, Close(w) PROVE PrivateTmp'
    <2> SUFFICES ASSUME ~overlapped' PROVE PrivateTmp'
      BY DEF PrivateTmp
    <2>1. ~overlapped /\ wpc[w] = "write" /\ written[w] = Pages /\ wpc'[w] = "delete"
      BY <1>15 DEF Close, Goto
    <2>2. \A v \in Workers : wpc'[v] \in Installing => v = w
      BY <1>15, <2>1 DEF Close, Goto
    <2>3. tmp \in Bodies /\ \A n \in PageNo : tmp[n] = body[w]
      BY <2>1 DEF FilesWired, PageNo
    <2>4. tmp' = Copy(body'[w])
      BY <1>15, <2>3 DEF Close, Copy, Bodies
    <2> QED
      BY <2>1, <2>2, <2>4
  <1>16. ASSUME NEW w \in Workers, DownloadFails(w) PROVE PrivateTmp'
    BY <1>16 DEF DownloadFails, Goto
  <1>17. ASSUME NEW w \in Workers, DeleteOld(w) PROVE PrivateTmp'
    BY <1>17 DEF DeleteOld, RemoveDatabase, Unlink, Goto
  <1>18. ASSUME NEW w \in Workers, RenameNew(w) PROVE PrivateTmp'
    BY <1>18 DEF RenameNew, Renamed, Goto
  <1>19. ASSUME NEW w \in Workers, Done(w) PROVE PrivateTmp'
    BY <1>19 DEF Done, Goto
  <1>20. ASSUME NEW w \in Workers, (LeaveUnknownLoop(w) \/ LeaveLoadingLoop(w)) PROVE PrivateTmp'
    BY <1>20 DEF LeaveUnknownLoop, LeaveLoadingLoop, WorkerGoes, Goto
  <1>21. ASSUME NEW w \in Workers, SwitchOnState(w) PROVE PrivateTmp'
    BY <1>21 DEF SwitchOnState, WorkerGoes, Goto
  <1>22. ASSUME NEW w \in Workers, CheckHeaders(w) PROVE PrivateTmp'
    <2>1. UNCHANGED <<tmp, fd, written, body, overlapped>>
      BY <1>22 DEF CheckHeaders, Goto
    <2>2. \A v \in Workers : wpc'[v] \in Installing => wpc'[v] = wpc[v]
      BY <1>22 DEF CheckHeaders, Goto
    <2> QED
      BY <2>1, <2>2, TmpFrame
  <1>23. ASSUME NEW w \in Workers, CheckCrashes(w) PROVE PrivateTmp'
    BY <1>23 DEF CheckCrashes, Kill
  <1>24. ASSUME NEW w \in Workers, Compare(w) PROVE PrivateTmp'
    BY <1>24 DEF Compare, Goto
  <1>25. ASSUME NEW w \in Workers, ClearDatabase(w) PROVE PrivateTmp'
    BY <1>25 DEF ClearDatabase, RemoveDatabase, Unlink, Goto
  <1>26. ASSUME NEW w \in Workers, ClearSpawns(w) PROVE PrivateTmp'
    BY <1>26 DEF ClearSpawns, Goto
  <1>27. ASSUME NEW w \in Workers, UiStep(w) PROVE PrivateTmp'
    <2>1. UNCHANGED <<tmp, fd, written, body, overlapped>>
      BY <1>27 DEF UiStep, UiDismiss, UiNewDatabase, UiCleared, Goto
    <2>2. \A v \in Workers : wpc'[v] \in Installing => wpc'[v] = wpc[v]
      BY <1>27 DEF UiStep, UiDismiss, UiNewDatabase, UiCleared, Goto
    <2> QED
      BY <2>1, <2>2, TmpFrame
  <1> QED
    BY <1>0, <1>1, <1>2, <1>3, <1>4, <1>5, <1>6, <1>7, <1>8, <1>9, <1>10, <1>11, <1>12, <1>13,
       <1>14, <1>15, <1>16, <1>17, <1>18, <1>19, <1>20, <1>21, <1>22, <1>23, <1>24, <1>25, <1>26, <1>27
    DEF Next, DownloadStep, CheckStep, ClearStep

\* Only a rename gives the name maps.sqlite to pages, and it gives all.
LEMMA HalfStep ==
  TypeOK /\ FilesWired /\ PrivateTmp /\ NeverHalf /\ [Next]_vars => NeverHalf'
  <1> SUFFICES ASSUME TypeOK, FilesWired, PrivateTmp, NeverHalf, [Next]_vars PROVE NeverHalf'
    OBVIOUS
  <1> USE ConstantsAssumption DEF vars, uiVars, threadVars, workVars, fileVars,
             TypeOK, FilesWired, PrivateTmp, NeverHalf, Whole, Uniform, WorkerAt, Installing
  <1>0. CASE UNCHANGED vars
    BY <1>0
  <1>1. CASE Kill
    BY <1>1 DEF Kill
  <1>2. CASE Pause
    BY <1>2 DEF Pause
  <1>3. CASE Resume
    BY <1>3 DEF Resume
  <1>4. CASE Publish
    BY <1>4 DEF Publish
  <1>5. CASE CorruptedCancel
    BY <1>5 DEF CorruptedCancel
  <1>6. CASE OpenMap
    BY <1>6 DEF OpenMap, Ready, GetAllMaps, ExistsOrCreate, GetReadable
  <1>7. CASE ListMaps
    BY <1>7 DEF ListMaps, GetAllMaps, ExistsOrCreate, GetReadable
  <1>8. ASSUME NEW w \in Workers, Launch(w) PROVE NeverHalf'
    BY <1>8 DEF Launch, Idle, Goto
  <1>9. ASSUME NEW w \in Workers, UserStep(w) PROVE NeverHalf'
    BY <1>9 DEF UserStep, NewDatabase, ClearCache, CorruptedOk, ShowAndStart, Idle, Goto
  <1>10. ASSUME NEW w \in Workers, Begin(w) PROVE NeverHalf'
    BY <1>10 DEF Begin, Goto
  <1>11. ASSUME NEW w \in Workers, Fetch(w) PROVE NeverHalf'
    BY <1>11 DEF Fetch, Goto
  <1>12. ASSUME NEW w \in Workers, Setup(w) PROVE NeverHalf'
    BY <1>12 DEF Setup, ExistsOrCreate, GetReadable, Goto
  <1>13. ASSUME NEW w \in Workers, Open(w) PROVE NeverHalf'
    BY <1>13 DEF Open, Goto
  <1>14. ASSUME NEW w \in Workers, WritePage(w) PROVE NeverHalf'
    BY <1>14 DEF WritePage
  <1>15. ASSUME NEW w \in Workers, Close(w) PROVE NeverHalf'
    BY <1>15 DEF Close, Goto
  <1>16. ASSUME NEW w \in Workers, DownloadFails(w) PROVE NeverHalf'
    BY <1>16 DEF DownloadFails, Goto
  <1>17. ASSUME NEW w \in Workers, DeleteOld(w) PROVE NeverHalf'
    BY <1>17 DEF DeleteOld, RemoveDatabase, Unlink, Goto
  <1>18. ASSUME NEW w \in Workers, RenameNew(w) PROVE NeverHalf'
    <2> SUFFICES ASSUME ~overlapped' PROVE Whole(db')
      BY DEF NeverHalf
    <2>1. ~overlapped /\ wpc[w] = "rename"
      BY <1>18 DEF RenameNew
    <2>2. tmp = Copy(body[w]) /\ body[w] \in Entities
      BY <2>1
    <2>3. tmp \in Bodies /\ db' = tmp
      BY <1>18, <2>2, CopyIsBody, BodiesArePresent DEF RenameNew
    <2>4. \A n \in PageNo : db'[n] = body[w]
      BY <2>2, <2>3 DEF Copy
    <2>5. body[w] # Hole
      BY <2>2 DEF Entities, Versions, Hole, Junk
    <2> QED
      BY <2>4, <2>5, Counters DEF Whole, Uniform
  <1>19. ASSUME NEW w \in Workers, Done(w) PROVE NeverHalf'
    BY <1>19 DEF Done, Goto
  <1>20. ASSUME NEW w \in Workers, (LeaveUnknownLoop(w) \/ LeaveLoadingLoop(w)) PROVE NeverHalf'
    BY <1>20 DEF LeaveUnknownLoop, LeaveLoadingLoop, WorkerGoes, Goto
  <1>21. ASSUME NEW w \in Workers, SwitchOnState(w) PROVE NeverHalf'
    BY <1>21 DEF SwitchOnState, WorkerGoes, Goto
  <1>22. ASSUME NEW w \in Workers, CheckHeaders(w) PROVE NeverHalf'
    BY <1>22 DEF CheckHeaders, Goto
  <1>23. ASSUME NEW w \in Workers, CheckCrashes(w) PROVE NeverHalf'
    BY <1>23 DEF CheckCrashes, Kill
  <1>24. ASSUME NEW w \in Workers, Compare(w) PROVE NeverHalf'
    BY <1>24 DEF Compare, Goto
  <1>25. ASSUME NEW w \in Workers, ClearDatabase(w) PROVE NeverHalf'
    BY <1>25 DEF ClearDatabase, RemoveDatabase, Unlink, Goto
  <1>26. ASSUME NEW w \in Workers, ClearSpawns(w) PROVE NeverHalf'
    BY <1>26 DEF ClearSpawns, Goto
  <1>27. ASSUME NEW w \in Workers, UiStep(w) PROVE NeverHalf'
    BY <1>27 DEF UiStep, UiDismiss, UiNewDatabase, UiCleared, Goto
  <1> QED
    BY <1>0, <1>1, <1>2, <1>3, <1>4, <1>5, <1>6, <1>7, <1>8, <1>9, <1>10, <1>11, <1>12, <1>13,
       <1>14, <1>15, <1>16, <1>17, <1>18, <1>19, <1>20, <1>21, <1>22, <1>23, <1>24, <1>25, <1>26, <1>27
    DEF Next, DownloadStep, CheckStep, ClearStep

-----------------------------------------------------------------------------
Inv == TypeOK /\ IndInv

LEMMA InitInv == Init => Inv
  <1> SUFFICES ASSUME Init PROVE Inv
    OBVIOUS
  <1> USE ConstantsAssumption, Counters DEF Init
  <1>1. TypeOK
    <2>1. body \in [Workers -> Entities \cup {Hole}] /\ written \in [Workers -> 0 .. Pages]
      OBVIOUS
    <2>2. seen \in [Workers -> Nat] /\ fd \in [Workers -> {"none", "tmp", "db", "lost"}]
      OBVIOUS
    <2>3. remote \in Versions /\ dbTime \in Nat /\ tmpTime \in Nat
      BY DEF Versions
    <2>4. wpc \in [Workers -> WorkerAt] /\ posts \subseteq Workers
      BY DEF WorkerAt
    <2> QED
      BY <2>1, <2>2, <2>3, <2>4 DEF TypeOK
  <1>2. DialogBacked /\ LoadStateBacked
    BY DEF DialogBacked, LoadStateBacked, Downloading
  <1>3. NeverHalf /\ FilesWired /\ PrivateTmp
    BY DEF NeverHalf, Whole, FilesWired, PrivateTmp, Installing
  <1> QED
    BY <1>1, <1>2, <1>3 DEF Inv, IndInv

LEMMA StepInv == Inv /\ [Next]_vars => Inv'
  BY TypeStep, FilesStep, DialogStep, TmpStep, HalfStep DEF Inv, IndInv

LEMMA InvAlways == SafetySpec => []Inv
  BY InitInv, StepInv, PTL DEF SafetySpec

\* Every variable keeps its type, for every value of the constants.
THEOREM TypeCorrect == SafetySpec => []TypeOK
  <1>1. Inv => TypeOK
    BY DEF Inv
  <1> QED
    BY <1>1, InvAlways, PTL

\* However many checks, downloads and clears run at once, a dialog that shows
\* has a thread or a runnable left to take it down.
THEOREM NoDialogIsForgotten == SafetySpec => []DialogBacked
  <1>1. Inv => DialogBacked
    BY DEF Inv, IndInv
  <1> QED
    BY <1>1, InvAlways, PTL

\* dbLoadState says "downloading" only while some thread is.
THEOREM LoadStateIsTrue == SafetySpec => []LoadStateBacked
  <1>1. Inv => LoadStateBacked
    BY DEF Inv, IndInv
  <1> QED
    BY <1>1, InvAlways, PTL

\* A crash at any moment leaves no half-written maps.sqlite, if no two
\* downloads have shared a .tmp file.
THEOREM NoHalfDatabase == SafetySpec => []NeverHalf
  <1>1. Inv => NeverHalf
    BY DEF Inv, IndInv
  <1> QED
    BY <1>1, InvAlways, PTL

\* The strengthened invariant the run checks is indeed invariant.
THEOREM Inductive == SafetySpec => []IndInv
  <1>1. Inv => IndInv
    BY DEF Inv
  <1> QED
    BY <1>1, InvAlways, PTL

\* A worker goes from rename to done only by renaming.
LEMMA OnlyRenameNew ==
  ASSUME Inv, [Next]_vars, NEW v \in Workers, wpc[v] = "rename", wpc'[v] = "done"
  PROVE  RenameNew(v)
  <1> USE DEF vars, uiVars, threadVars, workVars, fileVars
  <1>t. wpc \in [Workers -> WorkerAt]
    BY DEF Inv, TypeOK
  <1>0. CASE UNCHANGED vars
    BY <1>0
  <1>1. CASE Kill
    BY <1>1, <1>t DEF Kill, WorkerAt
  <1>2. CASE Pause
    BY <1>2, <1>t DEF Pause, WorkerAt
  <1>3. CASE Resume
    BY <1>3, <1>t DEF Resume, WorkerAt
  <1>4. CASE Publish
    BY <1>4, <1>t DEF Publish, WorkerAt
  <1>5. CASE CorruptedCancel
    BY <1>5, <1>t DEF CorruptedCancel, WorkerAt
  <1>6. CASE OpenMap
    BY <1>6, <1>t DEF OpenMap, WorkerAt
  <1>7. CASE ListMaps
    BY <1>7, <1>t DEF ListMaps, WorkerAt
  <1>8. ASSUME NEW w \in Workers, Launch(w) PROVE RenameNew(v)
    BY <1>8, <1>t DEF Launch, Idle, Goto, WorkerAt
  <1>9. ASSUME NEW w \in Workers, UserStep(w) PROVE RenameNew(v)
    BY <1>9, <1>t DEF UserStep, NewDatabase, ClearCache, CorruptedOk, ShowAndStart, Idle, Goto, WorkerAt
  <1>10. ASSUME NEW w \in Workers, Begin(w) PROVE RenameNew(v)
    BY <1>10, <1>t DEF Begin, Goto, WorkerAt
  <1>11. ASSUME NEW w \in Workers, Fetch(w) PROVE RenameNew(v)
    BY <1>11, <1>t DEF Fetch, Goto, WorkerAt
  <1>12. ASSUME NEW w \in Workers, Setup(w) PROVE RenameNew(v)
    BY <1>12, <1>t DEF Setup, Goto, WorkerAt
  <1>13. ASSUME NEW w \in Workers, Open(w) PROVE RenameNew(v)
    BY <1>13, <1>t DEF Open, Goto, WorkerAt
  <1>14. ASSUME NEW w \in Workers, WritePage(w) PROVE RenameNew(v)
    BY <1>14, <1>t DEF WritePage, WorkerAt
  <1>15. ASSUME NEW w \in Workers, Close(w) PROVE RenameNew(v)
    BY <1>15, <1>t DEF Close, Goto, WorkerAt
  <1>16. ASSUME NEW w \in Workers, DownloadFails(w) PROVE RenameNew(v)
    BY <1>16, <1>t DEF DownloadFails, Goto, WorkerAt
  <1>17. ASSUME NEW w \in Workers, DeleteOld(w) PROVE RenameNew(v)
    BY <1>17, <1>t DEF DeleteOld, Goto, WorkerAt
  <1>18. ASSUME NEW w \in Workers, RenameNew(w) PROVE RenameNew(v)
    <2>1. w = v
      BY <1>18, <1>t DEF RenameNew, Goto
    <2> QED
      BY <1>18, <2>1
  <1>19. ASSUME NEW w \in Workers, Done(w) PROVE RenameNew(v)
    BY <1>19, <1>t DEF Done, Goto, WorkerAt
  <1>20. ASSUME NEW w \in Workers, (LeaveUnknownLoop(w) \/ LeaveLoadingLoop(w)) PROVE RenameNew(v)
    BY <1>20, <1>t DEF LeaveUnknownLoop, LeaveLoadingLoop, WorkerGoes, Goto, WorkerAt
  <1>21. ASSUME NEW w \in Workers, SwitchOnState(w) PROVE RenameNew(v)
    BY <1>21, <1>t DEF SwitchOnState, WorkerGoes, Goto, WorkerAt
  <1>22. ASSUME NEW w \in Workers, CheckHeaders(w) PROVE RenameNew(v)
    BY <1>22, <1>t DEF CheckHeaders, Goto, WorkerAt
  <1>23. ASSUME NEW w \in Workers, CheckCrashes(w) PROVE RenameNew(v)
    BY <1>23, <1>t DEF CheckCrashes, Kill, WorkerAt
  <1>24. ASSUME NEW w \in Workers, Compare(w) PROVE RenameNew(v)
    BY <1>24, <1>t DEF Compare, Goto, WorkerAt
  <1>25. ASSUME NEW w \in Workers, ClearDatabase(w) PROVE RenameNew(v)
    BY <1>25, <1>t DEF ClearDatabase, Goto, WorkerAt
  <1>26. ASSUME NEW w \in Workers, ClearSpawns(w) PROVE RenameNew(v)
    BY <1>26, <1>t DEF ClearSpawns, Goto, WorkerAt
  <1>27. ASSUME NEW w \in Workers, UiStep(w) PROVE RenameNew(v)
    BY <1>27, <1>t DEF UiStep, UiDismiss, UiNewDatabase, UiCleared, Goto, WorkerAt
  <1> QED
    BY <1>0, <1>1, <1>2, <1>3, <1>4, <1>5, <1>6, <1>7, <1>8, <1>9, <1>10, <1>11, <1>12, <1>13,
       <1>14, <1>15, <1>16, <1>17, <1>18, <1>19, <1>20, <1>21, <1>22, <1>23, <1>24, <1>25, <1>26, <1>27
    DEF Next, DownloadStep, CheckStep, ClearStep

LEMMA InstallStep ==
  Inv /\ [Next]_vars =>
    \A w \in Workers :
      wpc[w] = "rename" /\ wpc'[w] = "done" /\ ~overlapped => db' = Copy(body[w])
  <1> SUFFICES ASSUME Inv, [Next]_vars, NEW w \in Workers,
                      wpc[w] = "rename", wpc'[w] = "done", ~overlapped
               PROVE  db' = Copy(body[w])
    OBVIOUS
  <1>1. RenameNew(w)
    BY OnlyRenameNew
  <1>2. tmp = Copy(body[w]) /\ body[w] \in Entities
    BY DEF Inv, IndInv, PrivateTmp, FilesWired, Installing
  <1>3. tmp # Absent
    BY <1>2, CopyIsBody, BodiesArePresent
  <1> QED
    BY <1>1, <1>2, <1>3 DEF RenameNew

\* What a download installs is what it fetched, whole.
THEOREM InstallsWhatItFetched == SafetySpec => Installs
  BY InvAlways, InstallStep, PTL DEF SafetySpec, Installs

=============================================================================

-------------------------- MODULE MCDatabaseUpdate --------------------------
(***************************************************************************)
(* DatabaseUpdate for TLC: the server publishes finitely many databases.   *)
(***************************************************************************)
EXTENDS DatabaseUpdate, TLC

Symmetry == Permutations(Workers)

\* A state that Init leads to: the first database was installed, then the
\* server published the second, and the program is not running.  The live run
\* begins here, so that a check at start-up finds a newer database.
OutOfDate ==
  /\ running = FALSE /\ foreground = FALSE /\ progress = FALSE
  /\ corrupted = FALSE
  /\ dbLoadState = 0
  /\ wpc = [w \in Workers |-> "idle"] /\ posts = {}
  /\ body = [w \in Workers |-> Hole]
  /\ written = [w \in Workers |-> 0]
  /\ fd = [w \in Workers |-> "none"]
  /\ seen = [w \in Workers |-> 0]
  /\ db = Copy(1) /\ tmp = Absent /\ dbTime = 1 /\ tmpTime = 0
  /\ remote = 2 /\ overlapped = FALSE

LiveSpec == OutOfDate /\ [][Next]_vars /\ Fairness
=============================================================================

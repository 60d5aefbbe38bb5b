------------------------------ MODULE MapShelf ------------------------------
(***************************************************************************)
(* What the download screen promises its user, without threads: a list     *)
(* that marks maps as stored, and at most one request at a time.  A row    *)
(* gains a check mark only as the answer to a request for that row, once   *)
(* the map is stored; a map that is lost takes its mark, and no other      *)
(* mark, with it.                                                          *)
(***************************************************************************)
CONSTANTS Maps, NoMap

VARIABLES stored,   \* maps with a file on the phone
          marked,   \* maps the screen shows as stored
          wanted    \* the map a request is waiting for, or NoMap

shelfVars == <<stored, marked, wanted>>

ShelfInit == stored = {} /\ marked = {} /\ wanted = NoMap

\* The screen changes; a request still waiting is abandoned.
Show ==
  /\ marked' \in {{}, stored}
  /\ wanted' = NoMap
  /\ UNCHANGED stored

Request(m) ==
  /\ wanted = NoMap /\ m \notin stored
  /\ wanted' = m
  /\ UNCHANGED <<stored, marked>>

Store(m) ==
  /\ stored' = stored \cup {m}
  /\ UNCHANGED <<marked, wanted>>

Fulfil ==
  /\ wanted \in stored
  /\ marked' = marked \cup {wanted}
  /\ wanted' = NoMap
  /\ UNCHANGED stored

Refuse ==
  /\ wanted # NoMap /\ wanted' = NoMap
  /\ UNCHANGED <<stored, marked>>

Forget(m) ==
  /\ wanted = NoMap
  /\ marked' = marked \ {m}
  /\ UNCHANGED <<stored, wanted>>

Lose(m) ==
  /\ stored' = stored \ {m}
  /\ marked' = marked \ {m}
  /\ UNCHANGED wanted

ShelfNext ==
  \/ Show \/ Fulfil \/ Refuse
  \/ \E m \in Maps : Request(m) \/ Store(m) \/ Forget(m) \/ Lose(m)

ShelfSpec == ShelfInit /\ [][ShelfNext]_shelfVars
=============================================================================

----------------------------- MODULE VersionLog -----------------------------
(***************************************************************************)
(* What a store of versions promises to those who read it as of a cutoff.   *)
(* A publication happens once and at one instant, whole.  What is said of a *)
(* key is a log: a version that is there is never changed, moved or removed,*)
(* and what a publication appends was available at one of the times that it *)
(* states itself, never at the time of something else.  A store may refuse  *)
(* a publication, which leaves no trace in its logs.                        *)
(***************************************************************************)
CONSTANTS Publication,
          Times(_)        \* when what a publication says was available

VARIABLES log,            \* the versions of each key, in order
          published       \* the publications that have happened

vars == <<log, published>>

Init == log = << >> /\ published = {}

\* What is said of a key stays, with its number.
Keeps(key) ==
  /\ key \in DOMAIN log' /\ DOMAIN log[key] \subseteq DOMAIN log'[key]
  /\ \A n \in DOMAIN log[key] : log'[key][n] = log[key][n]

\* What is new of it was available when the publication says.
Dates(id, key) ==
  \A n \in DOMAIN log'[key] :
    \/ key \in DOMAIN log /\ n \in DOMAIN log[key]
    \/ log'[key][n].available \in Times(id)

Publish(id) ==
  /\ id \notin published
  /\ published' = published \cup {id}
  /\ \A key \in DOMAIN log : Keeps(key)
  /\ \A key \in DOMAIN log' : Dates(id, key)

Next == \E id \in Publication : Publish(id)

Spec == Init /\ [][Next]_vars
=============================================================================

------------------------------ MODULE Versions ------------------------------
(***************************************************************************)
(* Version chains.  The stores keep what was said of a key as a chain of    *)
(* immutable versions, numbered from 1 in the order they were published; a  *)
(* reader with a cutoff takes the newest version of each key that was       *)
(* available by then.                                                       *)
(***************************************************************************)
EXTENDS Temporal, Sequences, SequencesExt

Overlap(a, b) == a.from <= b.to /\ b.from <= a.to

\* f, and g where f says nothing: @@ of TLC, of which the provers know nothing.
Overlay(f, g) ==
  [x \in (DOMAIN f) \cup (DOMAIN g) |-> IF x \in DOMAIN f THEN f[x] ELSE g[x]]

History(held, key) == IF key \in DOMAIN held THEN held[key] ELSE << >>

Appended(held, key, version) ==
  Overlay([k \in {key} |-> Append(History(held, k), version)], held)

\* A bug for the checks to find: the newest version is corrected in its place.
Extended_InPlace(held, key, version) ==
  Overlay([k \in {key} |-> IF History(held, k) = << >> THEN <<version>>
                           ELSE Append(Front(held[k]), version)], held)

\* A version is appended unless the newest one says the same.
Extended(held, key, version) ==
  IF History(held, key) # << >> /\ Last(held[key]) = version THEN held
  ELSE Appended(held, key, version)

\* An entry is a key with what is said of it.
Say(held, entry) == Extended(held, entry.key, entry.version)

ExtendedAll(held, entries) == FoldLeft(Say, held, entries)

\* A cutoff of None reads everything.
Latest == [precision |-> "none"]

Visible(row, cutoff, policy) == cutoff = Latest \/ Included(row.available, cutoff, policy)

Newest(chain, seen) == {chain[n] : n \in {m \in seen : \A k \in seen : k <= m}}

NewestVisible(chain, cutoff, policy) ==
  Newest(chain, {n \in DOMAIN chain : Visible(chain[n], cutoff, policy)})

Answered(held, keys, cutoff, policy) ==
  UNION {{[key |-> key, version |-> v] : v \in NewestVisible(held[key], cutoff, policy)} :
           key \in keys \cap DOMAIN held}
=============================================================================

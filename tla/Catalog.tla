------------------------------ MODULE Catalog ------------------------------
(***************************************************************************)
(* The instrument catalog of the market store (market/catalog.py).  A       *)
(* reviewed batch names instruments, the provider symbols they go by, their *)
(* classifications and the members of one universe.  It is published in one *)
(* coordinated run, whole or not at all, and batches may be published in    *)
(* any order.  Days are numbers; an interval without an end ends at Forever.*)
(***************************************************************************)
EXTENDS Versions, FiniteSets

CONSTANTS Batch,    \* identities of the reviewed batches
          Content,  \* what each one says
          Index,    \* RECOVERED_FMP_INDEXES: symbol and canonical name
          Asked,    \* the cutoffs that are asked
          Forever

VARIABLE catalog

\* A batch is a document, and at the end all that it says is available.
ASSUME ContentIsFinite ==
  \A b \in Batch : /\ IsFiniteSet(Content[b].classes)
                   /\ Exact(Content[b].available) =>
                        \A policy \in Policy :
                          Included(Content[b].available, AtInstant(Forever, 10 * Forever), policy)

Covers(interval, day) == interval.from <= day /\ day <= interval.to

(***************************************************************************)
(* Parsing.                                                                 *)
(***************************************************************************)
Identifiers(c) == UNION {{Overlay([key |-> i.key], d) : d \in i.identifiers} : i \in c.instruments}

IntervalsDisjoint(c) ==
  \A a, b \in Identifiers(c) : a # b /\ a.symbol = b.symbol => ~Overlap(a, b)

InstrumentsParse(c) ==
  /\ IsInjective([i \in c.instruments |-> i.key])
  /\ \A i \in c.instruments : i.type \in {"equity", "etf", "index"} /\ i.identifiers # {}
  /\ \A d \in Identifiers(c) : d.from <= d.to /\ Exact(d.available)
  /\ IntervalsDisjoint(c)

ClassificationsParse(c) ==
  /\ IsInjective([k \in c.classes |-> <<k.key, k.from, k.to>>])
  /\ \A k \in c.classes : k.from <= k.to /\ Exact(k.available)

UniverseParse(c) ==
  /\ IsInjective([m \in c.members |-> m.key])
  /\ \A m \in c.members : m.from <= m.to
  /\ Exact(c.available)
  /\ c.authoritative => c.complete

\* A manifest is empty or names every recovered index, each an instrument of
\* this batch with that name and symbol.
ManifestParses(c) ==
  /\ c.manifest \in {{}, Index}
  /\ c.kind = "catalog_and_universe" => c.manifest # {}
  /\ \A x \in c.manifest : \E i \in c.instruments :
       /\ i.type = "index" /\ i.name = x.name
       /\ \E d \in i.identifiers : d.symbol = x.symbol

Parses(c) ==
  InstrumentsParse(c) /\ ClassificationsParse(c) /\ UniverseParse(c) /\ ManifestParses(c)

(***************************************************************************)
(* Writing.                                                                 *)
(***************************************************************************)
\* A stored interval of the symbol that overlaps is the same one, of the same
\* instrument, with the same availability; the rest is refused.
Compatible(held, d) == \A h \in held : h.symbol = d.symbol /\ Overlap(h, d) => h = d

WithIdentifiers(held, c) == held \cup Identifiers(c)

SameType(known, i) == \A k \in known : k.key = i.key => k.type = i.type

Attributes(i) == [key |-> i.key, type |-> i.type, name |-> i.name]

WithInstruments(known, c) ==
  {k \in known : \A i \in c.instruments : i.key # k.key} \cup {Attributes(i) : i \in c.instruments}

KnownKeys(known) == {k.key : k \in known}

\* _apply_classification: a chain for each instrument and interval.
ClassEntries(c) ==
  {[key |-> <<k.key, k.from, k.to>>,
    version |-> [sector |-> k.sector, available |-> k.available]] : k \in c.classes}

WithClasses(held, c) == ExtendedAll(held, SetToSeq(ClassEntries(c)))

(***************************************************************************)
(* Memberships: per instrument a chain of versions that are active and      *)
(* tombstones by turns.  The current one is the last.                       *)
(***************************************************************************)
Interval(k) == [from |-> k.from, to |-> k.to]

IsActive(held, key) == History(held, key) # << >> /\ Last(held[key]).state = "active"
ActiveKeys(held) == {key \in DOMAIN held : IsActive(held, key)}

Membership(interval, available, state) ==
  [from |-> interval.from, to |-> interval.to, available |-> available, state |-> state]

\* An active member cannot change its interval without a tombstone.
BoundsAgree_Unchecked(held, m) == TRUE
BoundsAgree(held, m) ==
  IsActive(held, m.key) => Interval(Last(held[m.key])) = Interval(m)

Joined(held, c, m) ==
  IF IsActive(held, m.key) /\ Interval(Last(held[m.key])) = Interval(m) THEN held[m.key]
  ELSE Append(History(held, m.key), Membership(m, c.available, "active"))

Omitted(held, c) ==
  IF c.authoritative THEN ActiveKeys(held) \ {m.key : m \in c.members} ELSE {}

\* A tombstone keeps the interval of the version it ends, and is known from
\* when the omission is.
Buried(held, c, key) ==
  Append(held[key], Membership(Last(held[key]), c.available, "tombstone"))

\* The members of a batch and those it leaves out are different instruments.
WithMembers(held, c) ==
  LET said == {m.key : m \in c.members} IN
  [key \in said \cup DOMAIN held |->
     IF key \in said THEN Joined(held, c, CHOOSE m \in c.members : m.key = key)
     ELSE IF key \in Omitted(held, c) THEN Buried(held, c, key)
     ELSE held[key]]

\* The conflicts that roll a batch back.
Writes(s, c) ==
  /\ \A i \in c.instruments : SameType(s.instruments, i)
  /\ \A d \in Identifiers(c) : Compatible(s.identifiers, d)
  /\ \A k \in c.classes \cup c.members : k.key \in KnownKeys(WithInstruments(s.instruments, c))
  /\ \A m \in c.members : BoundsAgree(s.members, m)

\* The membership versions a snapshot lists: its members' and its tombstones.
Listed(held, c) ==
  LET now == WithMembers(held, c) IN
  {[key |-> key, sequence |-> Len(now[key])] :
     key \in {m.key : m \in c.members} \cup {k \in DOMAIN held : now[k] # held[k]}}

Written(s, b) ==
  LET c == Content[b] IN
  [instruments |-> WithInstruments(s.instruments, c),
   identifiers |-> WithIdentifiers(s.identifiers, c),
   classes     |-> WithClasses(s.classes, c),
   members     |-> WithMembers(s.members, c),
   published   |-> Overlay([x \in {b} |-> Listed(s.members, c)], s.published),
   spent       |-> s.spent]

EmptyCatalog ==
  [instruments |-> {}, identifiers |-> {}, classes |-> << >>, members |-> << >>,
   published |-> << >>, spent |-> {}]

Init == catalog = EmptyCatalog

\* A batch that does not parse is refused before the coordinator is called; a
\* published one is an unchanged run, and a failed one is spent.
Fresh(b) == Parses(Content[b]) /\ b \notin DOMAIN catalog.published \cup catalog.spent

Import(b) ==
  /\ Fresh(b)
  /\ Writes(catalog, Content[b])
  /\ catalog' = Written(catalog, b)

ImportFails(b) ==
  /\ Fresh(b)
  /\ ~Writes(catalog, Content[b])
  /\ catalog' = [catalog EXCEPT !.spent = @ \cup {b}]

Next == \E b \in Batch : Import(b) \/ ImportFails(b)

(***************************************************************************)
(* Reading.                                                                 *)
(***************************************************************************)
Eligible(s, symbol, day, cutoff, policy) ==
  {d \in s.identifiers : d.symbol = symbol /\ Covers(d, day) /\ Visible(d, cutoff, policy)}

\* The newest visible version of each interval around the day; more than one
\* interval is a conflict.
Classification(s, key, day, cutoff, policy) ==
  Answered(s.classes, {x \in DOMAIN s.classes : x[1] = key /\ x[2] <= day /\ day <= x[3]},
           cutoff, policy)

MembersLatest(s, day) ==
  {key \in ActiveKeys(s.members) : Covers(Last(s.members[key]), day)}

\* Each instrument's newest visible version around the day, if it is active.
MembersAsOf(s, day, cutoff, policy) ==
  {key \in DOMAIN s.members :
     LET chain == s.members[key]
         seen == {n \in DOMAIN chain : Covers(chain[n], day) /\ Visible(chain[n], cutoff, policy)}
     IN  \E v \in Newest(chain, seen) : v.state = "active"}

-----------------------------------------------------------------------------
\* Universes are read in two ways: by the current pointers, and as of a cutoff
\* through the versions around a day.  With nothing left to become available
\* the two agree, because a membership changes its interval only through a
\* tombstone of the old one.
CurrentIsAsOfEnd ==
  \A day \in 1 .. Forever, policy \in Policy :
    MembersLatest(catalog, day) = MembersAsOf(catalog, day, AtInstant(Forever, 10 * Forever), policy)

\* An authoritative batch ends what it leaves out and nothing else does: right
\* after it the active members are its own, and any other batch only adds.
OmissionEnds ==
  [][\A b \in Batch : b \in DOMAIN catalog'.published \ DOMAIN catalog.published =>
       LET said == {m.key : m \in Content[b].members}
           was == ActiveKeys(catalog.members)
       IN  ActiveKeys(catalog'.members) =
             IF Content[b].authoritative THEN said ELSE was \cup said]_catalog

\* What was said of a day as of a cutoff stays as it was said while batches go
\* on being published: the members, unless the batch was available then, and
\* an instrument's classification or a symbol's instrument, unless something
\* the batch says of that instrument or symbol was.
CatalogAsOfStable ==
  [][\A b \in DOMAIN catalog'.published \ DOMAIN catalog.published :
       \A day \in 1 .. Forever, cutoff \in Asked, policy \in Policy :
         LET c == Content[b]
             Before(row) == ~Visible(row, cutoff, policy)
         IN
         /\ Before(c) => MembersAsOf(catalog', day, cutoff, policy)
                           = MembersAsOf(catalog, day, cutoff, policy)
         /\ \A i \in c.instruments :
              (\A k \in c.classes : k.key = i.key => Before(k)) =>
                Classification(catalog', i.key, day, cutoff, policy)
                  = Classification(catalog, i.key, day, cutoff, policy)
         /\ \A d \in Identifiers(c) :
              (\A e \in Identifiers(c) : e.symbol = d.symbol => Before(e)) =>
                Eligible(catalog', d.symbol, day, cutoff, policy)
                  = Eligible(catalog, d.symbol, day, cutoff, policy)]_catalog

=============================================================================

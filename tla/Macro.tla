------------------------------- MODULE Macro -------------------------------
(***************************************************************************)
(* The macro store (macro/stage3_fixture_importers.py, rtdsm_fixture.py and *)
(* their repositories).  A complete capture of one family says values of    *)
(* series for periods and areas, each in a release; releases of a series    *)
(* are ordered by their source.  What one release says of a period and area *)
(* is a version chain, and a current pointer names the version of the       *)
(* newest release.  Complete EIA retail captures end what they leave out.   *)
(* The families also keep projections of their own.                         *)
(***************************************************************************)
EXTENDS Versions, FiniteSets

CONSTANTS MacroCapture,  \* identities of the reviewed captures
          Observed,      \* what each one says
          MacroCutoff    \* the cutoffs that are asked

VARIABLE macro

Families == {"generic", "gdp", "treasury", "economic_calendar", "soma", "eia_retail",
             "eia_weekly", "recession", "rtdsm"}

(***************************************************************************)
(* Parsing.                                                                 *)
(***************************************************************************)
Vintages(c) == {r.vintage : r \in c.releases}
ReleaseOf(c, vintage) == CHOOSE r \in c.releases : r.vintage = vintage
SeriesOf(c) == {x.id : x \in c.series}

\* A capture is a document, and the orders of its releases are numbers.
ASSUME ObservedIsFinite ==
  \A id \in MacroCapture : LET c == Observed[id] IN
    /\ IsFiniteSet(c.observations) /\ IsFiniteSet(c.releases)
    /\ \A r \in c.releases : r.order \in Int

\* The RTDSM series, whose provider is told apart, is of no other family.
ASSUME RtdsmIsApart ==
  \A id, other \in MacroCapture :
    Observed[id].family = "rtdsm" /\ Observed[other].family # "rtdsm" =>
      Observed[id].series \cap Observed[other].series = {}

\* The observation key of the store; the chain of a key and release has the
\* vintage too.
Place(o) == <<o.series, o.period, o.area>>

ReleasesParse(c) ==
  /\ c.releases # {} /\ \A r, q \in c.releases : r.vintage = q.vintage => r = q
  /\ \A r \in c.releases : /\ r.order >= 1 /\ Exact(r.available)
                           /\ r.first <=> r.evidence # "none"

ObservationsParse(c) ==
  /\ \A o, p \in c.observations : Place(o) = Place(p) /\ o.vintage = p.vintage => o = p
  /\ \A o \in c.observations : o.series \in SeriesOf(c) /\ o.vintage \in Vintages(c)

\* A truncated or mismatched retail capture may not look like an omission.
RetailReconciles(c) ==
  /\ \A o \in c.observations : o.area = c.retail.area /\ o.period = c.retail.period
  /\ c.retail.pages # << >>
  /\ FoldLeft(+, 0, c.retail.pages) = Cardinality(c.observations)

MacroParses(c) ==
  /\ c.family \in Families /\ c.complete
  /\ \A x, y \in c.series : x.id = y.id => x = y
  /\ ReleasesParse(c) /\ ObservationsParse(c)
  /\ c.family = "eia_retail" => RetailReconciles(c)
  /\ c.family = "rtdsm" => Cardinality(c.series) = 1 /\ Cardinality(c.releases) = 1

(***************************************************************************)
(* Writing observations.                                                    *)
(***************************************************************************)
SeriesHeld(s, c) == \A x \in c.series : x.id \in DOMAIN s.series => s.series[x.id] = x

WithSeries(s, c) == Overlay([id \in SeriesOf(c) |-> CHOOSE x \in c.series : x.id = id], s.series)

\* A release of a series stays as it was declared, but for when it was
\* available, which is kept with each version.
Declared(r) == [order |-> r.order, first |-> r.first, stage |-> r.stage]

ReleasesHeld(s, c) ==
  \A id \in SeriesOf(c), r \in c.releases :
    <<id, r.vintage>> \in DOMAIN s.releases => s.releases[<<id, r.vintage>>] = Declared(r)

WithReleases(s, c) ==
  Overlay([x \in SeriesOf(c) \X Vintages(c) |-> Declared(ReleaseOf(c, x[2]))], s.releases)

ChainKey(place, vintage) == Append(place, vintage)

Outranks(a, b) == a[1] > b[1] \/ (a[1] = b[1] /\ a[2] > b[2])

\* A version is ranked by the order of its release and then by its number.
Rank(s, place, version) == <<s.releases[<<place[1], version[1]>>].order, version[2]>>

\* _current_should_move
ShouldMove_Always(s, place, version) == TRUE
ShouldMove(s, place, version) ==
  place \in DOMAIN s.current =>
    ~Outranks(Rank(s, place, s.current[place]), Rank(s, place, version))

\* RTDSM captures keep no current pointer.
Entry(c, place, release, value, state) ==
  [place |-> place, vintage |-> release.vintage, pointed |-> c.family # "rtdsm",
   version |-> [value |-> value, state |-> state, available |-> release.available]]

\* _append_or_reuse_observation
WithVersion(s, e) ==
  LET key == ChainKey(e.place, e.vintage)
      held == Extended(s.chains, key, e.version)
      version == <<e.vintage, Len(held[key])>>
  IN  IF held = s.chains THEN s
      ELSE [s EXCEPT !.chains = held,
                     !.current = IF e.pointed /\ ShouldMove(s, e.place, version)
                                   THEN Overlay([x \in {e.place} |-> version], @) ELSE @]

ObservationEntries(c) ==
  {Entry(c, Place(o), ReleaseOf(c, o.vintage), o.value, "active") : o \in c.observations}

WithVersions(s, entries) == FoldLeft(WithVersion, s, SetToSeq(entries))

VersionAt(s, place, version) == s.chains[ChainKey(place, version[1])][version[2]]
IsCurrentlyActive(s, place) == VersionAt(s, place, s.current[place]).state = "active"

\* What a retail capture leaves out: the places of its series and period that
\* are current and active and that it does not name.
Omissions(s, c) ==
  {place \in DOMAIN s.current :
     /\ place[1] \in SeriesOf(c) /\ place[2] = c.retail.period
     /\ IsCurrentlyActive(s, place)
     /\ \A o \in c.observations : Place(o) # place}

NewestRelease(c) == CHOOSE r \in c.releases : \A q \in c.releases : q.order <= r.order

\* An omission is known from when the capture's release is.
TombstoneRelease_OfCurrent(s, c, place) ==
  [NewestRelease(c) EXCEPT !.available = VersionAt(s, place, s.current[place]).available]
TombstoneRelease(s, c, place) == NewestRelease(c)

TombstoneEntries(s, c) ==
  IF c.family # "eia_retail" THEN {}
  ELSE {Entry(c, place, TombstoneRelease(s, c, place), "missing", "tombstone") :
          place \in Omissions(s, c)}

(***************************************************************************)
(* Writing projections: rows of [key, value, binds].  Of some families the  *)
(* first row of a key stands; of the others the rows of a key are a chain   *)
(* that is extended when its value changes, and its last one is current.    *)
(***************************************************************************)
GdpVintages(s, c) ==
  Overlay([key \in {x.key : x \in c.rows} |->
             IF key \in DOMAIN s.rows THEN s.rows[key]
             ELSE <<[value |-> (CHOOSE x \in c.rows : x.key = key).value, state |-> "active"]>>], s.rows)

RecessionPeriods(s, c) == GdpVintages(s, c)
SomaSummary(s, c) == GdpVintages(s, c)

RowEntries(rows, state) == {[key |-> x.key, version |-> [value |-> x.value, state |-> state]] : x \in rows}

TreasuryCurves(s, c) == ExtendedAll(s.rows, SetToSeq(RowEntries(c.rows, "active")))
CalendarEvents(s, c) == TreasuryCurves(s, c)
EiaWeekly(s, c) == TreasuryCurves(s, c)

RetailPlaces(rows, c) ==
  {key \in DOMAIN rows : /\ key[1] \in SeriesOf(c) /\ key[2] = c.retail.period
                         /\ Last(rows[key]).state = "active"
                         /\ \A o \in c.observations : Place(o) # key}

EiaRetail(s, c) ==
  LET said == {[key |-> Place(o), value |-> o.value] : o \in c.observations}
      gone == {[key |-> key, value |-> "missing"] : key \in RetailPlaces(s.rows, c)}
  IN  ExtendedAll(s.rows, SetToSeq(RowEntries(said, "active") \cup RowEntries(gone, "tombstone")))

\* Rows bind a release or an observation of the same capture.
RowsBind(c) ==
  CASE c.family = "gdp" -> \A x \in c.rows : x.binds \in Vintages(c)
    [] c.family = "treasury" -> \A x \in c.rows : \E o \in c.observations : o.series = x.binds
    [] c.family = "eia_weekly" -> \A o \in c.observations : \E x \in c.rows : x.binds = o.series
    [] OTHER -> TRUE

Projected(s, c) ==
  CASE c.family = "gdp" -> GdpVintages(s, c)
    [] c.family = "recession" -> RecessionPeriods(s, c)
    [] c.family = "soma" -> SomaSummary(s, c)
    [] c.family = "treasury" -> TreasuryCurves(s, c)
    [] c.family = "economic_calendar" -> CalendarEvents(s, c)
    [] c.family = "eia_weekly" -> EiaWeekly(s, c)
    [] c.family = "eia_retail" -> EiaRetail(s, c)
    [] OTHER -> s.rows

MacroWrites(s, c) == SeriesHeld(s, c) /\ ReleasesHeld(s, c) /\ RowsBind(c)

MacroWritten(s, id, c) ==
  LET known == [s EXCEPT !.series = WithSeries(s, c), !.releases = WithReleases(s, c)]
      said == WithVersions(known, ObservationEntries(c))
  IN  [WithVersions(said, TombstoneEntries(said, c)) EXCEPT !.rows = Projected(s, c),
                                                            !.published = @ \cup {id}]

EmptyMacro ==
  [series |-> << >>, releases |-> << >>, chains |-> << >>, current |-> << >>, rows |-> << >>,
   published |-> {}, spent |-> {}]

MacroInit == macro = EmptyMacro

MacroAwaits(id) == MacroParses(Observed[id]) /\ id \notin macro.published \cup macro.spent

MacroPublish(id) ==
  /\ MacroAwaits(id)
  /\ MacroWrites(macro, Observed[id])
  /\ macro' = MacroWritten(macro, id, Observed[id])

MacroFails(id) ==
  /\ MacroAwaits(id)
  /\ ~MacroWrites(macro, Observed[id])
  /\ macro' = [macro EXCEPT !.spent = @ \cup {id}]

MacroNext == \E id \in MacroCapture : MacroPublish(id) \/ MacroFails(id)

(***************************************************************************)
(* Reading.  Of the versions of a place, over all releases, the one with    *)
(* the highest rank, or for the first release the lowest of those the       *)
(* source calls first; a place whose version is a tombstone is not answered.*)
(***************************************************************************)
Places(s) == {SubSeq(key, 1, 3) : key \in DOMAIN s.chains}

VersionsOf(s, place) ==
  UNION {{<<key[4], n>> : n \in DOMAIN s.chains[key]} :
           key \in {x \in DOMAIN s.chains : SubSeq(x, 1, 3) = place}}

Highest(s, place, versions) ==
  {v \in versions : \A w \in versions : ~Outranks(Rank(s, place, w), Rank(s, place, v))}

LatestOf(s, place) == Highest(s, place, VersionsOf(s, place))

AsOf(s, place, cutoff, policy) ==
  Highest(s, place, {v \in VersionsOf(s, place) : Visible(VersionAt(s, place, v), cutoff, policy)})

\* The source says with evidence which releases are first.
Evidenced(s, place) == {v \in VersionsOf(s, place) : s.releases[<<place[1], v[1]>>].first}

FirstReleases_Corrected(s, place) == Highest(s, place, Evidenced(s, place))
FirstReleases(s, place) ==
  {v \in Evidenced(s, place) :
     \A w \in Evidenced(s, place) : ~Outranks(Rank(s, place, v), Rank(s, place, w))}

AsOfQuery(cutoff, policy) == [mode |-> "as_of", cutoff |-> cutoff, policy |-> policy]

Select(s, place, query) ==
  CASE query.mode = "latest" -> LatestOf(s, place)
    [] query.mode = "as_of" -> AsOf(s, place, query.cutoff, query.policy)
    [] query.mode = "first_release" -> FirstReleases(s, place)

GetSeries(s, query) ==
  {a \in UNION {{[place |-> place, said |-> VersionAt(s, place, v)] : v \in Select(s, place, query)} :
                  place \in Places(s)} : a.said.state = "active"}

-----------------------------------------------------------------------------
\* What a series said as of a cutoff stays when a capture is published whose
\* releases were not available then, though it may correct and end what is
\* current.
MacroAsOfStable ==
  [][\A id \in macro'.published \ macro.published, cutoff \in MacroCutoff, policy \in Policy :
       (\A r \in Observed[id].releases : ~Visible(r, cutoff, policy)) =>
         GetSeries(macro', AsOfQuery(cutoff, policy)) = GetSeries(macro, AsOfQuery(cutoff, policy))]_macro

\* A first release stands: later releases and corrections of it do not redefine
\* it, nor does what is loaded late, unless the source says that it came before.
FirstReleaseStands ==
  [][\A id \in macro'.published \ macro.published, place \in Places(macro') :
       LET held == FirstReleases(macro, place) IN
       (\A r \in Observed[id].releases : r.first =>
          \E v \in held : r.vintage = v[1] \/ r.order > Rank(macro, place, v)[1]) =>
       /\ FirstReleases(macro', place) = held
       /\ \A v \in held : VersionAt(macro', place, v) = VersionAt(macro, place, v)]_macro

\* The current pointer, which moves or stays as captures come, and the answer
\* to latest, which ranks all versions, are the same version, though releases
\* come in any order and are corrected.
CurrentIsLatest ==
  \A place \in DOMAIN macro.current : macro.current[place] \in LatestOf(macro, place)

\* A complete retail capture ends members of its own area and month only.
OmissionInScope ==
  [][\A id \in macro'.published \ macro.published, place \in DOMAIN macro.current :
       LET c == Observed[id] IN
       IsCurrentlyActive(macro, place) /\ ~IsCurrentlyActive(macro', place) =>
         place[2] = c.retail.period /\ place[3] = c.retail.area]_macro
=============================================================================

------------------------------ MODULE Options ------------------------------
(***************************************************************************)
(* Option surface captures (market/stage4_options.py).  A capture is one    *)
(* reading of the contracts of one underlying and feed: a surface row for   *)
(* each contract, and the inputs a model would price them with.  Captures   *)
(* share nothing but the contracts and the numbering of bar versions.  The  *)
(* underlying is an instrument of the catalog, which has to know it first.  *)
(***************************************************************************)
EXTENDS Catalog

CONSTANTS Capture,  \* identities of the reviewed captures
          Surface   \* what each one says

\* A capture is a document: it has so many contracts, rows and bars.
ASSUME CapturesAreFinite ==
  \A id \in Capture : LET c == Surface[id] IN
    /\ IsFiniteSet(c.contracts) /\ IsFiniteSet(c.surface)
    /\ \A r \in c.surface : IsFiniteSet(r.bars)
    /\ c.completed \in Int

VARIABLE options

optionVars == <<catalog, options>>

(***************************************************************************)
(* Parsing.                                                                 *)
(***************************************************************************)
\* Members of a capture are available when the capture is, days inclusive.
AvailableBy_Unasked(available, c) == Exact(available)
AvailableBy(available, c) ==
  Exact(available) /\ Included(available, c.available, "calendar_date_inclusive")

CaptureParses(c) == c.requested <= c.completed /\ c.completed <= c.captured /\ Exact(c.available)

ContractsParse(c) ==
  /\ c.contracts # {} /\ IsInjective([k \in c.contracts |-> k.id])
  /\ \A k \in c.contracts : (k.detail = "none" <=> k.standard) /\ AvailableBy(k.available, c)

ObservationParses(o, c) == o.state \in {"present", "missing"} /\ AvailableBy(o.available, c)

BarsParse(bars, c) ==
  /\ IsInjective([b \in bars |-> b.start])
  /\ \A b \in bars : AvailableBy(b.available, c)

Excluded(c, k) == c.policy = "standard_only" /\ ~k.standard

\* One row for each contract; what is excluded or missing says nothing else.
SurfaceParses(c) ==
  /\ Cardinality(c.surface) = Cardinality(c.contracts)
  /\ \A k \in c.contracts : \E r \in c.surface :
       /\ r.contract = k.id
       /\ r.state = "excluded" <=> Excluded(c, k)
  /\ \A r \in c.surface :
       /\ r.state \in {"present", "missing", "excluded"}
       /\ AvailableBy(r.available, c)
       /\ ObservationParses(r.interest, c) /\ ObservationParses(r.close, c)
       /\ BarsParse(r.bars, c)
       /\ r.state # "present" =>
            r.bars = {} /\ r.interest.state = "missing" /\ r.close.state = "missing"

QuoteParses(c) ==
  IF c.inputs.underlying = "present" THEN ObservationParses(c.inputs.quote, c)
                                     ELSE c.inputs.quote.state = "none"

\* A curve has one point for each tenor, and none when it is missing; a point
\* may be missing itself.
CurveParses(c) ==
  /\ ObservationParses(c.inputs.curve, c)
  /\ IsInjective([p \in c.inputs.curve.points |-> p.tenor])
  /\ c.inputs.curve.state = "present" <=> c.inputs.curve.points # {}

Rates(c) == {p.rate : p \in c.inputs.curve.points} \ {"missing"}

DividendsParse(c) == ObservationParses(c.inputs.dividends, c)

Dependencies(c) == {c.inputs.quote, c.inputs.curve, c.inputs.dividends}

\* An input for each expiration; all of them or none are derived, from the
\* last or trade price and a point of the curve of this capture.
ExpiryInputsParse(c) ==
  /\ IsInjective([e \in c.inputs.expiries |-> e.expiry])
  /\ {e.expiry : e \in c.inputs.expiries} = {k.expiry : k \in c.contracts}
  /\ \A e \in c.inputs.expiries :
       /\ ObservationParses(e, c)
       /\ IF \A d \in Dependencies(c) : d.state = "present"
            THEN e.state = "present" /\ e.spot = c.inputs.quote.last
                                     /\ e.rate \in Rates(c)
            ELSE e.state = "missing"

InputsParse(c) ==
  QuoteParses(c) /\ CurveParses(c) /\ DividendsParse(c) /\ ExpiryInputsParse(c)

CaptureIsReviewed(c) ==
  CaptureParses(c) /\ ContractsParse(c) /\ SurfaceParses(c) /\ InputsParse(c)

(***************************************************************************)
(* Writing.                                                                 *)
(***************************************************************************)
\* A stored contract is what it was first said to be.
ContractHeld(s, k) == k.id \in DOMAIN s.contracts => s.contracts[k.id] = k

WithContracts(held, c) ==
  Overlay([id \in {k.id : k \in c.contracts} |-> CHOOSE k \in c.contracts : k.id = id], held)

BarKeys(c) == UNION {{<<r.contract, b.start>> : b \in r.bars} : r \in c.surface}

CapturedBar(c, key) ==
  CHOOSE b \in UNION {r.bars : r \in {x \in c.surface : x.contract = key[1]}} : b.start = key[2]

\* A bar is a new version of the newest one with its contract and start, said
\* by whatever capture.
WithBars(held, id, c) ==
  [key \in BarKeys(c) \cup DOMAIN held |->
     IF key \in BarKeys(c)
       THEN Append(History(held, key), [capture |-> id, bar |-> CapturedBar(c, key)])
       ELSE held[key]]

EmptyOptions == [contracts |-> << >>, captures |-> {}, bars |-> << >>, spent |-> {}]

OptionsInit == Init /\ options = EmptyOptions

\* _preflight_underlying reads the catalog with no lock; instruments only
\* become more.
UnderlyingKnown(c) == c.underlying \in KnownKeys(catalog.instruments)

Awaited(id) ==
  /\ CaptureIsReviewed(Surface[id])
  /\ UnderlyingKnown(Surface[id])
  /\ id \notin options.captures \cup options.spent

Publish(id) ==
  LET c == Surface[id] IN
  /\ Awaited(id)
  /\ \A k \in c.contracts : ContractHeld(options, k)
  /\ options' = [options EXCEPT !.contracts = WithContracts(@, c),
                                !.captures = @ \cup {id},
                                !.bars = WithBars(@, id, c)]
  /\ UNCHANGED catalog

PublishFails(id) ==
  /\ Awaited(id)
  /\ \E k \in Surface[id].contracts : ~ContractHeld(options, k)
  /\ options' = [options EXCEPT !.spent = @ \cup {id}]
  /\ UNCHANGED catalog

OptionsNext ==
  \/ Next /\ UNCHANGED options
  \/ \E id \in Capture : Publish(id) \/ PublishFails(id)

OptionsSpec == OptionsInit /\ [][OptionsNext]_optionVars

(***************************************************************************)
(* Reading: one capture, the last completed of those visible, and of it the *)
(* members that are visible themselves.                                     *)
(***************************************************************************)
Candidates(s, key, feed, cutoff, policy) ==
  {id \in s.captures : /\ Surface[id].underlying = key /\ Surface[id].feed = feed
                       /\ Visible(Surface[id], cutoff, policy)}

\* capture_id orders captures that were completed at one time.
Selected(ids) ==
  CHOOSE id \in ids : \A x \in ids : Surface[x].completed <= Surface[id].completed

AnsweredInputs(c, cutoff, policy) ==
  {d \in Dependencies(c) \cup c.inputs.expiries :
     d.state # "none" /\ Visible(d, cutoff, policy)}

BarVersions(s, key, id) == {n \in DOMAIN s.bars[key] : s.bars[key][n].capture = id}

StoredBars(s, id, r) ==
  UNION {{[key |-> key, sequence |-> n, bar |-> s.bars[key][n].bar] : n \in BarVersions(s, key, id)} :
           key \in {x \in DOMAIN s.bars : x[1] = r.contract}}

AnsweredRows(s, id, cutoff, policy) ==
  {[state |-> r.state, contract |-> s.contracts[r.contract],
    interest |-> Visible(r.interest, cutoff, policy), close |-> Visible(r.close, cutoff, policy),
    bars |-> {b \in StoredBars(s, id, r) : Visible(b.bar, cutoff, policy)}] :
     r \in {x \in Surface[id].surface :
              Visible(x, cutoff, policy) /\ Visible(s.contracts[x.contract], cutoff, policy)}}

GetCapture(s, key, feed, cutoff, policy) ==
  LET ids == Candidates(s, key, feed, cutoff, policy)
      id == Selected(ids)
  IN  IF ids = {} THEN [capture |-> "none"]
      ELSE [capture |-> id, inputs |-> AnsweredInputs(Surface[id], cutoff, policy),
            surface |-> AnsweredRows(s, id, cutoff, policy)]

-----------------------------------------------------------------------------
Cohorts == {[key |-> Surface[id].underlying, feed |-> Surface[id].feed] : id \in Capture}

InputMembers(c) == {d \in Dependencies(c) \cup c.inputs.expiries : d.state # "none"}

Members(c) ==
  c.contracts \cup c.surface \cup InputMembers(c)
    \cup UNION {r.bars \cup {r.interest, r.close} : r \in c.surface}

Times(c) == {c.available} \cup {m.available : m \in Members(c)}

ASSUME TimesAreTemporal ==
  Asked \subseteq Cutoff /\ \A id \in Capture : Times(Surface[id]) \subseteq Temporal

\* Days are written as the instants fall.
OneOffset(times) ==
  \A a, b \in {t \in times : t.precision = "datetime"} : a.instant <= b.instant => a.day <= b.day

DayIsOver(c, cutoff) ==
  c.available.precision = "date" /\ cutoff.precision = "datetime" => c.available.day < cutoff.day

\* What was read of a cohort as of a cutoff does not change when captures are
\* published that were not available then, though they share its contracts and
\* supersede its bars.
OptionsAsOfStable ==
  [][\A id \in options'.captures \ options.captures, x \in Cohorts, cutoff \in Asked,
       policy \in Policy :
       ~Visible(Surface[id], cutoff, policy) =>
         GetCapture(options', x.key, x.feed, cutoff, policy)
           = GetCapture(options, x.key, x.feed, cutoff, policy)]_optionVars

\* By calendar days a capture is read whole or not at all: no answer has a
\* derived input without the quote, or a row without its contract, because a
\* member of a capture may be published later than the capture says.  That is
\* so once a capture that says only its day is over, and among times that are
\* written with one offset.
CaptureReadWhole ==
  \A x \in Cohorts, cutoff \in Asked :
    LET answer == GetCapture(options, x.key, x.feed, cutoff, "calendar_date_inclusive")
        c == Surface[answer.capture]
    IN  answer.capture # "none" /\ DayIsOver(c, cutoff) /\ OneOffset(Times(c) \cup {cutoff}) =>
          /\ answer.inputs = InputMembers(c)
          /\ Cardinality(answer.surface) = Cardinality(c.surface)
          /\ \A r \in answer.surface : r.interest /\ r.close
          /\ Cardinality(UNION {r.bars : r \in answer.surface}) = Cardinality(BarKeys(c))
=============================================================================

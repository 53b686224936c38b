------------------------------ MODULE Company ------------------------------
(***************************************************************************)
(* The company store (company/stage4_importer.py, stage4_repository.py).    *)
(* A reviewed capture is of one family: SEC records, corporate actions with *)
(* the SEC records they need, or earnings.  It names the issuers it speaks  *)
(* of and is published in one coordinated run, whole or not at all.         *)
(* Everything said of a key is a version chain; chains[key] is the chain.   *)
(***************************************************************************)
EXTENDS Versions, FiniteSets, Functions

CONSTANTS CompanyCapture,  \* identities of the reviewed captures
          Filed,           \* what each one says
          CompanyCutoff    \* the cutoffs that are asked

VARIABLE company

(***************************************************************************)
(* Parsing.                                                                 *)
(***************************************************************************)
Issuers(c) == {i.key : i \in c.issuers}
LinksOf(c) == UNION {{Overlay([issuer |-> i.key], k) : k \in i.links} : i \in c.issuers}

\* A capture is a document: it lists so many of everything, and its facts in
\* an order.
ASSUME FiledIsFinite ==
  \A id \in CompanyCapture : LET c == Filed[id] IN
    /\ IsFiniteSet(c.issuers) /\ IsFiniteSet(LinksOf(c)) /\ IsFiniteSet(c.facts)
    /\ IsFiniteSet(c.actions) /\ IsFiniteSet(c.events)
    /\ IsFiniteSet(c.expectations) /\ IsFiniteSet(c.guidance)
    /\ {f.row : f \in c.facts} = 1 .. Cardinality(c.facts)

\* The securities of the same issuer whose interval covers the symbol's.
Covering(c, k) ==
  {s \in LinksOf(c) : s.kind = "security" /\ s.issuer = k.issuer
                      /\ s.from <= k.from /\ k.to <= s.to}

SecurityOf(c, k) == (CHOOSE s \in Covering(c, k) : TRUE).name
SymbolLinks(c) == {k \in LinksOf(c) : k.kind # "security"}

LinksParse(c) ==
  /\ IsInjective([i \in c.issuers |-> i.key])
  /\ \A k \in LinksOf(c) :
       /\ k.kind \in {"ticker", "security", "provider_symbol"}
       /\ k.from <= k.to /\ Exact(k.available)
  /\ \A a, b \in LinksOf(c) : a # b /\ a.kind = b.kind /\ a.name = b.name => ~Overlap(a, b)

\* One provider symbol cannot resolve to overlapping issuers or securities.
SymbolsParse(c) ==
  /\ \A k \in SymbolLinks(c) : Cardinality(Covering(c, k)) = 1
  /\ \A a, b \in SymbolLinks(c) :
       a.name = b.name /\ Overlap(a, b) =>
         a.issuer = b.issuer /\ SecurityOf(c, a) = SecurityOf(c, b)

FilingsParse(c) ==
  /\ IsInjective([f \in c.filings |-> f.accession])
  /\ \A f \in c.filings : f.first \in Range(f.issuers) /\ Exact(f.available)

\* A mapping, and the mapping a fact asks for, is found by its version and by
\* its concept, which here is one of a taxonomy in a unit.
MappingKey(x) == <<x.version, x.concept>>

MappingsParse(c) ==
  /\ IsInjective([p \in c.mappings |-> MappingKey(p)])
  /\ \A p, q \in c.mappings : p.metric = q.metric => p.label = q.label /\ p.kind = q.kind

FactKey(f) == <<"fact", f.issuer, f.concept, f.period, f.accession>>

\* A fact's issuer is one of its filing's, when the filing is of this capture;
\* so is the issuer of guidance.
InLocalFiling(c, r) == \A f \in c.filings : f.accession = r.accession => r.issuer \in Range(f.issuers)

FactsParse(c) ==
  /\ IsInjective([f \in c.facts |-> FactKey(f)])
  /\ \A f \in c.facts : Exact(f.available) /\ InLocalFiling(c, f)

\* Actions and earnings were not available before this capture was made.
ActionsParse(c) ==
  /\ IsInjective([a \in c.actions |-> a.event])
  /\ \A a \in c.actions : a.available = c.captured

EventsParse(c) ==
  /\ IsInjective([e \in c.events |-> e.event])
  /\ \A e \in c.events : e.available = c.captured

EventsOfSlot(c, x) == {e.event : e \in {v \in c.events : v.issuer = x.issuer /\ v.date = x.date}}

\* An expectation names its event where several share the date.
ExpectationsParse(c) ==
  /\ IsInjective([x \in c.expectations |-> <<x.issuer, x.metric, x.period>>])
  /\ \A x \in c.expectations :
       /\ x.available = c.captured
       /\ IF x.event = "none" THEN Cardinality(EventsOfSlot(c, x)) <= 1
          ELSE EventsOfSlot(c, x) # {} => x.event \in EventsOfSlot(c, x)

GuidanceParses(c) ==
  /\ IsInjective([g \in c.guidance |-> <<g.issuer, g.metric, g.period>>])
  /\ \A g \in c.guidance : g.available = c.captured /\ InLocalFiling(c, g)

Records(c) == c.facts \cup c.actions \cup c.events \cup c.expectations \cup c.guidance

ReferencesResolve(c) ==
  {r.issuer : r \in Records(c)} \cup UNION {Range(f.issuers) : f \in c.filings} \subseteq Issuers(c)

\* The families are told apart by what they may not contain.
FamilyHolds(c) ==
  /\ c.complete
  /\ c.family \in {"sec", "actions"} => c.events \cup c.expectations \cup c.guidance = {}
  /\ c.family = "sec" => c.actions = {}
  /\ c.family = "earnings" => c.filings \cup c.facts \cup c.mappings \cup c.actions = {}

CompanyParses(c) ==
  /\ FamilyHolds(c) /\ LinksParse(c) /\ FilingsParse(c) /\ MappingsParse(c) /\ FactsParse(c)
  /\ ActionsParse(c) /\ EventsParse(c) /\ ExpectationsParse(c) /\ GuidanceParses(c)
  /\ ReferencesResolve(c) /\ SymbolsParse(c)

(***************************************************************************)
(* Writing.  A snapshot is what one capture says of one issuer; the chains  *)
(* compare it with the rest, so that a new capture is always a new version, *)
(* except of a name and of a link.                                          *)
(***************************************************************************)
Snapshot(id, issuer) == <<id, issuer>>

LinkKey(c, k) == <<"link", k.issuer, k.name, SecurityOf(c, k), k.from, k.to>>
Assertions(s) == {key \in DOMAIN s.chains : key[1] = "link"}

\* _assert_symbol_not_overlapping_other_issuer
SymbolFree_Exact(s, k) ==
  \A key \in Assertions(s) : key[3] = k.name /\ key[5] = k.from => key[2] = k.issuer
SymbolFree(s, k) ==
  \A key \in Assertions(s) :
    key[3] = k.name /\ Overlap([from |-> key[5], to |-> key[6]], k) => key[2] = k.issuer

IssuerEntries(c) ==
  {[key |-> <<"issuer", i.key>>, version |-> [name |-> i.name, available |-> i.available]] :
     i \in c.issuers}

LinkEntries(c) ==
  {[key |-> LinkKey(c, k),
    version |-> [confidence |-> k.confidence, available |-> k.available]] : k \in SymbolLinks(c)}

\* A mapping is stored under its metric too, so that one concept may be mapped
\* to several metrics by several captures, and all of these stand.
MappingStored(p) ==
  [version |-> p.version, concept |-> p.concept, metric |-> p.metric, label |-> p.label, unit |-> p.unit]

WithMappings(s, c) == s.mappings \cup {MappingStored(p) : p \in c.mappings}

\* Of a metric the first definition stands.
MetricHeld(s, c, p) ==
  \A q \in WithMappings(s, c) : q.metric = p.metric => q.label = p.label /\ q.unit = p.unit

\* _lookup_mapping takes the first row that comes, in no order it asks for; the
\* facts of a publication that ask for the same get the same.
Matching(s, c, f) == {p \in WithMappings(s, c) : MappingKey(p) = MappingKey(f)}

Lookups(s, c) ==
  {found \in [{MappingKey(f) : f \in c.facts} -> WithMappings(s, c)] :
     \A f \in c.facts : found[MappingKey(f)] \in Matching(s, c, f)}

\* A stored filing has the metadata of the first capture of it, and its
\* snapshot too.
FilingStored(id, f) == [said |-> f, snapshot |-> Snapshot(id, f.first)]
FilingHeld(s, id, f) == f.accession \in DOMAIN s.filings => s.filings[f.accession] = FilingStored(id, f)

\* The rows of a filing are numbered over its issuers, and a snapshot, which
\* is of one issuer, has one filing with a number.
FilingRowsFree(c) ==
  \A f, g \in c.filings : \A n \in (DOMAIN f.issuers) \cap (DOMAIN g.issuers) :
    f # g => f.issuers[n] # g.issuers[n]

WithFilings(s, id, c) ==
  Overlay([a \in {f.accession : f \in c.filings} |->
             FilingStored(id, CHOOSE f \in c.filings : f.accession = a)], s.filings)

\* The view over all snapshots, which the triggers on facts and guidance ask.
FilingIssuers(filings, accession) ==
  IF accession \in DOMAIN filings THEN Range(filings[accession].said.issuers) ELSE {}

FundamentalKey(mapping, f) == <<"fundamental", f.issuer, mapping.metric, f.period>>

FactEntry(id, mapping, f) ==
  [fact |-> FactKey(f), fundamental |-> FundamentalKey(mapping, f), mapping |-> mapping,
   said |-> [value |-> f.value, available |-> f.available, snapshot |-> Snapshot(id, f.issuer)]]

\* What entry e says of its fundamental, with the nth version of its fact.
Fundamental(e, n) ==
  [value |-> e.said.value, available |-> e.said.available, snapshot |-> e.said.snapshot,
   fact |-> <<e.fact, n>>, mapping |-> e.mapping]

\* The fundamental of a metric and period follows its facts, of whichever
\* filing; it is of the fact version that was appended with it.
SayFact_FirstVersion(chains, e) ==
  LET held == Extended(chains, e.fact, e.said) IN Extended(held, e.fundamental, Fundamental(e, 1))

SayFact(chains, e) ==
  LET held == Extended(chains, e.fact, e.said)
  IN  Extended(held, e.fundamental, Fundamental(e, Len(held[e.fact])))

SecWrites(s, id, c) ==
  /\ \A k \in SymbolLinks(c) : SymbolFree(s, k)
  /\ \A p \in c.mappings : MetricHeld(s, c, p)
  /\ \A f \in c.filings : FilingHeld(s, id, f)
  /\ FilingRowsFree(c)
  /\ \A f \in c.facts : /\ Matching(s, c, f) # {}
                        /\ f.issuer \in FilingIssuers(WithFilings(s, id, c), f.accession)

\* source_fact_key orders the facts of a capture; row is the place of one.
FactEntries(id, c, found) ==
  [n \in 1 .. Cardinality(c.facts) |->
     LET fact == CHOOSE f \in c.facts : f.row = n
     IN  FactEntry(id, found[MappingKey(fact)], fact)]

WithSec(s, id, c, found) ==
  LET said == ExtendedAll(s.chains, SetToSeq(IssuerEntries(c) \cup LinkEntries(c)))
  IN  [s EXCEPT !.issuers = @ \cup Issuers(c),
                !.mappings = WithMappings(s, c),
                !.filings = WithFilings(s, id, c),
                !.chains = FoldLeft(SayFact, said, FactEntries(id, c, found))]

ActionEntries(id, c) ==
  {[key |-> <<"action", a.issuer, a.event>>,
    version |-> [value |-> a.value, available |-> a.available,
                 snapshot |-> Snapshot(id, a.issuer)]] : a \in c.actions}

ConsensusEntries(id, c) ==
  {[key |-> <<"consensus", x.issuer, x.metric, x.period>>,
    version |-> [value |-> x.value, available |-> x.available,
                 snapshot |-> Snapshot(id, x.issuer)]] : x \in c.expectations}

EventEntries(id, c) ==
  {[key |-> <<"event", e.issuer, e.event>>,
    version |-> [value |-> e.value, available |-> e.available,
                 snapshot |-> Snapshot(id, e.issuer)]] : e \in c.events}

GuidanceEntries(id, c) ==
  {[key |-> <<"guidance", g.issuer, g.metric, g.period>>,
    version |-> [value |-> g.value, available |-> g.available,
                 snapshot |-> Snapshot(id, g.issuer)]] : g \in c.guidance}

\* Earnings are of issuers that SEC evidence has made known.
EarningsWrite(s, c) ==
  /\ {r.issuer : r \in c.events \cup c.expectations \cup c.guidance} \subseteq s.issuers
  /\ \A g \in c.guidance : g.accession # "none" => g.issuer \in FilingIssuers(s.filings, g.accession)

CompanyWrites(s, id, c) ==
  IF c.family = "earnings" THEN EarningsWrite(s, c) ELSE SecWrites(s, id, c)

CompanyWritten(s, id, c, found) ==
  LET base == IF c.family = "earnings" THEN s ELSE WithSec(s, id, c, found)
      rest == ActionEntries(id, c) \cup ConsensusEntries(id, c) \cup EventEntries(id, c)
                \cup GuidanceEntries(id, c)
  IN  [base EXCEPT !.chains = ExtendedAll(@, SetToSeq(rest)), !.published = @ \cup {id}]

EmptyCompany ==
  [issuers |-> {}, mappings |-> {}, filings |-> << >>, chains |-> << >>,
   published |-> {}, spent |-> {}]

CompanyInit == company = EmptyCompany

CompanyAwaits(id) ==
  CompanyParses(Filed[id]) /\ id \notin company.published \cup company.spent

CompanyPublish(id) ==
  /\ CompanyAwaits(id)
  /\ CompanyWrites(company, id, Filed[id])
  /\ \E found \in Lookups(company, Filed[id]) :
       company' = CompanyWritten(company, id, Filed[id], found)

CompanyFails(id) ==
  /\ CompanyAwaits(id)
  /\ ~CompanyWrites(company, id, Filed[id])
  /\ company' = [company EXCEPT !.spent = @ \cup {id}]

CompanyNext == \E id \in CompanyCapture : CompanyPublish(id) \/ CompanyFails(id)

(***************************************************************************)
(* Reading.                                                                 *)
(***************************************************************************)
KeysOf(s, kind, issuer) == {key \in DOMAIN s.chains : key[1] = kind /\ key[2] = issuer}

Told(s, kinds, issuer, cutoff, policy) ==
  Answered(s.chains, UNION {KeysOf(s, kind, issuer) : kind \in kinds}, cutoff, policy)

\* An issuer without a visible name is not answered, nor are its links.
GetIssuer(s, issuer, cutoff, policy) ==
  IF Told(s, {"issuer"}, issuer, cutoff, policy) = {} THEN {}
  ELSE Told(s, {"issuer", "link"}, issuer, cutoff, policy)

GetFilings(s, issuer, cutoff, policy) ==
  {a \in DOMAIN s.filings : issuer \in FilingIssuers(s.filings, a)
                            /\ Visible(s.filings[a].said, cutoff, policy)}

GetFundamentals(s, issuer, cutoff, policy) == Told(s, {"fundamental"}, issuer, cutoff, policy)
GetCorporateActions(s, issuer, cutoff, policy) == Told(s, {"action"}, issuer, cutoff, policy)
GetEarnings(s, issuer, cutoff, policy) ==
  Told(s, {"consensus", "event", "guidance"}, issuer, cutoff, policy)

CompanyView(s, issuer, cutoff, policy) ==
  <<GetIssuer(s, issuer, cutoff, policy), GetFilings(s, issuer, cutoff, policy),
    GetFundamentals(s, issuer, cutoff, policy), GetCorporateActions(s, issuer, cutoff, policy),
    GetEarnings(s, issuer, cutoff, policy)>>

-----------------------------------------------------------------------------
\* What a capture says in its rows was available at some time; the rows that
\* were not available by a cutoff may not change what was read as of it.
CompanySays(c) ==
  c.issuers \cup LinksOf(c) \cup c.filings \cup Records(c)

CompanyAsOfStable ==
  [][\A id \in company'.published \ company.published, cutoff \in CompanyCutoff, policy \in Policy :
       (\A r \in CompanySays(Filed[id]) : ~Visible(r, cutoff, policy)) =>
         \A issuer \in company'.issuers :
           CompanyView(company', issuer, cutoff, policy) = CompanyView(company, issuer, cutoff, policy)
    ]_company

\* On any day a provider symbol is one issuer's, whatever was asserted of it
\* in however many captures.
SymbolOneIssuer ==
  \A a, b \in Assertions(company) :
    a[3] = b[3] /\ Overlap([from |-> a[5], to |-> a[6]], [from |-> b[5], to |-> b[6]]) =>
      a[2] = b[2]

\* A fundamental says what its fact says, of an issuer of a filing the store
\* has, and stands under the metric of a stored mapping of that fact's concept,
\* though facts, filings and mappings come in different captures, later ones
\* correct the facts and map the concept to other metrics.  That the mapping is
\* of the concept only the lookup ensures: the table's triggers do not ask.
FundamentalRests ==
  \A key \in DOMAIN company.chains : key[1] = "fundamental" =>
    \A n \in DOMAIN company.chains[key] :
      LET v == company.chains[key][n]
          fact == company.chains[v.fact[1]][v.fact[2]]
      IN  /\ [value |-> v.value, available |-> v.available, snapshot |-> v.snapshot] = fact
          /\ key[2] \in FilingIssuers(company.filings, v.fact[1][5])
          /\ v.mapping \in company.mappings
          /\ v.mapping.metric = key[3] /\ v.mapping.concept = v.fact[1][3]

=============================================================================

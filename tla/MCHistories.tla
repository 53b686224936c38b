------------------------------ MODULE MCHistories ------------------------------
(***************************************************************************)
(* Small stores and a few reviewed captures, batches and answers for each,  *)
(* with all that can go wrong between them.  Days are 1 to 4 and instants   *)
(* ten to a day.                                                            *)
(***************************************************************************)
EXTENDS Histories

Cutoffs == {OnDay(2), OnDay(3), AtInstant(3, 32), AtInstant(3, 35), AtInstant(4, 45)}

(***************************************************************************)
(* Company.  adds names a second filing, of two issuers, and restates a     *)
(* fact; remaps maps the concept to another metric too and restates the     *)
(* fact; redefines says something else of a metric; takes has another       *)
(* issuer with the symbol of the first; moves gives the symbol another      *)
(* security.                                                                *)
(***************************************************************************)
Link(kind, name, from, to, day) ==
  [kind |-> kind, name |-> name, from |-> from, to |-> to,
   confidence |-> "confirmed", available |-> OnDay(day)]

IssuerOf(key, name, links, day) == [key |-> key, name |-> name, links |-> links, available |-> OnDay(day)]

Acme(day, security) ==
  IssuerOf("acme", "Acme", {Link("ticker", "ACM", 1, 3, day), Link("security", security, 1, 4, day)}, day)
Bolt(links, day) == IssuerOf("bolt", "Bolt", links, day)

Filing(accession, issuers, day) ==
  [accession |-> accession, issuers |-> issuers, first |-> Head(issuers), available |-> OnDay(day)]

Fact(accession, value, row, available) ==
  [issuer |-> "acme", version |-> "m1", concept |-> "rev", period |-> 1, accession |-> accession,
   value |-> value, row |-> row, available |-> available]

Maps(metric, label) ==
  [version |-> "m1", concept |-> "rev", metric |-> metric, label |-> label,
   kind |-> "duration", unit |-> "usd"]

Sec(issuers, filings, facts) ==
  [family |-> "sec", complete |-> TRUE, captured |-> AtInstant(4, 40), issuers |-> issuers,
   filings |-> filings, mappings |-> {}, facts |-> facts, actions |-> {}, events |-> {},
   expectations |-> {}, guidance |-> {}]

At35 == AtInstant(3, 35)
Record(extra) == [issuer |-> "acme", value |-> "v", available |-> At35] @@ extra

MCFiled ==
  "first" :> [Sec({Acme(2, "stock")}, {Filing("a1", <<"acme">>, 2)}, {Fact("a1", "v1", 1, OnDay(2))})
                EXCEPT !.mappings = {Maps("revenue", "Revenue")}]
  @@ "adds" :> Sec({Acme(3, "stock"), Bolt({}, 3)}, {Filing("a2", <<"acme", "bolt">>, 3)},
                   {Fact("a1", "v2", 1, At35), Fact("a2", "v3", 2, AtInstant(3, 32))})
  @@ "remaps" :> [Sec({Acme(3, "stock")}, {}, {Fact("a1", "v4", 1, AtInstant(4, 41))})
                    EXCEPT !.mappings = {Maps("sales", "Sales")}]
  @@ "redefines" :> [Sec({Acme(3, "stock")}, {}, {}) EXCEPT !.mappings = {Maps("revenue", "Turnover")}]
  @@ "takes" :> Sec({Bolt({Link("ticker", "ACM", 2, 4, 3), Link("security", "bond", 1, 4, 3)}, 3)}, {}, {})
  @@ "moves" :> Sec({Acme(3, "newstock")}, {}, {})
  @@ "dividend" :> [Sec({[Acme(3, "stock") EXCEPT !.name = "Acme2", !.available = At35]}, {}, {})
                      EXCEPT !.family = "actions", !.captured = At35,
                             !.actions = {Record([event |-> "div"])}]
  @@ "results" :> [Sec({[Acme(3, "stock") EXCEPT !.links = {}]}, {}, {})
                     EXCEPT !.family = "earnings", !.captured = At35,
                            !.events = {Record([event |-> "q1", date |-> 3])},
                            !.expectations = {Record([metric |-> "eps", period |-> 1, date |-> 3, event |-> "none"])},
                            !.guidance = {Record([metric |-> "eps", period |-> 2, accession |-> "a2"])}]
MCCompanyCapture == DOMAIN MCFiled

(***************************************************************************)
(* News.  An item is reported, changed and retracted, and listed again with *)
(* new content and with its old.                                            *)
(***************************************************************************)
Present == {[state |-> "present", name |-> "x"]}
Labels == [kind \in LabelKinds |-> IF kind = "lanes" THEN {[state |-> "missing", name |-> "-"]} ELSE Present]
Story(id, text, state) ==
  [id |-> id, kind |-> "article", content |-> [state |-> "present", text |-> text, terms |-> {text}],
   state |-> state, reason |-> IF state = "active" THEN "none" ELSE "withdrawn", labels |-> Labels]
Captured(instant, items) ==
  [source |-> "wire", captured |-> AtInstant(3, instant), complete |-> TRUE, items |-> items]

MCReported ==
  "report" :> Captured(31, {Story("n1", "old", "active"), Story("n2", "other", "active")})
  @@ "change" :> Captured(32, {Story("n1", "new", "active")})
  @@ "retract" :> Captured(33, {Story("n1", "new", "retracted")})
  @@ "restore" :> Captured(35, {Story("n1", "old", "active")})
  @@ "reword" :> Captured(36, {Story("n1", "newer", "active")})
MCNewsSnapshot == DOMAIN MCReported

(***************************************************************************)
(* Macro.  Retail sales of two areas in two releases, a correction, an      *)
(* omission and a late older release; and a capture of each other family.   *)
(***************************************************************************)
Series(id) == [id |-> id, unit |-> "u"]
Release(vintage, order, available) ==
  [vintage |-> vintage, order |-> order, first |-> order = 1,
   evidence |-> IF order = 1 THEN "stated" ELSE "none", stage |-> "final", available |-> available]
Seen(series, area, value, vintage) ==
  [series |-> series, period |-> 1, area |-> area, value |-> value, vintage |-> vintage]
Captures(family, series, releases, observations) ==
  [family |-> family, complete |-> TRUE, series |-> {Series(x) : x \in series}, releases |-> releases,
   observations |-> observations, rows |-> {}]
Retail(area, release, observations) ==
  Captures("eia_retail", {"sales", "price"}, {release}, observations)
    @@ [retail |-> [area |-> area, period |-> 1, pages |-> <<Cardinality(observations)>>]]
Projects(key, value, binds) == [key |-> key, value |-> value, binds |-> binds]

MCObserved ==
  "both" :> Retail("TX", Release("r1", 1, OnDay(2)), {Seen("sales", "TX", "1", "r1"), Seen("price", "TX", "1", "r1")})
  @@ "other" :> Retail("CA", Release("r1", 1, OnDay(2)), {Seen("sales", "CA", "1", "r1")})
  @@ "corrects" :> Retail("TX", Release("r1", 1, OnDay(3)), {Seen("sales", "TX", "2", "r1"), Seen("price", "TX", "1", "r1")})
  @@ "omits" :> Retail("TX", Release("r2", 2, AtInstant(3, 35)), {Seen("sales", "TX", "3", "r2")})
  @@ "redates" :> Retail("TX", [Release("r1", 3, OnDay(2)) EXCEPT !.first = FALSE], {Seen("sales", "TX", "9", "r1")})
MCMacroFamilies ==
  "gdp" :> [Captures("gdp", {"gdp"}, {Release("adv", 1, OnDay(2))}, {Seen("gdp", "US", "1", "adv")})
              EXCEPT !.rows = {Projects(<<"gdp", "adv">>, "advance", "adv")}]
  @@ "gdp2" :> [Captures("gdp", {"gdp"}, {Release("adv", 1, OnDay(2)), Release("sec", 2, OnDay(3))},
                        {Seen("gdp", "US", "1", "adv"), Seen("gdp", "US", "2", "sec")})
                  EXCEPT !.rows = {Projects(<<"gdp", "sec">>, "second", "sec")}]
  @@ "curve" :> [Captures("treasury", {"y10"}, {Release("d1", 1, OnDay(2))}, {Seen("y10", "US", "4", "d1")})
                   EXCEPT !.rows = {Projects(<<"curve", 1, "10y">>, "4", "y10")}]
  @@ "curve2" :> [Captures("treasury", {"y10"}, {Release("d1", 1, OnDay(3))}, {Seen("y10", "US", "5", "d1")})
                    EXCEPT !.rows = {Projects(<<"curve", 1, "10y">>, "5", "y10")}]
  @@ "rtdsm" :> Captures("rtdsm", {"rt"}, {Release("v1", 1, OnDay(2))}, {Seen("rt", "US", "1", "v1")})
  @@ "weekly" :> [Captures("eia_weekly", {"crude"}, {Release("w1", 1, OnDay(2))}, {Seen("crude", "US", "1", "w1")})
                    EXCEPT !.rows = {Projects(<<"weekly", "crude">>, "1", "crude")}]
MCAllObserved == MCObserved @@ MCMacroFamilies
MCMacroCapture == DOMAIN MCAllObserved

(***************************************************************************)
(* Batches.  drop leaves the index out and reclassifies the fund; rejoin    *)
(* brings it back for less; rebound changes a membership without ending it  *)
(* and clash gives another fund the symbol of the first: both are refused   *)
(* once base is in.                                                         *)
(***************************************************************************)
MCIndex == {[symbol |-> "^GSPC", name |-> "gspc"]}

Fund(key, from) ==
  [key |-> key, type |-> "etf", name |-> key,
   identifiers |-> {[symbol |-> "SPY", from |-> from, to |-> Forever, available |-> OnDay(2)]}]
Gspc ==
  [key |-> "gspc", type |-> "index", name |-> "gspc",
   identifiers |-> {[symbol |-> "^GSPC", from |-> 1, to |-> Forever, available |-> OnDay(2)]}]

Member(key, from, to) == [key |-> key, from |-> from, to |-> to]
Class(sector, day) == [key |-> "spy", from |-> 1, to |-> Forever, sector |-> sector, available |-> OnDay(day)]

Says(instruments, classes, members, authoritative, available) ==
  [kind |-> "universe_membership", instruments |-> instruments, classes |-> classes,
   manifest |-> {}, members |-> members, complete |-> authoritative,
   authoritative |-> authoritative, available |-> available]

MCContent ==
  "base" :> [Says({Fund("spy", 1), Gspc}, {Class("a", 2)},
                  {Member("spy", 1, Forever), Member("gspc", 1, Forever)}, TRUE, OnDay(2))
               EXCEPT !.manifest = MCIndex, !.kind = "catalog_and_universe"]
  @@ "drop" :> Says({Fund("spy", 1)}, {Class("b", 3)}, {Member("spy", 1, Forever)}, TRUE, AtInstant(3, 35))
  @@ "rejoin" :> Says({Gspc}, {}, {Member("gspc", 2, Forever)}, FALSE, OnDay(3))
  @@ "rebound" :> Says({Fund("spy", 1)}, {}, {Member("spy", 1, 2)}, FALSE, AtInstant(3, 36))
  @@ "clash" :> Says({Fund("other", 2)}, {}, {}, FALSE, OnDay(3))
MCBatch == DOMAIN MCContent

MCAsked == {OnDay(2), OnDay(3), AtInstant(3, 34), AtInstant(3, 35), AtInstant(3, 36), AtInstant(4, 40)}

(***************************************************************************)
(* Captures.  later supersedes the bar of first and adds one; expired says  *)
(* something else of a stored contract, and of its time only the day, on    *)
(* which its row comes late; torn has a bar that comes after it.            *)
(***************************************************************************)
Contract(id, status) ==
  [id |-> id, standard |-> id # "adjusted", detail |-> IF id = "adjusted" THEN "basket" ELSE "none",
   expiry |-> 5, status |-> status, available |-> OnDay(2)]
Said(state, at) == [state |-> state, available |-> at]
Row(id, bars, at) ==
  [contract |-> id, state |-> "present", available |-> at, interest |-> Said("present", at),
   close |-> Said("missing", at), bars |-> bars]
Out(id, at) == [Row(id, {}, at) EXCEPT !.state = "excluded", !.interest = Said("missing", at)]
At(start, value, at) == [start |-> start, value |-> value, available |-> at]

Inputs(at) ==
  [underlying |-> "present", quote |-> [state |-> "present", last |-> "s", available |-> at],
   curve |-> [state |-> "present", available |-> at,
              points |-> {[tenor |-> 30, rate |-> "r"], [tenor |-> 60, rate |-> "missing"]}],
   dividends |-> Said("present", at),
   expiries |-> {[expiry |-> 5, state |-> "present", spot |-> "s", rate |-> "r", available |-> at]}]
NoInputs(at) ==
  [underlying |-> "missing", quote |-> [state |-> "none"],
   curve |-> [state |-> "missing", points |-> {}, available |-> at],
   dividends |-> Said("missing", at), expiries |-> {[expiry |-> 5, state |-> "missing", available |-> at]}]

Cap(completed, available, contracts, surface, inputs) ==
  [underlying |-> "spy", feed |-> "opra", requested |-> completed, completed |-> completed,
   captured |-> 50, available |-> available, policy |-> "standard_only",
   contracts |-> contracts, surface |-> surface, inputs |-> inputs]

Call == Contract("call", "active")

MCSurface ==
  "first" :> Cap(31, AtInstant(3, 33), {Call, Contract("adjusted", "active")},
                 {Row("call", {At(1, "p", OnDay(3))}, AtInstant(3, 32)), Out("adjusted", AtInstant(3, 32))},
                 Inputs(OnDay(3)))
  @@ "later" :> Cap(34, AtInstant(3, 35), {Call},
                    {Row("call", {At(1, "p", AtInstant(3, 35)), At(2, "q", AtInstant(3, 35))}, AtInstant(3, 35))},
                    NoInputs(OnDay(3)))
  @@ "expired" :> Cap(36, OnDay(4), {Contract("call", "expired")}, {Row("call", {}, AtInstant(4, 45))}, NoInputs(OnDay(3)))
  @@ "torn" :> Cap(33, AtInstant(3, 34), {Call}, {Row("call", {At(1, "z", AtInstant(4, 40))}, AtInstant(3, 34))},
                   NoInputs(OnDay(3)))
MCCapture == DOMAIN MCSurface

(***************************************************************************)
(* Answers of the provider: three that can be used and two that cannot.     *)
(***************************************************************************)
Prices(a, b) ==
  <<[date |-> 1, price |-> a, consistent |-> TRUE], [date |-> 2, price |-> b, consistent |-> TRUE]>>
Answer(status, rows) == [status |-> status, rows |-> rows]
MCResponse ==
  {Answer(200, Prices(1, 1)), Answer(200, Prices(1, 2)), Answer(200, Prices(2, 1)),
   Answer(500, Prices(1, 1)), Answer(200, <<Prices(1, 1)[1]>>)}
===============================================================================

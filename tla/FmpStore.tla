------------------------------ MODULE FmpStore ------------------------------
(***************************************************************************)
(* The market store as the FMP daily-price importer writes it               *)
(* (market/fmp_daily_prices.py) and as the repopulation evidence reads it   *)
(* back (operations/repopulation.py).  One instrument, one reviewed set of  *)
(* trading dates.  A price stands for the five stored values of a bar, and  *)
(* the prices of a response are also its semantic identity: capture, run    *)
(* and snapshot are named after them, so the time of capture and the order  *)
(* of the rows are no part of it.                                           *)
(***************************************************************************)
EXTENDS Naturals, Sequences, FiniteSets

CONSTANTS Date,     \* FMP_EXPECTED_DATES
          None

EmptyMarket == [identity |-> None, captures |-> {}, failed |-> {},
                versions |-> [d \in Date |-> << >>], current |-> [d \in Date |-> 0]]

\* The transport's answer: status 200, JSON of the reviewed row shape, one row
\* with consistent prices for each date, in any order.
RowsComplete(rows) ==
  /\ Len(rows) = Cardinality(Date)
  /\ {rows[i].date : i \in DOMAIN rows} = Date
  /\ \A i \in DOMAIN rows : rows[i].consistent

Usable(response) == response.status = 200 /\ RowsComplete(response.rows)

SourceRow(response, d) == CHOOSE i \in DOMAIN response.rows : response.rows[i].date = d

Prices(response) == [d \in Date |-> response.rows[SourceRow(response, d)].price]

Candidate(response, at) ==
  [prices |-> Prices(response), at |-> at, row |-> [d \in Date |-> SourceRow(response, d)]]

\* A capture with these prices was published before: the run is unchanged.
Replayed(m, c) == \E k \in m.captures : k.prices = c.prices

\* The failure of a run spends its identity, and so that of its prices.
Spent(m, c) == c.prices \in m.failed

Bar(m, d) == m.versions[d][m.current[d]]

SameValues_EverSeen(m, c, d) == \E i \in DOMAIN m.versions[d] : m.versions[d][i].price = c.prices[d]
SameValues(m, c, d) == m.current[d] # 0 /\ Bar(m, d).price = c.prices[d]

Version(m, c, d) ==
  [price |-> c.prices[d], available |-> c.at, capture |-> c.prices, row |-> c.row[d],
   sequence |-> m.current[d] + 1, supersedes |-> m.current[d]]

\* The writer of publish_prepared, in one transaction.
Written(m, c) ==
  [m EXCEPT !.identity = IF @ = None THEN [at |-> c.at, run |-> c.prices] ELSE @,
            !.captures = @ \cup {[prices |-> c.prices, at |-> c.at]},
            !.versions = [d \in Date |-> IF SameValues(m, c, d) THEN @[d]
                                         ELSE Append(@[d], Version(m, c, d))],
            !.current = [d \in Date |-> IF SameValues(m, c, d) THEN @[d]
                                        ELSE Len(m.versions[d]) + 1]]

FailedRun(m, c) == [m EXCEPT !.failed = @ \cup {c.prices}]

(***************************************************************************)
(* What repopulation.py reads back.                                         *)
(***************************************************************************)
Lineage(history) ==
  \A i \in DOMAIN history : history[i].sequence = i /\ history[i].supersedes = i - 1

\* _validated_version_row: a version carries the time of the capture it names.
Bound(m, v) == \E k \in m.captures : k.prices = v.capture /\ k.at = v.available

BoundIdentity(m, k) == m.identity # None /\ m.identity.run = k.prices /\ m.identity.at = k.at

PointsAtNewest(m) == \A d \in Date : m.current[d] = Len(m.versions[d]) /\ m.current[d] # 0

\* _reconcile_rows: one capture, one version for each date, and the bars in the
\* database are the rows of the captured response.
Reconciles(m) ==
  \E k \in m.captures :
    /\ m.captures = {k}
    /\ BoundIdentity(m, k)
    /\ PointsAtNewest(m)
    /\ \A d \in Date : /\ Lineage(m.versions[d])
                       /\ \A i \in DOMAIN m.versions[d] : Bound(m, m.versions[d][i])
                       /\ Bar(m, d).price = k.prices[d]
    /\ Cardinality({Bar(m, d).row : d \in Date}) = Cardinality(Date)

CapturedPrices(m) == (CHOOSE k \in m.captures : TRUE).prices

\* _derive_correction_evidence: the source's capture and one more that changes
\* one date; that date has two versions, every other the first one.
Corrects(m, source) ==
  \E k \in m.captures, n \in m.captures :
    /\ m.captures = {k, n}
    /\ k.prices = source /\ n.prices # source
    /\ BoundIdentity(m, k)
    /\ \E day \in Date :
         /\ \A d \in Date : k.prices[d] = n.prices[d] <=> d # day
         /\ \A d \in Date : LET h == m.versions[d] IN
              /\ Lineage(h)
              /\ \A i \in DOMAIN h : Bound(m, h[i]) /\ h[i].price = h[i].capture[d]
              /\ Len(h) = IF d = day THEN 2 ELSE 1
              /\ h[1].capture = k.prices
              /\ d = day => h[2].capture = n.prices
    /\ PointsAtNewest(m)
=============================================================================

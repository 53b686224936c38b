------------------------------ MODULE FmpPrices ------------------------------
(***************************************************************************)
(* The FMP daily-price importer (FmpDailyPriceImporter): a response is      *)
(* fetched, checked and given its identities with no lock held, and is      *)
(* published later in one coordinated run.  Several prepared candidates may *)
(* wait at once and be published in any order, more than once, or never.    *)
(***************************************************************************)
EXTENDS FmpStore

CONSTANTS Importer,  \* importers, each with at most one candidate in hand
          Response,  \* what the provider may answer
          MaxClock   \* bound: captures made

VARIABLES fmp,       \* the fmp_* tables of the market store
          prepared,  \* the candidate each importer holds
          receipt,   \* the last receipt a caller was given
          clock      \* the time of the next capture

fmpVars == <<fmp, prepared, receipt, clock>>

Init ==
  /\ fmp = EmptyMarket
  /\ prepared = [i \in Importer |-> None]
  /\ receipt = None
  /\ clock = 1

\* A response that cannot be used raises, and nothing is kept of it.
Prepare(i) ==
  /\ clock <= MaxClock
  /\ \E r \in Response :
       prepared' = [prepared EXCEPT ![i] = IF Usable(r) THEN Candidate(r, clock) ELSE @]
  /\ clock' = clock + 1
  /\ UNCHANGED <<fmp, receipt>>

Publish(i) ==
  /\ prepared[i] # None
  /\ ~Spent(fmp, prepared[i])
  /\ receipt' = prepared[i]
  /\ fmp' = IF Replayed(fmp, prepared[i]) THEN fmp ELSE Written(fmp, prepared[i])
  /\ UNCHANGED <<prepared, clock>>

\* The writer raises: its transaction is rolled back, the failure recorded.
Fail(i) ==
  /\ prepared[i] # None
  /\ ~Spent(fmp, prepared[i]) /\ ~Replayed(fmp, prepared[i])
  /\ fmp' = FailedRun(fmp, prepared[i])
  /\ UNCHANGED <<prepared, receipt, clock>>

Next == \E i \in Importer : Prepare(i) \/ Publish(i) \/ Fail(i)

Spec == Init /\ [][Next]_fmpVars

\* The bars of the store are, all of them, those of one captured response: no
\* publication leaves a blend of two.
BarsAreOneCapture ==
  fmp.captures # {} =>
    /\ PointsAtNewest(fmp)
    /\ \E k \in fmp.captures : \A d \in Date : Bar(fmp, d).price = k.prices[d]

\* Each bar's history is numbered without a gap, every version names a capture
\* that says what the version says, and no version repeats the one before.
HistoryIsCaptured ==
  \A d \in Date : LET h == fmp.versions[d] IN
    /\ Lineage(h)
    /\ \A i \in DOMAIN h : Bound(fmp, h[i]) /\ h[i].price = h[i].capture[d]
    /\ \A i \in 2 .. Len(h) : h[i].price # h[i - 1].price

=============================================================================

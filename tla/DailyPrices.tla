---------------------------- MODULE DailyPrices ----------------------------
(***************************************************************************)
(* Daily prices of the market store: DailyPriceImporter.publish_prepared    *)
(* and the selections of DailyPriceRepository.                              *)
(*                                                                         *)
(* A prepared batch is published in one transaction of the ingestion        *)
(* coordinator (module Ingestion): it takes effect as a whole or leaves a   *)
(* failure record, and its content is never submitted again with effect.   *)
(* For every bar the prices of which have changed it appends a version that *)
(* supersedes the current one and moves the pointer of prices_daily.        *)
(* Readers select from one snapshot, by pointer (latest) or by what was     *)
(* available at a cutoff (as of).                                           *)
(*                                                                         *)
(* A provider symbol is bound to one reviewed instrument, and provider,     *)
(* price variant and currency are fixed: a bar is a symbol and a trade day. *)
(***************************************************************************)
EXTENDS Temporal, FiniteSets

CONSTANTS
  Symbol,    \* the bound provider symbols
  Day,       \* the trade days, integers
  Price,     \* what a bar says: open, high, low, close, volume
  Batch,     \* the prepared batches, one for each semantic identity
  Rows,      \* the rows of each: from bars to prices and availability
  Artifact,  \* the artifact id of each: of its bytes and its scope
  Asked,     \* the cutoffs readers ask for
  NoVersion  \* the version of a bar that has none

Bar == Symbol \X Day

(* Of any days there is a first one.                                       *)
ASSUME DayAssumption ==
  /\ Day \subseteq Int
  /\ \A D \in (SUBSET Day) \ {{}} : \E d \in D : \A e \in D : d <= e
ASSUME AskedAssumption == Asked \subseteq Cutoff
ASSUME RowsAssumption ==
  /\ DOMAIN Rows = Batch /\ DOMAIN Artifact = Batch
  /\ \A b \in Batch : DOMAIN Rows[b] # {} /\ DOMAIN Rows[b] \subseteq Bar
ASSUME RowAssumption ==
  \A b \in Batch : \A k \in DOMAIN Rows[b] :
    Rows[b][k].price \in Price /\ Rows[b][k].available \in Cutoff

VARIABLES
  ledger,       \* for each batch: no run, a succeeded or a failed one
  identifiers,  \* instrument_identifiers: a symbol and its valid_from
  versions,     \* prices_daily_versions
  current       \* prices_daily: the current version of each bar

priceVars == <<ledger, identifiers, versions, current>>

(* version_id is a digest of the semantic identity and the bar.            *)
VersionId == Batch \X Bar
Version == [id : VersionId, sequence : Nat, supersedes : VersionId \cup {NoVersion}]

ASSUME NoVersionAssumption == NoVersion \notin VersionId

PricesTypeOK ==
  /\ ledger \in [Batch -> {"none", "succeeded", "failed"}]
  /\ identifiers \subseteq [symbol : Symbol, from : Day]
  /\ versions \subseteq Version
  /\ current \in [Bar -> VersionId \cup {NoVersion}]

PricesInit ==
  /\ ledger = [b \in Batch |-> "none"]
  /\ identifiers = {}
  /\ versions = {}
  /\ current = [k \in Bar |-> NoVersion]

-----------------------------------------------------------------------------
(* Versions                                                                *)

OfBar(k) == {v \in versions : v.id[2] = k}
RowOf(v) == Rows[v.id[1]][v.id[2]]
CurrentVersion(k) == CHOOSE v \in versions : v.id = current[k]

(* _matches_current: the prices and the availability are those of the      *)
(* current version.                                                        *)
Matches(b, k) == current[k] # NoVersion /\ RowOf(CurrentVersion(k)) = Rows[b][k]

Changed(b) == {k \in DOMAIN Rows[b] : ~Matches(b, k)}

NewVersion(b, k) ==
  [id |-> <<b, k>>,
   sequence |-> IF current[k] = NoVersion THEN 1 ELSE CurrentVersion(k).sequence + 1,
   supersedes |-> current[k]]

-----------------------------------------------------------------------------
(* Defective variants of the definitions below.  Nothing uses them; each   *)
(* stands for a bug the checks have to notice when it takes the place of   *)
(* the definition it is a variant of.                                      *)

(* The pointer stays at the first version of a bar.                        *)
Repointed_Once(b) ==
  [k \in Bar |-> IF k \in Changed(b) /\ current[k] = NoVersion THEN <<b, k>> ELSE current[k]]

(* The last correction is taken, whenever it was available.                *)
Eligible_Head(k, c, policy) ==
  {v \in OfBar(k) : \A w \in OfBar(k) : w.sequence <= v.sequence}

-----------------------------------------------------------------------------
(* Identity (_ensure_instrument and the triggers on instrument_identifiers)*)

SymbolsOf(b) == {k[1] : k \in DOMAIN Rows[b]}

(* The rows are sorted by trade date: the first one of a symbol decides.   *)
FirstDay(b, s) ==
  CHOOSE d \in Day : /\ <<s, d>> \in DOMAIN Rows[b]
                     /\ \A k \in DOMAIN Rows[b] : k[1] = s => d <= k[2]

(* An identifier has no end: it holds on every day from its first one.     *)
Known(b, s) == \E i \in identifiers : i.symbol = s /\ i.from <= FirstDay(b, s)

(* A new interval that has no end overlaps every one of its symbol.        *)
Overlaps(s) == \E i \in identifiers : i.symbol = s

Identifiable(b) == \A s \in SymbolsOf(b) : Known(b, s) \/ ~Overlaps(s)

NewIdentifiers(b) ==
  {[symbol |-> s, from |-> FirstDay(b, s)] : s \in {s \in SymbolsOf(b) : ~Known(b, s)}}

-----------------------------------------------------------------------------
(* Publication                                                             *)

(* market_price_ingestion_requests has one row for an artifact.            *)
ArtifactTaken(b) == \E a \in Batch : ledger[a] = "succeeded" /\ Artifact[a] = Artifact[b]

Publishable(b) == ledger[b] = "none" /\ ~ArtifactTaken(b) /\ Identifiable(b)

Repointed(b) == [k \in Bar |-> IF k \in Changed(b) THEN <<b, k>> ELSE current[k]]

Publish(b) ==
  /\ Publishable(b)
  /\ ledger' = [ledger EXCEPT ![b] = "succeeded"]
  /\ identifiers' = identifiers \cup NewIdentifiers(b)
  /\ versions' = versions \cup {NewVersion(b, k) : k \in Changed(b)}
  /\ current' = Repointed(b)

(* The writer raises, or the store or an alarm does: the transaction is    *)
(* rolled back, and the failure record spends the run id of the content.   *)
PublishFails(b) ==
  /\ ledger[b] = "none"
  /\ ledger' = [ledger EXCEPT ![b] = "failed"]
  /\ UNCHANGED <<identifiers, versions, current>>

PricesNext == \E b \in Batch : Publish(b) \/ PublishFails(b)

PricesSpec == PricesInit /\ [][PricesNext]_priceVars

-----------------------------------------------------------------------------
(* Selection                                                               *)

(* _latest_rows: the version the pointer names.                            *)
Latest(k) == current[k]

Eligible(k, c, policy) == {v \in OfBar(k) : Included(RowOf(v).available, c, policy)}

(* _as_of_rows: of the eligible versions the one with the highest          *)
(* correction sequence.                                                    *)
AsOf(k, c, policy) ==
  IF Eligible(k, c, policy) = {} THEN NoVersion
  ELSE (CHOOSE v \in Eligible(k, c, policy) :
          \A w \in Eligible(k, c, policy) : w.sequence <= v.sequence).id

(* _query_instrument: the symbol resolves for a range that ends on day d.  *)
Resolves(s, d) == \E i \in identifiers : i.symbol = s /\ i.from <= d

-----------------------------------------------------------------------------
(* Properties                                                              *)

(* The versions of a bar are one chain, numbered 1, 2, 3 and so on, each    *)
(* superseding the one before it and saying something else; it ends in the *)
(* current version; and every version belongs to a run that succeeded.     *)
ChainSound ==
  \A k \in Bar :
    /\ current[k] = NoVersion <=> OfBar(k) = {}
    /\ {v.sequence : v \in OfBar(k)} = 1 .. Cardinality(OfBar(k))
    /\ \A v \in OfBar(k) :
         /\ ledger[v.id[1]] = "succeeded"
         /\ v.sequence = 1 <=> v.supersedes = NoVersion
         /\ v.sequence > 1 => \E w \in OfBar(k) : /\ w.id = v.supersedes
                                                  /\ w.sequence + 1 = v.sequence
                                                  /\ RowOf(w) # RowOf(v)
         /\ (\A w \in OfBar(k) : w.sequence <= v.sequence) => Latest(k) = v.id

(* Earlier answers do not change: what was to be seen of a bar at a cutoff *)
(* stays the same under every publication, unless it brings a row of this  *)
(* bar that was itself available at the cutoff (ADR 0004, INV-001).        *)
AsOfStable ==
  [][\A k \in Bar, c \in Asked, policy \in Policy :
       (\A b \in Batch :
          /\ ledger[b] # "succeeded" /\ ledger'[b] = "succeeded"
          /\ k \in DOMAIN Rows[b]
          => ~Included(Rows[b][k].available, c, policy))
       => AsOf(k, c, policy)' = AsOf(k, c, policy)]_priceVars

(* Every stored bar is found by its symbol: the symbol has one identifier, *)
(* so that no query is ambiguous, and it holds on the day of the bar.      *)
StoredIsReachable ==
  /\ \A i, j \in identifiers : i.symbol = j.symbol => i = j
  /\ \A v \in versions : Resolves(v.id[2][1], v.id[2][2])

=============================================================================

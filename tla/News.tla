-------------------------------- MODULE News --------------------------------
(***************************************************************************)
(* The news store (news/stage4_importer.py, stage4_repository.py).  A       *)
(* snapshot of a source lists items, each active or retracted, with labels. *)
(* Every listed item is a new version, known from when it was captured; an  *)
(* item that is not listed is left alone, however complete the snapshot.    *)
(***************************************************************************)
EXTENDS Versions, FiniteSets

CONSTANTS NewsSnapshot,  \* identities of the reviewed snapshots
          Reported,      \* what each one says
          NewsCutoff     \* the cutoffs that are asked

VARIABLE news

\* A snapshot is a document: it lists so many items.
ASSUME ReportedIsFinite == \A id \in NewsSnapshot : IsFiniteSet(Reported[id].items)

LabelKinds == {"symbols", "topics", "geographies", "lanes"}

(***************************************************************************)
(* Parsing.                                                                 *)
(***************************************************************************)
\* Labels of a kind are all present, or one label says they are missing.
LabelsParse(labels) ==
  /\ labels # {}
  /\ \A l \in labels : l.state \in {"present", "missing"}
  /\ (\E l \in labels : l.state = "missing") => Cardinality(labels) = 1

ContentParses(content) == content.state \in {"present", "missing"}

ItemParses(i) ==
  /\ ContentParses(i.content)
  /\ i.state \in {"active", "retracted"}
  /\ i.state = "retracted" <=> i.reason # "none"
  /\ \A kind \in LabelKinds : LabelsParse(i.labels[kind])

SnapshotParses(n) ==
  /\ n.items # {} /\ \A i, j \in n.items : i.id = j.id => i = j
  /\ n.captured.precision = "datetime"
  /\ \A i \in n.items : ItemParses(i)

(***************************************************************************)
(* Writing.                                                                 *)
(***************************************************************************)
ItemKey(n, i) == <<n.source, i.id>>

Versioned(n, i) ==
  [kind |-> i.kind, content |-> i.content, state |-> i.state, reason |-> i.reason,
   labels |-> i.labels, available |-> n.captured]

\* _content_identity: everything but the time of the capture.
SaysOf(v) == <<v.kind, v.content, v.state, v.reason, v.labels>>

Unseen(held, key) == History(held, key) = << >>

StartsActive(held, key, i) == Unseen(held, key) => i.state = "active"
KindKept(held, key, i) == ~Unseen(held, key) => Last(held[key]).kind = i.kind

\* No version of the item says what is said now, however long ago.
SaidNew(held, key, v) == \A n \in DOMAIN History(held, key) : SaysOf(held[key][n]) # SaysOf(v)

RetractedOnce(held, key, i) ==
  ~Unseen(held, key) /\ i.state = "retracted" => Last(held[key]).state # "retracted"

ItemWrites(held, n, i) ==
  LET key == ItemKey(n, i) IN
  /\ StartsActive(held, key, i) /\ KindKept(held, key, i)
  /\ SaidNew(held, key, Versioned(n, i)) /\ RetractedOnce(held, key, i)

ItemEntries(n) == {[key |-> ItemKey(n, i), version |-> Versioned(n, i)] : i \in n.items}

EmptyNews == [items |-> << >>, published |-> {}, spent |-> {}]

NewsInit == news = EmptyNews

NewsAwaits(id) == SnapshotParses(Reported[id]) /\ id \notin news.published \cup news.spent

NewsPublish(id) ==
  /\ NewsAwaits(id)
  /\ \A i \in Reported[id].items : ItemWrites(news.items, Reported[id], i)
  /\ news' = [news EXCEPT !.items = ExtendedAll(@, SetToSeq(ItemEntries(Reported[id]))),
                          !.published = @ \cup {id}]

NewsFails(id) ==
  /\ NewsAwaits(id)
  /\ \E i \in Reported[id].items : ~ItemWrites(news.items, Reported[id], i)
  /\ news' = [news EXCEPT !.spent = @ \cup {id}]

NewsNext == \E id \in NewsSnapshot : NewsPublish(id) \/ NewsFails(id)

(***************************************************************************)
(* Reading.  The full-text index only proposes versions; what is answered   *)
(* is selected as without it.                                               *)
(***************************************************************************)
GetItems(s, withRetracted, cutoff, policy) ==
  {a \in Answered(s.items, DOMAIN s.items, cutoff, policy) :
     withRetracted \/ a.version.state = "active"}

Matches(v, term) == term \in v.content.terms

\* The words that the items of the snapshots have.
NewsTerms == UNION {UNION {i.content.terms : i \in Reported[id].items} : id \in NewsSnapshot}

IndexedVersions(s, term) ==
  UNION {{[key |-> key, version |-> v] : v \in {x \in ToSet(s.items[key]) : Matches(x, term)}} :
           key \in DOMAIN s.items}

Search(s, term, cutoff, policy) ==
  GetItems(s, FALSE, cutoff, policy) \cap IndexedVersions(s, term)

-----------------------------------------------------------------------------
\* What was read or found of the items as of a cutoff stays when a snapshot
\* captured later is published, though the index has its versions from then on.
NewsAsOfStable ==
  [][\A id \in news'.published \ news.published, cutoff \in NewsCutoff, policy \in Policy :
       ~Visible([available |-> Reported[id].captured], cutoff, policy) =>
         /\ \A withRetracted \in BOOLEAN :
              GetItems(news', withRetracted, cutoff, policy) = GetItems(news, withRetracted, cutoff, policy)
         /\ \A term \in NewsTerms :
              Search(news', term, cutoff, policy) = Search(news, term, cutoff, policy)
    ]_news

=============================================================================

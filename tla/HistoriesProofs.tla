-------------------------- MODULE HistoriesProofs --------------------------
(***************************************************************************)
(* Proofs about Histories, for any captures, batches, importers and cutoffs.*)
(*                                                                         *)
(* What a reader is answered as of a cutoff rests on what the stores never *)
(* take back: a publication appends to version chains, after what was there.*)
(* The invariants say what the chains are and what each version rests on;  *)
(* each step is shown to continue the chains with entries that are as      *)
(* available as the capture says, so that an answer that sees none of them *)
(* is the one that was given before.  What continues the chains is also a  *)
(* step of the log that VersionLog promises.                               *)
(***************************************************************************)
EXTENDS Histories, FiniteSetTheorems, SequenceTheorems, TLAPS

(***************************************************************************)
(* Version chains.  Publishing says entries one after another, each of which*)
(* extends the chain of its key or repeats its newest version.              *)
(***************************************************************************)
Saying == INSTANCE Folding WITH Op <- Say

\* What a sequence of versions holds is of chains: functions from keys to
\* sequences.
SaidIn(held) == UNION {ToSet(held[key]) : key \in DOMAIN held}
AreChains(held) == held \in [DOMAIN held -> Seq(SaidIn(held))]

Chains(K, V) == UNION {[D -> Seq(V)] : D \in SUBSET K}

\* A later state of the chains: what was there, and after it what the entries
\* say.
SaidBy(entries, key, v) == \E e \in entries : e.key = key /\ e.version = v

Accounted(now, held, entries, key, n) ==
  IF n <= Len(History(held, key)) THEN now[key][n] = held[key][n]
  ELSE SaidBy(entries, key, now[key][n])

Continues(now, held, entries) ==
  /\ DOMAIN held \subseteq DOMAIN now
  /\ \A key \in DOMAIN now : key \in DOMAIN held \/ \E e \in entries : e.key = key
  /\ \A key \in DOMAIN now :
       /\ Len(History(held, key)) <= Len(now[key])
       /\ \A n \in DOMAIN now[key] : Accounted(now, held, entries, key, n)

LEMMA SetToSeqIsSeq ==
  ASSUME NEW S, IsFiniteSet(S)
  PROVE  /\ SetToSeq(S) \in Seq(S)
         /\ \A x \in S : \E n \in DOMAIN SetToSeq(S) : SetToSeq(S)[n] = x
<1> DEFINE N == Cardinality(S)
<1>1. N \in Nat /\ \E f : f \in Bijection(1 .. N, S)
  BY FS_CardinalityType DEF ExistsBijection
<1>2. PICK f : f \in Bijection(1 .. N, S)
  BY <1>1
<1>3. f \in [1 .. N -> S] /\ IsInjective(f)
  BY <1>2 DEF Bijection, Injection, IsInjective
<1>4. SetToSeq(S) \in [1 .. N -> S] /\ IsInjective(SetToSeq(S))
  BY <1>3 DEF SetToSeq
<1> DEFINE g == SetToSeq(S)
<1> HIDE DEF g
<1>5. g \in Injection(1 .. N, S)
  BY <1>4 DEF Injection, g, IsInjective
<1>6. IsFiniteSet(1 .. N) /\ Cardinality(1 .. N) = N
  BY <1>1, FS_Interval
<1>7. g \in Surjection(1 .. N, S)
  BY <1>5, <1>6, FS_Injection
<1>8. g \in Seq(S) /\ DOMAIN g = 1 .. N
  BY <1>1, <1>4 DEF g
<1> QED
  BY <1>7, <1>8 DEF Surjection, g

LEMMA ChainsOf ==
  ASSUME NEW held, AreChains(held), NEW K, NEW V, DOMAIN held \subseteq K, SaidIn(held) \subseteq V
  PROVE  held \in Chains(K, V)
<1>1. held = [key \in DOMAIN held |-> held[key]]
  BY DEF AreChains
<1>2. \A key \in DOMAIN held : held[key] \in Seq(V)
  BY DEF AreChains
<1>3. held \in [DOMAIN held -> Seq(V)] /\ DOMAIN held \in SUBSET K
  BY <1>1, <1>2
<1> QED
  BY <1>3 DEF Chains

LEMMA InChains ==
  ASSUME NEW K, NEW V, NEW held \in Chains(K, V)
  PROVE  AreChains(held) /\ DOMAIN held \subseteq K /\ SaidIn(held) \subseteq V
<1>1. PICK D \in SUBSET K : held \in [D -> Seq(V)]
  BY DEF Chains
<1>2. ASSUME NEW key \in DOMAIN held PROVE held[key] \in Seq(SaidIn(held))
  <2>1. held[key] \in Seq(V)
    BY <1>1
  <2>2. \A n \in 1 .. Len(held[key]) : held[key][n] \in SaidIn(held)
    BY <2>1 DEF SaidIn, ToSet
  <2> QED
    BY <2>1, <2>2
<1>3. SaidIn(held) \subseteq V
  BY <1>1 DEF SaidIn, ToSet
<1> QED
  BY <1>1, <1>2, <1>3 DEF AreChains

LEMMA HistoryIsSeq ==
  ASSUME NEW held, AreChains(held), NEW key
  PROVE  /\ History(held, key) \in Seq(SaidIn(held))
         /\ Len(History(held, key)) \in Nat
         /\ DOMAIN History(held, key) = 1 .. Len(History(held, key))
<1>1. History(held, key) \in Seq(SaidIn(held))
  BY DEF History, AreChains
<1> QED
  BY <1>1

\* What Extended does.
SaysOnce(now, held, key, v) ==
  \/ now = held /\ key \in DOMAIN held /\ held[key] # << >> /\ held[key][Len(held[key])] = v
  \/ now = [x \in DOMAIN held \cup {key} |->
              IF x = key THEN Append(History(held, key), v) ELSE held[x]]

LEMMA ExtendedOnce ==
  ASSUME NEW held, AreChains(held), NEW key, NEW v, NEW now, now = Extended(held, key, v)
  PROVE  SaysOnce(now, held, key, v)
<1>1. CASE History(held, key) # << >> /\ Last(held[key]) = v
  BY <1>1 DEF SaysOnce, Extended, History, Last
<1>2. CASE ~ (History(held, key) # << >> /\ Last(held[key]) = v)
  BY <1>2 DEF SaysOnce, Extended, Appended, Overlay
<1> QED
  BY <1>1, <1>2

LEMMA ExtendedIsChains ==
  ASSUME NEW held, AreChains(held), NEW key, NEW v, NEW now, now = Extended(held, key, v)
  PROVE  /\ AreChains(now) /\ SaidIn(now) \subseteq SaidIn(held) \cup {v}
         /\ DOMAIN now = DOMAIN held \cup {key}
<1> DEFINE h == History(held, key)  V == SaidIn(held) \cup {v}
<1>1. Append(h, v) \in Seq(V) /\ \A k \in DOMAIN held : held[k] \in Seq(V)
  <2>1. h \in Seq(SaidIn(held)) /\ \A k \in DOMAIN held : held[k] \in Seq(SaidIn(held))
    BY HistoryIsSeq DEF AreChains
  <2> QED
    BY <2>1
<1>2. CASE now = held /\ key \in DOMAIN held
  BY <1>2
<1>3. CASE now = [x \in DOMAIN held \cup {key} |-> IF x = key THEN Append(h, v) ELSE held[x]]
  <2> HIDE DEF h, V
  <2>1. now \in [DOMAIN held \cup {key} -> Seq(V)]
    BY <1>1, <1>3
  <2>2. now \in Chains(DOMAIN held \cup {key}, V)
    BY <2>1 DEF Chains
  <2>3. AreChains(now) /\ SaidIn(now) \subseteq V
    BY <2>2, InChains
  <2> QED
    BY <1>3, <2>3 DEF V
<1>4. SaysOnce(now, held, key, v)
  BY ExtendedOnce
<1> QED
  BY <1>2, <1>3, <1>4 DEF SaysOnce

LEMMA ExtendedContinues ==
  ASSUME NEW held, AreChains(held), NEW base, AreChains(base), NEW entries,
         NEW key, NEW v, Continues(held, base, entries), SaidBy(entries, key, v),
         NEW now, now = Extended(held, key, v)
  PROVE  Continues(now, base, entries)
<1>1. SaysOnce(now, held, key, v)
  BY ExtendedOnce
<1>2. CASE now = held
  BY <1>2
<1>3. CASE now = [x \in DOMAIN held \cup {key} |->
                   IF x = key THEN Append(History(held, key), v) ELSE held[x]]
  <2>1. ASSUME NEW k \in DOMAIN held, k # key
        PROVE  /\ Len(History(base, k)) <= Len(now[k])
               /\ \A n \in DOMAIN now[k] : Accounted(now, base, entries, k, n)
    <3>1. now[k] = held[k]
      BY <1>3, <2>1
    <3>2. /\ Len(History(base, k)) <= Len(held[k])
          /\ \A n \in DOMAIN held[k] : Accounted(held, base, entries, k, n)
      BY <2>1 DEF Continues
    <3> QED
      BY <3>1, <3>2 DEF Accounted
  <2>2. /\ Len(History(base, key)) <= Len(now[key])
        /\ \A n \in DOMAIN now[key] : Accounted(now, base, entries, key, n)
    <3> DEFINE h == History(held, key)  b == History(base, key)
    <3>1. /\ h \in Seq(SaidIn(held)) /\ DOMAIN h = 1 .. Len(h) /\ Len(h) \in Nat /\ Len(b) \in Nat
      BY HistoryIsSeq
    <3>2. Len(b) <= Len(h)
      <4>1. CASE key \in DOMAIN held
        BY <4>1 DEF Continues, History
      <4>2. CASE key \notin DOMAIN held
        <5>1. key \notin DOMAIN base
          BY <4>2 DEF Continues
        <5> QED
          BY <4>2, <5>1 DEF History
      <4> QED
        BY <4>1, <4>2
    <3>3. \A n \in DOMAIN h : /\ key \in DOMAIN held /\ n \in DOMAIN held[key]
                              /\ h[n] = held[key][n]
      BY DEF History
    <3>4. now[key] = Append(h, v) /\ h \in Seq(SaidIn(held) \cup {v})
      BY <1>3, <3>1
    <3> HIDE DEF h
    <3>5. /\ DOMAIN now[key] = DOMAIN h \cup {Len(h) + 1} /\ now[key][Len(h) + 1] = v
          /\ \A n \in DOMAIN h : now[key][n] = h[n]
          /\ Len(now[key]) = Len(h) + 1
      BY <3>1, <3>4
    <3>6. ASSUME NEW n \in DOMAIN h PROVE Accounted(now, base, entries, key, n)
      <4>1. /\ Accounted(held, base, entries, key, n)
            /\ now[key][n] = held[key][n]
        <5>1. key \in DOMAIN held /\ n \in DOMAIN held[key]
          BY <3>3, <3>6
        <5>2. Accounted(held, base, entries, key, n)
          BY <5>1 DEF Continues
        <5> QED
          BY <3>3, <3>5, <3>6, <5>2
      <4> QED
        BY <4>1 DEF Accounted
    <3>7. Accounted(now, base, entries, key, Len(h) + 1)
      <4>1. ~ (Len(h) + 1 <= Len(b))
        BY <3>1, <3>2
      <4> QED
        BY <3>5, <4>1 DEF Accounted
    <3> QED
      BY <3>1, <3>2, <3>5, <3>6, <3>7
  <2>3. DOMAIN now = DOMAIN held \cup {key} /\ DOMAIN base \subseteq DOMAIN now
    BY <1>3 DEF Continues
  <2>4. \A k \in DOMAIN now : k \in DOMAIN base \/ \E e \in entries : e.key = k
    BY <2>3 DEF Continues, SaidBy
  <2> QED
    BY <2>1, <2>2, <2>3, <2>4 DEF Continues
<1> QED
  BY <1>1, <1>2, <1>3 DEF SaysOnce

LEMMA ContinuesItself ==
  ASSUME NEW held, NEW entries, AreChains(held)
  PROVE  Continues(held, held, entries)
<1>1. \A key \in DOMAIN held : held[key] \in Seq(SaidIn(held))
  BY DEF AreChains
<1>2. \A key \in DOMAIN held : Len(held[key]) \in Nat /\ DOMAIN held[key] = 1 .. Len(held[key])
  BY <1>1
<1> QED
  BY <1>2 DEF Continues, History, Accounted

LEMMA SaysAll ==
  ASSUME NEW held, AreChains(held), NEW entries, IsFiniteSet(entries),
         NEW now, now = ExtendedAll(held, SetToSeq(entries))
  PROVE  AreChains(now) /\ Continues(now, held, entries)
<1> DEFINE K == DOMAIN held \cup {e.key : e \in entries}
           V == SaidIn(held) \cup {e.version : e \in entries}
           Kept == {h \in Chains(K, V) : Continues(h, held, entries)}
           order == SetToSeq(entries)
<1>1. order \in Seq(entries)
  BY SetToSeqIsSeq
<1>2. held \in Kept
  BY ChainsOf, ContinuesItself
<1>3. ASSUME NEW h \in Kept, NEW e \in entries PROVE Say(h, e) \in Kept
  <2> DEFINE key == e.key  v == e.version  next == Extended(h, key, v)
  <2>1. h \in Chains(K, V) /\ Continues(h, held, entries)
    OBVIOUS
  <2>2. key \in K /\ v \in V /\ SaidBy(entries, key, v)
    BY DEF SaidBy
  <2>3. Say(h, e) = next
    BY DEF Say
  <2>4. next = Extended(h, key, v)
    OBVIOUS
  <2> HIDE DEF K, V, Kept, key, v, next
  <2>5. AreChains(h) /\ DOMAIN h \subseteq K /\ SaidIn(h) \subseteq V
    BY <2>1, InChains
  <2>6. /\ AreChains(next) /\ SaidIn(next) \subseteq SaidIn(h) \cup {v}
        /\ DOMAIN next = DOMAIN h \cup {key}
    BY <2>4, <2>5, ExtendedIsChains
  <2>7. next \in Chains(K, V)
    BY <2>2, <2>5, <2>6, ChainsOf
  <2>8. Continues(next, held, entries)
    BY <2>1, <2>2, <2>4, <2>5, ExtendedContinues
  <2> QED
    BY <2>3, <2>7, <2>8 DEF Kept
<1> HIDE DEF Kept, order, K, V
<1>4. Saying!Folded(held, order) \in Kept
  BY <1>1, <1>2, <1>3, Saying!FoldKeeps
<1>5. Saying!Folded(held, order) = now
  BY DEF ExtendedAll, FoldLeft, MapThenFoldSet, Saying!FoldLeft, Saying!MapThenFoldSet, Max,
         Saying!Max, Saying!Folded, order
<1>6. now \in Chains(K, V) /\ Continues(now, held, entries)
  BY <1>4, <1>5 DEF Kept
<1> QED
  BY <1>6, InChains

-----------------------------------------------------------------------------
\* What entries add of which nothing is visible changes no answer.
LEMMA NewestStays ==
  ASSUME NEW now, NEW held, AreChains(held), AreChains(now), NEW entries, Continues(now, held, entries),
         NEW cutoff, NEW policy, NEW key \in DOMAIN now,
         \A e \in entries : e.key = key => ~ Visible(e.version, cutoff, policy)
  PROVE  /\ key \in DOMAIN held =>
              NewestVisible(now[key], cutoff, policy) = NewestVisible(held[key], cutoff, policy)
         /\ key \notin DOMAIN held => NewestVisible(now[key], cutoff, policy) = {}
<1> DEFINE seen(c) == {n \in DOMAIN c : Visible(c[n], cutoff, policy)}
<1>1. now[key] \in Seq(SaidIn(now)) /\ \A n \in DOMAIN now[key] : n \in Nat
  BY DEF AreChains
<1>2. /\ Len(History(held, key)) <= Len(now[key]) /\ Len(History(held, key)) \in Nat
      /\ \A n \in DOMAIN now[key] :
           IF n <= Len(History(held, key)) THEN now[key][n] = held[key][n]
           ELSE ~ Visible(now[key][n], cutoff, policy)
  BY HistoryIsSeq DEF Continues, Accounted, SaidBy
<1>3. CASE key \in DOMAIN held
  <2>1. held[key] \in Seq(SaidIn(held)) /\ History(held, key) = held[key]
    BY <1>3 DEF AreChains, History
  <2>2. seen(now[key]) = seen(held[key]) /\ \A n \in seen(now[key]) : now[key][n] = held[key][n]
    BY <1>1, <1>2, <2>1
  <2>3. Newest(now[key], seen(now[key])) = Newest(held[key], seen(held[key]))
    <3> HIDE DEF seen
    <3> QED
      BY <2>2 DEF Newest
  <2> QED
    BY <1>3, <2>3 DEF NewestVisible
<1>4. CASE key \notin DOMAIN held
  <2>1. History(held, key) = << >>
    BY <1>4 DEF History
  <2>2. seen(now[key]) = {}
    BY <1>1, <1>2, <2>1
  <2> QED
    BY <1>4, <2>2 DEF NewestVisible, Newest
<1> QED
  BY <1>3, <1>4

LEMMA AnswerStays ==
  ASSUME NEW now, NEW held, AreChains(held), AreChains(now), NEW entries, Continues(now, held, entries),
         NEW cutoff, NEW policy, NEW keys, NEW others, others \cap DOMAIN held = keys \cap DOMAIN held,
         \A e \in entries : e.key \in keys => ~ Visible(e.version, cutoff, policy)
  PROVE  Answered(now, keys, cutoff, policy) = Answered(held, others, cutoff, policy)
<1>1. \A key \in keys \cap DOMAIN now :
        /\ key \in DOMAIN held =>
              NewestVisible(now[key], cutoff, policy) = NewestVisible(held[key], cutoff, policy)
        /\ key \notin DOMAIN held => NewestVisible(now[key], cutoff, policy) = {}
  BY NewestStays
<1>2. DOMAIN held \subseteq DOMAIN now
  BY DEF Continues
<1> QED
  BY <1>1, <1>2 DEF Answered

-----------------------------------------------------------------------------
\* Nothing said is taken back.
Keeps(now, held) ==
  \A key \in DOMAIN held :
    /\ key \in DOMAIN now
    /\ \A n \in DOMAIN held[key] : n \in DOMAIN now[key] /\ now[key][n] = held[key][n]

LEMMA ContinuesKeeps ==
  ASSUME NEW held, AreChains(held), NEW now, AreChains(now), NEW entries, Continues(now, held, entries)
  PROVE  Keeps(now, held)
<1> SUFFICES ASSUME NEW key \in DOMAIN held
             PROVE  /\ key \in DOMAIN now
                    /\ \A n \in DOMAIN held[key] : n \in DOMAIN now[key] /\ now[key][n] = held[key][n]
  BY DEF Keeps
<1>1. key \in DOMAIN now /\ History(held, key) = held[key]
  BY DEF Continues, History
<1>2. now[key] \in Seq(SaidIn(now)) /\ held[key] \in Seq(SaidIn(held))
  BY <1>1 DEF AreChains
<1>3. Len(held[key]) <= Len(now[key]) /\ \A n \in DOMAIN now[key] : Accounted(now, held, entries, key, n)
  BY <1>1 DEF Continues
<1>4. \A n \in DOMAIN now[key] : n <= Len(held[key]) => now[key][n] = held[key][n]
  BY <1>1, <1>3 DEF Accounted
<1> QED
  BY <1>1, <1>2, <1>3, <1>4

NewestIs(now, key, v) ==
  /\ key \in DOMAIN now /\ Len(now[key]) \in Nat /\ Len(now[key]) \in DOMAIN now[key]
  /\ now[key][Len(now[key])] = v

LEMMA ExtendedNewest ==
  ASSUME NEW held, AreChains(held), NEW key, NEW v, NEW now, now = Extended(held, key, v)
  PROVE  NewestIs(now, key, v)
<1>1. SaysOnce(now, held, key, v)
  BY ExtendedOnce
<1>2. CASE now = held /\ key \in DOMAIN held /\ held[key] # << >> /\ held[key][Len(held[key])] = v
  <2>1. held[key] \in Seq(SaidIn(held))
    BY <1>2 DEF AreChains
  <2> QED
    BY <1>2, <2>1 DEF NewestIs
<1>3. CASE now = [x \in DOMAIN held \cup {key} |->
                   IF x = key THEN Append(History(held, key), v) ELSE held[x]]
  <2> DEFINE h == History(held, key)
  <2>1. h \in Seq(SaidIn(held))
    BY HistoryIsSeq
  <2>2. now[key] = Append(h, v) /\ key \in DOMAIN now /\ h \in Seq(SaidIn(held) \cup {v})
    BY <1>3, <2>1
  <2> HIDE DEF h
  <2> QED
    BY <2>2 DEF NewestIs
<1> QED
  BY <1>1, <1>2, <1>3 DEF SaysOnce

LEMMA ContinuesOn ==
  ASSUME NEW a, AreChains(a), NEW b, AreChains(b), NEW c, AreChains(c), NEW E, NEW F,
         Continues(b, a, E), Continues(c, b, F)
  PROVE  Continues(c, a, E \cup F)
<1>1. Keeps(c, b) /\ Keeps(b, a)
  BY ContinuesKeeps
<1>2. DOMAIN a \subseteq DOMAIN c
  BY DEF Continues
<1>3. \A key \in DOMAIN c : key \in DOMAIN a \/ \E e \in E \cup F : e.key = key
  BY DEF Continues
<1>4. ASSUME NEW key \in DOMAIN c
      PROVE  /\ Len(History(a, key)) <= Len(c[key])
             /\ \A n \in DOMAIN c[key] : Accounted(c, a, E \cup F, key, n)
  <2> DEFINE h == History(a, key)  g == History(b, key)
  <2>1. /\ Len(h) \in Nat /\ Len(g) \in Nat /\ DOMAIN g = 1 .. Len(g)
        /\ c[key] \in Seq(SaidIn(c)) /\ Len(c[key]) \in Nat
    BY HistoryIsSeq DEF AreChains
  <2>2. Len(g) <= Len(c[key]) /\ \A n \in DOMAIN c[key] : Accounted(c, b, F, key, n)
    BY DEF Continues
  <2>3. Len(h) <= Len(g) /\ \A n \in DOMAIN g : Accounted(b, a, E, key, n) /\ key \in DOMAIN b
    <3>1. CASE key \in DOMAIN b
      BY <3>1 DEF Continues, History
    <3>2. CASE key \notin DOMAIN b
      <4>1. key \notin DOMAIN a
        BY <3>2 DEF Continues
      <4> QED
        BY <3>2, <4>1 DEF History
    <3> QED
      BY <3>1, <3>2
  <2>4. ASSUME NEW n \in DOMAIN c[key] PROVE Accounted(c, a, E \cup F, key, n)
    <3>0. n \in Nat /\ 1 <= n
      BY <2>1
    <3>1. CASE n <= Len(g)
      <4>1. n \in DOMAIN g
        BY <2>1, <3>0, <3>1
      <4>2. c[key][n] = b[key][n]
        BY <2>2, <3>1 DEF Accounted
      <4>3. Accounted(b, a, E, key, n)
        BY <2>3, <4>1
      <4> QED
        BY <4>2, <4>3 DEF Accounted, SaidBy
    <3>2. CASE ~ (n <= Len(g))
      <4>1. SaidBy(F, key, c[key][n])
        BY <2>2, <3>2 DEF Accounted
      <4>2. ~ (n <= Len(h))
        BY <2>1, <2>3, <3>0, <3>2
      <4> QED
        BY <4>1, <4>2 DEF Accounted, SaidBy
    <3> QED
      BY <3>1, <3>2
  <2>5. Len(h) <= Len(c[key])
    BY <2>1, <2>2, <2>3
  <2> QED
    BY <2>4, <2>5
<1> QED
  BY <1>2, <1>3, <1>4 DEF Continues

-----------------------------------------------------------------------------
\* The image of a finite set is finite.
LEMMA ImageIsFinite ==
  ASSUME NEW S, IsFiniteSet(S), NEW f, DOMAIN f = S
  PROVE  IsFiniteSet({f[x] : x \in S})
<1> DEFINE T == {f[x] : x \in S}  g == [x \in S |-> f[x]]
<1>1. g \in Surjection(S, T)
  BY DEF Surjection
<1> QED
  BY <1>1, FS_Surjection

\* Of finitely many things one has the greatest number: the one with the fewest
\* above it has none, for else one of those would have fewer.
LEMMA Greatest ==
  ASSUME NEW S, IsFiniteSet(S), S # {}, NEW f \in [S -> Int]
  PROVE  \E x \in S : \A y \in S : f[y] <= f[x]
<1> DEFINE above(x) == {y \in S : f[x] < f[y]}
           counts == {Cardinality(above(x)) : x \in S}
<1>2. \A x \in S : IsFiniteSet(above(x)) /\ Cardinality(above(x)) \in Nat
  <2> SUFFICES ASSUME NEW x \in S PROVE IsFiniteSet(above(x)) /\ Cardinality(above(x)) \in Nat
    OBVIOUS
  <2>1. above(x) \in SUBSET S
    OBVIOUS
  <2> HIDE DEF above
  <2> QED
    BY <2>1, FS_Subset, FS_CardinalityType
<1>3. PICK n \in counts : \A m \in counts : n <= m
  <2>1. counts \in SUBSET Nat /\ counts # {}
    <3> HIDE DEF above
    <3> QED
      BY <1>2
  <2> QED
    BY <2>1, Saying!LeastMember
<1>4. PICK x \in S : n = Cardinality(above(x))
  OBVIOUS
<1>5. above(x) = {}
  <2> SUFFICES ASSUME NEW y \in above(x) PROVE FALSE
    OBVIOUS
  <2>1. y \in S /\ above(y) \in SUBSET above(x) /\ y \notin above(y)
    OBVIOUS
  <2>2. above(y) # above(x)
    BY <2>1
  <2>3. Cardinality(above(x)) <= Cardinality(above(y))
    BY <1>3, <1>4, <2>1
  <2> HIDE DEF above
  <2>4. /\ Cardinality(above(y)) <= Cardinality(above(x))
        /\ Cardinality(above(x)) = Cardinality(above(y)) => above(x) = above(y)
    BY <1>2, <2>1, FS_Subset
  <2> QED
    BY <1>2, <2>1, <2>2, <2>3, <2>4
<1>6. \A y \in S : f[y] <= f[x]
  BY <1>5
<1> QED
  BY <1>6

-----------------------------------------------------------------------------
(***************************************************************************)
(* The company store.  Facts and fundamentals are written in pairs while the*)
(* capture is read, so what a fundamental rests on is there when it is said;*)
(* and a capture names symbols after they were checked.                     *)
(***************************************************************************)
LEMMA EntriesAreFinite ==
  ASSUME NEW id \in CompanyCapture
  PROVE  LET c == Filed[id] IN
         /\ IsFiniteSet(IssuerEntries(c) \cup LinkEntries(c))
         /\ IsFiniteSet(ActionEntries(id, c) \cup ConsensusEntries(id, c) \cup EventEntries(id, c)
                          \cup GuidanceEntries(id, c))
<1> DEFINE c == Filed[id]
<1>1. IsFiniteSet(IssuerEntries(c))
  <2> DEFINE f == [i \in c.issuers |->
                     [key |-> <<"issuer", i.key>>, version |-> [name |-> i.name, available |-> i.available]]]
  <2>1. IssuerEntries(c) = {f[i] : i \in c.issuers} /\ DOMAIN f = c.issuers
    BY DEF IssuerEntries
  <2> HIDE DEF f
  <2> QED
    BY <2>1, FiledIsFinite, ImageIsFinite
<1>2. IsFiniteSet(LinkEntries(c))
  <2> DEFINE f == [k \in SymbolLinks(c) |->
                     [key |-> LinkKey(c, k),
                      version |-> [confidence |-> k.confidence, available |-> k.available]]]
  <2>1. LinkEntries(c) = {f[k] : k \in SymbolLinks(c)} /\ DOMAIN f = SymbolLinks(c)
    BY DEF LinkEntries
  <2>2. SymbolLinks(c) \subseteq LinksOf(c)
    BY DEF SymbolLinks
  <2>3. IsFiniteSet(SymbolLinks(c))
    BY <2>2, FiledIsFinite, FS_Subset
  <2> HIDE DEF f
  <2> QED
    BY <2>1, <2>3, ImageIsFinite
<1>3. IsFiniteSet(ActionEntries(id, c))
  <2> DEFINE f == [a \in c.actions |->
                     [key |-> <<"action", a.issuer, a.event>>,
                      version |-> [value |-> a.value, available |-> a.available,
                                   snapshot |-> Snapshot(id, a.issuer)]]]
  <2>1. ActionEntries(id, c) = {f[a] : a \in c.actions} /\ DOMAIN f = c.actions
    BY DEF ActionEntries
  <2> HIDE DEF f
  <2> QED
    BY <2>1, FiledIsFinite, ImageIsFinite
<1>4. IsFiniteSet(ConsensusEntries(id, c))
  <2> DEFINE f == [x \in c.expectations |->
                     [key |-> <<"consensus", x.issuer, x.metric, x.period>>,
                      version |-> [value |-> x.value, available |-> x.available,
                                   snapshot |-> Snapshot(id, x.issuer)]]]
  <2>1. ConsensusEntries(id, c) = {f[x] : x \in c.expectations} /\ DOMAIN f = c.expectations
    BY DEF ConsensusEntries
  <2> HIDE DEF f
  <2> QED
    BY <2>1, FiledIsFinite, ImageIsFinite
<1>5. IsFiniteSet(EventEntries(id, c))
  <2> DEFINE f == [e \in c.events |->
                     [key |-> <<"event", e.issuer, e.event>>,
                      version |-> [value |-> e.value, available |-> e.available,
                                   snapshot |-> Snapshot(id, e.issuer)]]]
  <2>1. EventEntries(id, c) = {f[e] : e \in c.events} /\ DOMAIN f = c.events
    BY DEF EventEntries
  <2> HIDE DEF f
  <2> QED
    BY <2>1, FiledIsFinite, ImageIsFinite
<1>6. IsFiniteSet(GuidanceEntries(id, c))
  <2> DEFINE f == [g \in c.guidance |->
                     [key |-> <<"guidance", g.issuer, g.metric, g.period>>,
                      version |-> [value |-> g.value, available |-> g.available,
                                   snapshot |-> Snapshot(id, g.issuer)]]]
  <2>1. GuidanceEntries(id, c) = {f[g] : g \in c.guidance} /\ DOMAIN f = c.guidance
    BY DEF GuidanceEntries
  <2> HIDE DEF f
  <2> QED
    BY <2>1, FiledIsFinite, ImageIsFinite
<1> QED
  BY <1>1, <1>2, <1>3, <1>4, <1>5, <1>6, FS_Union

-----------------------------------------------------------------------------
(***************************************************************************)
(* Facts and fundamentals.                                                  *)
(***************************************************************************)
Chaining == INSTANCE Folding WITH Op <- SayFact

\* What the entries of facts say of the facts and of the fundamentals.
FactSaid(e) ==
  {[key |-> e.fact, version |-> e.said]}
    \cup {[key |-> e.fundamental, version |-> Fundamental(e, n)] : n \in Nat}

FactSays(facts) == UNION {FactSaid(e) : e \in facts}

\* A fundamental rests on a fact version that is there and says the same, of a
\* filing that is there too, and on a mapping of the fact's concept to its metric.
Rests(chains, filings, mappings, key, v) ==
  LET fact == v.fact[1] IN
  /\ fact \in DOMAIN chains /\ v.fact[2] \in DOMAIN chains[fact]
  /\ chains[fact][v.fact[2]] = [value |-> v.value, available |-> v.available, snapshot |-> v.snapshot]
  /\ key[2] \in FilingIssuers(filings, fact[5])
  /\ v.mapping \in mappings /\ v.mapping.metric = key[3] /\ v.mapping.concept = fact[3]

AllRest(chains, filings, mappings) ==
  \A key \in DOMAIN chains : key[1] = "fundamental" =>
    \A n \in DOMAIN chains[key] : Rests(chains, filings, mappings, key, chains[key][n])

\* What is there stays, of filings as of chains.
Stays(now, held) == \A x \in DOMAIN held : x \in DOMAIN now /\ now[x] = held[x]

LEMMA RestsOn ==
  ASSUME NEW held, NEW now, Keeps(now, held), NEW F, NEW M, NEW key, NEW v, Rests(held, F, M, key, v)
  PROVE  Rests(now, F, M, key, v)
BY DEF Rests, Keeps

LEMMA RestsInMore ==
  ASSUME NEW held, NEW F, NEW M, NEW G, NEW N, Stays(G, F), M \subseteq N, AllRest(held, F, M)
  PROVE  AllRest(held, G, N)
<1>1. \A accession : FilingIssuers(F, accession) \subseteq FilingIssuers(G, accession)
  BY DEF FilingIssuers, Stays
<1>2. ASSUME NEW key, NEW v, Rests(held, F, M, key, v) PROVE Rests(held, G, N, key, v)
  BY <1>1, <1>2 DEF Rests, Stays
<1> QED
  BY <1>2 DEF AllRest

\* What is said of other things leaves the fundamentals as they are.
LEMMA RestsStays ==
  ASSUME NEW held, AreChains(held), NEW now, AreChains(now), NEW entries,
         Continues(now, held, entries), \A e \in entries : e.key[1] # "fundamental",
         NEW F, NEW M, AllRest(held, F, M)
  PROVE  AllRest(now, F, M)
<1> SUFFICES ASSUME NEW key \in DOMAIN now, key[1] = "fundamental", NEW n \in DOMAIN now[key]
             PROVE  Rests(now, F, M, key, now[key][n])
  BY DEF AllRest
<1>1. key \in DOMAIN held /\ History(held, key) = held[key]
  BY DEF Continues, History
<1>2. now[key] \in Seq(SaidIn(now)) /\ held[key] \in Seq(SaidIn(held)) /\ Keeps(now, held)
  BY <1>1, ContinuesKeeps DEF AreChains
<1>3. ~ SaidBy(entries, key, now[key][n])
  BY DEF SaidBy
<1>4. n <= Len(held[key]) /\ now[key][n] = held[key][n]
  BY <1>1, <1>3 DEF Continues, Accounted
<1>5. n \in DOMAIN held[key]
  BY <1>2, <1>4
<1>6. Rests(held, F, M, key, held[key][n])
  BY <1>1, <1>5 DEF AllRest
<1> QED
  BY <1>2, <1>4, <1>6, RestsOn

LEMMA RestsOneMore ==
  ASSUME NEW held, AreChains(held), NEW key, NEW v, NEW now, now = Extended(held, key, v),
         NEW F, NEW M, AllRest(held, F, M), key[1] = "fundamental" => Rests(held, F, M, key, v)
  PROVE  AllRest(now, F, M) /\ Keeps(now, held)
<1>1. SaysOnce(now, held, key, v) /\ AreChains(now)
  BY ExtendedOnce, ExtendedIsChains
<1>2. Keeps(now, held)
  <2> DEFINE said == {[key |-> key, version |-> v]}
  <2>1. Continues(held, held, said) /\ SaidBy(said, key, v)
    BY ContinuesItself DEF SaidBy
  <2>2. Continues(now, held, said)
    BY <2>1, ExtendedContinues
  <2> QED
    BY <1>1, <2>2, ContinuesKeeps
<1>3. CASE now = held
  BY <1>2, <1>3
<1>4. CASE now = [x \in DOMAIN held \cup {key} |->
                   IF x = key THEN Append(History(held, key), v) ELSE held[x]]
  <2> SUFFICES ASSUME NEW k \in DOMAIN now, k[1] = "fundamental", NEW n \in DOMAIN now[k]
               PROVE  Rests(now, F, M, k, now[k][n])
    BY <1>2 DEF AllRest
  <2>1. CASE k # key
    <3>1. k \in DOMAIN held /\ now[k] = held[k]
      BY <1>4, <2>1
    <3>2. Rests(held, F, M, k, held[k][n])
      BY <3>1 DEF AllRest
    <3> QED
      BY <1>2, <3>1, <3>2, RestsOn
  <2>2. CASE k = key
    <3> DEFINE h == History(held, key)
    <3>1. h \in Seq(SaidIn(held))
      BY HistoryIsSeq
    <3>2. now[k] = Append(h, v) /\ h \in Seq(SaidIn(held) \cup {v})
      BY <1>4, <2>2, <3>1
    <3>3. \A m \in DOMAIN h : key \in DOMAIN held /\ m \in DOMAIN held[key] /\ h[m] = held[key][m]
      BY DEF History
    <3> HIDE DEF h
    <3>4. CASE n \in DOMAIN h
      <4>1. now[k][n] = held[key][n] /\ key \in DOMAIN held /\ n \in DOMAIN held[key]
        BY <3>2, <3>3, <3>4
      <4>2. Rests(held, F, M, key, held[key][n])
        BY <2>2, <4>1 DEF AllRest
      <4> QED
        BY <1>2, <2>2, <4>1, <4>2, RestsOn
    <3>5. CASE n = Len(h) + 1
      <4>1. now[k][n] = v
        BY <3>2, <3>5
      <4> QED
        BY <1>2, <2>2, <4>1, RestsOn
    <3> QED
      BY <3>2, <3>4, <3>5
  <2> QED
    BY <2>1, <2>2
<1> QED
  BY <1>1, <1>3, <1>4, <1>2 DEF SaysOnce

IsFactEntry(e, F, M) ==
  /\ e.fact[1] = "fact" /\ e.fundamental[1] = "fundamental"
  /\ e.fundamental[2] \in FilingIssuers(F, e.fact[5])
  /\ e.mapping \in M /\ e.mapping.metric = e.fundamental[3] /\ e.mapping.concept = e.fact[3]
  /\ e.said = [value |-> e.said.value, available |-> e.said.available, snapshot |-> e.said.snapshot]

LEMMA NewFactRests ==
  ASSUME NEW h, NEW e, NEW F, NEW M, IsFactEntry(e, F, M), NewestIs(h, e.fact, e.said),
         NEW v, v = Fundamental(e, Len(h[e.fact]))
  PROVE  Rests(h, F, M, e.fundamental, v)
<1> DEFINE fact == e.fact  said == e.said  n == Len(h[fact])
<1>1. /\ v.fact = <<fact, n>> /\ v.fact[1] = fact /\ v.fact[2] = n /\ v.mapping = e.mapping
      /\ v.value = said.value /\ v.available = said.available /\ v.snapshot = said.snapshot
  BY DEF Fundamental
<1>2. fact \in DOMAIN h /\ n \in DOMAIN h[fact] /\ h[fact][n] = said
  BY DEF NewestIs
<1>3. said = [value |-> v.value, available |-> v.available, snapshot |-> v.snapshot]
  BY <1>1 DEF IsFactEntry
<1>4. /\ e.fundamental[2] \in FilingIssuers(F, fact[5])
      /\ e.mapping \in M /\ e.mapping.metric = e.fundamental[3] /\ e.mapping.concept = fact[3]
  BY DEF IsFactEntry
<1> HIDE DEF fact, said, n
<1> QED
  BY <1>1, <1>2, <1>3, <1>4 DEF Rests

LEMMA FundamentalSaid ==
  ASSUME NEW facts, NEW e \in facts, NEW m \in Nat
  PROVE  [key |-> e.fundamental, version |-> Fundamental(e, m)] \in FactSays(facts)
<1>1. [key |-> e.fundamental, version |-> Fundamental(e, m)] \in FactSaid(e)
  BY DEF FactSaid
<1> QED
  BY <1>1 DEF FactSays

\* The fold over the facts of a capture.
LEMMA FactsRest ==
  ASSUME NEW held, AreChains(held), NEW F, NEW M, AllRest(held, F, M),
         NEW facts, \A e \in facts : IsFactEntry(e, F, M), NEW order \in Seq(facts),
         NEW now, now = FoldLeft(SayFact, held, order)
  PROVE  AreChains(now) /\ Continues(now, held, FactSays(facts)) /\ AllRest(now, F, M)
<1> DEFINE E == FactSays(facts)
           K == DOMAIN held \cup {e.key : e \in E}
           V == SaidIn(held) \cup {e.version : e \in E}
           Kept == {h \in Chains(K, V) : Continues(h, held, E) /\ AllRest(h, F, M)}
<1>1. held \in Kept
  BY ChainsOf, ContinuesItself
<1>2. ASSUME NEW h \in Kept, NEW e \in facts PROVE SayFact(h, e) \in Kept
  <2> DEFINE fact == e.fact  said == e.said  fund == e.fundamental
             h1 == Extended(h, fact, said)
             v == Fundamental(e, Len(h1[fact]))
             h2 == Extended(h1, fund, v)
  <2>1. SayFact(h, e) = h2 /\ h1 = Extended(h, fact, said) /\ h2 = Extended(h1, fund, v)
    BY DEF SayFact
  <2>2. h \in Chains(K, V) /\ Continues(h, held, E) /\ AllRest(h, F, M)
    OBVIOUS
  <2>3. [key |-> fact, version |-> said] \in E
    BY DEF FactSays, FactSaid
  <2>4. IsFactEntry(e, F, M) /\ fact[1] # "fundamental"
    BY DEF IsFactEntry
  <2>5. ASSUME Len(h1[fact]) \in Nat PROVE [key |-> fund, version |-> v] \in E
    <3> QED
      BY <2>5, FundamentalSaid
  <2>6. NewestIs(h1, fact, said) => Rests(h1, F, M, fund, v)
    BY <2>4, NewFactRests
  <2>7. \A x \in E : x.key \in K /\ x.version \in V
    OBVIOUS
  <2> HIDE DEF E, K, V, Kept, fact, said, fund, h1, v, h2
  <2>8. AreChains(h) /\ DOMAIN h \subseteq K /\ SaidIn(h) \subseteq V
    BY <2>2, InChains
  <2>9. /\ AreChains(h1) /\ SaidIn(h1) \subseteq SaidIn(h) \cup {said}
        /\ DOMAIN h1 = DOMAIN h \cup {fact}
    BY <2>1, <2>8, ExtendedIsChains
  <2>10. NewestIs(h1, fact, said) /\ AllRest(h1, F, M)
    <3>1. NewestIs(h1, fact, said)
      BY <2>1, <2>8, ExtendedNewest
    <3>2. AllRest(h1, F, M)
      BY <2>1, <2>2, <2>4, <2>8, RestsOneMore
    <3> QED
      BY <3>1, <3>2
  <2>11. fact \in K /\ said \in V /\ SaidBy(E, fact, said)
    BY <2>3, <2>7 DEF SaidBy
  <2>12. fund \in K /\ v \in V /\ SaidBy(E, fund, v)
    <3>1. [key |-> fund, version |-> v] \in E
      BY <2>5, <2>10 DEF NewestIs
    <3> QED
      BY <2>7, <3>1 DEF SaidBy
  <2>13. Continues(h1, held, E)
    BY <2>1, <2>2, <2>8, <2>11, ExtendedContinues
  <2>14. /\ AreChains(h2) /\ SaidIn(h2) \subseteq SaidIn(h1) \cup {v}
         /\ DOMAIN h2 = DOMAIN h1 \cup {fund}
    <3>1. h2 = Extended(h1, fund, v) /\ AreChains(h1)
      BY <2>1, <2>9
    <3> QED
      BY <3>1, ExtendedIsChains
  <2>15. Continues(h2, held, E)
    BY <2>1, <2>9, <2>12, <2>13, ExtendedContinues
  <2>16. AllRest(h2, F, M)
    BY <2>1, <2>6, <2>9, <2>10, RestsOneMore
  <2>17. h2 \in Chains(K, V)
    BY <2>8, <2>9, <2>11, <2>12, <2>14, ChainsOf
  <2> QED
    BY <2>1, <2>15, <2>16, <2>17 DEF Kept
<1> HIDE DEF Kept, K, V, E
<1>3. Chaining!Folded(held, order) \in Kept
  BY <1>1, <1>2, Chaining!FoldKeeps
<1>4. Chaining!Folded(held, order) = now
  BY DEF FoldLeft, MapThenFoldSet, Chaining!FoldLeft, Chaining!MapThenFoldSet, Max,
         Chaining!Max, Chaining!Folded
<1>5. now \in Chains(K, V) /\ Continues(now, held, E) /\ AllRest(now, F, M)
  BY <1>3, <1>4 DEF Kept
<1> QED
  BY <1>5, InChains DEF E

-----------------------------------------------------------------------------
FactsOf(s, id, c) == UNION {{FactEntry(id, p, f) : p \in Matching(s, c, f)} : f \in c.facts}

SecEntries(s, id, c) == IssuerEntries(c) \cup LinkEntries(c) \cup FactSays(FactsOf(s, id, c))

RestEntries(id, c) ==
  ActionEntries(id, c) \cup ConsensusEntries(id, c) \cup EventEntries(id, c) \cup GuidanceEntries(id, c)

CompanyEntries(s, id, c) ==
  IF c.family = "earnings" THEN RestEntries(id, c) ELSE SecEntries(s, id, c) \cup RestEntries(id, c)

LEMMA FactEntriesAreFacts ==
  ASSUME NEW id \in CompanyCapture, NEW s, NEW found \in Lookups(s, Filed[id])
  PROVE  FactEntries(id, Filed[id], found) \in Seq(FactsOf(s, id, Filed[id]))
<1> DEFINE c == Filed[id]  N == Cardinality(c.facts)
           NthFact(n) == CHOOSE f \in c.facts : f.row = n
           NthEntry(n) == FactEntry(id, found[MappingKey(NthFact(n))], NthFact(n))
<1>1. N \in Nat /\ {f.row : f \in c.facts} = 1 .. N
  BY FiledIsFinite, FS_CardinalityType
<1>2. ASSUME NEW n \in 1 .. N PROVE NthEntry(n) \in FactsOf(s, id, c)
  <2>1. \E f \in c.facts : f.row = n
    BY <1>1
  <2>2. NthFact(n) \in c.facts
    BY <2>1
  <2>3. found[MappingKey(NthFact(n))] \in Matching(s, c, NthFact(n))
    BY <2>2 DEF Lookups
  <2>4. \A f \in c.facts : \A p \in Matching(s, c, f) : FactEntry(id, p, f) \in FactsOf(s, id, c)
    BY DEF FactsOf
  <2> HIDE DEF NthFact
  <2> QED
    BY <2>2, <2>3, <2>4
<1>3. FactEntries(id, c, found) = [n \in 1 .. N |-> NthEntry(n)]
  BY DEF FactEntries
<1>4. FactEntries(id, c, found) \in [1 .. N -> FactsOf(s, id, c)]
  BY <1>2, <1>3
<1> QED
  BY <1>1, <1>4

\* What a capture names is there afterwards, and what was there stays.
LEMMA FilingsStay ==
  ASSUME NEW s, NEW id, NEW c, SecWrites(s, id, c), FilingsParse(c)
  PROVE  Stays(WithFilings(s, id, c), s.filings)
<1> DEFINE A == {f.accession : f \in c.filings}
           g == [a \in A |-> FilingStored(id, CHOOSE f \in c.filings : f.accession = a)]
<1>1. WithFilings(s, id, c) = [a \in A \cup DOMAIN s.filings |-> IF a \in A THEN g[a] ELSE s.filings[a]]
  BY DEF WithFilings, Overlay
<1>2. ASSUME NEW a \in DOMAIN s.filings, a \in A PROVE g[a] = s.filings[a]
  <2>1. (CHOOSE f \in c.filings : f.accession = a) \in c.filings
        /\ (CHOOSE f \in c.filings : f.accession = a).accession = a
    BY <1>2
  <2>2. PICK f \in c.filings : f.accession = a /\ g[a] = FilingStored(id, f)
    BY <1>2, <2>1
  <2>3. FilingHeld(s, id, f)
    BY DEF SecWrites
  <2> QED
    BY <2>2, <2>3, <1>2 DEF FilingHeld
<1> HIDE DEF g
<1> QED
  BY <1>1, <1>2 DEF Stays

LEMMA FactsAreEntries ==
  ASSUME NEW s, NEW id, NEW c, SecWrites(s, id, c)
  PROVE  \A e \in FactsOf(s, id, c) : IsFactEntry(e, WithFilings(s, id, c), WithMappings(s, c))
<1> DEFINE M == WithMappings(s, c)  F == WithFilings(s, id, c)
<1> SUFFICES ASSUME NEW f \in c.facts, NEW p \in Matching(s, c, f)
             PROVE  IsFactEntry(FactEntry(id, p, f), F, M)
  BY DEF FactsOf
<1>1. p \in M /\ p.concept = f.concept
  BY DEF Matching, MappingKey
<1>2. f.issuer \in FilingIssuers(F, f.accession)
  BY DEF SecWrites
<1> DEFINE e == FactEntry(id, p, f)
<1>3. /\ e.fact = <<"fact", f.issuer, f.concept, f.period, f.accession>>
      /\ e.fundamental = <<"fundamental", f.issuer, p.metric, f.period>>
      /\ e.mapping = p
      /\ e.said = [value |-> f.value, available |-> f.available, snapshot |-> Snapshot(id, f.issuer)]
  BY DEF FactEntry, FactKey, FundamentalKey
<1> HIDE DEF e, M, F
<1>4. /\ e.fact[1] = "fact" /\ e.fact[3] = f.concept /\ e.fact[5] = f.accession
      /\ e.fundamental[1] = "fundamental" /\ e.fundamental[2] = f.issuer
      /\ e.fundamental[3] = p.metric
  BY <1>3
<1>5. e.said = [value |-> e.said.value, available |-> e.said.available, snapshot |-> e.said.snapshot]
  BY <1>3
<1>6. IsFactEntry(e, F, M)
  BY <1>1, <1>2, <1>3, <1>4, <1>5 DEF IsFactEntry
<1> QED
  BY <1>6 DEF e

-----------------------------------------------------------------------------
CompanyInv ==
  /\ company \in [issuers : {company.issuers}, mappings : {company.mappings},
                  filings : {company.filings}, chains : {company.chains},
                  published : SUBSET CompanyCapture, spent : {company.spent}]
  /\ AreChains(company.chains)
  /\ SymbolOneIssuer
  /\ AllRest(company.chains, company.filings, company.mappings)

\* What WithSec says, in its three parts.
LEMMA SecSaid ==
  ASSUME CompanyInv, NEW id \in CompanyCapture, SecWrites(company, id, Filed[id]),
         FilingsParse(Filed[id]), NEW found \in Lookups(company, Filed[id]),
         NEW t, t = WithSec(company, id, Filed[id], found)
  PROVE  /\ AreChains(t.chains)
         /\ Continues(t.chains, company.chains, SecEntries(company, id, Filed[id]))
         /\ AllRest(t.chains, t.filings, t.mappings)
         /\ Stays(t.filings, company.filings)
         /\ t.filings = WithFilings(company, id, Filed[id])
         /\ t \in [issuers : {t.issuers}, mappings : {t.mappings}, filings : {t.filings},
                   chains : {t.chains}, published : {company.published}, spent : {company.spent}]
<1> DEFINE c == Filed[id]  F == WithFilings(company, id, c)  M == WithMappings(company, c)
           held == company.chains  named == IssuerEntries(c) \cup LinkEntries(c)
           said == ExtendedAll(held, SetToSeq(named))
           facts == FactsOf(company, id, c)
           now == FoldLeft(SayFact, said, FactEntries(id, c, found))
<1>1. t = [company EXCEPT !.issuers = company.issuers \cup Issuers(c), !.mappings = M,
                          !.filings = F, !.chains = now]
  BY DEF WithSec
<1>2. AreChains(said) /\ Continues(said, held, named)
  BY EntriesAreFinite, SaysAll DEF CompanyInv
<1>3. \A e \in named : e.key[1] # "fundamental"
  BY DEF IssuerEntries, LinkEntries, LinkKey
<1>4. Stays(F, company.filings) /\ company.mappings \subseteq M
  BY FilingsStay DEF WithMappings
<1>5. \A e \in facts : IsFactEntry(e, F, M)
  BY FactsAreEntries
<1>6. FactEntries(id, c, found) \in Seq(facts)
  BY FactEntriesAreFacts
<1>7. now = FoldLeft(SayFact, said, FactEntries(id, c, found))
  OBVIOUS
<1>8. SecEntries(company, id, c) = named \cup FactSays(facts)
  BY DEF SecEntries
<1> HIDE DEF F, M, now, said, named, facts
<1>9. AllRest(said, F, M)
  <2>1. AllRest(said, company.filings, company.mappings)
    BY <1>2, <1>3, RestsStays DEF CompanyInv
  <2> QED
    BY <1>4, <2>1, RestsInMore
<1>10. AreChains(now) /\ Continues(now, said, FactSays(facts)) /\ AllRest(now, F, M)
  BY <1>2, <1>5, <1>6, <1>7, <1>9, FactsRest
<1>11. Continues(now, held, SecEntries(company, id, c))
  BY <1>2, <1>8, <1>10, ContinuesOn DEF CompanyInv
<1>12. /\ t.chains = now /\ t.filings = F /\ t.mappings = M
       /\ t \in [issuers : {t.issuers}, mappings : {t.mappings}, filings : {t.filings},
                 chains : {t.chains}, published : {company.published}, spent : {company.spent}]
  BY <1>1 DEF CompanyInv
<1> QED
  BY <1>4, <1>10, <1>11, <1>12 DEF F

LEMMA PublishedCompany ==
  ASSUME CompanyInv, NEW id \in CompanyCapture, CompanyPublish(id)
  PROVE  /\ company' \in [issuers : {company'.issuers}, mappings : {company'.mappings},
                  filings : {company'.filings}, chains : {company'.chains},
                  published : SUBSET CompanyCapture, spent : {company'.spent}]
         /\ company'.published = company.published \cup {id} /\ id \notin company.published
         /\ CompanyParses(Filed[id]) /\ CompanyWrites(company, id, Filed[id])
         /\ AreChains(company'.chains)
         /\ Continues(company'.chains, company.chains, CompanyEntries(company, id, Filed[id]))
         /\ AllRest(company'.chains, company'.filings, company'.mappings)
         /\ Stays(company'.filings, company.filings)
         /\ \/ company'.filings = company.filings
            \/ company'.filings = WithFilings(company, id, Filed[id])
<1>0. PICK found \in Lookups(company, Filed[id]) :
        company' = CompanyWritten(company, id, Filed[id], found)
  BY DEF CompanyPublish
<1> DEFINE c == Filed[id]
           base == IF c.family = "earnings" THEN company ELSE WithSec(company, id, c, found)
           rest == RestEntries(id, c)
           now == ExtendedAll(base.chains, SetToSeq(rest))
<1>1. CompanyParses(c) /\ id \notin company.published /\ CompanyWrites(company, id, c)
  BY DEF CompanyPublish, CompanyAwaits
<1>2. company' = [base EXCEPT !.chains = now, !.published = base.published \cup {id}]
  BY <1>0 DEF CompanyWritten, RestEntries
<1>3. /\ AreChains(base.chains)
      /\ Continues(base.chains, company.chains,
                   IF c.family = "earnings" THEN {} ELSE SecEntries(company, id, c))
      /\ AllRest(base.chains, base.filings, base.mappings)
      /\ Stays(base.filings, company.filings)
      /\ base \in [issuers : {base.issuers}, mappings : {base.mappings}, filings : {base.filings},
                   chains : {base.chains}, published : {company.published}, spent : {company.spent}]
      /\ \/ base.filings = company.filings \/ base.filings = WithFilings(company, id, c)
  <2>1. CASE c.family = "earnings"
    <3>1. base = company
      BY <2>1
    <3>2. Continues(company.chains, company.chains, {})
      BY ContinuesItself DEF CompanyInv
    <3> HIDE DEF base
    <3> QED
      BY <2>1, <3>1, <3>2 DEF CompanyInv, Stays
  <2>2. CASE c.family # "earnings"
    <3>1. SecWrites(company, id, c) /\ FilingsParse(c) /\ base = WithSec(company, id, c, found)
      BY <1>1, <2>2 DEF CompanyWrites, CompanyParses
    <3> HIDE DEF base
    <3> QED
      BY <2>2, <3>1, SecSaid
  <2> QED
    BY <2>1, <2>2
<1>4. IsFiniteSet(rest)
  BY EntriesAreFinite DEF RestEntries
<1>5. \A e \in rest : e.key[1] # "fundamental"
  BY DEF RestEntries, ActionEntries, ConsensusEntries, EventEntries, GuidanceEntries
<1>6. CompanyEntries(company, id, c)
        = (IF c.family = "earnings" THEN {} ELSE SecEntries(company, id, c)) \cup rest
  BY DEF CompanyEntries
<1>7. now = ExtendedAll(base.chains, SetToSeq(rest))
  OBVIOUS
<1> HIDE DEF base, rest, now
<1>8. AreChains(now) /\ Continues(now, base.chains, rest)
  BY <1>3, <1>4, <1>7, SaysAll
<1>9. AllRest(now, base.filings, base.mappings)
  BY <1>3, <1>5, <1>8, RestsStays
<1>10. Continues(now, company.chains, CompanyEntries(company, id, c))
  BY <1>3, <1>6, <1>8, ContinuesOn DEF CompanyInv
<1>11. /\ company'.chains = now /\ company'.filings = base.filings /\ company'.mappings = base.mappings
       /\ company'.published = company.published \cup {id}
       /\ company' \in [issuers : {company'.issuers}, mappings : {company'.mappings},
                  filings : {company'.filings}, chains : {company'.chains},
                  published : SUBSET CompanyCapture, spent : {company'.spent}]
  BY <1>2, <1>3 DEF CompanyInv
<1> QED
  BY <1>1, <1>3, <1>8, <1>9, <1>10, <1>11

\* Only the links of a capture of the SEC families are links.
LEMMA LinksAreSec ==
  ASSUME NEW s, NEW id, NEW c, NEW e \in CompanyEntries(s, id, c), e.key[1] = "link"
  PROVE  e \in LinkEntries(c) /\ c.family # "earnings"
<1>1. e \notin RestEntries(id, c)
  BY DEF RestEntries, ActionEntries, ConsensusEntries, EventEntries, GuidanceEntries
<1>2. e \notin IssuerEntries(c)
  BY DEF IssuerEntries
<1>3. e \notin FactSays(FactsOf(s, id, c))
  <2>1. \A x \in FactsOf(s, id, c) : x.fact[1] # "link" /\ x.fundamental[1] # "link"
    BY DEF FactsOf, FactEntry, FactKey, FundamentalKey
  <2>2. ASSUME NEW x, NEW y \in FactSaid(x) PROVE y.key = x.fact \/ y.key = x.fundamental
    <3> DEFINE fact == x.fact  fundamental == x.fundamental  said == x.said
    <3>1. y = [key |-> fact, version |-> said]
          \/ \E n \in Nat : y = [key |-> fundamental, version |-> Fundamental(x, n)]
      BY DEF FactSaid
    <3> HIDE DEF fact, fundamental, said
    <3>2. CASE y = [key |-> fact, version |-> said]
      BY <3>2 DEF fact
    <3>3. ASSUME NEW n \in Nat, y = [key |-> fundamental, version |-> Fundamental(x, n)]
          PROVE  y.key = fundamental
      BY <3>3
    <3> QED
      BY <3>1, <3>2, <3>3 DEF fundamental
  <2> QED
    BY <2>1, <2>2 DEF FactSays
<1>4. c.family # "earnings" /\ e \in SecEntries(s, id, c)
  BY <1>1 DEF CompanyEntries
<1> QED
  BY <1>2, <1>3, <1>4 DEF SecEntries

\* A symbol's new links are checked against the stored ones, and those of a
\* capture against one another.
LEMMA SymbolStaysFree ==
  ASSUME CompanyInv, NEW id \in CompanyCapture, CompanyPublish(id)
  PROVE  SymbolOneIssuer'
<1> DEFINE c == Filed[id]  E == CompanyEntries(company, id, c)
           Span(a) == [from |-> a[5], to |-> a[6]]
<1>1. CompanyParses(c) /\ CompanyWrites(company, id, c)
      /\ Continues(company'.chains, company.chains, E)
  BY PublishedCompany
<1>2. \A e \in E : e.key[1] = "link" => e \in LinkEntries(c) /\ c.family # "earnings"
  BY LinksAreSec
<1>3. ASSUME NEW a \in Assertions(company'), a \notin Assertions(company)
      PROVE  /\ c.family # "earnings"
             /\ \E k \in SymbolLinks(c) : a = LinkKey(c, k)
  <2>1. a \in DOMAIN company'.chains /\ a[1] = "link" /\ a \notin DOMAIN company.chains
    BY <1>3 DEF Assertions
  <2>2. PICK e \in E : e.key = a
    BY <1>1, <2>1 DEF Continues
  <2>3. e \in LinkEntries(c) /\ c.family # "earnings"
    BY <1>2, <2>1, <2>2
  <2> QED
    BY <2>2, <2>3 DEF LinkEntries
<1>4. ASSUME NEW k \in SymbolLinks(c)
      PROVE  LET a == LinkKey(c, k) IN
             a[2] = k.issuer /\ a[3] = k.name /\ a[5] = k.from /\ a[6] = k.to
  BY DEF LinkKey
<1> SUFFICES ASSUME NEW a \in Assertions(company'), NEW b \in Assertions(company'),
                    a[3] = b[3], Overlap(Span(a), Span(b))
             PROVE  a[2] = b[2]
  BY DEF SymbolOneIssuer
<1> DEFINE mine == c.family # "earnings"
<1>5. Overlap(Span(b), Span(a))
  BY DEF Overlap
<1>6. ASSUME c.family # "earnings", NEW x \in Assertions(company), NEW k \in SymbolLinks(c),
             x[3] = k.name, Overlap(Span(x), k)
      PROVE  x[2] = k.issuer
  <2>1. SecWrites(company, id, c)
    BY <1>1, <1>6 DEF CompanyWrites
  <2>2. SymbolFree(company, k)
    BY <2>1, <1>6 DEF SecWrites
  <2> QED
    BY <1>6, <2>2 DEF SymbolFree
<1>7. CASE a \in Assertions(company) /\ b \in Assertions(company)
  BY <1>7 DEF CompanyInv, SymbolOneIssuer
<1>8. CASE a \in Assertions(company) /\ b \notin Assertions(company)
  <2>1. PICK k \in SymbolLinks(c) : c.family # "earnings" /\ b = LinkKey(c, k)
    BY <1>3, <1>8
  <2>2. b[2] = k.issuer /\ b[3] = k.name /\ b[5] = k.from /\ b[6] = k.to
    BY <1>4, <2>1
  <2>3. Overlap(Span(a), k)
    BY <2>2 DEF Overlap
  <2> QED
    BY <1>6, <1>8, <2>1, <2>2, <2>3
<1>9. CASE a \notin Assertions(company) /\ b \in Assertions(company)
  <2>1. PICK k \in SymbolLinks(c) : c.family # "earnings" /\ a = LinkKey(c, k)
    BY <1>3, <1>9
  <2>2. a[2] = k.issuer /\ a[3] = k.name /\ a[5] = k.from /\ a[6] = k.to
    BY <1>4, <2>1
  <2>3. Overlap(Span(b), k)
    BY <1>5, <2>2 DEF Overlap
  <2> QED
    BY <1>6, <1>9, <2>1, <2>2, <2>3
<1>10. CASE a \notin Assertions(company) /\ b \notin Assertions(company)
  <2>1. PICK k \in SymbolLinks(c) : a = LinkKey(c, k)
    BY <1>3, <1>10
  <2>2. PICK l \in SymbolLinks(c) : b = LinkKey(c, l)
    BY <1>3, <1>10
  <2>3. a[2] = k.issuer /\ a[3] = k.name /\ a[5] = k.from /\ a[6] = k.to
    BY <1>4, <2>1
  <2>4. b[2] = l.issuer /\ b[3] = l.name /\ b[5] = l.from /\ b[6] = l.to
    BY <1>4, <2>2
  <2>5. k.name = l.name /\ Overlap(k, l)
    BY <2>3, <2>4 DEF Overlap
  <2>6. k.issuer = l.issuer
    BY <1>1, <2>5 DEF CompanyParses, SymbolsParse
  <2> QED
    BY <2>3, <2>4, <2>6
<1> QED
  BY <1>7, <1>8, <1>9, <1>10

LEMMA CompanyStepKeeps == CompanyInv /\ [CompanyNext]_company => CompanyInv'
<1> SUFFICES ASSUME CompanyInv, [CompanyNext]_company PROVE CompanyInv'
  OBVIOUS
<1>1. ASSUME NEW id \in CompanyCapture, CompanyPublish(id) PROVE CompanyInv'
  BY <1>1, PublishedCompany, SymbolStaysFree DEF CompanyInv
<1>2. ASSUME NEW id \in CompanyCapture, CompanyFails(id) PROVE CompanyInv'
  <2>1. company' = [company EXCEPT !.spent = company.spent \cup {id}]
    BY <1>2 DEF CompanyFails
  <2>2. /\ company'.chains = company.chains /\ company'.filings = company.filings
        /\ company'.mappings = company.mappings
        /\ company' \in [issuers : {company'.issuers}, mappings : {company'.mappings},
                  filings : {company'.filings}, chains : {company'.chains},
                  published : SUBSET CompanyCapture, spent : {company'.spent}]
    BY <2>1 DEF CompanyInv
  <2>3. SymbolOneIssuer'
    BY <2>2 DEF CompanyInv, SymbolOneIssuer, Assertions
  <2> QED
    BY <2>2, <2>3 DEF CompanyInv
<1>3. ASSUME UNCHANGED company PROVE CompanyInv'
  BY <1>3 DEF CompanyInv, SymbolOneIssuer, Assertions
<1> QED
  BY <1>1, <1>2, <1>3 DEF CompanyNext

LEMMA FundamentalsRest == CompanyInv => FundamentalRests
<1> SUFFICES ASSUME CompanyInv, NEW key \in DOMAIN company.chains, key[1] = "fundamental",
                    NEW n \in DOMAIN company.chains[key]
             PROVE  LET v == company.chains[key][n]
                        fact == company.chains[v.fact[1]][v.fact[2]]
                    IN  /\ [value |-> v.value, available |-> v.available, snapshot |-> v.snapshot] = fact
                        /\ key[2] \in FilingIssuers(company.filings, v.fact[1][5])
                        /\ v.mapping \in company.mappings
                        /\ v.mapping.metric = key[3] /\ v.mapping.concept = v.fact[1][3]
  BY DEF FundamentalRests
<1>1. Rests(company.chains, company.filings, company.mappings, key, company.chains[key][n])
  BY DEF CompanyInv, AllRest
<1> QED
  BY <1>1 DEF Rests

LEMMA CompanyInvInit == CompanyInit => CompanyInv
<1> SUFFICES ASSUME CompanyInit PROVE CompanyInv
  OBVIOUS
<1>1. company = [issuers |-> {}, mappings |-> {}, filings |-> << >>, chains |-> << >>,
                 published |-> {}, spent |-> {}]
  BY DEF CompanyInit, EmptyCompany
<1>2. DOMAIN company.chains = {} /\ company.chains = << >>
  BY <1>1
<1>3. AreChains(company.chains)
  BY <1>2 DEF AreChains
<1> QED
  BY <1>1, <1>2, <1>3 DEF CompanyInv, SymbolOneIssuer, Assertions, AllRest

\* What a capture adds is as available as one of its rows.
TimedBy(entries, rows) == \A e \in entries : \E r \in rows : e.version.available = r.available

LEMMA TimedAsSaid ==
  ASSUME NEW s, NEW id, NEW c
  PROVE  TimedBy(CompanyEntries(s, id, c), CompanySays(c))
<1> DEFINE Timed(e) == \E r \in CompanySays(c) : e.version.available = r.available
<1>2. /\ c.issuers \subseteq CompanySays(c) /\ LinksOf(c) \subseteq CompanySays(c)
      /\ c.facts \subseteq CompanySays(c) /\ c.actions \subseteq CompanySays(c)
      /\ c.events \subseteq CompanySays(c) /\ c.expectations \subseteq CompanySays(c)
      /\ c.guidance \subseteq CompanySays(c)
  BY DEF CompanySays, Records
<1>3. \A e \in IssuerEntries(c) : Timed(e)
  BY <1>2 DEF IssuerEntries
<1>4. \A e \in LinkEntries(c) : Timed(e)
  BY <1>2 DEF LinkEntries, SymbolLinks
<1>5. \A e \in ActionEntries(id, c) : Timed(e)
  BY <1>2 DEF ActionEntries
<1>6. \A e \in ConsensusEntries(id, c) : Timed(e)
  BY <1>2 DEF ConsensusEntries
<1>7. \A e \in EventEntries(id, c) : Timed(e)
  BY <1>2 DEF EventEntries
<1>8. \A e \in GuidanceEntries(id, c) : Timed(e)
  BY <1>2 DEF GuidanceEntries
<1>9. \A e \in FactSays(FactsOf(s, id, c)) : Timed(e)
  <2> SUFFICES ASSUME NEW f \in c.facts, NEW p \in Matching(s, c, f),
                      NEW e \in FactSaid(FactEntry(id, p, f))
               PROVE  Timed(e)
    BY DEF FactSays, FactsOf
  <2> DEFINE x == FactEntry(id, p, f)
             fact == x.fact  fundamental == x.fundamental  said == x.said
  <2>1. said.available = f.available
    BY DEF FactEntry
  <2>2. e = [key |-> fact, version |-> said]
        \/ \E n \in Nat : e = [key |-> fundamental, version |-> Fundamental(x, n)]
    BY DEF FactSaid
  <2> HIDE DEF x, fact, fundamental, said
  <2>3. CASE e = [key |-> fact, version |-> said]
    <3>1. e.version = said
      BY <2>3
    <3> QED
      BY <1>2, <2>1, <3>1
  <2>4. ASSUME NEW n \in Nat, e = [key |-> fundamental, version |-> Fundamental(x, n)]
        PROVE  Timed(e)
    <3>1. e.version = Fundamental(x, n)
      BY <2>4
    <3>2. e.version.available = said.available
      BY <3>1 DEF Fundamental, said
    <3> QED
      BY <1>2, <2>1, <3>2
  <2> QED
    BY <2>2, <2>3, <2>4
<1> HIDE DEF Timed
<1>10. \A e \in CompanyEntries(s, id, c) : Timed(e)
  BY <1>3, <1>4, <1>5, <1>6, <1>7, <1>8, <1>9 DEF CompanyEntries, SecEntries, RestEntries
<1> QED
  BY <1>10 DEF TimedBy, Timed

LEMMA AvailableAsSaid ==
  ASSUME NEW s, NEW id, NEW c, NEW cutoff, NEW policy,
         \A r \in CompanySays(c) : ~ Visible(r, cutoff, policy)
  PROVE  \A e \in CompanyEntries(s, id, c) : ~ Visible(e.version, cutoff, policy)
BY TimedAsSaid DEF TimedBy, Visible

LEMMA TellsTheSame ==
  ASSUME NEW s, NEW t, AreChains(s.chains), AreChains(t.chains), NEW E,
         Continues(t.chains, s.chains, E), NEW cutoff, NEW policy,
         \A e \in E : ~ Visible(e.version, cutoff, policy)
  PROVE  \A kinds, issuer : Told(t, kinds, issuer, cutoff, policy) = Told(s, kinds, issuer, cutoff, policy)
<1> SUFFICES ASSUME NEW kinds, NEW issuer
             PROVE  Told(t, kinds, issuer, cutoff, policy) = Told(s, kinds, issuer, cutoff, policy)
  OBVIOUS
<1> DEFINE keys == UNION {KeysOf(t, kind, issuer) : kind \in kinds}
           others == UNION {KeysOf(s, kind, issuer) : kind \in kinds}
           now == t.chains  held == s.chains
<1>1. DOMAIN held \subseteq DOMAIN now
  BY DEF Continues
<1>2. others \cap DOMAIN held = keys \cap DOMAIN held
  BY <1>1 DEF KeysOf
<1>3. /\ Told(t, kinds, issuer, cutoff, policy) = Answered(now, keys, cutoff, policy)
      /\ Told(s, kinds, issuer, cutoff, policy) = Answered(held, others, cutoff, policy)
  BY DEF Told
<1>4. AreChains(held) /\ AreChains(now) /\ Continues(now, held, E)
  OBVIOUS
<1> HIDE DEF keys, others, now, held
<1>5. Answered(now, keys, cutoff, policy) = Answered(held, others, cutoff, policy)
  BY <1>2, <1>4, AnswerStays
<1> QED
  BY <1>3, <1>5

LEMMA FilesTheSame ==
  ASSUME NEW s, NEW t, NEW id, NEW c, Stays(t.filings, s.filings),
         t.filings = s.filings \/ t.filings = WithFilings(s, id, c),
         NEW cutoff, NEW policy, \A f \in c.filings : ~ Visible(f, cutoff, policy)
  PROVE  \A issuer : GetFilings(t, issuer, cutoff, policy) = GetFilings(s, issuer, cutoff, policy)
<1> DEFINE A == {f.accession : f \in c.filings}
<1>1. ASSUME NEW a \in DOMAIN t.filings, a \notin DOMAIN s.filings
      PROVE  ~ Visible(t.filings[a].said, cutoff, policy)
  <2>1. t.filings = WithFilings(s, id, c) /\ a \in A
    BY <1>1 DEF WithFilings, Overlay
  <2>2. t.filings[a] = FilingStored(id, CHOOSE f \in c.filings : f.accession = a)
    BY <2>1 DEF WithFilings, Overlay
  <2>3. (CHOOSE f \in c.filings : f.accession = a) \in c.filings
    BY <2>1
  <2>4. t.filings[a].said \in c.filings
    BY <2>2, <2>3 DEF FilingStored
  <2> QED
    BY <2>4
<1>2. DOMAIN s.filings \subseteq DOMAIN t.filings /\ \A a \in DOMAIN s.filings : t.filings[a] = s.filings[a]
  BY DEF Stays
<1> QED
  BY <1>1, <1>2 DEF GetFilings, FilingIssuers

\* One publication, as the property states it.
CompanyReadsTheSame ==
  \A id \in company'.published \ company.published, cutoff \in CompanyCutoff, policy \in Policy :
    (\A r \in CompanySays(Filed[id]) : ~Visible(r, cutoff, policy)) =>
      \A issuer \in company'.issuers :
        CompanyView(company', issuer, cutoff, policy) = CompanyView(company, issuer, cutoff, policy)

LEMMA CompanyStable == CompanyInv /\ [CompanyNext]_company => CompanyReadsTheSame
<1> SUFFICES ASSUME CompanyInv, [CompanyNext]_company PROVE CompanyReadsTheSame
  OBVIOUS
<1>1. ASSUME NEW id \in CompanyCapture, CompanyPublish(id) PROVE CompanyReadsTheSame
  <2>1. /\ company'.published = company.published \cup {id}
        /\ AreChains(company.chains) /\ AreChains(company'.chains)
        /\ Continues(company'.chains, company.chains, CompanyEntries(company, id, Filed[id]))
        /\ Stays(company'.filings, company.filings)
        /\ \/ company'.filings = company.filings
           \/ company'.filings = WithFilings(company, id, Filed[id])
    BY <1>1, PublishedCompany DEF CompanyInv
  <2> SUFFICES ASSUME NEW cutoff, NEW policy, \A r \in CompanySays(Filed[id]) : ~Visible(r, cutoff, policy),
                      NEW issuer
               PROVE  CompanyView(company', issuer, cutoff, policy) = CompanyView(company, issuer, cutoff, policy)
    BY <2>1 DEF CompanyReadsTheSame
  <2>2. \A e \in CompanyEntries(company, id, Filed[id]) : ~ Visible(e.version, cutoff, policy)
    BY AvailableAsSaid
  <2>3. \A f \in Filed[id].filings : ~ Visible(f, cutoff, policy)
    BY DEF CompanySays
  <2> DEFINE s == company  t == company'  E == CompanyEntries(company, id, Filed[id])
             ToldSame == \A kinds, i : Told(t, kinds, i, cutoff, policy) = Told(s, kinds, i, cutoff, policy)
             FilesSame == \A i : GetFilings(t, i, cutoff, policy) = GetFilings(s, i, cutoff, policy)
  <2>4. AreChains(s.chains) /\ AreChains(t.chains) /\ Continues(t.chains, s.chains, E)
    BY <2>1
  <2>5. ToldSame
    BY <2>2, <2>4, TellsTheSame
  <2>6. FilesSame
    BY <2>1, <2>3, FilesTheSame
  <2>7. CompanyView(t, issuer, cutoff, policy) = CompanyView(s, issuer, cutoff, policy)
    <3> HIDE DEF s, t
    <3> QED
      BY <2>5, <2>6 DEF CompanyView, GetIssuer, GetFundamentals, GetCorporateActions, GetEarnings
  <2> QED
    BY <2>7
<1>2. ASSUME NEW id \in CompanyCapture, CompanyFails(id) PROVE CompanyReadsTheSame
  <2>1. company'.published = company.published
    BY <1>2 DEF CompanyFails, CompanyInv
  <2> QED
    BY <2>1 DEF CompanyReadsTheSame
<1>3. ASSUME UNCHANGED company PROVE CompanyReadsTheSame
  BY <1>3 DEF CompanyReadsTheSame
<1> QED
  BY <1>1, <1>2, <1>3 DEF CompanyNext

\* On any day a provider symbol is one issuer's, for any captures in any order.
THEOREM SymbolOneIssuerHolds == HistoriesSpec => []SymbolOneIssuer
<1>1. HistoriesInit => CompanyInv
  BY CompanyInvInit DEF HistoriesInit
<1>2. CompanyInv /\ [HistoriesNext]_historyVars => CompanyInv'
  BY CompanyStepKeeps
     DEF HistoriesNext, CompanyStep, NewsStep, MacroStep, CatalogStep, BarsStep, historyVars
<1>3. CompanyInv => SymbolOneIssuer
  BY DEF CompanyInv
<1> QED
  BY <1>1, <1>2, <1>3, PTL DEF HistoriesSpec

\* What a fundamental says is what the fact version it names says, whose filing is
\* there, and its metric is that of a stored mapping of the fact's concept, however
\* facts are corrected and concepts mapped to other metrics later.
THEOREM FundamentalRestsHolds == HistoriesSpec => []FundamentalRests
<1>1. HistoriesInit => CompanyInv
  BY CompanyInvInit DEF HistoriesInit
<1>2. CompanyInv /\ [HistoriesNext]_historyVars => CompanyInv'
  BY CompanyStepKeeps
     DEF HistoriesNext, CompanyStep, NewsStep, MacroStep, CatalogStep, BarsStep, historyVars
<1>3. CompanyInv => FundamentalRests
  BY FundamentalsRest
<1> QED
  BY <1>1, <1>2, <1>3, PTL DEF HistoriesSpec

\* A company reads as of a cutoff as it did before a publication nothing of
\* which was available then.
THEOREM CompanyAsOfStableHolds == HistoriesSpec => CompanyAsOfStable
<1>1. HistoriesInit => CompanyInv
  BY CompanyInvInit DEF HistoriesInit
<1>2. CompanyInv /\ [HistoriesNext]_historyVars => CompanyInv'
  BY CompanyStepKeeps
     DEF HistoriesNext, CompanyStep, NewsStep, MacroStep, CatalogStep, BarsStep, historyVars
<1>3. CompanyInv /\ [HistoriesNext]_historyVars => CompanyReadsTheSame
  BY CompanyStable
     DEF HistoriesNext, CompanyStep, NewsStep, MacroStep, CatalogStep, BarsStep, historyVars
<1> QED
  BY <1>1, <1>2, <1>3, PTL DEF HistoriesSpec, CompanyAsOfStable, CompanyReadsTheSame

-----------------------------------------------------------------------------
(***************************************************************************)
(* News.  A snapshot says all its items at once.                            *)
(***************************************************************************)
NewsInv ==
  /\ news \in [items : {news.items}, published : {news.published}, spent : {news.spent}]
  /\ AreChains(news.items)

NewsReadsTheSame ==
  \A id \in news'.published \ news.published, cutoff \in NewsCutoff, policy \in Policy :
    ~Visible([available |-> Reported[id].captured], cutoff, policy) =>
      /\ \A withRetracted \in BOOLEAN :
           GetItems(news', withRetracted, cutoff, policy) = GetItems(news, withRetracted, cutoff, policy)
      /\ \A term \in NewsTerms :
           Search(news', term, cutoff, policy) = Search(news, term, cutoff, policy)

\* What is answered of chains that are kept is found among them before and after.
LEMMA FoundIsKept ==
  ASSUME NEW s, AreChains(s.items), NEW t, Keeps(t.items, s.items), NEW cutoff, NEW policy, NEW term,
         NEW a \in Answered(s.items, DOMAIN s.items, cutoff, policy)
  PROVE  a \in IndexedVersions(t, term) <=> a \in IndexedVersions(s, term)
<1>1. PICK key \in DOMAIN s.items : \E v \in NewestVisible(s.items[key], cutoff, policy) :
             a = [key |-> key, version |-> v]
  BY DEF Answered
<1>2. PICK v : v \in NewestVisible(s.items[key], cutoff, policy) /\ a = [key |-> key, version |-> v]
  BY <1>1
<1>3. v \in ToSet(s.items[key])
  BY <1>2 DEF NewestVisible, Newest, ToSet
<1>4. key \in DOMAIN t.items /\ v \in ToSet(t.items[key])
  BY <1>3 DEF Keeps, ToSet
<1>5. ASSUME NEW u, NEW k \in DOMAIN u.items, v \in ToSet(u.items[k]), a.key = k
      PROVE  a \in IndexedVersions(u, term) <=> Matches(v, term)
  <2>1. ASSUME a \in IndexedVersions(u, term) PROVE Matches(v, term)
    <3>1. PICK m, x : a = [key |-> m, version |-> x] /\ Matches(x, term)
      BY <2>1 DEF IndexedVersions
    <3>2. a.version = x /\ a.version = v
      BY <1>2, <3>1
    <3> QED
      BY <3>1, <3>2
  <2>2. ASSUME Matches(v, term) PROVE a \in IndexedVersions(u, term)
    <3>1. a = [key |-> k, version |-> v]
      BY <1>2, <1>5
    <3>2. v \in {x \in ToSet(u.items[k]) : Matches(x, term)}
      BY <1>5, <2>2
    <3> QED
      BY <3>1, <3>2 DEF IndexedVersions
  <2> QED
    BY <2>1, <2>2
<1>6. a.key = key
  BY <1>2
<1> QED
  BY <1>3, <1>4, <1>5, <1>6

LEMMA PublishedNews ==
  ASSUME NewsInv, NEW id \in NewsSnapshot, NewsPublish(id)
  PROVE  /\ NewsInv' /\ news'.published = news.published \cup {id}
         /\ Continues(news'.items, news.items, ItemEntries(Reported[id]))
<1> DEFINE n == Reported[id]  held == news.items  E == ItemEntries(n)
           now == ExtendedAll(held, SetToSeq(E))
<1>1. IsFiniteSet(E)
  <2> DEFINE f == [i \in n.items |-> [key |-> ItemKey(n, i), version |-> Versioned(n, i)]]
  <2>1. E = {f[i] : i \in n.items} /\ DOMAIN f = n.items
    BY DEF ItemEntries
  <2> HIDE DEF f
  <2> QED
    BY <2>1, ReportedIsFinite, ImageIsFinite
<1>2. news' = [news EXCEPT !.items = now, !.published = news.published \cup {id}]
  BY DEF NewsPublish
<1>3. AreChains(held) /\ now = ExtendedAll(held, SetToSeq(E))
  BY DEF NewsInv
<1> HIDE DEF now, held, E
<1>4. AreChains(now) /\ Continues(now, held, E)
  BY <1>1, <1>3, SaysAll
<1>5. /\ news'.items = now /\ news'.published = news.published \cup {id}
      /\ news' \in [items : {news'.items}, published : {news'.published}, spent : {news'.spent}]
  BY <1>2 DEF NewsInv
<1> QED
  BY <1>4, <1>5 DEF NewsInv, held, E

LEMMA NewsStepKeeps == NewsInv /\ [NewsNext]_news => NewsInv' /\ NewsReadsTheSame
<1> SUFFICES ASSUME NewsInv, [NewsNext]_news PROVE NewsInv' /\ NewsReadsTheSame
  OBVIOUS
<1>1. ASSUME NEW id \in NewsSnapshot, NewsPublish(id) PROVE NewsInv' /\ NewsReadsTheSame
  <2>1. /\ NewsInv' /\ news'.published = news.published \cup {id}
        /\ Continues(news'.items, news.items, ItemEntries(Reported[id]))
    BY <1>1, PublishedNews
  <2> SUFFICES ASSUME NEW cutoff, NEW policy,
                      ~Visible([available |-> Reported[id].captured], cutoff, policy)
               PROVE  /\ \A withRetracted \in BOOLEAN :
                           GetItems(news', withRetracted, cutoff, policy)
                             = GetItems(news, withRetracted, cutoff, policy)
                      /\ \A term : Search(news', term, cutoff, policy) = Search(news, term, cutoff, policy)
    BY <2>1 DEF NewsReadsTheSame
  <2> DEFINE now == news'.items  held == news.items  E == ItemEntries(Reported[id])
             keys == DOMAIN now  others == DOMAIN held
  <2>2. \A e \in E : ~ Visible(e.version, cutoff, policy)
    BY DEF ItemEntries, Versioned, Visible
  <2>3. AreChains(held) /\ AreChains(now) /\ Continues(now, held, E)
    BY <2>1 DEF NewsInv
  <2>4. others \cap DOMAIN held = keys \cap DOMAIN held
    BY <2>3 DEF Continues
  <2> HIDE DEF now, held, E, keys, others
  <2>5. Answered(now, keys, cutoff, policy) = Answered(held, others, cutoff, policy)
    BY <2>2, <2>3, <2>4, AnswerStays
  <2>6. \A withRetracted : GetItems(news', withRetracted, cutoff, policy)
                             = GetItems(news, withRetracted, cutoff, policy)
    BY <2>5 DEF GetItems, now, held, keys, others
  <2>7. Keeps(now, held)
    BY <2>3, ContinuesKeeps
  <2>8. ASSUME NEW term PROVE Search(news', term, cutoff, policy) = Search(news, term, cutoff, policy)
    <3> DEFINE s == news  t == news'  answer == GetItems(s, FALSE, cutoff, policy)
    <3>1. answer \subseteq Answered(s.items, DOMAIN s.items, cutoff, policy)
      BY DEF GetItems
    <3>2. AreChains(s.items) /\ Keeps(t.items, s.items)
      BY <2>3, <2>7 DEF now, held
    <3>3. Search(t, term, cutoff, policy) = answer \cap IndexedVersions(t, term)
          /\ Search(s, term, cutoff, policy) = answer \cap IndexedVersions(s, term)
      BY <2>6 DEF Search
    <3> HIDE DEF s, t, answer
    <3>4. \A a \in answer : a \in IndexedVersions(t, term) <=> a \in IndexedVersions(s, term)
      BY <3>1, <3>2, FoundIsKept
    <3> QED
      BY <3>3, <3>4 DEF s, t
  <2> QED
    BY <2>6, <2>8
<1>2. ASSUME NEW id \in NewsSnapshot, NewsFails(id) PROVE NewsInv' /\ NewsReadsTheSame
  <2>1. news' = [news EXCEPT !.spent = news.spent \cup {id}]
    BY <1>2 DEF NewsFails
  <2>2. /\ news'.items = news.items /\ news'.published = news.published
        /\ news' \in [items : {news'.items}, published : {news'.published}, spent : {news'.spent}]
    BY <2>1 DEF NewsInv
  <2> QED
    BY <2>2 DEF NewsInv, NewsReadsTheSame
<1>3. ASSUME UNCHANGED news PROVE NewsInv' /\ NewsReadsTheSame
  BY <1>3 DEF NewsInv, NewsReadsTheSame
<1> QED
  BY <1>1, <1>2, <1>3 DEF NewsNext

LEMMA NewsInvInit == NewsInit => NewsInv
<1> SUFFICES ASSUME NewsInit PROVE NewsInv
  OBVIOUS
<1>1. news = [items |-> << >>, published |-> {}, spent |-> {}]
  BY DEF NewsInit, EmptyNews
<1>2. DOMAIN news.items = {} /\ news.items = << >>
  BY <1>1
<1>3. AreChains(news.items)
  BY <1>2 DEF AreChains
<1> QED
  BY <1>1, <1>3 DEF NewsInv

LEMMA NewsKeeps == NewsInv /\ [NewsNext]_news => NewsInv'
BY NewsStepKeeps

LEMMA NewsStable == NewsInv /\ [NewsNext]_news => NewsReadsTheSame
BY NewsStepKeeps

\* News reads and is searched as of a cutoff as it was before a snapshot that was
\* captured later.
THEOREM NewsAsOfStableHolds == HistoriesSpec => NewsAsOfStable
<1>1. HistoriesInit => NewsInv
  BY NewsInvInit DEF HistoriesInit
<1>2. NewsInv /\ [HistoriesNext]_historyVars => NewsInv'
  BY NewsKeeps
     DEF HistoriesNext, CompanyStep, NewsStep, MacroStep, CatalogStep, BarsStep, historyVars
<1>3. NewsInv /\ [HistoriesNext]_historyVars => NewsReadsTheSame
  BY NewsStable
     DEF HistoriesNext, CompanyStep, NewsStep, MacroStep, CatalogStep, BarsStep, historyVars
<1> QED
  BY <1>1, <1>2, <1>3, PTL DEF HistoriesSpec, NewsAsOfStable, NewsReadsTheSame

-----------------------------------------------------------------------------
(***************************************************************************)
(* Memberships.                                                             *)
(***************************************************************************)
\* What a batch makes of a chain: nothing, or one version more, which joins an
\* instrument that is not active or ends one that is, with its interval.
Joins(held, key, v) == v.state = "active" /\ ~ IsActive(held, key)
Ends(held, key, v) ==
  v.state = "tombstone" /\ IsActive(held, key) /\ Interval(v) = Interval(Last(held[key]))

Moves(now, held, c, key) ==
  \/ key \in DOMAIN held /\ now[key] = held[key]
  \/ \E v : /\ v.available = c.available
            /\ now[key] = Append(History(held, key), v)
            /\ Joins(held, key, v) \/ Ends(held, key, v)

Said(c) == {m.key : m \in c.members}

\* By turns active and ended, and all of it visible at the end.
ByTurns(chain) ==
  /\ \A n \in DOMAIN chain : \A policy \in Policy :
       Visible(chain[n], AtInstant(Forever, 10 * Forever), policy)
  /\ \A n \in DOMAIN chain : n # 1 /\ chain[n - 1].state = "active" =>
       chain[n].state # "active" /\ Interval(chain[n]) = Interval(chain[n - 1])

AllByTurns(held) == \A key \in DOMAIN held : ByTurns(held[key])

LEMMA MembersMove ==
  ASSUME NEW held, NEW c, \A m \in c.members : BoundsAgree(held, m),
         NEW now, now = WithMembers(held, c)
  PROVE  /\ DOMAIN now = Said(c) \cup DOMAIN held
         /\ \A key \in DOMAIN now : Moves(now, held, c, key)
<1>1. /\ DOMAIN now = Said(c) \cup DOMAIN held
      /\ \A key \in DOMAIN now :
           now[key] = IF key \in Said(c) THEN Joined(held, c, CHOOSE m \in c.members : m.key = key)
                      ELSE IF key \in Omitted(held, c) THEN Buried(held, c, key) ELSE held[key]
  BY DEF WithMembers, Said
<1>2. ASSUME NEW key \in Said(c) PROVE Moves(now, held, c, key)
  <2> DEFINE m == CHOOSE x \in c.members : x.key = key
  <2>1. m \in c.members /\ m.key = key
    BY DEF Said
  <2> HIDE DEF m
  <2>2. now[key] = Joined(held, c, m)
    BY <1>1, <1>2 DEF m
  <2>3. IsActive(held, key) => Interval(Last(held[key])) = Interval(m)
    BY <2>1 DEF BoundsAgree
  <2>4. CASE IsActive(held, key)
    <3>1. now[key] = held[key] /\ key \in DOMAIN held
      BY <2>1, <2>2, <2>3, <2>4 DEF Joined, IsActive, History
    <3> QED
      BY <3>1 DEF Moves
  <2>5. CASE ~ IsActive(held, key)
    <3> DEFINE v == Membership(m, c.available, "active")
    <3>1. now[key] = Append(History(held, key), v)
      BY <2>1, <2>2, <2>5 DEF Joined
    <3>2. v.state = "active" /\ v.available = c.available
      BY DEF Membership
    <3> HIDE DEF v
    <3> QED
      BY <2>5, <3>1, <3>2 DEF Moves, Joins
  <2> QED
    BY <2>4, <2>5
<1>3. ASSUME NEW key \in DOMAIN held, key \notin Said(c), key \in Omitted(held, c)
      PROVE  Moves(now, held, c, key)
  <2> DEFINE w == Last(held[key])  v == Membership(w, c.available, "tombstone")
  <2>1. now[key] = Append(held[key], v) /\ History(held, key) = held[key]
    BY <1>1, <1>3 DEF Buried, History
  <2>2. v.state = "tombstone" /\ v.available = c.available /\ Interval(v) = Interval(w)
    BY DEF Membership, Interval
  <2>3. IsActive(held, key)
    BY <1>3 DEF Omitted, ActiveKeys
  <2> HIDE DEF v
  <2> QED
    BY <2>1, <2>2, <2>3 DEF Moves, Ends
<1>4. ASSUME NEW key \in DOMAIN held, key \notin Said(c), key \notin Omitted(held, c)
      PROVE  Moves(now, held, c, key)
  BY <1>1, <1>4 DEF Moves
<1> QED
  BY <1>1, <1>2, <1>3, <1>4

LEMMA MovedIsChains ==
  ASSUME NEW held, AreChains(held), NEW now, NEW c, DOMAIN now = Said(c) \cup DOMAIN held,
         now = [key \in DOMAIN now |-> now[key]],
         \A key \in DOMAIN now : Moves(now, held, c, key)
  PROVE  AreChains(now)
<1> SUFFICES ASSUME NEW key \in DOMAIN now PROVE now[key] \in Seq(SaidIn(now))
  BY DEF AreChains
<1>1. \E V : now[key] \in Seq(V)
  <2>1. CASE key \in DOMAIN held /\ now[key] = held[key]
    BY <2>1 DEF AreChains
  <2>2. ASSUME NEW v, now[key] = Append(History(held, key), v) PROVE \E V : now[key] \in Seq(V)
    <3>1. History(held, key) \in Seq(SaidIn(held) \cup {v})
      <4>1. History(held, key) \in Seq(SaidIn(held))
        BY HistoryIsSeq
      <4> QED
        BY <4>1
    <3>2. now[key] \in Seq(SaidIn(held) \cup {v})
      BY <2>2, <3>1
    <3> QED
      BY <3>2
  <2> QED
    BY <2>1, <2>2 DEF Moves
<1>2. PICK V : now[key] \in Seq(V)
  BY <1>1
<1>3. \A n \in 1 .. Len(now[key]) : now[key][n] \in SaidIn(now)
  BY <1>2 DEF SaidIn, ToSet
<1> QED
  BY <1>2, <1>3

LEMMA MovedByTurns ==
  ASSUME NEW held, AreChains(held), NEW now, NEW c, AllByTurns(held),
         DOMAIN now = Said(c) \cup DOMAIN held,
         \A key \in DOMAIN now : Moves(now, held, c, key),
         \A policy \in Policy : Included(c.available, AtInstant(Forever, 10 * Forever), policy)
  PROVE  AllByTurns(now)
<1> SUFFICES ASSUME NEW key \in DOMAIN now PROVE ByTurns(now[key])
  BY DEF AllByTurns
<1>1. CASE key \in DOMAIN held /\ now[key] = held[key]
  BY <1>1 DEF AllByTurns
<1>2. ASSUME NEW v, v.available = c.available, now[key] = Append(History(held, key), v),
             Joins(held, key, v) \/ Ends(held, key, v)
      PROVE  ByTurns(now[key])
  <2> DEFINE h == History(held, key)
  <2>1. h \in Seq(SaidIn(held)) /\ ByTurns(h) /\ (h # << >> => key \in DOMAIN held /\ held[key] = h)
    BY HistoryIsSeq DEF History, AllByTurns, ByTurns
  <2>2. h \in Seq(SaidIn(held) \cup {v}) /\ now[key] = Append(h, v)
    BY <1>2, <2>1
  <2>3. /\ Joins(held, key, v) => v.state = "active" /\ (h # << >> => h[Len(h)].state # "active")
        /\ Ends(held, key, v) => /\ v.state = "tombstone" /\ h # << >>
                                 /\ Interval(v) = Interval(h[Len(h)])
    BY <2>1 DEF Joins, Ends, IsActive, Last, h
  <2>4. \A policy \in Policy : Visible(v, AtInstant(Forever, 10 * Forever), policy)
    BY <1>2 DEF Visible
  <2> HIDE DEF h
  <2>5. /\ DOMAIN now[key] = DOMAIN h \cup {Len(h) + 1} /\ now[key][Len(h) + 1] = v
        /\ \A n \in DOMAIN h : now[key][n] = h[n]
        /\ Len(h) \in Nat /\ DOMAIN h = 1 .. Len(h)
    BY <2>2
  <2>6. \A n \in DOMAIN now[key] : \A policy \in Policy :
          Visible(now[key][n], AtInstant(Forever, 10 * Forever), policy)
    BY <2>1, <2>4, <2>5 DEF ByTurns
  <2>7. ASSUME NEW n \in DOMAIN now[key], n # 1, now[key][n - 1].state = "active"
        PROVE  now[key][n].state # "active" /\ Interval(now[key][n]) = Interval(now[key][n - 1])
    <3>1. CASE n \in DOMAIN h
      <4>1. n - 1 \in DOMAIN h
        BY <2>5, <2>7, <3>1
      <4>2. now[key][n] = h[n] /\ now[key][n - 1] = h[n - 1]
        BY <2>5, <3>1, <4>1
      <4> QED
        BY <2>1, <2>7, <3>1, <4>2 DEF ByTurns
    <3>2. CASE n = Len(h) + 1
      <4>1. Len(h) # 0 /\ Len(h) \in DOMAIN h /\ n - 1 = Len(h) /\ h # << >>
        <5>1. h = << >> => Len(h) = 0
          OBVIOUS
        <5> QED
          BY <2>5, <2>7, <3>2, <5>1
      <4>2. now[key][n] = v /\ now[key][n - 1] = h[Len(h)]
        BY <2>5, <3>2, <4>1
      <4> QED
        BY <1>2, <2>3, <2>7, <4>1, <4>2
    <3> QED
      BY <2>5, <3>1, <3>2
  <2> QED
    BY <2>6, <2>7 DEF ByTurns
<1> QED
  BY <1>1, <1>2 DEF Moves

-----------------------------------------------------------------------------
CatalogInv ==
  /\ catalog \in [instruments : {catalog.instruments}, identifiers : {catalog.identifiers},
                  classes : {catalog.classes}, members : {catalog.members},
                  published : {catalog.published}, spent : {catalog.spent}]
  /\ AreChains(catalog.classes) /\ AreChains(catalog.members)
  /\ AllByTurns(catalog.members)

\* One import, of what the properties are about.
LEMMA Imported ==
  ASSUME CatalogInv, NEW b \in Batch, Import(b)
  PROVE  /\ CatalogInv' /\ Parses(Content[b])
         /\ DOMAIN catalog'.published = DOMAIN catalog.published \cup {b}
         /\ catalog'.identifiers = catalog.identifiers \cup Identifiers(Content[b])
         /\ Continues(catalog'.classes, catalog.classes, ClassEntries(Content[b]))
         /\ catalog'.members = WithMembers(catalog.members, Content[b])
         /\ DOMAIN catalog'.members = Said(Content[b]) \cup DOMAIN catalog.members
         /\ \A key \in DOMAIN catalog'.members : Moves(catalog'.members, catalog.members, Content[b], key)
<1> DEFINE c == Content[b]  classes == catalog.classes  E == ClassEntries(c)
           now == WithClasses(classes, c)
           held == catalog.members  then == WithMembers(held, c)
<1>1. Parses(c) /\ Writes(catalog, c)
  BY DEF Import, Fresh
<1>2. /\ catalog' = [instruments |-> WithInstruments(catalog.instruments, c),
                     identifiers |-> WithIdentifiers(catalog.identifiers, c),
                     classes |-> now, members |-> then,
                     published |-> Overlay([x \in {b} |-> Listed(held, c)], catalog.published),
                     spent |-> catalog.spent]
  BY DEF Import, Written
<1>3. IsFiniteSet(E)
  <2> DEFINE f == [k \in c.classes |-> [key |-> <<k.key, k.from, k.to>>,
                                       version |-> [sector |-> k.sector, available |-> k.available]]]
  <2>1. E = {f[k] : k \in c.classes} /\ DOMAIN f = c.classes
    BY DEF ClassEntries
  <2> HIDE DEF f
  <2> QED
    BY <2>1, ContentIsFinite, ImageIsFinite
<1>4. /\ AreChains(classes) /\ AreChains(held) /\ AllByTurns(held)
      /\ now = ExtendedAll(classes, SetToSeq(E))
  BY DEF CatalogInv, WithClasses
<1>5. \A m \in c.members : BoundsAgree(held, m)
  BY <1>1 DEF Writes
<1>6. \A policy \in Policy : Included(c.available, AtInstant(Forever, 10 * Forever), policy)
  BY <1>1, ContentIsFinite DEF Parses, UniverseParse
<1>7. then = WithMembers(held, c) /\ then = [key \in DOMAIN then |-> then[key]]
  BY DEF WithMembers
<1>8. /\ catalog'.classes = now /\ catalog'.members = then
      /\ DOMAIN catalog'.published = DOMAIN catalog.published \cup {b}
      /\ catalog'.identifiers = catalog.identifiers \cup Identifiers(c)
      /\ catalog' \in [instruments : {catalog'.instruments}, identifiers : {catalog'.identifiers},
                       classes : {catalog'.classes}, members : {catalog'.members},
                       published : {catalog'.published}, spent : {catalog'.spent}]
  BY <1>2 DEF Overlay, WithIdentifiers
<1> HIDE DEF now, then, held, classes, E, c
<1>9. AreChains(now) /\ Continues(now, classes, E)
  BY <1>3, <1>4, SaysAll
<1>10. DOMAIN then = Said(c) \cup DOMAIN held /\ \A key \in DOMAIN then : Moves(then, held, c, key)
  BY <1>5, <1>7, MembersMove
<1>11. AreChains(then)
  BY <1>4, <1>7, <1>10, MovedIsChains
<1>12. AllByTurns(then)
  BY <1>4, <1>6, <1>10, MovedByTurns
<1>13. CatalogInv'
  BY <1>8, <1>9, <1>11, <1>12 DEF CatalogInv
<1> QED
  BY <1>1, <1>7, <1>8, <1>9, <1>10, <1>13 DEF c, E, held, classes

LEMMA ImportFailed ==
  ASSUME CatalogInv, NEW b \in Batch, ImportFails(b)
  PROVE  /\ CatalogInv'
         /\ catalog'.published = catalog.published /\ catalog'.members = catalog.members
         /\ catalog'.classes = catalog.classes
<1>1. catalog' = [catalog EXCEPT !.spent = catalog.spent \cup {b}]
  BY DEF ImportFails
<1>2. /\ catalog'.published = catalog.published /\ catalog'.members = catalog.members
      /\ catalog'.classes = catalog.classes
      /\ catalog' \in [instruments : {catalog'.instruments}, identifiers : {catalog'.identifiers},
                       classes : {catalog'.classes}, members : {catalog'.members},
                       published : {catalog'.published}, spent : {catalog'.spent}]
  BY <1>1 DEF CatalogInv
<1> QED
  BY <1>2 DEF CatalogInv

LEMMA CatalogStepKeeps == CatalogInv /\ [Next]_catalog => CatalogInv'
<1> SUFFICES ASSUME CatalogInv, [Next]_catalog PROVE CatalogInv'
  OBVIOUS
<1>1. ASSUME NEW b \in Batch, Import(b) PROVE CatalogInv'
  BY <1>1, Imported
<1>2. ASSUME NEW b \in Batch, ImportFails(b) PROVE CatalogInv'
  BY <1>2, ImportFailed
<1>3. ASSUME UNCHANGED catalog PROVE CatalogInv'
  BY <1>3 DEF CatalogInv
<1> QED
  BY <1>1, <1>2, <1>3 DEF Next

LEMMA CatalogInvInit == Init => CatalogInv
<1> SUFFICES ASSUME Init PROVE CatalogInv
  OBVIOUS
<1>1. catalog = [instruments |-> {}, identifiers |-> {}, classes |-> << >>, members |-> << >>,
                 published |-> << >>, spent |-> {}]
  BY DEF Init, EmptyCatalog
<1>2. catalog.classes = << >> /\ catalog.members = << >> /\ DOMAIN catalog.members = {}
  BY <1>1
<1>3. AreChains(<< >>)
  BY DEF AreChains
<1> QED
  BY <1>1, <1>2, <1>3 DEF CatalogInv, AllByTurns

\* The current pointers and the versions around a day, at the end.
LEMMA CurrentAgrees == CatalogInv => CurrentIsAsOfEnd
<1> DEFINE End == AtInstant(Forever, 10 * Forever)
<1> SUFFICES ASSUME CatalogInv, NEW day \in 1 .. Forever, NEW policy \in Policy,
                    NEW key \in DOMAIN catalog.members
             PROVE  key \in MembersLatest(catalog, day) <=> key \in MembersAsOf(catalog, day, End, policy)
  <2>1. ASSUME NEW day, NEW policy
        PROVE  /\ MembersLatest(catalog, day) \subseteq DOMAIN catalog.members
               /\ MembersAsOf(catalog, day, End, policy) \subseteq DOMAIN catalog.members
    BY DEF MembersLatest, MembersAsOf, ActiveKeys
  <2> HIDE DEF End
  <2>2. ASSUME NEW day \in 1 .. Forever, NEW policy \in Policy,
               \A key \in DOMAIN catalog.members :
                 key \in MembersLatest(catalog, day) <=> key \in MembersAsOf(catalog, day, End, policy)
        PROVE  MembersLatest(catalog, day) = MembersAsOf(catalog, day, End, policy)
    BY <2>1, <2>2
  <2> QED
    BY <2>2 DEF CurrentIsAsOfEnd, End
<1> DEFINE h == catalog.members[key]
           seen == {n \in DOMAIN h : Covers(h[n], day) /\ Visible(h[n], End, policy)}
<1>1. h \in Seq(SaidIn(catalog.members)) /\ ByTurns(h)
  BY DEF CatalogInv, AreChains, AllByTurns
<1>2. seen = {n \in DOMAIN h : Covers(h[n], day)}
  BY <1>1 DEF ByTurns
<1>3. IsActive(catalog.members, key) <=> h # << >> /\ h[Len(h)].state = "active"
  BY DEF IsActive, History, Last
<1> HIDE DEF h, seen
<1>4. DOMAIN h = 1 .. Len(h) /\ Len(h) \in Nat /\ (h # << >> => Len(h) \in DOMAIN h)
  BY <1>1
<1>5. ASSUME h # << >>, h[Len(h)].state = "active", Covers(h[Len(h)], day)
      PROVE  \E v \in Newest(h, seen) : v.state = "active"
  <2>1. Len(h) \in seen /\ \A k \in seen : k <= Len(h)
    BY <1>2, <1>4, <1>5
  <2> QED
    BY <1>5, <2>1 DEF Newest
<1>6. ASSUME NEW n \in seen, \A k \in seen : k <= n, h[n].state = "active"
      PROVE  h # << >> /\ h[Len(h)].state = "active" /\ Covers(h[Len(h)], day)
  <2>1. n \in DOMAIN h /\ Covers(h[n], day)
    BY <1>2
  <2>2. CASE n = Len(h)
    <3>1. h # << >>
      BY <2>1
    <3> QED
      BY <1>6, <2>1, <2>2, <3>1
  <2>3. CASE n # Len(h)
    <3>1. n + 1 \in DOMAIN h /\ n + 1 # 1 /\ (n + 1) - 1 = n
      BY <1>4, <2>1, <2>3
    <3>2. Interval(h[n + 1]) = Interval(h[n])
      BY <1>1, <1>6, <3>1 DEF ByTurns
    <3>3. Covers(h[n + 1], day)
      BY <2>1, <3>2 DEF Interval, Covers
    <3>4. n + 1 \in seen
      BY <1>2, <3>1, <3>3
    <3>5. n + 1 <= n
      BY <1>6, <3>4
    <3> QED
      BY <1>4, <2>1, <3>5
  <2> QED
    BY <2>2, <2>3
<1>7. (h # << >> /\ h[Len(h)].state = "active" /\ Covers(h[Len(h)], day))
        <=> \E v \in Newest(h, seen) : v.state = "active"
  BY <1>5, <1>6 DEF Newest
<1>8. key \in MembersLatest(catalog, day) <=>
        h # << >> /\ h[Len(h)].state = "active" /\ Covers(h[Len(h)], day)
  BY <1>3 DEF MembersLatest, ActiveKeys, h, Last
<1>9. key \in MembersAsOf(catalog, day, End, policy) <=> \E v \in Newest(h, seen) : v.state = "active"
  BY DEF MembersAsOf, h, seen
<1> QED
  BY <1>7, <1>8, <1>9

LEMMA ActiveAfter ==
  ASSUME NEW held, AreChains(held), NEW c, NEW now, now = WithMembers(held, c), NEW key
  PROVE  IsActive(now, key) <=>
           key \in Said(c) \/ (IsActive(held, key) /\ key \notin Omitted(held, c))
<1>1. /\ DOMAIN now = Said(c) \cup DOMAIN held
      /\ \A x \in DOMAIN now :
           now[x] = IF x \in Said(c) THEN Joined(held, c, CHOOSE m \in c.members : m.key = x)
                    ELSE IF x \in Omitted(held, c) THEN Buried(held, c, x) ELSE held[x]
  BY DEF WithMembers, Said
<1> DEFINE h == History(held, key)
<1>2. h \in Seq(SaidIn(held)) /\ (key \in DOMAIN held => h = held[key])
  BY HistoryIsSeq DEF History
<1>3. IsActive(now, key) <=> key \in DOMAIN now /\ now[key] # << >> /\ Last(now[key]).state = "active"
  BY DEF IsActive, History
<1>4. ASSUME NEW v PROVE Append(h, v) # << >> /\ Last(Append(h, v)) = v
  <2>1. h \in Seq(SaidIn(held) \cup {v})
    BY <1>2
  <2> HIDE DEF h
  <2>2. Len(Append(h, v)) = Len(h) + 1 /\ Append(h, v)[Len(h) + 1] = v /\ Len(h) \in Nat
    BY <2>1
  <2>3. Len(Append(h, v)) # 0 /\ Len(<< >>) = 0
    BY <2>2
  <2> QED
    BY <2>2, <2>3 DEF Last
<1>5. CASE key \in Said(c)
  <2> DEFINE m == CHOOSE x \in c.members : x.key = key
  <2>1. m \in c.members /\ m.key = key
    BY <1>5 DEF Said
  <2> HIDE DEF m
  <2>2. now[key] = Joined(held, c, m) /\ key \in DOMAIN now
    BY <1>1, <1>5 DEF m
  <2>3. CASE IsActive(held, key) /\ Interval(Last(held[key])) = Interval(m)
    <3>1. now[key] = held[key]
      BY <2>1, <2>2, <2>3 DEF Joined
    <3> QED
      BY <1>3, <1>5, <2>2, <2>3, <3>1 DEF IsActive, History
  <2>4. CASE ~ (IsActive(held, key) /\ Interval(Last(held[key])) = Interval(m))
    <3> DEFINE v == Membership(m, c.available, "active")
    <3>1. now[key] = Append(h, v)
      BY <2>1, <2>2, <2>4 DEF Joined
    <3>2. v.state = "active"
      BY DEF Membership
    <3> HIDE DEF v, h
    <3>3. now[key] # << >> /\ Last(now[key]).state = "active"
      BY <1>4, <3>1, <3>2
    <3> QED
      BY <1>3, <1>5, <2>2, <3>3
  <2> QED
    BY <2>3, <2>4
<1>6. CASE key \notin Said(c) /\ key \in Omitted(held, c)
  <2> DEFINE v == Membership(Last(held[key]), c.available, "tombstone")
  <2>1. key \in DOMAIN held
    BY <1>6 DEF Omitted, ActiveKeys
  <2>2. now[key] = Append(h, v)
    BY <1>1, <1>2, <1>6, <2>1 DEF Buried
  <2>3. v.state # "active"
    BY DEF Membership
  <2> HIDE DEF v, h
  <2> QED
    BY <1>3, <1>4, <1>6, <2>2, <2>3
<1>7. CASE key \notin Said(c) /\ key \notin Omitted(held, c)
  <2>1. CASE key \in DOMAIN held
    <3>1. now[key] = held[key] /\ key \in DOMAIN now
      BY <1>1, <1>7, <2>1
    <3> QED
      BY <1>3, <1>7, <2>1, <3>1 DEF IsActive, History
  <2>2. CASE key \notin DOMAIN held
    <3>1. key \notin DOMAIN now /\ History(held, key) = << >>
      BY <1>1, <1>7, <2>2 DEF History
    <3> QED
      BY <1>3, <1>7, <3>1 DEF IsActive
  <2> QED
    BY <2>1, <2>2
<1> QED
  BY <1>5, <1>6, <1>7

OmissionEndsNow ==
  \A b \in Batch : b \in DOMAIN catalog'.published \ DOMAIN catalog.published =>
    LET said == {m.key : m \in Content[b].members}
        was == ActiveKeys(catalog.members)
    IN  ActiveKeys(catalog'.members) = IF Content[b].authoritative THEN said ELSE was \cup said

LEMMA OmissionStep == CatalogInv /\ [Next]_catalog => OmissionEndsNow
<1> SUFFICES ASSUME CatalogInv, [Next]_catalog PROVE OmissionEndsNow
  OBVIOUS
<1>1. ASSUME NEW b \in Batch, Import(b) PROVE OmissionEndsNow
  <2> DEFINE c == Content[b]  held == catalog.members  now == catalog'.members
  <2>1. /\ DOMAIN catalog'.published = DOMAIN catalog.published \cup {b}
        /\ now = WithMembers(held, c) /\ AreChains(held)
        /\ DOMAIN now = Said(c) \cup DOMAIN held
    BY <1>1, Imported DEF CatalogInv
  <2> SUFFICES ActiveKeys(now) = IF c.authoritative THEN Said(c) ELSE ActiveKeys(held) \cup Said(c)
    BY <2>1 DEF OmissionEndsNow, Said
  <2> HIDE DEF now, held, c
  <2>2. \A key : IsActive(now, key) <=>
                   key \in Said(c) \/ (IsActive(held, key) /\ key \notin Omitted(held, c))
    BY <2>1, ActiveAfter
  <2>3. \A key : key \in ActiveKeys(held) <=> IsActive(held, key)
    BY DEF ActiveKeys, IsActive, History
  <2>4. \A key : key \in ActiveKeys(now) <=> IsActive(now, key)
    BY DEF ActiveKeys, IsActive, History
  <2>5. Omitted(held, c) = IF c.authoritative THEN ActiveKeys(held) \ Said(c) ELSE {}
    BY DEF Omitted, Said
  <2> QED
    BY <2>2, <2>3, <2>4, <2>5
<1>2. ASSUME NEW b \in Batch, ImportFails(b) PROVE OmissionEndsNow
  BY <1>2, ImportFailed DEF OmissionEndsNow
<1>3. ASSUME UNCHANGED catalog PROVE OmissionEndsNow
  BY <1>3 DEF OmissionEndsNow
<1> QED
  BY <1>1, <1>2, <1>3 DEF Next

-----------------------------------------------------------------------------
\* What a batch says that is not visible leaves the answers as they are.
LEMMA MembersReadTheSame ==
  ASSUME NEW s, NEW t, NEW c, AreChains(s.members),
         DOMAIN t.members = Said(c) \cup DOMAIN s.members,
         \A key \in DOMAIN t.members : Moves(t.members, s.members, c, key),
         NEW day, NEW cutoff, NEW policy, ~ Visible(c, cutoff, policy)
  PROVE  MembersAsOf(t, day, cutoff, policy) = MembersAsOf(s, day, cutoff, policy)
<1> DEFINE held == s.members  now == t.members
           seen(h) == {n \in DOMAIN h : Covers(h[n], day) /\ Visible(h[n], cutoff, policy)}
           active(h) == \E v \in Newest(h, seen(h)) : v.state = "active"
<1>1. \A key : key \in MembersAsOf(t, day, cutoff, policy) <=> key \in DOMAIN now /\ active(now[key])
  BY DEF MembersAsOf
<1>2. \A key : key \in MembersAsOf(s, day, cutoff, policy) <=> key \in DOMAIN held /\ active(held[key])
  BY DEF MembersAsOf
<1>3. ASSUME NEW key \in DOMAIN now
      PROVE  active(now[key]) <=> key \in DOMAIN held /\ active(held[key])
  <2>1. CASE key \in DOMAIN held /\ now[key] = held[key]
    BY <2>1
  <2>2. ASSUME NEW v, v.available = c.available, now[key] = Append(History(held, key), v)
        PROVE  active(now[key]) <=> key \in DOMAIN held /\ active(held[key])
    <3> DEFINE h == History(held, key)  g == Append(h, v)
    <3>1. h \in Seq(SaidIn(held))
      BY HistoryIsSeq
    <3>2. h \in Seq(SaidIn(held) \cup {v})
      BY <3>1
    <3>3. ~ Visible(v, cutoff, policy)
      BY <2>2 DEF Visible
    <3> HIDE DEF h
    <3>4. DOMAIN g = DOMAIN h \cup {Len(h) + 1} /\ g[Len(h) + 1] = v /\ \A n \in DOMAIN h : g[n] = h[n]
      BY <3>2
    <3> HIDE DEF g
    <3>5. seen(g) = seen(h) /\ \A n \in seen(g) : g[n] = h[n]
      BY <3>3, <3>4
    <3>6. Newest(g, seen(g)) = Newest(h, seen(h))
      <4> HIDE DEF seen
      <4> QED
        BY <3>5 DEF Newest
    <3>7. active(g) <=> active(h)
      BY <3>6
    <3>8. CASE key \in DOMAIN held
      BY <2>2, <3>7, <3>8 DEF g, h, History
    <3>9. CASE key \notin DOMAIN held
      <4>1. h = << >>
        BY <3>9 DEF h, History
      <4>2. seen(h) = {}
        BY <4>1
      <4>3. ~ active(h)
        BY <4>2 DEF Newest
      <4> QED
        BY <2>2, <3>7, <3>9, <4>3 DEF g, h
    <3> QED
      BY <3>8, <3>9
  <2> QED
    BY <2>1, <2>2 DEF Moves
<1> HIDE DEF active, now, held
<1>4. DOMAIN held \subseteq DOMAIN now
  BY DEF held, now
<1> QED
  BY <1>1, <1>2, <1>3, <1>4

LEMMA ClassReadsTheSame ==
  ASSUME NEW s, NEW t, NEW c, AreChains(s.classes), AreChains(t.classes),
         Continues(t.classes, s.classes, ClassEntries(c)),
         NEW item, NEW day, NEW cutoff, NEW policy,
         \A k \in c.classes : k.key = item => ~ Visible(k, cutoff, policy)
  PROVE  Classification(t, item, day, cutoff, policy) = Classification(s, item, day, cutoff, policy)
<1> DEFINE held == s.classes  now == t.classes  E == ClassEntries(c)
           keys == {x \in DOMAIN now : x[1] = item /\ x[2] <= day /\ day <= x[3]}
           others == {x \in DOMAIN held : x[1] = item /\ x[2] <= day /\ day <= x[3]}
<1>1. \A e \in E : e.key \in keys => ~ Visible(e.version, cutoff, policy)
  BY DEF ClassEntries, Visible
<1>2. others \cap DOMAIN held = keys \cap DOMAIN held
  BY DEF Continues
<1>3. /\ Classification(t, item, day, cutoff, policy) = Answered(now, keys, cutoff, policy)
      /\ Classification(s, item, day, cutoff, policy) = Answered(held, others, cutoff, policy)
  BY DEF Classification
<1>4. AreChains(held) /\ AreChains(now) /\ Continues(now, held, E)
  OBVIOUS
<1> HIDE DEF held, now, E, keys, others
<1>5. Answered(now, keys, cutoff, policy) = Answered(held, others, cutoff, policy)
  BY <1>1, <1>2, <1>4, AnswerStays
<1> QED
  BY <1>3, <1>5

CatalogReadsTheSame ==
  \A b \in DOMAIN catalog'.published \ DOMAIN catalog.published :
    \A day \in 1 .. Forever, cutoff \in Asked, policy \in Policy :
      LET c == Content[b]
          Before(row) == ~Visible(row, cutoff, policy)
      IN
      /\ Before(c) => MembersAsOf(catalog', day, cutoff, policy)
                        = MembersAsOf(catalog, day, cutoff, policy)
      /\ \A i \in c.instruments :
           (\A k \in c.classes : k.key = i.key => Before(k)) =>
             Classification(catalog', i.key, day, cutoff, policy)
               = Classification(catalog, i.key, day, cutoff, policy)
      /\ \A d \in Identifiers(c) :
           (\A e \in Identifiers(c) : e.symbol = d.symbol => Before(e)) =>
             Eligible(catalog', d.symbol, day, cutoff, policy)
               = Eligible(catalog, d.symbol, day, cutoff, policy)

LEMMA CatalogStable == CatalogInv /\ [Next]_catalog => CatalogReadsTheSame
<1> SUFFICES ASSUME CatalogInv, [Next]_catalog PROVE CatalogReadsTheSame
  OBVIOUS
<1>1. ASSUME NEW b \in Batch, Import(b) PROVE CatalogReadsTheSame
  <2> DEFINE c == Content[b]  s == catalog  t == catalog'
  <2>1. /\ DOMAIN catalog'.published = DOMAIN catalog.published \cup {b}
        /\ t.identifiers = s.identifiers \cup Identifiers(c)
        /\ AreChains(s.classes) /\ AreChains(t.classes)
        /\ Continues(t.classes, s.classes, ClassEntries(c))
        /\ AreChains(s.members) /\ DOMAIN t.members = Said(c) \cup DOMAIN s.members
        /\ \A key \in DOMAIN t.members : Moves(t.members, s.members, c, key)
    BY <1>1, Imported DEF CatalogInv
  <2> SUFFICES ASSUME NEW day, NEW cutoff, NEW policy
               PROVE  /\ ~Visible(c, cutoff, policy) =>
                           MembersAsOf(t, day, cutoff, policy) = MembersAsOf(s, day, cutoff, policy)
                      /\ \A i \in c.instruments :
                           (\A k \in c.classes : k.key = i.key => ~Visible(k, cutoff, policy)) =>
                             Classification(t, i.key, day, cutoff, policy)
                               = Classification(s, i.key, day, cutoff, policy)
                      /\ \A d \in Identifiers(c) :
                           (\A e \in Identifiers(c) : e.symbol = d.symbol => ~Visible(e, cutoff, policy)) =>
                             Eligible(t, d.symbol, day, cutoff, policy)
                               = Eligible(s, d.symbol, day, cutoff, policy)
    BY <2>1 DEF CatalogReadsTheSame
  <2> HIDE DEF c, s, t
  <2>2. ASSUME ~Visible(c, cutoff, policy)
        PROVE  MembersAsOf(t, day, cutoff, policy) = MembersAsOf(s, day, cutoff, policy)
    BY <2>1, <2>2, MembersReadTheSame
  <2>3. ASSUME NEW item, \A k \in c.classes : k.key = item => ~Visible(k, cutoff, policy)
        PROVE  Classification(t, item, day, cutoff, policy) = Classification(s, item, day, cutoff, policy)
    BY <2>1, <2>3, ClassReadsTheSame
  <2>4. ASSUME NEW symbol, \A e \in Identifiers(c) : e.symbol = symbol => ~Visible(e, cutoff, policy)
        PROVE  Eligible(t, symbol, day, cutoff, policy) = Eligible(s, symbol, day, cutoff, policy)
    BY <2>1, <2>4 DEF Eligible
  <2> QED
    BY <2>2, <2>3, <2>4
<1>2. ASSUME NEW b \in Batch, ImportFails(b) PROVE CatalogReadsTheSame
  BY <1>2, ImportFailed DEF CatalogReadsTheSame
<1>3. ASSUME UNCHANGED catalog PROVE CatalogReadsTheSame
  BY <1>3 DEF CatalogReadsTheSame
<1> QED
  BY <1>1, <1>2, <1>3 DEF Next

\* The current pointers of a universe and the versions around a day agree when
\* nothing is left to become available, for any batches in any order.
THEOREM CurrentIsAsOfEndHolds == HistoriesSpec => []CurrentIsAsOfEnd
<1>1. HistoriesInit => CatalogInv
  BY CatalogInvInit DEF HistoriesInit, OptionsInit
<1>2. CatalogInv /\ [HistoriesNext]_historyVars => CatalogInv'
  BY CatalogStepKeeps
     DEF HistoriesNext, CompanyStep, NewsStep, MacroStep, CatalogStep, BarsStep, historyVars,
         OptionsNext, optionVars, Publish, PublishFails
<1>3. CatalogInv => CurrentIsAsOfEnd
  BY CurrentAgrees
<1> QED
  BY <1>1, <1>2, <1>3, PTL DEF HistoriesSpec

\* An authoritative batch ends what it leaves out, and no other batch does.
THEOREM OmissionEndsHolds == HistoriesSpec => OmissionEnds
<1>1. HistoriesInit => CatalogInv
  BY CatalogInvInit DEF HistoriesInit, OptionsInit
<1>2. CatalogInv /\ [HistoriesNext]_historyVars => CatalogInv'
  BY CatalogStepKeeps
     DEF HistoriesNext, CompanyStep, NewsStep, MacroStep, CatalogStep, BarsStep, historyVars,
         OptionsNext, optionVars, Publish, PublishFails
<1>3. CatalogInv /\ [HistoriesNext]_historyVars => OmissionEndsNow
  BY OmissionStep
     DEF HistoriesNext, CompanyStep, NewsStep, MacroStep, CatalogStep, BarsStep, historyVars,
         OptionsNext, optionVars, Publish, PublishFails
<1> QED
  BY <1>1, <1>2, <1>3, PTL DEF HistoriesSpec, OmissionEnds, OmissionEndsNow

\* Universes, classifications and symbols read as of a cutoff as they did before
\* a batch that says of them only what was not available then.
THEOREM CatalogAsOfStableHolds == HistoriesSpec => CatalogAsOfStable
<1>1. HistoriesInit => CatalogInv
  BY CatalogInvInit DEF HistoriesInit, OptionsInit
<1>2. CatalogInv /\ [HistoriesNext]_historyVars => CatalogInv'
  BY CatalogStepKeeps
     DEF HistoriesNext, CompanyStep, NewsStep, MacroStep, CatalogStep, BarsStep, historyVars,
         OptionsNext, optionVars, Publish, PublishFails
<1>3. CatalogInv /\ [HistoriesNext]_historyVars => CatalogReadsTheSame
  BY CatalogStable
     DEF HistoriesNext, CompanyStep, NewsStep, MacroStep, CatalogStep, BarsStep, historyVars,
         OptionsNext, optionVars, Publish, PublishFails
<1> QED
  BY <1>1, <1>2, <1>3, PTL DEF HistoriesSpec, CatalogAsOfStable, CatalogReadsTheSame

-----------------------------------------------------------------------------
(***************************************************************************)
(* Option captures.  A capture shares its contracts and the histories of    *)
(* its bars with the captures before and after it; what it said of them is  *)
(* still there when it is read.                                             *)
(***************************************************************************)
SaidBar == {[capture |-> id, bar |-> CapturedBar(Surface[id], key)] :
              id \in Capture, key \in UNION {BarKeys(Surface[x]) : x \in Capture}}

CaptureKept(id) ==
  LET c == Surface[id] IN
  /\ CaptureIsReviewed(c)
  /\ \A k \in c.contracts : k.id \in DOMAIN options.contracts /\ options.contracts[k.id] = k
  /\ \A key \in BarKeys(c) :
       /\ key \in DOMAIN options.bars
       /\ \E n \in DOMAIN options.bars[key] :
            options.bars[key][n] = [capture |-> id, bar |-> CapturedBar(c, key)]

BarsKnown(key) ==
  LET h == options.bars[key] IN
  /\ h \in Seq(SaidBar)
  /\ \A n \in DOMAIN h : h[n].capture \in options.captures /\ key \in BarKeys(Surface[h[n].capture])
  /\ \A m, n \in DOMAIN h : h[m].capture = h[n].capture => m = n

OptionsInv ==
  /\ options \in [contracts : {options.contracts}, captures : SUBSET Capture,
                  bars : {options.bars}, spent : {options.spent}]
  /\ IsFiniteSet(options.captures)
  /\ \A id \in options.captures : CaptureKept(id)
  /\ \A key \in DOMAIN options.bars : BarsKnown(key)

LEMMA OptionsInvInit == OptionsInit => OptionsInv
<1> SUFFICES ASSUME OptionsInit PROVE OptionsInv
  OBVIOUS
<1>1. options = [contracts |-> << >>, captures |-> {}, bars |-> << >>, spent |-> {}]
  BY DEF OptionsInit, EmptyOptions
<1>2. DOMAIN options.bars = {}
  BY <1>1
<1> QED
  BY <1>1, <1>2, FS_EmptySet DEF OptionsInv

\* What a publication leaves: the contracts it names and those before it, and
\* of each of its bars one version more.
LEMMA PublishedOptions ==
  ASSUME OptionsInv, NEW id \in Capture, Publish(id)
  PROVE  /\ options' \in [contracts : {options'.contracts}, captures : SUBSET Capture,
                          bars : {options'.bars}, spent : {options'.spent}]
         /\ options'.captures = options.captures \cup {id} /\ id \notin options.captures
         /\ CaptureIsReviewed(Surface[id])
         /\ \A k \in Surface[id].contracts :
              k.id \in DOMAIN options'.contracts /\ options'.contracts[k.id] = k
         /\ \A x \in DOMAIN options.contracts :
              x \in DOMAIN options'.contracts /\ options'.contracts[x] = options.contracts[x]
         /\ DOMAIN options'.bars = BarKeys(Surface[id]) \cup DOMAIN options.bars
         /\ \A key \in BarKeys(Surface[id]) :
              options'.bars[key] = Append(History(options.bars, key),
                                     [capture |-> id, bar |-> CapturedBar(Surface[id], key)])
         /\ \A key \in DOMAIN options.bars :
              key \notin BarKeys(Surface[id]) => options'.bars[key] = options.bars[key]
<1> DEFINE c == Surface[id]
           chosen == [x \in {k.id : k \in c.contracts} |-> CHOOSE k \in c.contracts : k.id = x]
           cs == WithContracts(options.contracts, c)
           bs == WithBars(options.bars, id, c)
<1>1. /\ CaptureIsReviewed(c) /\ id \notin options.captures
      /\ \A k \in c.contracts : ContractHeld(options, k)
      /\ options' = [options EXCEPT !.contracts = cs, !.captures = options.captures \cup {id},
                                    !.bars = bs]
  BY DEF Publish, Awaited
<1>2. /\ options'.contracts = cs /\ options'.captures = options.captures \cup {id}
      /\ options'.bars = bs /\ options'.spent = options.spent
      /\ options' \in [contracts : {cs}, captures : SUBSET Capture, bars : {bs},
                      spent : {options.spent}]
  <2> HIDE DEF cs, bs
  <2> QED
    BY <1>1 DEF OptionsInv
<1>3. \A k, l \in c.contracts : k.id = l.id => k = l
  BY <1>1 DEF CaptureIsReviewed, ContractsParse, IsInjective
<1>4. \A k \in c.contracts : k.id \in DOMAIN chosen /\ chosen[k.id] = k
  BY <1>3
<1>5. cs = Overlay(chosen, options.contracts)
  BY DEF WithContracts
<1>6. /\ DOMAIN cs = DOMAIN chosen \cup DOMAIN options.contracts
      /\ \A x \in DOMAIN cs :
           cs[x] = IF x \in DOMAIN chosen THEN chosen[x] ELSE options.contracts[x]
  <2> HIDE DEF chosen
  <2> QED
    BY <1>5 DEF Overlay
<1>7. \A k \in c.contracts : k.id \in DOMAIN cs /\ cs[k.id] = k
  BY <1>4, <1>6
<1>8. ASSUME NEW x \in DOMAIN options.contracts
      PROVE  x \in DOMAIN cs /\ cs[x] = options.contracts[x]
  <2>1. CASE x \in DOMAIN chosen
    <3>1. PICK k \in c.contracts : x = k.id
      BY <2>1
    <3>2. options.contracts[x] = k
      BY <1>1, <1>8, <3>1 DEF ContractHeld
    <3> QED
      BY <1>7, <3>1, <3>2
  <2>2. CASE x \notin DOMAIN chosen
    BY <1>6, <1>8, <2>2
  <2> QED
    BY <2>1, <2>2
<1>9. /\ DOMAIN bs = BarKeys(c) \cup DOMAIN options.bars
      /\ \A key \in BarKeys(c) :
           bs[key] = Append(History(options.bars, key),
                            [capture |-> id, bar |-> CapturedBar(c, key)])
      /\ \A key \in DOMAIN options.bars : key \notin BarKeys(c) => bs[key] = options.bars[key]
  BY DEF WithBars
<1> HIDE DEF cs, bs
<1> QED
  BY <1>1, <1>2, <1>7, <1>8, <1>9

LEMMA CaptureStaysKept ==
  ASSUME OptionsInv, NEW id \in Capture, Publish(id), NEW x \in options.captures \cup {id}
  PROVE  CaptureKept(x)'
<1> DEFINE c == Surface[x]
<1>1. \A key \in DOMAIN options.bars : options.bars[key] \in Seq(SaidBar)
  BY DEF OptionsInv, BarsKnown
<1>2. CASE x = id
  <2>1. ASSUME NEW key \in BarKeys(c)
        PROVE  /\ key \in DOMAIN options'.bars
               /\ \E n \in DOMAIN options'.bars[key] :
                    options'.bars[key][n] = [capture |-> x, bar |-> CapturedBar(c, key)]
    <3> DEFINE h == History(options.bars, key)  v == [capture |-> x, bar |-> CapturedBar(c, key)]
    <3>1. h \in Seq(SaidBar)
      BY <1>1 DEF History
    <3>2. v \in SaidBar
      BY <1>2, <2>1 DEF SaidBar
    <3>3. key \in DOMAIN options'.bars /\ options'.bars[key] = Append(h, v)
      BY <1>2, <2>1, PublishedOptions
    <3> HIDE DEF h, v
    <3>4. Len(h) + 1 \in DOMAIN Append(h, v) /\ Append(h, v)[Len(h) + 1] = v
      BY <3>1, <3>2
    <3> QED
      BY <3>3, <3>4 DEF v
  <2> QED
    BY <1>2, <2>1, PublishedOptions DEF CaptureKept
<1>3. CASE x \in options.captures
  <2>1. CaptureKept(x)
    BY <1>3 DEF OptionsInv
  <2>2. ASSUME NEW key \in BarKeys(c)
        PROVE  /\ key \in DOMAIN options'.bars
               /\ \E n \in DOMAIN options'.bars[key] :
                    options'.bars[key][n] = [capture |-> x, bar |-> CapturedBar(c, key)]
    <3> DEFINE h == options.bars[key]
    <3>1. PICK n \in DOMAIN h : h[n] = [capture |-> x, bar |-> CapturedBar(c, key)]
      BY <2>1, <2>2 DEF CaptureKept
    <3>2. key \in DOMAIN options.bars /\ key \in DOMAIN options'.bars /\ h \in Seq(SaidBar)
      BY <1>1, <2>1, <2>2, PublishedOptions DEF CaptureKept
    <3>3. CASE key \notin BarKeys(Surface[id])
      BY <3>1, <3>2, <3>3, PublishedOptions
    <3>4. CASE key \in BarKeys(Surface[id])
      <4> DEFINE v == [capture |-> id, bar |-> CapturedBar(Surface[id], key)]
      <4>1. options'.bars[key] = Append(h, v)
        BY <3>2, <3>4, PublishedOptions DEF History
      <4>2. v \in SaidBar
        BY <3>4 DEF SaidBar
      <4> HIDE DEF h, v
      <4>3. n \in DOMAIN Append(h, v) /\ Append(h, v)[n] = h[n]
        BY <3>1, <3>2, <4>2
      <4> QED
        BY <3>1, <3>2, <4>1, <4>3 DEF h
    <3> QED
      BY <3>3, <3>4
  <2> QED
    BY <2>1, <2>2, PublishedOptions DEF CaptureKept
<1> QED
  BY <1>2, <1>3

LEMMA BarsStayKnown ==
  ASSUME OptionsInv, NEW id \in Capture, Publish(id), NEW key \in DOMAIN options'.bars
  PROVE  BarsKnown(key)'
<1> DEFINE h == History(options.bars, key)
           v == [capture |-> id, bar |-> CapturedBar(Surface[id], key)]
<1>1. /\ h \in Seq(SaidBar)
      /\ \A n \in DOMAIN h :
           h[n].capture \in options.captures /\ key \in BarKeys(Surface[h[n].capture])
      /\ \A m, n \in DOMAIN h : h[m].capture = h[n].capture => m = n
  BY DEF OptionsInv, BarsKnown, History
<1>2. options'.captures = options.captures \cup {id} /\ id \notin options.captures
  BY PublishedOptions
<1>3. CASE key \in BarKeys(Surface[id])
  <2>a. v \in SaidBar
    BY <1>3 DEF SaidBar
  <2>1. options'.bars[key] = Append(h, v) /\ v \in SaidBar /\ v.capture = id
    BY <1>3, <2>a, PublishedOptions
  <2> HIDE DEF h, v
  <2>2. /\ Append(h, v) \in Seq(SaidBar) /\ DOMAIN Append(h, v) = DOMAIN h \cup {Len(h) + 1}
        /\ Len(h) + 1 \notin DOMAIN h /\ Append(h, v)[Len(h) + 1] = v
        /\ \A n \in DOMAIN h : Append(h, v)[n] = h[n]
    BY <1>1, <2>1
  <2> QED
    BY <1>1, <1>2, <1>3, <2>1, <2>2 DEF BarsKnown
<1>4. CASE key \notin BarKeys(Surface[id])
  <2>1. key \in DOMAIN options.bars /\ options'.bars[key] = options.bars[key]
    BY <1>4, PublishedOptions
  <2>2. BarsKnown(key)
    BY <2>1 DEF OptionsInv
  <2> QED
    BY <1>2, <2>1, <2>2 DEF BarsKnown
<1> QED
  BY <1>3, <1>4

LEMMA OptionsStepKeeps == OptionsInv /\ [OptionsNext]_optionVars => OptionsInv'
<1> SUFFICES ASSUME OptionsInv, [OptionsNext]_optionVars PROVE OptionsInv'
  OBVIOUS
<1>1. ASSUME UNCHANGED options PROVE OptionsInv'
  BY <1>1 DEF OptionsInv, CaptureKept, BarsKnown
<1>2. ASSUME NEW id \in Capture, Publish(id) PROVE OptionsInv'
  <2>1. options'.captures = options.captures \cup {id}
    BY <1>2, PublishedOptions
  <2>2. IsFiniteSet(options'.captures)
    BY <2>1, FS_AddElement DEF OptionsInv
  <2> QED
    BY <1>2, <2>1, <2>2, PublishedOptions, CaptureStaysKept, BarsStayKnown DEF OptionsInv
<1>3. ASSUME NEW id \in Capture, PublishFails(id) PROVE OptionsInv'
  <2>1. /\ options' = [options EXCEPT !.spent = options.spent \cup {id}]
    BY <1>3 DEF PublishFails
  <2>2. /\ options'.contracts = options.contracts /\ options'.captures = options.captures
        /\ options'.bars = options.bars
        /\ options' \in [contracts : {options'.contracts}, captures : SUBSET Capture,
                         bars : {options'.bars}, spent : {options'.spent}]
    BY <2>1 DEF OptionsInv
  <2> QED
    BY <2>2 DEF OptionsInv, CaptureKept, BarsKnown
<1> QED
  BY <1>1, <1>2, <1>3 DEF OptionsNext, optionVars

\* Days and instants are compared as they are wherever both are known, and on
\* the days they are written with otherwise; with one offset that is in order.
LEMMA CaptureThenMember ==
  ASSUME NEW a \in Temporal, NEW b \in Temporal, NEW t \in Temporal, Exact(a), Exact(b), Exact(t),
         OneOffset({a, b, t}), b.precision = "date" /\ t.precision = "datetime" => b.day < t.day,
         Included(a, b, "calendar_date_inclusive"), Included(b, t, "calendar_date_inclusive")
  PROVE  Included(a, t, "calendar_date_inclusive")
<1>1. /\ a.day \in Int /\ b.day \in Int /\ t.day \in Int
      /\ a.instant \in Int /\ b.instant \in Int /\ t.instant \in Int
  BY DEF Temporal
<1>2. \A x, y \in {a, b, t} : x.precision = "datetime" /\ y.precision = "datetime"
         /\ x.instant <= y.instant => x.day <= y.day
  BY DEF OneOffset
<1> QED
  BY <1>1, <1>2 DEF Included, IncludedByInstant, IncludedByDay, Exact

LEMMA MembersAreAvailable ==
  ASSUME NEW c, CaptureIsReviewed(c), NEW m \in Members(c)
  PROVE  AvailableBy(m.available, c)
<1>1. CASE m \in c.contracts
  BY <1>1 DEF CaptureIsReviewed, ContractsParse
<1>2. CASE m \in c.surface
  BY <1>2 DEF CaptureIsReviewed, SurfaceParses
<1>3. ASSUME NEW r \in c.surface, m \in r.bars PROVE AvailableBy(m.available, c)
  BY <1>3 DEF CaptureIsReviewed, SurfaceParses, BarsParse
<1>4. ASSUME NEW r \in c.surface, m \in {r.interest, r.close} PROVE AvailableBy(m.available, c)
  BY <1>4 DEF CaptureIsReviewed, SurfaceParses, ObservationParses
<1>5. CASE m \in InputMembers(c)
  <2>1. InputsParse(c)
    BY DEF CaptureIsReviewed
  <2>2. CASE m = c.inputs.quote
    BY <1>5, <2>1, <2>2 DEF InputsParse, QuoteParses, ObservationParses, InputMembers
  <2>3. CASE m = c.inputs.curve
    BY <2>1, <2>3 DEF InputsParse, CurveParses, ObservationParses
  <2>4. CASE m = c.inputs.dividends
    BY <2>1, <2>4 DEF InputsParse, DividendsParse, ObservationParses
  <2>5. CASE m \in c.inputs.expiries
    BY <2>1, <2>5 DEF InputsParse, ExpiryInputsParse, ObservationParses
  <2> QED
    BY <1>5, <2>2, <2>3, <2>4, <2>5 DEF InputMembers, Dependencies
<1>6. \/ m \in c.contracts \/ m \in c.surface \/ m \in InputMembers(c)
      \/ m \in UNION {r.bars \cup {r.interest, r.close} : r \in c.surface}
  BY DEF Members
<1>7. CASE m \in UNION {r.bars \cup {r.interest, r.close} : r \in c.surface}
  <2>1. PICK r \in c.surface : m \in r.bars \cup {r.interest, r.close}
    BY <1>7
  <2> QED
    BY <1>3, <1>4, <2>1
<1> QED
  BY <1>1, <1>2, <1>5, <1>6, <1>7

\* As a row for each contract is asked for and there are no more rows than
\* contracts, each row is that of one contract of the capture.
LEMMA RowPerContract ==
  ASSUME NEW id \in Capture, CaptureIsReviewed(Surface[id])
  PROVE  LET c == Surface[id] IN
         /\ \A r \in c.surface : \E k \in c.contracts : k.id = r.contract
         /\ \A r, q \in c.surface : r.contract = q.contract => r = q
<1> DEFINE c == Surface[id]  g == [k \in c.contracts |-> CHOOSE r \in c.surface : r.contract = k.id]
<1>1. /\ IsFiniteSet(c.contracts) /\ IsFiniteSet(c.surface)
      /\ Cardinality(c.surface) = Cardinality(c.contracts)
      /\ \A k \in c.contracts : \E r \in c.surface : r.contract = k.id
      /\ \A k, l \in c.contracts : k.id = l.id => k = l
  BY CapturesAreFinite DEF CaptureIsReviewed, SurfaceParses, ContractsParse, IsInjective
<1>2. \A k \in c.contracts : g[k] \in c.surface /\ g[k].contract = k.id
  BY <1>1
<1>3. g \in [c.contracts -> c.surface]
  BY <1>2
<1> HIDE DEF g
<1>4. g \in Injection(c.contracts, c.surface)
  BY <1>1, <1>2, <1>3 DEF Injection, IsInjective
<1>5. g \in Surjection(c.contracts, c.surface)
  BY <1>1, <1>4, FS_Injection
<1>6. \A r \in c.surface : \E k \in c.contracts : g[k] = r
  BY <1>5 DEF Surjection
<1> QED
  BY <1>1, <1>2, <1>6

\* Of finitely many captures one was completed last.
LEMMA LastCompleted ==
  ASSUME NEW ids \in SUBSET Capture, ids # {}, IsFiniteSet(ids)
  PROVE  Selected(ids) \in ids
<1> DEFINE f == [x \in ids |-> Surface[x].completed]
<1>1. f \in [ids -> Int]
  BY CapturesAreFinite
<1> HIDE DEF f
<1>2. PICK x \in ids : \A y \in ids : f[y] <= f[x]
  BY <1>1, Greatest
<1>3. \A y \in ids : Surface[y].completed <= Surface[x].completed
  BY <1>2 DEF f
<1> QED
  BY <1>3 DEF Selected

Days == "calendar_date_inclusive"

\* Whoever sees the capture sees all its members.
LEMMA MembersVisible ==
  ASSUME NEW id \in Capture, CaptureIsReviewed(Surface[id]), NEW cutoff \in Asked,
         DayIsOver(Surface[id], cutoff), OneOffset(Times(Surface[id]) \cup {cutoff}),
         Visible(Surface[id], cutoff, Days)
  PROVE  \A m \in Members(Surface[id]) : Visible(m, cutoff, Days)
<1> DEFINE c == Surface[id]
<1> SUFFICES ASSUME NEW m \in Members(c), cutoff # Latest PROVE Visible(m, cutoff, Days)
  BY DEF Visible
<1>1. /\ m.available \in Times(c) /\ c.available \in Times(c)
      /\ m.available \in Temporal /\ c.available \in Temporal /\ cutoff \in Temporal
      /\ Exact(cutoff)
  BY TimesAreTemporal DEF Times, Cutoff
<1>2. /\ AvailableBy(m.available, c) /\ Exact(c.available)
  BY MembersAreAvailable DEF CaptureIsReviewed, CaptureParses
<1>3. OneOffset({m.available, c.available, cutoff})
  BY <1>1 DEF OneOffset
<1>4. Included(m.available, cutoff, Days)
  BY <1>1, <1>2, <1>3, CaptureThenMember DEF AvailableBy, Visible, DayIsOver, Days
<1> QED
  BY <1>4 DEF Visible

\* The one version of a bar that a capture has added.
VersionOf(id, key) == CHOOSE n \in DOMAIN options.bars[key] : options.bars[key][n].capture = id

ReadBar(id, key) ==
  [key |-> key, sequence |-> VersionOf(id, key), bar |-> CapturedBar(Surface[id], key)]

LEMMA BarIsCaptured ==
  ASSUME NEW c, NEW key \in BarKeys(c)
  PROVE  \E r \in c.surface : key[1] = r.contract /\ CapturedBar(c, key) \in r.bars
<1>1. PICK r \in c.surface : key \in {<<r.contract, b.start>> : b \in r.bars}
  BY DEF BarKeys
<1>2. PICK b \in r.bars : key = <<r.contract, b.start>>
  BY <1>1
<1> DEFINE said == UNION {x.bars : x \in {y \in c.surface : y.contract = key[1]}}
<1>3. b \in said /\ b.start = key[2]
  BY <1>2
<1>4. CapturedBar(c, key) \in said
  BY <1>3 DEF CapturedBar
<1> QED
  BY <1>4

LEMMA OneVersionEach ==
  ASSUME OptionsInv, NEW id \in options.captures, NEW key \in BarKeys(Surface[id])
  PROVE  /\ key \in DOMAIN options.bars
         /\ BarVersions(options, key, id) = {VersionOf(id, key)}
         /\ options.bars[key][VersionOf(id, key)].bar = CapturedBar(Surface[id], key)
<1> DEFINE h == options.bars[key]
<1>1. PICK n \in DOMAIN h : h[n] = [capture |-> id, bar |-> CapturedBar(Surface[id], key)]
  BY DEF OptionsInv, CaptureKept
<1>2. key \in DOMAIN options.bars /\ \A i, j \in DOMAIN h : h[i].capture = h[j].capture => i = j
  BY DEF OptionsInv, CaptureKept, BarsKnown
<1>3. VersionOf(id, key) = n
  BY <1>1, <1>2 DEF VersionOf
<1> HIDE DEF h
<1>4. {i \in DOMAIN h : h[i].capture = id} = {n}
  BY <1>1, <1>2
<1> QED
  BY <1>1, <1>2, <1>3, <1>4 DEF BarVersions, h

\* A row is answered with the bars of its own capture, all of them.
LEMMA RowReadsBars ==
  ASSUME OptionsInv, NEW id \in options.captures, NEW r \in Surface[id].surface
  PROVE  StoredBars(options, id, r)
           = {ReadBar(id, key) : key \in {x \in BarKeys(Surface[id]) : x[1] = r.contract}}
<1> DEFINE c == Surface[id]
           mine(key) == {[key |-> key, sequence |-> n, bar |-> options.bars[key][n].bar] :
                           n \in BarVersions(options, key, id)}
<1>1. ASSUME NEW key \in BarKeys(c) PROVE mine(key) = {ReadBar(id, key)}
  BY <1>1, OneVersionEach DEF ReadBar
<1>2. ASSUME NEW key \in DOMAIN options.bars, key \notin BarKeys(c) PROVE mine(key) = {}
  <2>1. \A n \in DOMAIN options.bars[key] : options.bars[key][n].capture # id
    BY <1>2 DEF OptionsInv, BarsKnown
  <2> QED
    BY <2>1 DEF BarVersions
<1>3. \A key \in BarKeys(c) : key \in DOMAIN options.bars
  BY OneVersionEach
<1>4. StoredBars(options, id, r) =
        UNION {mine(key) : key \in {x \in DOMAIN options.bars : x[1] = r.contract}}
  BY DEF StoredBars
<1> HIDE DEF mine
<1>5. ASSUME NEW b \in StoredBars(options, id, r)
      PROVE  \E key \in BarKeys(c) : key[1] = r.contract /\ b = ReadBar(id, key)
  <2>1. PICK key \in DOMAIN options.bars : key[1] = r.contract /\ b \in mine(key)
    BY <1>4, <1>5
  <2> QED
    BY <1>1, <1>2, <2>1
<1>6. ASSUME NEW key \in BarKeys(c), key[1] = r.contract
      PROVE  ReadBar(id, key) \in StoredBars(options, id, r)
  BY <1>1, <1>3, <1>4, <1>6
<1> QED
  BY <1>5, <1>6

\* Nothing of a capture that is seen is left out of what is read of it.
LEMMA CaptureIsWhole ==
  ASSUME OptionsInv, NEW id \in options.captures, NEW cutoff \in Asked,
         DayIsOver(Surface[id], cutoff), OneOffset(Times(Surface[id]) \cup {cutoff}),
         Visible(Surface[id], cutoff, Days)
  PROVE  LET c == Surface[id]
             rows == AnsweredRows(options, id, cutoff, Days)
         IN  /\ AnsweredInputs(c, cutoff, Days) = InputMembers(c)
             /\ Cardinality(rows) = Cardinality(c.surface)
             /\ \A r \in rows : r.interest /\ r.close
             /\ Cardinality(UNION {r.bars : r \in rows}) = Cardinality(BarKeys(c))
<1> DEFINE c == Surface[id]  rows == AnsweredRows(options, id, cutoff, Days)
           bars(r) == {ReadBar(id, key) : key \in {x \in BarKeys(c) : x[1] = r.contract}}
           row(r) == [state |-> r.state, contract |-> options.contracts[r.contract],
                      interest |-> TRUE, close |-> TRUE, bars |-> bars(r)]
<1>1. id \in Capture /\ CaptureIsReviewed(c) /\ CaptureKept(id)
  BY DEF OptionsInv, CaptureKept
<1>2. \A m \in Members(c) : Visible(m, cutoff, Days)
  BY <1>1, MembersVisible
<1>3. AnsweredInputs(c, cutoff, Days) = InputMembers(c)
  BY <1>2 DEF AnsweredInputs, InputMembers, Members
<1>4. ASSUME NEW r \in c.surface
      PROVE  /\ options.contracts[r.contract].id = r.contract
             /\ Visible(r, cutoff, Days) /\ Visible(options.contracts[r.contract], cutoff, Days)
             /\ Visible(r.interest, cutoff, Days) /\ Visible(r.close, cutoff, Days)
             /\ {b \in StoredBars(options, id, r) : Visible(b.bar, cutoff, Days)} = bars(r)
  <2>1. PICK k \in c.contracts : k.id = r.contract
    BY <1>1, RowPerContract
  <2>2. options.contracts[r.contract] = k
    BY <1>1, <2>1 DEF CaptureKept
  <2>3. {r, k} \cup r.bars \cup {r.interest, r.close} \subseteq Members(c)
    BY DEF Members
  <2>4. ASSUME NEW b \in bars(r) PROVE Visible(b.bar, cutoff, Days)
    <3>1. PICK key \in BarKeys(c) : b = ReadBar(id, key)
      OBVIOUS
    <3>2. PICK q \in c.surface : CapturedBar(c, key) \in q.bars
      BY BarIsCaptured
    <3>3. CapturedBar(c, key) \in Members(c)
      BY <3>2 DEF Members
    <3> QED
      BY <1>2, <3>1, <3>3 DEF ReadBar
  <2>5. StoredBars(options, id, r) = bars(r)
    BY RowReadsBars
  <2> HIDE DEF bars
  <2>6. {b \in StoredBars(options, id, r) : Visible(b.bar, cutoff, Days)} = bars(r)
    BY <2>4, <2>5
  <2> QED
    BY <1>2, <2>1, <2>2, <2>3, <2>6
<1>5. rows = {row(r) : r \in c.surface}
  <2>1. {x \in c.surface : Visible(x, cutoff, Days)
                             /\ Visible(options.contracts[x.contract], cutoff, Days)} = c.surface
    BY <1>4
  <2>2. rows = {[state |-> r.state, contract |-> options.contracts[r.contract],
                 interest |-> Visible(r.interest, cutoff, Days), close |-> Visible(r.close, cutoff, Days),
                 bars |-> {b \in StoredBars(options, id, r) : Visible(b.bar, cutoff, Days)}] :
                   r \in c.surface}
    BY <2>1 DEF AnsweredRows
  <2>3. \A r \in c.surface :
          [state |-> r.state, contract |-> options.contracts[r.contract],
           interest |-> Visible(r.interest, cutoff, Days), close |-> Visible(r.close, cutoff, Days),
           bars |-> {b \in StoredBars(options, id, r) : Visible(b.bar, cutoff, Days)}] = row(r)
    <3> HIDE DEF bars
    <3> QED
      BY <1>4
  <2> HIDE DEF row
  <2> QED
    BY <2>2, <2>3
<1>6. Cardinality(rows) = Cardinality(c.surface)
  <2> DEFINE f == [r \in c.surface |-> row(r)]
  <2>1. f \in [c.surface -> rows] /\ \A x \in rows : \E r \in c.surface : f[r] = x
    <3> HIDE DEF row, rows
    <3> QED
      BY <1>5
  <2>2. \A r, q \in c.surface : f[r] = f[q] => r = q
    <3>1. \A r, q \in c.surface : row(r) = row(q) =>
            options.contracts[r.contract] = options.contracts[q.contract]
      OBVIOUS
    <3> HIDE DEF row
    <3>2. \A r, q \in c.surface : r.contract = q.contract => r = q
      BY <1>1, RowPerContract
    <3> QED
      BY <1>4, <3>1, <3>2
  <2> HIDE DEF f, rows
  <2>3. f \in Bijection(c.surface, rows)
    BY <2>1, <2>2 DEF Bijection, Injection, Surjection, IsInjective
  <2>4. IsFiniteSet(c.surface)
    BY <1>1, CapturesAreFinite
  <2> QED
    BY <2>3, <2>4, FS_Bijection DEF ExistsBijection
<1>7. \A r \in rows : r.interest /\ r.close
  BY <1>5
<1>8. UNION {r.bars : r \in rows} = {ReadBar(id, key) : key \in BarKeys(c)}
  <2>1. {r.bars : r \in rows} = {bars(r) : r \in c.surface}
    <3>1. \A r \in c.surface : row(r).bars = bars(r)
      OBVIOUS
    <3> HIDE DEF row, bars, rows
    <3> QED
      BY <1>5, <3>1
  <2>2. \A key \in BarKeys(c) : \E r \in c.surface : key[1] = r.contract
    BY BarIsCaptured
  <2>3. UNION {bars(r) : r \in c.surface} = {ReadBar(id, key) : key \in BarKeys(c)}
    <3>1. \A r \in c.surface : bars(r) \subseteq {ReadBar(id, key) : key \in BarKeys(c)}
      OBVIOUS
    <3>2. ASSUME NEW key \in BarKeys(c)
          PROVE  \E r \in c.surface : ReadBar(id, key) \in bars(r)
      BY <2>2
    <3> HIDE DEF bars
    <3> QED
      BY <3>1, <3>2
  <2> QED
    BY <2>1, <2>3
<1>9. Cardinality({ReadBar(id, key) : key \in BarKeys(c)}) = Cardinality(BarKeys(c))
  <2> DEFINE f == [key \in BarKeys(c) |-> ReadBar(id, key)]
             T == {ReadBar(id, key) : key \in BarKeys(c)}
  <2>1. f \in [BarKeys(c) -> T] /\ \A x \in T : \E key \in BarKeys(c) : f[key] = x
    OBVIOUS
  <2>2. \A k, l \in BarKeys(c) : f[k] = f[l] => k = l
    BY DEF ReadBar
  <2>3. IsFiniteSet(BarKeys(c))
    <3> DEFINE keys(r) == {<<r.contract, b.start>> : b \in r.bars}
               sets == {keys(r) : r \in c.surface}
    <3>1. IsFiniteSet(c.surface) /\ \A r \in c.surface : IsFiniteSet(r.bars)
      BY <1>1, CapturesAreFinite
    <3>2. ASSUME NEW r \in c.surface PROVE IsFiniteSet(keys(r))
      <4>1. [b \in r.bars |-> <<r.contract, b.start>>] \in Surjection(r.bars, keys(r))
        BY DEF Surjection
      <4> QED
        BY <3>1, <4>1, FS_Surjection
    <3> HIDE DEF keys
    <3>3. IsFiniteSet(sets)
      <4>1. [r \in c.surface |-> keys(r)] \in Surjection(c.surface, sets)
        BY DEF Surjection
      <4> QED
        BY <3>1, <4>1, FS_Surjection
    <3>4. \A T1 \in sets : IsFiniteSet(T1)
      BY <3>2
    <3> HIDE DEF sets
    <3>5. IsFiniteSet(UNION sets)
      BY <3>3, <3>4, FS_UNION
    <3> QED
      BY <3>5 DEF BarKeys, sets, keys
  <2> HIDE DEF f, T
  <2>4. f \in Bijection(BarKeys(c), T)
    BY <2>1, <2>2 DEF Bijection, Injection, Surjection, IsInjective
  <2>5. Cardinality(T) = Cardinality(BarKeys(c))
    BY <2>3, <2>4, FS_Bijection DEF ExistsBijection
  <2> QED
    BY <2>5 DEF T
<1> QED
  BY <1>3, <1>6, <1>7, <1>8, <1>9

\* What is read of a capture, once the day it says is over and where times have
\* one offset, is all that was captured, however its contracts and bars have
\* been superseded since, for any captures in any order.
THEOREM CaptureReadWholeHolds == HistoriesSpec => []CaptureReadWhole
<1>1. HistoriesInit => OptionsInv
  BY OptionsInvInit DEF HistoriesInit
<1>2. OptionsInv /\ [HistoriesNext]_historyVars => OptionsInv'
  BY OptionsStepKeeps
     DEF HistoriesNext, CompanyStep, NewsStep, MacroStep, CatalogStep, BarsStep, historyVars
<1>3. ASSUME OptionsInv, NEW x \in Cohorts, NEW cutoff \in Asked
      PROVE  LET answer == GetCapture(options, x.key, x.feed, cutoff, Days)
                 c == Surface[answer.capture]
             IN  answer.capture # "none" /\ DayIsOver(c, cutoff) /\ OneOffset(Times(c) \cup {cutoff}) =>
                   /\ answer.inputs = InputMembers(c)
                   /\ Cardinality(answer.surface) = Cardinality(c.surface)
                   /\ \A r \in answer.surface : r.interest /\ r.close
                   /\ Cardinality(UNION {r.bars : r \in answer.surface}) = Cardinality(BarKeys(c))
  <2> DEFINE ids == Candidates(options, x.key, x.feed, cutoff, Days)
             id == Selected(ids)
             answer == GetCapture(options, x.key, x.feed, cutoff, Days)
  <2>1. CASE ids = {}
    <3>1. answer = [capture |-> "none"]
      BY <2>1 DEF GetCapture
    <3> QED
      BY <3>1
  <2>2. CASE ids # {}
    <3>1. ids \in SUBSET options.captures /\ options.captures \in SUBSET Capture
          /\ IsFiniteSet(options.captures)
      BY <1>3 DEF Candidates, OptionsInv
    <3>2. ids \in SUBSET Capture /\ IsFiniteSet(ids)
      <4> HIDE DEF ids
      <4> QED
        BY <3>1, FS_Subset
    <3>3. id \in ids
      BY <2>2, <3>2, LastCompleted
    <3>4. id \in options.captures /\ Visible(Surface[id], cutoff, Days)
      BY <3>3 DEF Candidates
    <3>5. answer = [capture |-> id, inputs |-> AnsweredInputs(Surface[id], cutoff, Days),
                    surface |-> AnsweredRows(options, id, cutoff, Days)]
      BY <2>2 DEF GetCapture
    <3> HIDE DEF ids, id, answer
    <3>6. /\ answer.capture = id /\ answer.inputs = AnsweredInputs(Surface[id], cutoff, Days)
          /\ answer.surface = AnsweredRows(options, id, cutoff, Days)
      BY <3>5
    <3>7. DayIsOver(Surface[id], cutoff) /\ OneOffset(Times(Surface[id]) \cup {cutoff}) =>
            /\ AnsweredInputs(Surface[id], cutoff, Days) = InputMembers(Surface[id])
            /\ Cardinality(AnsweredRows(options, id, cutoff, Days)) = Cardinality(Surface[id].surface)
            /\ \A r \in AnsweredRows(options, id, cutoff, Days) : r.interest /\ r.close
            /\ Cardinality(UNION {r.bars : r \in AnsweredRows(options, id, cutoff, Days)})
                 = Cardinality(BarKeys(Surface[id]))
      BY <1>3, <3>4, CaptureIsWhole
    <3> QED
      BY <3>6, <3>7 DEF answer
  <2> QED
    BY <2>1, <2>2
<1>4. OptionsInv => CaptureReadWhole
  BY <1>3 DEF CaptureReadWhole, Days
<1> QED
  BY <1>1, <1>2, <1>4, PTL DEF HistoriesSpec

-----------------------------------------------------------------------------
\* A capture that was kept reads the same after another one is published.
LEMMA RowsReadTheSame ==
  ASSUME OptionsInv, NEW id \in Capture, Publish(id), NEW x \in options.captures, NEW cutoff, NEW policy
  PROVE  AnsweredRows(options', x, cutoff, policy) = AnsweredRows(options, x, cutoff, policy)
<1>1. CaptureKept(x) /\ x # id /\ x \in Capture
  BY PublishedOptions DEF OptionsInv
<1>2. ASSUME NEW r \in Surface[x].surface
      PROVE  options'.contracts[r.contract] = options.contracts[r.contract]
  <2>1. \E k \in Surface[x].contracts : k.id = r.contract
    BY <1>1, <1>2, RowPerContract DEF CaptureKept
  <2>2. r.contract \in DOMAIN options.contracts
    BY <1>1, <2>1 DEF CaptureKept
  <2> QED
    BY <2>2, PublishedOptions
<1>3. DOMAIN options'.bars = BarKeys(Surface[id]) \cup DOMAIN options.bars
  BY PublishedOptions
<1>4. ASSUME NEW key \in DOMAIN options.bars
      PROVE  /\ BarVersions(options', key, x) = BarVersions(options, key, x)
             /\ \A n \in BarVersions(options, key, x) : options'.bars[key][n] = options.bars[key][n]
  <2>1. CASE key \notin BarKeys(Surface[id])
    <3>1. options'.bars[key] = options.bars[key]
      BY <2>1, PublishedOptions
    <3> QED
      BY <3>1 DEF BarVersions
  <2>2. CASE key \in BarKeys(Surface[id])
    <3> DEFINE h == options.bars[key]  v == [capture |-> id, bar |-> CapturedBar(Surface[id], key)]
    <3>1. h \in Seq(SaidBar)
      BY DEF OptionsInv, BarsKnown
    <3>2. v \in SaidBar
      BY <2>2 DEF SaidBar
    <3>3. options'.bars[key] = Append(h, v) /\ v.capture = id
      BY <2>2, PublishedOptions DEF History
    <3> HIDE DEF v
    <3>4. /\ DOMAIN Append(h, v) = DOMAIN h \cup {Len(h) + 1} /\ Append(h, v)[Len(h) + 1] = v
          /\ \A n \in DOMAIN h : Append(h, v)[n] = h[n]
      BY <3>1, <3>2
    <3> QED
      BY <1>1, <3>3, <3>4 DEF BarVersions
  <2> QED
    BY <2>1, <2>2
<1>5. ASSUME NEW key \in DOMAIN options'.bars, key \notin DOMAIN options.bars
      PROVE  BarVersions(options', key, x) = {}
  <2> DEFINE v == [capture |-> id, bar |-> CapturedBar(Surface[id], key)]
  <2>1. options'.bars[key] = Append(<< >>, v) /\ v.capture = id
    BY <1>3, <1>5, PublishedOptions DEF History
  <2> HIDE DEF v
  <2>2. DOMAIN Append(<< >>, v) = {1} /\ Append(<< >>, v)[1] = v
    OBVIOUS
  <2> QED
    BY <1>1, <2>1, <2>2 DEF BarVersions
<1>6. ASSUME NEW r PROVE StoredBars(options', x, r) = StoredBars(options, x, r)
  <2> DEFINE Of(s, key) == {[key |-> key, sequence |-> n, bar |-> s.bars[key][n].bar] :
                              n \in BarVersions(s, key, x)}
  <2>1. ASSUME NEW key \in DOMAIN options.bars PROVE Of(options', key) = Of(options, key)
    BY <1>4, <2>1
  <2>2. ASSUME NEW key \in DOMAIN options'.bars, key \notin DOMAIN options.bars
        PROVE  Of(options', key) = {}
    BY <1>5, <2>2
  <2>3. /\ StoredBars(options', x, r)
             = UNION {Of(options', key) : key \in {k \in DOMAIN options'.bars : k[1] = r.contract}}
        /\ StoredBars(options, x, r)
             = UNION {Of(options, key) : key \in {k \in DOMAIN options.bars : k[1] = r.contract}}
    BY DEF StoredBars
  <2> HIDE DEF Of
  <2> QED
    BY <1>3, <2>1, <2>2, <2>3
<1> QED
  BY <1>2, <1>6 DEF AnsweredRows

OptionsReadTheSame ==
  \A id \in options'.captures \ options.captures, x \in Cohorts, cutoff \in Asked, policy \in Policy :
    ~Visible(Surface[id], cutoff, policy) =>
      GetCapture(options', x.key, x.feed, cutoff, policy) = GetCapture(options, x.key, x.feed, cutoff, policy)

LEMMA OptionsStable == OptionsInv /\ [OptionsNext]_optionVars => OptionsReadTheSame
<1> SUFFICES ASSUME OptionsInv, [OptionsNext]_optionVars PROVE OptionsReadTheSame
  OBVIOUS
<1>1. ASSUME NEW id \in Capture, Publish(id) PROVE OptionsReadTheSame
  <2>1. options'.captures = options.captures \cup {id} /\ options.captures \in SUBSET Capture
        /\ IsFiniteSet(options.captures)
    BY <1>1, PublishedOptions DEF OptionsInv
  <2> SUFFICES ASSUME NEW key, NEW feed, NEW cutoff, NEW policy, ~Visible(Surface[id], cutoff, policy)
               PROVE  GetCapture(options', key, feed, cutoff, policy)
                        = GetCapture(options, key, feed, cutoff, policy)
    BY <2>1 DEF OptionsReadTheSame
  <2> DEFINE ids == Candidates(options, key, feed, cutoff, policy)
             now == Candidates(options', key, feed, cutoff, policy)
             x == Selected(ids)
  <2>2. now = ids
    BY <2>1 DEF Candidates
  <2>3. CASE ids = {}
    <3>1. /\ GetCapture(options', key, feed, cutoff, policy) = [capture |-> "none"]
          /\ GetCapture(options, key, feed, cutoff, policy) = [capture |-> "none"]
      BY <2>2, <2>3 DEF GetCapture
    <3> QED
      BY <3>1
  <2>4. CASE ids # {}
    <3>1. ids \in SUBSET options.captures
      BY DEF Candidates
    <3>2. ids \in SUBSET Capture /\ IsFiniteSet(ids)
      <4> HIDE DEF ids
      <4> QED
        BY <2>1, <3>1, FS_Subset
    <3>3. x \in ids
      <4> HIDE DEF ids
      <4> QED
        BY <2>4, <3>2, LastCompleted
    <3>4. x \in options.captures
      <4> HIDE DEF ids, x
      <4> QED
        BY <3>1, <3>3
    <3>5. /\ GetCapture(options', key, feed, cutoff, policy)
               = [capture |-> x, inputs |-> AnsweredInputs(Surface[x], cutoff, policy),
                  surface |-> AnsweredRows(options', x, cutoff, policy)]
          /\ GetCapture(options, key, feed, cutoff, policy)
               = [capture |-> x, inputs |-> AnsweredInputs(Surface[x], cutoff, policy),
                  surface |-> AnsweredRows(options, x, cutoff, policy)]
      BY <2>2, <2>4 DEF GetCapture
    <3> HIDE DEF ids, now, x
    <3>6. AnsweredRows(options', x, cutoff, policy) = AnsweredRows(options, x, cutoff, policy)
      BY <1>1, <3>4, RowsReadTheSame
    <3> QED
      BY <3>5, <3>6
  <2> QED
    BY <2>3, <2>4
<1>2. ASSUME NEW id \in Capture, PublishFails(id) PROVE OptionsReadTheSame
  <2>1. options' = [options EXCEPT !.spent = options.spent \cup {id}]
    BY <1>2 DEF PublishFails
  <2>2. options'.captures = options.captures
    BY <2>1 DEF OptionsInv
  <2> QED
    BY <2>2 DEF OptionsReadTheSame
<1>3. ASSUME UNCHANGED options PROVE OptionsReadTheSame
  BY <1>3 DEF OptionsReadTheSame
<1> QED
  BY <1>1, <1>2, <1>3 DEF OptionsNext, optionVars

\* Option captures read as of a cutoff as they did before one that was not
\* available then, though they share contracts and the histories of bars.
THEOREM OptionsAsOfStableHolds == HistoriesSpec => OptionsAsOfStable
<1>1. HistoriesInit => OptionsInv
  BY OptionsInvInit DEF HistoriesInit
<1>2. OptionsInv /\ [HistoriesNext]_historyVars => OptionsInv'
  BY OptionsStepKeeps
     DEF HistoriesNext, CompanyStep, NewsStep, MacroStep, CatalogStep, BarsStep, historyVars
<1>3. OptionsInv /\ [HistoriesNext]_historyVars => OptionsReadTheSame
  BY OptionsStable
     DEF HistoriesNext, CompanyStep, NewsStep, MacroStep, CatalogStep, BarsStep, historyVars
<1> QED
  BY <1>1, <1>2, <1>3, PTL DEF HistoriesSpec, OptionsAsOfStable, OptionsReadTheSame

-----------------------------------------------------------------------------
(***************************************************************************)
(* Macro observations.  A chain is of a place and a release, and a place of *)
(* several chains has a current pointer: the writer moves it when a version *)
(* ranks no lower, a reader of the latest ranks all versions anew.          *)
(***************************************************************************)
\* A place is of a series, a period and an area, the key of a chain of a
\* vintage too.
AsKey(key) == <<key[1], key[2], key[3], key[4]>>
PlaceOf(key) == <<key[1], key[2], key[3]>>

OneMore(g, h, v) ==
  /\ DOMAIN g = DOMAIN h \cup {Len(h) + 1} /\ g[Len(h) + 1] = v
  /\ Len(g) = Len(h) + 1 /\ \A n \in DOMAIN h : g[n] = h[n]

LEMMA AppendIsOneMore ==
  ASSUME NEW V, NEW h \in Seq(V), NEW v, NEW g, g = Append(h, v)
  PROVE  OneMore(g, h, v) /\ g \in Seq(V \cup {v})
<1>1. h \in Seq(V \cup {v})
  OBVIOUS
<1> QED
  BY <1>1 DEF OneMore

LEMMA KeyOfPlace ==
  ASSUME NEW a, NEW b, NEW c, NEW v
  PROVE  ChainKey(<<a, b, c>>, v) = <<a, b, c, v>>
<1> DEFINE s == <<a, b, c>>  t == Append(s, v)  q == <<a, b, c, v>>
           V == {a, b, c}  W == V \cup {v}
<1>1. s \in Seq(V) /\ Len(s) = 3 /\ s[1] = a /\ s[2] = b /\ s[3] = c
  OBVIOUS
<1>2. q \in Seq(W) /\ Len(q) = 4 /\ q[1] = a /\ q[2] = b /\ q[3] = c /\ q[4] = v
  OBVIOUS
<1>3. ChainKey(s, v) = t /\ t = Append(s, v)
  BY DEF ChainKey
<1> HIDE DEF s, q, V, t
<1>4. OneMore(t, s, v) /\ t \in Seq(W)
  BY <1>1, <1>3, AppendIsOneMore
<1>5. DOMAIN s = {1, 2, 3}
  BY <1>1
<1>6. t[1] = a /\ t[2] = b /\ t[3] = c /\ t[4] = v /\ Len(t) = 4
  BY <1>1, <1>4, <1>5 DEF OneMore
<1> HIDE DEF W
<1>7. Len(t) = Len(q) /\ \A i \in 1 .. Len(t) : t[i] = q[i]
  BY <1>2, <1>6
<1>8. t = q
  BY <1>2, <1>4, <1>7, SeqEqual
<1> QED
  BY <1>3, <1>8 DEF s, q

LEMMA PlaceOfKey ==
  ASSUME NEW a, NEW b, NEW c, NEW v
  PROVE  SubSeq(<<a, b, c, v>>, 1, 3) = <<a, b, c>>
<1> DEFINE s == <<a, b, c, v>>  t == SubSeq(s, 1, 3)
<1>1. s \in Seq({a, b, c, v}) /\ Len(s) = 4 /\ s[1] = a /\ s[2] = b /\ s[3] = c
  OBVIOUS
<1>2. t \in Seq({a, b, c, v}) /\ Len(t) = 3 /\ t[1] = a /\ t[2] = b /\ t[3] = c
  <2> HIDE DEF s
  <2> QED
    BY <1>1, SubSeqProperties
<1> HIDE DEF t
<1>3. t = <<a, b, c>>
  BY <1>2
<1> QED
  BY <1>3 DEF t

Recording == INSTANCE Folding WITH Op <- WithVersion

\* The series whose values have a current pointer.
OtherSeries ==
  UNION {Observed[id].series : id \in {x \in MacroCapture : Observed[x].family # "rtdsm"}}

Pointed(s, place) == s.series[place[1]] \in OtherSeries

\* A chain is of a series and a release that are declared.
Sourced(s, series, vintage) ==
  /\ series \in DOMAIN s.series /\ <<series, vintage>> \in DOMAIN s.releases
  /\ s.releases[<<series, vintage>>].order \in Int

\* Of a place with a current version no version outranks that one.
Topped(s, key) ==
  Pointed(s, PlaceOf(key)) =>
    /\ PlaceOf(key) \in DOMAIN s.current
    /\ \A n \in DOMAIN s.chains[key] :
         ~ Outranks(Rank(s, PlaceOf(key), <<key[4], n>>), Rank(s, PlaceOf(key), s.current[PlaceOf(key)]))

\* A current version is there.
PointsTo(s, place, w) ==
  /\ place = PlaceOf(place) /\ Pointed(s, place) /\ w = <<w[1], w[2]>>
  /\ LET key == <<place[1], place[2], place[3], w[1]>> IN
     key \in DOMAIN s.chains /\ w[2] \in DOMAIN s.chains[key]

MacroRecord(s) ==
  s = [series |-> s.series, releases |-> s.releases, chains |-> s.chains, current |-> s.current,
       rows |-> s.rows, published |-> s.published, spent |-> s.spent]

MacroSound(s) ==
  /\ MacroRecord(s) /\ AreChains(s.chains) /\ IsFiniteSet(DOMAIN s.current)
  /\ s.current = [x \in DOMAIN s.current |-> s.current[x]]
  /\ \A key \in DOMAIN s.chains : key = AsKey(key) /\ Sourced(s, key[1], key[4]) /\ Topped(s, key)
  /\ \A place \in DOMAIN s.current : PointsTo(s, place, s.current[place])

\* What WithVersion does.
RecordsOnce(t, s, place, pointed, held, w) ==
  \/ t = s
  \/ /\ MacroRecord(t) /\ t.series = s.series /\ t.releases = s.releases /\ t.rows = s.rows
     /\ t.published = s.published /\ t.spent = s.spent
     /\ t.chains = held /\ held # s.chains
     /\ t.current = IF pointed /\ ShouldMove(s, place, w)
                      THEN [x \in {place} \cup DOMAIN s.current |-> IF x = place THEN w ELSE s.current[x]]
                      ELSE s.current

LEMMA VersionRecorded ==
  ASSUME NEW s, MacroRecord(s), NEW e, NEW held, NEW w, NEW t,
         held = Extended(s.chains, ChainKey(e.place, e.vintage), e.version),
         w = <<e.vintage, Len(held[ChainKey(e.place, e.vintage)])>>, t = WithVersion(s, e)
  PROVE  RecordsOnce(t, s, e.place, e.pointed, held, w)
<1> DEFINE place == e.place  pointed == e.pointed
           g == [x \in {place} |-> w]
           current == IF pointed /\ ShouldMove(s, place, w) THEN Overlay(g, s.current) ELSE s.current
<1>1. t = IF held = s.chains THEN s ELSE [s EXCEPT !.chains = held, !.current = current]
  BY DEF WithVersion
<1>2. Overlay(g, s.current)
        = [x \in {place} \cup DOMAIN s.current |-> IF x = place THEN w ELSE s.current[x]]
  BY DEF Overlay
<1>3. CASE held = s.chains
  BY <1>1, <1>3 DEF RecordsOnce
<1>4. CASE held # s.chains
  <2> HIDE DEF current
  <2>1. t = [s EXCEPT !.chains = held, !.current = current]
    BY <1>1, <1>4
  <2>2. /\ MacroRecord(t) /\ t.series = s.series /\ t.releases = s.releases /\ t.rows = s.rows
        /\ t.published = s.published /\ t.spent = s.spent
        /\ t.chains = held /\ t.current = current
    BY <2>1 DEF MacroRecord
  <2> HIDE DEF g, place, pointed
  <2>3. current = IF pointed /\ ShouldMove(s, place, w)
                  THEN [x \in {place} \cup DOMAIN s.current |-> IF x = place THEN w ELSE s.current[x]]
                  ELSE s.current
    BY <1>2 DEF current
  <2>4. RecordsOnce(t, s, place, pointed, held, w)
    BY <1>4, <2>2, <2>3 DEF RecordsOnce
  <2> QED
    BY <2>4 DEF place, pointed
<1> QED
  BY <1>3, <1>4

LEMMA OutrankingIsTotal ==
  ASSUME NEW a \in Int, NEW i \in Int, NEW b \in Int, NEW j \in Int, NEW c \in Int, NEW k \in Int,
         ~ Outranks(<<a, i>>, <<b, j>>), ~ Outranks(<<b, j>>, <<c, k>>)
  PROVE  ~ Outranks(<<a, i>>, <<c, k>>)
BY DEF Outranks

Grown(now, held, key, v) ==
  /\ AreChains(now) /\ DOMAIN now = DOMAIN held \cup {key}
  /\ SaidIn(now) \subseteq SaidIn(held) \cup {v}

LEMMA ExtendedGrows ==
  ASSUME NEW held, AreChains(held), NEW key, NEW v, NEW now, now = Extended(held, key, v)
  PROVE  Grown(now, held, key, v)
BY ExtendedIsChains DEF Grown

\* Recording an observation of a declared series and release.
LEMMA RecordedIsSound ==
  ASSUME NEW s, MacroSound(s), NEW place, place = PlaceOf(place), NEW vintage, NEW v,
         Sourced(s, place[1], vintage), NEW pointed, pointed <=> Pointed(s, place),
         NEW held, NEW w, NEW t, NEW key, key = <<place[1], place[2], place[3], vintage>>,
         held = Extended(s.chains, key, v), w = <<vintage, Len(held[key])>>,
         RecordsOnce(t, s, place, pointed, held, w)
  PROVE  MacroSound(t)
<1>1. CASE t = s
  BY <1>1
<1>2. CASE t # s
  <2>1. /\ MacroRecord(t) /\ t.series = s.series /\ t.releases = s.releases
        /\ t.chains = held /\ held # s.chains
        /\ t.current = IF pointed /\ ShouldMove(s, place, w)
                         THEN [x \in {place} \cup DOMAIN s.current |-> IF x = place THEN w ELSE s.current[x]]
                         ELSE s.current
    BY <1>2 DEF RecordsOnce
  <2>2. /\ AreChains(s.chains) /\ AreChains(held)
        /\ held = [x \in DOMAIN s.chains \cup {key} |->
                     IF x = key THEN Append(History(s.chains, key), v) ELSE s.chains[x]]
    <3> DEFINE old == s.chains
    <3>1. AreChains(old) /\ held = Extended(old, key, v)
      BY DEF MacroSound
    <3> HIDE DEF old
    <3>2. SaysOnce(held, old, key, v)
      BY <3>1, ExtendedOnce
    <3>3. Grown(held, old, key, v)
      BY <3>1, ExtendedGrows
    <3> QED
      BY <2>1, <3>1, <3>2, <3>3 DEF SaysOnce, Grown, old
  <2> DEFINE h == History(s.chains, key)
  <2>3. OneMore(held[key], h, v) /\ Len(h) \in Nat /\ DOMAIN h = 1 .. Len(h)
    <3> DEFINE g == held[key]  V == SaidIn(s.chains)
    <3>1. h \in Seq(V) /\ g = Append(h, v)
      BY <2>2, HistoryIsSeq
    <3> HIDE DEF h, g, V
    <3>2. OneMore(g, h, v)
      BY <3>1, AppendIsOneMore
    <3> QED
      BY <3>1, <3>2 DEF g
  <2>4. key[1] = place[1] /\ key[4] = vintage /\ PlaceOf(key) = place /\ key = AsKey(key)
    BY DEF PlaceOf, AsKey
  <2>5. /\ w = <<vintage, Len(h) + 1>> /\ w[1] = vintage /\ w[2] = Len(h) + 1
        /\ Len(h) + 1 \in DOMAIN held[key]
    BY <2>3 DEF OneMore
  <2> HIDE DEF h
  <2>6. ASSUME NEW k \in DOMAIN held
        PROVE  k = AsKey(k) /\ Sourced(t, k[1], k[4])
    <3>1. CASE k = key
      BY <2>1, <2>4, <3>1 DEF Sourced
    <3>2. CASE k # key
      <4>1. k \in DOMAIN s.chains
        BY <2>2, <3>2
      <4> QED
        BY <2>1, <4>1 DEF MacroSound, Sourced
    <3> QED
      BY <3>1, <3>2
  <2>7. \A p : Pointed(t, p) <=> Pointed(s, p)
    BY <2>1 DEF Pointed
  <2>8. \A p, x : Rank(t, p, x) = Rank(s, p, x)
    BY <2>1 DEF Rank
  <2>9. ASSUME NEW k \in DOMAIN s.chains, NEW n \in DOMAIN s.chains[k]
        PROVE  n \in Nat /\ k \in DOMAIN held /\ n \in DOMAIN held[k]
    <3>1. n \in Nat
      <4> DEFINE c == s.chains[k]  V == SaidIn(s.chains)
      <4>1. c \in Seq(V) /\ n \in DOMAIN c
        BY <2>2, <2>9 DEF AreChains
      <4> HIDE DEF c, V
      <4> QED
        BY <4>1
    <3>2. CASE k = key
      <4>1. h = s.chains[k]
        BY <2>9, <3>2 DEF h, History
      <4>2. n \in DOMAIN held[key]
        BY <2>3, <2>9, <4>1 DEF OneMore
      <4> QED
        BY <2>2, <3>1, <3>2, <4>2
    <3>3. CASE k # key
      <4>1. k \in DOMAIN held /\ held[k] = s.chains[k]
        BY <2>2, <2>9, <3>3
      <4> QED
        BY <2>9, <3>1, <4>1
    <3> QED
      BY <3>2, <3>3
  <2>10. ASSUME NEW k \in DOMAIN held, NEW n \in DOMAIN held[k], k # key \/ n # Len(h) + 1
         PROVE  k \in DOMAIN s.chains /\ n \in DOMAIN s.chains[k] /\ n \in Nat
    <3>1. CASE k = key
      <4>1. n \in DOMAIN h
        BY <2>3, <2>10, <3>1 DEF OneMore
      <4>2. k \in DOMAIN s.chains /\ h = s.chains[k]
        BY <2>3, <3>1, <4>1 DEF h, History
      <4> QED
        BY <2>3, <4>1, <4>2
    <3>2. CASE k # key
      <4>1. k \in DOMAIN s.chains /\ held[k] = s.chains[k]
        BY <2>2, <3>2
      <4> QED
        BY <2>9, <2>10, <4>1
    <3> QED
      BY <3>1, <3>2
  <2>11. ASSUME NEW p \in DOMAIN t.current
         PROVE  PointsTo(t, p, t.current[p])
    <3>1. CASE p \in DOMAIN s.current /\ t.current[p] = s.current[p]
      <4> DEFINE x == s.current[p]  k == <<p[1], p[2], p[3], x[1]>>
      <4>1. /\ p = PlaceOf(p) /\ Pointed(s, p) /\ x = <<x[1], x[2]>>
            /\ k \in DOMAIN s.chains /\ x[2] \in DOMAIN s.chains[k]
        BY <3>1 DEF MacroSound, PointsTo
      <4>2. k \in DOMAIN held /\ x[2] \in DOMAIN held[k]
        BY <2>9, <4>1
      <4> QED
        BY <2>1, <2>7, <3>1, <4>1, <4>2 DEF PointsTo
    <3>2. CASE p = place /\ t.current[p] = w /\ pointed
      <4>1. Pointed(t, p) /\ key \in DOMAIN t.chains /\ w[2] \in DOMAIN t.chains[key]
        BY <2>1, <2>2, <2>5, <2>7, <3>2
      <4>2. w = <<w[1], w[2]>> /\ key = <<p[1], p[2], p[3], w[1]>> /\ p = PlaceOf(p)
        BY <2>5, <3>2
      <4>3. PointsTo(t, p, w)
        BY <4>1, <4>2 DEF PointsTo
      <4> QED
        BY <3>2, <4>3
    <3> QED
      BY <2>1, <3>1, <3>2
  <2>12. ASSUME NEW k \in DOMAIN held PROVE Topped(t, k)
    <3> SUFFICES ASSUME Pointed(s, PlaceOf(k))
                 PROVE  /\ PlaceOf(k) \in DOMAIN t.current
                        /\ \A n \in DOMAIN held[k] :
                             ~ Outranks(Rank(s, PlaceOf(k), <<k[4], n>>),
                                        Rank(s, PlaceOf(k), t.current[PlaceOf(k)]))
      BY <2>1, <2>7, <2>8 DEF Topped
    <3>1. ASSUME k \in DOMAIN s.chains
          PROVE  /\ PlaceOf(k) \in DOMAIN s.current
                 /\ \A n \in DOMAIN s.chains[k] :
                      ~ Outranks(Rank(s, PlaceOf(k), <<k[4], n>>),
                                 Rank(s, PlaceOf(k), s.current[PlaceOf(k)]))
      BY <3>1 DEF MacroSound, Topped
    <3>2. CASE PlaceOf(k) # place
      <4>1. k # key
        BY <2>4, <3>2
      <4>2. k \in DOMAIN s.chains /\ held[k] = s.chains[k]
        BY <2>2, <4>1
      <4>3. PlaceOf(k) \in DOMAIN t.current /\ t.current[PlaceOf(k)] = s.current[PlaceOf(k)]
        BY <2>1, <3>1, <3>2, <4>2
      <4> QED
        BY <3>1, <4>2, <4>3
    <3>3. CASE PlaceOf(k) = place
      <4> DEFINE ord(x) == s.releases[<<place[1], x>>].order
      <4>1. pointed /\ ord(vintage) \in Int /\ ord(k[4]) \in Int
        BY <2>1, <2>6, <3>3 DEF Sourced, PlaceOf
      <4>2. \A x, n : Rank(s, place, <<x, n>>) = <<ord(x), n>>
        BY DEF Rank
      <4>3. ASSUME NEW n \in DOMAIN held[k], k # key \/ n # Len(h) + 1
            PROVE  place \in DOMAIN s.current /\ n \in Nat
                   /\ ~ Outranks(Rank(s, place, <<k[4], n>>), Rank(s, place, s.current[place]))
        BY <2>10, <3>1, <3>3, <4>3
      <4>4. CASE place \notin DOMAIN s.current
        <5>1. t.current = [x \in {place} \cup DOMAIN s.current |-> IF x = place THEN w ELSE s.current[x]]
          BY <2>1, <4>1, <4>4 DEF ShouldMove
        <5>2. place \in DOMAIN t.current /\ t.current[place] = w
          BY <5>1
        <5>3. ASSUME NEW n \in DOMAIN held[k]
              PROVE  ~ Outranks(Rank(s, place, <<k[4], n>>), Rank(s, place, w))
          <6>1. k = key /\ n = Len(h) + 1
            BY <4>3, <4>4, <5>3
          <6>2. <<k[4], n>> = w
            BY <2>4, <2>5, <6>1
          <6> QED
            BY <2>3, <2>5, <4>1, <4>2, <6>2 DEF Outranks
        <5> QED
          BY <3>3, <5>2, <5>3
      <4>5. CASE place \in DOMAIN s.current
        <5> DEFINE x == s.current[place]
        <5>1. x = <<x[1], x[2]>> /\ ord(x[1]) \in Int /\ x[2] \in Nat
          <6> DEFINE xkey == <<place[1], place[2], place[3], x[1]>>
          <6>1. x = <<x[1], x[2]>> /\ xkey \in DOMAIN s.chains /\ x[2] \in DOMAIN s.chains[xkey]
            BY <4>5 DEF MacroSound, PointsTo
          <6>2. Sourced(s, xkey[1], xkey[4]) /\ xkey[1] = place[1] /\ xkey[4] = x[1]
            BY <6>1 DEF MacroSound
          <6> QED
            BY <2>9, <6>1, <6>2 DEF Sourced
        <5>2. Rank(s, place, x) = <<ord(x[1]), x[2]>> /\ Rank(s, place, w) = <<ord(vintage), Len(h) + 1>>
          BY <2>5 DEF Rank
        <5>3. CASE ShouldMove(s, place, w)
          <6>1. place \in DOMAIN t.current /\ t.current[place] = w
            BY <2>1, <4>1, <5>3
          <6>2. ~ Outranks(Rank(s, place, x), Rank(s, place, w))
            BY <4>5, <5>3 DEF ShouldMove
          <6>3. ASSUME NEW n \in DOMAIN held[k]
                PROVE  ~ Outranks(Rank(s, place, <<k[4], n>>), Rank(s, place, w))
            <7>1. CASE k = key /\ n = Len(h) + 1
              <8>1. <<k[4], n>> = w
                BY <2>4, <2>5, <7>1
              <8>2. ~ Outranks(<<ord(vintage), Len(h) + 1>>, <<ord(vintage), Len(h) + 1>>)
                <9> HIDE DEF ord
                <9> QED
                  BY <2>3, <4>1 DEF Outranks
              <8> QED
                BY <5>2, <8>1, <8>2
            <7>2. CASE k # key \/ n # Len(h) + 1
              <8>1. n \in Nat /\ ~ Outranks(<<ord(k[4]), n>>, <<ord(x[1]), x[2]>>)
                BY <4>2, <4>3, <5>2, <7>2
              <8>2. ~ Outranks(<<ord(x[1]), x[2]>>, <<ord(vintage), Len(h) + 1>>)
                BY <5>2, <6>2
              <8> HIDE DEF ord, x
              <8>3. ~ Outranks(<<ord(k[4]), n>>, <<ord(vintage), Len(h) + 1>>)
                BY <2>3, <4>1, <5>1, <8>1, <8>2, OutrankingIsTotal
              <8> QED
                BY <4>2, <5>2, <8>3
            <7> QED
              BY <7>1, <7>2
          <6> QED
            BY <3>3, <6>1, <6>3
        <5>4. CASE ~ ShouldMove(s, place, w)
          <6>1. t.current = s.current
            BY <2>1, <5>4
          <6>2. Outranks(Rank(s, place, x), Rank(s, place, w))
            BY <4>5, <5>4 DEF ShouldMove
          <6>3. ASSUME NEW n \in DOMAIN held[k]
                PROVE  ~ Outranks(Rank(s, place, <<k[4], n>>), Rank(s, place, x))
            <7>1. CASE k = key /\ n = Len(h) + 1
              <8>1. <<k[4], n>> = w
                BY <2>4, <2>5, <7>1
              <8>2. Outranks(<<ord(x[1]), x[2]>>, <<ord(vintage), Len(h) + 1>>)
                BY <5>2, <6>2
              <8> HIDE DEF ord, x
              <8>3. ~ Outranks(<<ord(vintage), Len(h) + 1>>, <<ord(x[1]), x[2]>>)
                BY <2>3, <4>1, <5>1, <8>2 DEF Outranks
              <8> QED
                BY <5>2, <8>1, <8>3
            <7>2. CASE k # key \/ n # Len(h) + 1
              BY <4>3, <7>2
            <7> QED
              BY <7>1, <7>2
          <6> QED
            BY <3>3, <4>5, <6>1, <6>3
        <5> QED
          BY <5>3, <5>4
      <4> QED
        BY <4>4, <4>5
    <3> QED
      BY <3>2, <3>3
  <2>13. t.current = [x \in DOMAIN t.current |-> t.current[x]]
    BY <2>1 DEF MacroSound
  <2>14. IsFiniteSet(DOMAIN t.current)
    <3>1. IsFiniteSet(DOMAIN s.current)
      BY DEF MacroSound
    <3>2. IsFiniteSet({place} \cup DOMAIN s.current)
      BY <3>1, FS_Singleton, FS_Union
    <3>3. DOMAIN t.current = DOMAIN s.current \/ DOMAIN t.current = {place} \cup DOMAIN s.current
      BY <2>1
    <3> QED
      BY <3>1, <3>2, <3>3
  <2> QED
    BY <2>1, <2>2, <2>6, <2>11, <2>12, <2>13, <2>14 DEF MacroSound
<1> QED
  BY <1>1, <1>2

IsObservation(s, e) ==
  /\ e.place = PlaceOf(e.place) /\ Sourced(s, e.place[1], e.vintage)
  /\ e.pointed <=> Pointed(s, e.place)

SaidOf(entries) == {[key |-> ChainKey(e.place, e.vintage), version |-> e.version] : e \in entries}

\* A later state that differs in its chains and their pointers only.
OnlyRecords(t, s) ==
  /\ t.series = s.series /\ t.releases = s.releases
  /\ t.rows = s.rows /\ t.published = s.published /\ t.spent = s.spent

\* The pointers there can be.
Pointers(P, W) == UNION {[D -> W] : D \in SUBSET P}

PointersWithin(f, P, W) ==
  f = [x \in DOMAIN f |-> f[x]] /\ DOMAIN f \subseteq P /\ \A x \in DOMAIN f : f[x] \in W

LEMMA PointersAre ==
  ASSUME NEW f, NEW P, NEW W
  PROVE  f \in Pointers(P, W) <=> PointersWithin(f, P, W)
<1>1. ASSUME PointersWithin(f, P, W) PROVE f \in Pointers(P, W)
  <2>1. f \in [DOMAIN f -> W] /\ DOMAIN f \in SUBSET P
    BY <1>1 DEF PointersWithin
  <2> QED
    BY <2>1 DEF Pointers
<1>2. ASSUME f \in Pointers(P, W) PROVE PointersWithin(f, P, W)
  <2>1. PICK D \in SUBSET P : f \in [D -> W]
    BY <1>2 DEF Pointers
  <2> QED
    BY <2>1 DEF PointersWithin
<1> QED
  BY <1>1, <1>2

\* A state that more observations are recorded in, within bounds.
RecordedWithin(t, s, base, E, K, V, P, W) ==
  /\ MacroSound(t) /\ OnlyRecords(t, s) /\ Continues(t.chains, base, E)
  /\ DOMAIN t.chains \subseteq K /\ SaidIn(t.chains) \subseteq V /\ PointersWithin(t.current, P, W)

\* One observation more.
LEMMA RecordsOneMore ==
  ASSUME NEW s, MacroSound(s), NEW e, IsObservation(s, e), NEW t, t = WithVersion(s, e),
         NEW key, key = ChainKey(e.place, e.vintage), NEW K, NEW V, NEW P, NEW W,
         DOMAIN s.chains \subseteq K, SaidIn(s.chains) \subseteq V, PointersWithin(s.current, P, W),
         key \in K, e.version \in V, e.place \in P, \A n \in Nat : <<e.vintage, n>> \in W,
         NEW base, AreChains(base), NEW E, Continues(s.chains, base, E), SaidBy(E, key, e.version)
  PROVE  RecordedWithin(t, s, base, E, K, V, P, W)
<1> DEFINE place == e.place  vintage == e.vintage  v == e.version  pointed == e.pointed
           old == s.chains
           held == Extended(old, key, v)
           w == <<vintage, Len(held[key])>>
<1>1. MacroRecord(s) /\ AreChains(old) /\ held = Extended(old, key, v)
  BY DEF MacroSound
<1>2. RecordsOnce(t, s, place, pointed, held, w)
  BY <1>1, VersionRecorded
<1>3. place = PlaceOf(place) /\ Sourced(s, place[1], vintage) /\ (pointed <=> Pointed(s, place))
  BY DEF IsObservation
<1>4. key = <<place[1], place[2], place[3], vintage>>
  <2>1. key = ChainKey(<<place[1], place[2], place[3]>>, vintage)
    BY <1>3 DEF PlaceOf
  <2> HIDE DEF place, vintage
  <2> QED
    BY <2>1, KeyOfPlace
<1>5. held = Extended(s.chains, key, v) /\ w = <<vintage, Len(held[key])>>
  OBVIOUS
<1>6. SaidBy(E, key, v) /\ v \in V /\ place \in P /\ (\A n \in Nat : <<vintage, n>> \in W)
      /\ DOMAIN old \subseteq K /\ SaidIn(old) \subseteq V /\ Continues(old, base, E)
  OBVIOUS
<1> HIDE DEF place, vintage, v, pointed, held, w
<1>7. MacroSound(t)
  BY <1>2, <1>3, <1>4, <1>5, RecordedIsSound
<1>8. OnlyRecords(t, s)
  BY <1>2 DEF RecordsOnce, OnlyRecords
<1>9. t.chains = held \/ t = s
  BY <1>2 DEF RecordsOnce
<1> HIDE DEF old
<1>10. Continues(held, base, E)
  BY <1>1, <1>6, ExtendedContinues
<1>11. /\ AreChains(held) /\ SaidIn(held) \subseteq SaidIn(old) \cup {v}
       /\ DOMAIN held = DOMAIN old \cup {key}
  <2>1. Grown(held, old, key, v)
    BY <1>1, ExtendedGrows
  <2> QED
    BY <2>1 DEF Grown
<1>12. Len(held[key]) \in Nat
  <2>1. NewestIs(held, key, v)
    BY <1>1, ExtendedNewest
  <2> QED
    BY <2>1 DEF NewestIs
<1>13. PointersWithin(t.current, P, W)
  <2>1. CASE t.current = s.current
    BY <2>1
  <2>2. CASE t.current = [x \in {place} \cup DOMAIN s.current |-> IF x = place THEN w ELSE s.current[x]]
    <3>1. w \in W
      BY <1>6, <1>12 DEF w
    <3> QED
      BY <1>6, <2>2, <3>1 DEF PointersWithin
  <2> QED
    BY <1>2, <2>1, <2>2 DEF RecordsOnce
<1>14. DOMAIN held \subseteq K /\ SaidIn(held) \subseteq V
  BY <1>6, <1>11
<1> QED
  BY <1>6, <1>7, <1>8, <1>9, <1>10, <1>13, <1>14 DEF RecordedWithin, old

LEMMA RecordsAll ==
  ASSUME NEW s, MacroSound(s), NEW entries, IsFiniteSet(entries),
         \A e \in entries : IsObservation(s, e), NEW t, t = WithVersions(s, entries)
  PROVE  MacroSound(t) /\ OnlyRecords(t, s) /\ Continues(t.chains, s.chains, SaidOf(entries))
<1> DEFINE base == s.chains  E == SaidOf(entries)  order == SetToSeq(entries)
           K == DOMAIN base \cup {x.key : x \in E}
           V == SaidIn(base) \cup {x.version : x \in E}
           P == DOMAIN s.current \cup {e.place : e \in entries}
           W == {s.current[x] : x \in DOMAIN s.current}
                  \cup UNION {{<<e.vintage, n>> : n \in Nat} : e \in entries}
           States == [series : {s.series}, releases : {s.releases}, chains : Chains(K, V),
                      current : Pointers(P, W), rows : {s.rows}, published : {s.published},
                      spent : {s.spent}]
           Kept == {h \in States : MacroSound(h) /\ OnlyRecords(h, s) /\ Continues(h.chains, base, E)}
<1>1. order \in Seq(entries)
  BY SetToSeqIsSeq
<1>2. ASSUME NEW h, MacroSound(h), OnlyRecords(h, s), Continues(h.chains, base, E),
             DOMAIN h.chains \subseteq K, SaidIn(h.chains) \subseteq V, PointersWithin(h.current, P, W)
      PROVE  h \in Kept
  <2>1. AreChains(h.chains) /\ MacroRecord(h)
    BY <1>2 DEF MacroSound
  <2> DEFINE c == h.chains  p == h.current
  <2> HIDE DEF K, V, P, W, c, p
  <2>2. c \in Chains(K, V)
    BY <1>2, <2>1, ChainsOf DEF c
  <2>3. p \in Pointers(P, W)
    BY <1>2, PointersAre DEF p
  <2>4. h \in States
    BY <1>2, <2>1, <2>2, <2>3 DEF MacroRecord, OnlyRecords, c, p
  <2> QED
    BY <1>2, <2>4
<1>3. s \in Kept
  <2>1. AreChains(base)
    BY DEF MacroSound
  <2>2. Continues(base, base, E)
    <3> HIDE DEF base, E
    <3> QED
      BY <2>1, ContinuesItself
  <2>3. DOMAIN base \subseteq K /\ SaidIn(base) \subseteq V /\ OnlyRecords(s, s)
    BY DEF OnlyRecords
  <2>4. PointersWithin(s.current, P, W)
    BY DEF PointersWithin, MacroSound
  <2> HIDE DEF Kept, K, V, P, W, E
  <2> QED
    BY <1>2, <2>2, <2>3, <2>4
<1>4. ASSUME NEW h \in Kept, NEW e \in entries PROVE WithVersion(h, e) \in Kept
  <2> DEFINE key == ChainKey(e.place, e.vintage)  next == WithVersion(h, e)
  <2>1. MacroSound(h) /\ OnlyRecords(h, s) /\ Continues(h.chains, base, E) /\ h \in States
    OBVIOUS
  <2>2. AreChains(base) /\ IsObservation(h, e)
    BY <2>1 DEF MacroSound, OnlyRecords, IsObservation, Sourced, Pointed
  <2>3. [key |-> key, version |-> e.version] \in E
    BY DEF SaidOf
  <2>4. SaidBy(E, key, e.version) /\ key \in K /\ e.version \in V /\ e.place \in P
    BY <2>3 DEF SaidBy
  <2>5. \A n \in Nat : <<e.vintage, n>> \in W
    OBVIOUS
  <2>6. DOMAIN h.chains \subseteq K /\ SaidIn(h.chains) \subseteq V /\ PointersWithin(h.current, P, W)
    <3>1. h.chains \in Chains(K, V) /\ h.current \in Pointers(P, W)
      BY <2>1
    <3> DEFINE c == h.chains  p == h.current
    <3> HIDE DEF K, V, P, W, c, p
    <3>2. DOMAIN c \subseteq K /\ SaidIn(c) \subseteq V
      BY <3>1, InChains DEF c
    <3>3. PointersWithin(p, P, W)
      BY <3>1, PointersAre DEF p
    <3> QED
      BY <3>2, <3>3 DEF c, p
  <2> HIDE DEF K, V, P, W, E, base, key, Kept, States
  <2>7. /\ MacroSound(next) /\ OnlyRecords(next, h) /\ Continues(next.chains, base, E)
        /\ DOMAIN next.chains \subseteq K /\ SaidIn(next.chains) \subseteq V
        /\ PointersWithin(next.current, P, W)
    <3>1. next = WithVersion(h, e) /\ key = ChainKey(e.place, e.vintage)
      BY DEF key
    <3> HIDE DEF next
    <3>2. RecordedWithin(next, h, base, E, K, V, P, W)
      BY <2>1, <2>2, <2>4, <2>5, <2>6, <3>1, RecordsOneMore
    <3> QED
      BY <3>2 DEF RecordedWithin
  <2>8. OnlyRecords(next, s)
    BY <2>1, <2>7 DEF OnlyRecords
  <2> QED
    BY <1>2, <2>7, <2>8
<1> HIDE DEF Kept, order, K, V, P, W, States
<1>5. Recording!Folded(s, order) \in Kept
  BY <1>1, <1>3, <1>4, Recording!FoldKeeps
<1>6. Recording!Folded(s, order) = t
  BY DEF WithVersions, FoldLeft, MapThenFoldSet, Recording!FoldLeft, Recording!MapThenFoldSet, Max,
         Recording!Max, Recording!Folded, order
<1>7. t \in Kept
  BY <1>5, <1>6
<1> QED
  BY <1>7 DEF Kept

LEMMA NewestIsRelease ==
  ASSUME NEW id \in MacroCapture, ReleasesParse(Observed[id])
  PROVE  NewestRelease(Observed[id]) \in Observed[id].releases
<1> DEFINE rs == Observed[id].releases  f == [r \in rs |-> r.order]
<1>1. IsFiniteSet(rs) /\ rs # {} /\ f \in [rs -> Int]
  BY ObservedIsFinite DEF ReleasesParse
<1> HIDE DEF rs, f
<1>2. PICK r \in rs : \A q \in rs : f[q] <= f[r]
  BY <1>1, Greatest
<1>3. r \in Observed[id].releases /\ \A q \in Observed[id].releases : q.order <= r.order
  BY <1>2 DEF rs, f
<1> QED
  BY <1>3 DEF NewestRelease

-----------------------------------------------------------------------------
\* A state that knows the series and the releases of a capture.
DeclaresAll(t, c) ==
  \A id \in SeriesOf(c), r \in c.releases : t.releases[<<id, r.vintage>>] = Declared(r)

Knows(t, s, c) ==
  /\ MacroSound(t) /\ t.chains = s.chains /\ t.current = s.current
  /\ Stays(t.series, s.series) /\ Stays(t.releases, s.releases)
  /\ \A id \in SeriesOf(c) : id \in DOMAIN t.series /\ t.series[id] \in c.series
  /\ \A id \in SeriesOf(c), r \in c.releases :
       /\ <<id, r.vintage>> \in DOMAIN t.releases
       /\ t.releases[<<id, r.vintage>>].order \in Int
  /\ DeclaresAll(t, c)

LEMMA KnowsCapture ==
  ASSUME NEW s, MacroSound(s), NEW id \in MacroCapture, NEW c, c = Observed[id],
         ReleasesParse(c), SeriesHeld(s, c), ReleasesHeld(s, c),
         NEW t, t = [s EXCEPT !.series = WithSeries(s, c), !.releases = WithReleases(s, c)]
  PROVE  Knows(t, s, c)
<1> DEFINE series == WithSeries(s, c)  releases == WithReleases(s, c)
<1>1. /\ MacroRecord(t) /\ t.series = series /\ t.releases = releases
      /\ t.chains = s.chains /\ t.current = s.current
  <2> HIDE DEF series, releases
  <2>1. t = [s EXCEPT !.series = series, !.releases = releases]
    BY DEF series, releases
  <2> QED
    BY <2>1 DEF MacroSound, MacroRecord
<1>2. series = [x \in SeriesOf(c) \cup DOMAIN s.series |->
                  IF x \in SeriesOf(c) THEN CHOOSE y \in c.series : y.id = x ELSE s.series[x]]
  BY DEF WithSeries, Overlay
<1>3. releases = [x \in (SeriesOf(c) \X Vintages(c)) \cup DOMAIN s.releases |->
                    IF x \in SeriesOf(c) \X Vintages(c) THEN Declared(ReleaseOf(c, x[2]))
                    ELSE s.releases[x]]
  BY DEF WithReleases, Overlay
<1>4. \A x \in SeriesOf(c) : (CHOOSE y \in c.series : y.id = x) \in c.series
                               /\ (CHOOSE y \in c.series : y.id = x).id = x
  BY DEF SeriesOf
<1>5. \A v \in Vintages(c) : ReleaseOf(c, v) \in c.releases /\ ReleaseOf(c, v).vintage = v
  BY DEF Vintages, ReleaseOf
<1>6. \A v \in Vintages(c) : Declared(ReleaseOf(c, v)).order \in Int
  BY <1>5, ObservedIsFinite DEF Declared
<1> HIDE DEF series, releases
<1>7. Stays(series, s.series)
  BY <1>2, <1>4 DEF Stays, SeriesHeld
<1>8. Stays(releases, s.releases)
  <2> SUFFICES ASSUME NEW x \in DOMAIN s.releases
               PROVE  x \in DOMAIN releases /\ releases[x] = s.releases[x]
    BY DEF Stays
  <2>1. CASE x \in SeriesOf(c) \X Vintages(c)
    <3> DEFINE r == ReleaseOf(c, x[2])
    <3>1. x[1] \in SeriesOf(c) /\ r \in c.releases /\ x = <<x[1], r.vintage>>
      BY <1>5, <2>1
    <3>2. s.releases[x] = Declared(r)
      BY <3>1 DEF ReleasesHeld
    <3> QED
      BY <1>3, <2>1, <3>2
  <2>2. CASE x \notin SeriesOf(c) \X Vintages(c)
    BY <1>3, <2>2
  <2> QED
    BY <2>1, <2>2
<1>9. \A x \in SeriesOf(c) : x \in DOMAIN series /\ series[x] \in c.series
  BY <1>2, <1>4
<1>10. ASSUME NEW x \in SeriesOf(c), NEW r \in c.releases
       PROVE  /\ <<x, r.vintage>> \in DOMAIN releases
              /\ releases[<<x, r.vintage>>].order \in Int
              /\ releases[<<x, r.vintage>>] = Declared(r)
  <2> DEFINE y == <<x, r.vintage>>
  <2>1. r.vintage \in Vintages(c)
    BY DEF Vintages
  <2>2. y \in SeriesOf(c) \X Vintages(c) /\ y[2] = r.vintage
    BY <2>1
  <2>3. releases[y] = Declared(ReleaseOf(c, r.vintage)) /\ y \in DOMAIN releases
    BY <1>3, <2>2
  <2>4. ReleaseOf(c, r.vintage) = r
    BY <1>5, <2>1 DEF ReleasesParse
  <2> QED
    BY <1>6, <2>1, <2>3, <2>4
<1>11. \A key \in DOMAIN s.chains : key = AsKey(key) /\ Sourced(s, key[1], key[4]) /\ Topped(s, key)
  BY DEF MacroSound
<1>12. ASSUME NEW key \in DOMAIN s.chains PROVE Sourced(t, key[1], key[4])
  BY <1>1, <1>7, <1>8, <1>11 DEF Sourced, Stays
<1>13. ASSUME NEW place \in DOMAIN s.current PROVE PointsTo(t, place, s.current[place])
  <2>1. PointsTo(s, place, s.current[place])
    BY DEF MacroSound
  <2> DEFINE w == s.current[place]  key == <<place[1], place[2], place[3], w[1]>>
  <2>2. key \in DOMAIN s.chains /\ key[1] = place[1]
    BY <2>1 DEF PointsTo
  <2>3. place[1] \in DOMAIN s.series
    BY <1>11, <2>2 DEF Sourced
  <2>4. Pointed(t, place)
    BY <1>1, <1>7, <2>1, <2>3 DEF PointsTo, Pointed, Stays
  <2> QED
    BY <1>1, <2>1, <2>4 DEF PointsTo
<1>14. ASSUME NEW key \in DOMAIN s.chains PROVE Topped(t, key)
  <2> DEFINE place == PlaceOf(key)
  <2>1. place[1] = key[1] /\ key[1] \in DOMAIN s.series /\ <<key[1], key[4]>> \in DOMAIN s.releases
    BY <1>11 DEF PlaceOf, Sourced
  <2>2. Pointed(t, place) => Pointed(s, place)
    BY <1>1, <1>7, <2>1 DEF Pointed, Stays
  <2>3. \A n : Rank(t, place, <<key[4], n>>) = Rank(s, place, <<key[4], n>>)
    BY <1>1, <1>8, <2>1 DEF Rank, Stays
  <2>4. ASSUME place \in DOMAIN s.current
        PROVE  Rank(t, place, s.current[place]) = Rank(s, place, s.current[place])
    <3> DEFINE w == s.current[place]  k == <<place[1], place[2], place[3], w[1]>>
    <3>1. k \in DOMAIN s.chains
      BY <2>4 DEF MacroSound, PointsTo
    <3>2. k[1] = place[1] /\ k[4] = w[1] /\ <<k[1], k[4]>> \in DOMAIN s.releases
      BY <1>11, <3>1 DEF Sourced
    <3> QED
      BY <1>1, <1>8, <3>2 DEF Rank, Stays
  <2>5. Topped(s, key)
    BY <1>11
  <2> HIDE DEF place
  <2>6. place = PlaceOf(key)
    BY DEF place
  <2> QED
    BY <1>1, <2>2, <2>3, <2>4, <2>5, <2>6 DEF Topped
<1>15. MacroSound(t)
  BY <1>1, <1>11, <1>12, <1>13, <1>14 DEF MacroSound
<1> QED
  BY <1>1, <1>7, <1>8, <1>9, <1>10, <1>15 DEF Knows, DeclaresAll

\* What a capture says of a series it declares is recorded as it is declared.
LEMMA EntryIsObservation ==
  ASSUME NEW t, NEW id \in MacroCapture, NEW c, c = Observed[id], NEW place, place = PlaceOf(place),
         place[1] \in SeriesOf(c), NEW r \in c.releases, NEW value, NEW state,
         \A x \in SeriesOf(c) : x \in DOMAIN t.series /\ t.series[x] \in c.series,
         \A x \in SeriesOf(c), q \in c.releases :
           <<x, q.vintage>> \in DOMAIN t.releases /\ t.releases[<<x, q.vintage>>].order \in Int
  PROVE  IsObservation(t, Entry(c, place, r, value, state))
<1>1. Pointed(t, place) <=> c.family # "rtdsm"
  <2>1. t.series[place[1]] \in c.series
    OBVIOUS
  <2>2. CASE c.family # "rtdsm"
    BY <2>1, <2>2 DEF Pointed, OtherSeries
  <2>3. CASE c.family = "rtdsm"
    BY <2>1, <2>3, RtdsmIsApart DEF Pointed, OtherSeries
  <2> QED
    BY <2>2, <2>3
<1>2. Sourced(t, place[1], r.vintage)
  BY DEF Sourced
<1> DEFINE e == Entry(c, place, r, value, state)
<1>3. e.place = place /\ e.vintage = r.vintage /\ e.pointed = (c.family # "rtdsm")
  BY DEF Entry
<1> HIDE DEF e
<1>4. IsObservation(t, e)
  BY <1>1, <1>2, <1>3 DEF IsObservation
<1> QED
  BY <1>4 DEF e

-----------------------------------------------------------------------------
\* Each entry is of a release of the capture, and available with it.
Dated(entries, c) ==
  \A e \in entries : \E r \in c.releases :
    e.version.available = r.available /\ e.key[4] = r.vintage /\ e.key[1] \in SeriesOf(c)

\* So is an observation before it is said of its chain.
Brought(e, c) ==
  /\ e.place = PlaceOf(e.place) /\ e.place[1] \in SeriesOf(c)
  /\ \E r \in c.releases : e.version.available = r.available /\ e.vintage = r.vintage

LEMMA BroughtIsDated ==
  ASSUME NEW entries, NEW c, \A e \in entries : Brought(e, c)
  PROVE  Dated(SaidOf(entries), c)
<1> SUFFICES ASSUME NEW e \in entries
             PROVE  \E r \in c.releases :
                      /\ e.version.available = r.available
                      /\ ChainKey(e.place, e.vintage)[4] = r.vintage
                      /\ ChainKey(e.place, e.vintage)[1] \in SeriesOf(c)
  BY DEF Dated, SaidOf
<1> DEFINE x == e.place[1]  y == e.place[2]  z == e.place[3]
<1>1. e.place = <<x, y, z>> /\ x \in SeriesOf(c)
      /\ \E r \in c.releases : e.version.available = r.available /\ e.vintage = r.vintage
  BY DEF Brought, PlaceOf
<1> HIDE DEF x, y, z
<1>2. ChainKey(<<x, y, z>>, e.vintage) = <<x, y, z, e.vintage>>
  BY KeyOfPlace
<1> QED
  BY <1>1, <1>2

IsMacro(id) == MacroParses(Observed[id]) /\ id \in MacroCapture

LEMMA ObservationsAreRecorded ==
  ASSUME NEW s, NEW t, NEW id, IsMacro(id), NEW c, c = Observed[id], Knows(t, s, c),
         NEW entries, entries = ObservationEntries(c)
  PROVE  /\ IsFiniteSet(entries) /\ \A e \in entries : IsObservation(t, e)
         /\ Dated(SaidOf(entries), c)
<1>0. IsFiniteSet(c.observations) /\ id \in MacroCapture
  BY ObservedIsFinite DEF IsMacro
<1>1. IsFiniteSet(entries)
  <2> DEFINE f == [o \in c.observations |-> Entry(c, Place(o), ReleaseOf(c, o.vintage), o.value, "active")]
  <2>1. entries = {f[o] : o \in c.observations} /\ DOMAIN f = c.observations
    BY DEF ObservationEntries
  <2> HIDE DEF f
  <2> QED
    BY <1>0, <2>1, ImageIsFinite
<1>2. ASSUME NEW o \in c.observations
      PROVE  /\ Place(o) = PlaceOf(Place(o)) /\ Place(o)[1] \in SeriesOf(c)
             /\ ReleaseOf(c, o.vintage) \in c.releases
  <2>1. o.series \in SeriesOf(c) /\ o.vintage \in Vintages(c)
    BY DEF IsMacro, MacroParses, ObservationsParse
  <2> QED
    BY <2>1 DEF Place, PlaceOf, Vintages, ReleaseOf
<1>3. ASSUME NEW e \in entries
      PROVE  IsObservation(t, e) /\ Brought(e, c)
  <2>1. PICK o \in c.observations : e = Entry(c, Place(o), ReleaseOf(c, o.vintage), o.value, "active")
    BY DEF ObservationEntries
  <2> DEFINE place == Place(o)  r == ReleaseOf(c, o.vintage)  value == o.value
  <2>2. place = PlaceOf(place) /\ place[1] \in SeriesOf(c) /\ r \in c.releases
    BY <1>2
  <2>3. e = Entry(c, place, r, value, "active")
    BY <2>1
  <2>4. /\ \A x \in SeriesOf(c) : x \in DOMAIN t.series /\ t.series[x] \in c.series
        /\ \A x \in SeriesOf(c), q \in c.releases :
             <<x, q.vintage>> \in DOMAIN t.releases /\ t.releases[<<x, q.vintage>>].order \in Int
    BY DEF Knows
  <2> HIDE DEF place, r, value
  <2>5. IsObservation(t, Entry(c, place, r, value, "active"))
    BY <1>0, <2>2, <2>4, EntryIsObservation
  <2>6. e.version.available = r.available /\ e.vintage = r.vintage /\ e.place = place
    BY <2>3 DEF Entry
  <2>7. Brought(e, c)
    BY <2>2, <2>6 DEF Brought
  <2> QED
    BY <2>3, <2>5, <2>7
<1>4. Dated(SaidOf(entries), c)
  BY <1>3, BroughtIsDated
<1> QED
  BY <1>1, <1>3, <1>4

LEMMA TombstonesAreRecorded ==
  ASSUME NEW s, NEW k, NEW t, NEW id, IsMacro(id), NEW c, c = Observed[id], Knows(k, s, c),
         MacroSound(t), t.series = k.series, t.releases = k.releases,
         NEW entries, entries = TombstoneEntries(t, c)
  PROVE  /\ IsFiniteSet(entries) /\ \A e \in entries : IsObservation(t, e)
         /\ Dated(SaidOf(entries), c)
<1> DEFINE gone == Omissions(t, c)  r == NewestRelease(c)
<1>0. id \in MacroCapture /\ ReleasesParse(c)
  BY DEF IsMacro, MacroParses
<1>1. entries = {} \/ entries = {Entry(c, place, r, "missing", "tombstone") : place \in gone}
  BY DEF TombstoneEntries, TombstoneRelease
<1>2. IsFiniteSet(gone)
  <2>1. gone \subseteq DOMAIN t.current /\ IsFiniteSet(DOMAIN t.current)
    BY DEF Omissions, MacroSound
  <2> HIDE DEF gone
  <2> QED
    BY <2>1, FS_Subset
<1>3. IsFiniteSet(entries)
  <2> DEFINE f == [place \in gone |-> Entry(c, place, r, "missing", "tombstone")]
  <2>1. entries = {} \/ entries = {f[place] : place \in gone}
    BY <1>1
  <2>2. DOMAIN f = gone
    OBVIOUS
  <2> HIDE DEF f, gone
  <2>3. IsFiniteSet({f[place] : place \in gone})
    BY <1>2, <2>2, ImageIsFinite
  <2> QED
    BY <2>1, <2>3, FS_EmptySet
<1>4. r \in c.releases
  BY <1>0, NewestIsRelease
<1>5. \A place \in gone : place = PlaceOf(place) /\ place[1] \in SeriesOf(c)
  BY DEF Omissions, MacroSound, PointsTo
<1> HIDE DEF gone, r
<1>6. ASSUME NEW e \in entries
      PROVE  IsObservation(t, e) /\ Brought(e, c)
  <2>1. PICK place \in gone : e = Entry(c, place, r, "missing", "tombstone")
    BY <1>1
  <2>2. /\ \A x \in SeriesOf(c) : x \in DOMAIN t.series /\ t.series[x] \in c.series
        /\ \A x \in SeriesOf(c), q \in c.releases :
             <<x, q.vintage>> \in DOMAIN t.releases /\ t.releases[<<x, q.vintage>>].order \in Int
    BY DEF Knows
  <2>3. IsObservation(t, Entry(c, place, r, "missing", "tombstone"))
    BY <1>0, <1>4, <1>5, <2>2, EntryIsObservation
  <2>4. e.version.available = r.available /\ e.vintage = r.vintage /\ e.place = place
    BY <2>1 DEF Entry
  <2>5. Brought(e, c)
    BY <1>4, <1>5, <2>4 DEF Brought
  <2> QED
    BY <2>1, <2>3, <2>5
<1>7. Dated(SaidOf(entries), c)
  BY <1>6, BroughtIsDated
<1> QED
  BY <1>3, <1>6, <1>7

-----------------------------------------------------------------------------
\* What a publication does.
Wrote(t, s, c) ==
  /\ MacroSound(t) /\ Stays(t.releases, s.releases) /\ DeclaresAll(t, c)
  /\ \E entries : Dated(entries, c) /\ Continues(t.chains, s.chains, entries)

RecordsMore(t, s, entries) ==
  MacroSound(t) /\ OnlyRecords(t, s) /\ Continues(t.chains, s.chains, SaidOf(entries))

LEMMA RecordsEntries ==
  ASSUME NEW s, MacroSound(s), NEW entries, IsFiniteSet(entries),
         \A e \in entries : IsObservation(s, e), NEW t, t = WithVersions(s, entries)
  PROVE  RecordsMore(t, s, entries)
BY RecordsAll DEF RecordsMore

LEMMA SoundIsOfChains ==
  ASSUME NEW s, MacroSound(s), NEW t, MacroRecord(t), t.series = s.series, t.releases = s.releases,
         t.chains = s.chains, t.current = s.current
  PROVE  MacroSound(t)
<1>1. \A p : Pointed(t, p) <=> Pointed(s, p)
  BY DEF Pointed
<1>2. \A p, x : Rank(t, p, x) = Rank(s, p, x)
  BY DEF Rank
<1>3. ASSUME NEW key \in DOMAIN s.chains PROVE Topped(t, key)
  <2>1. Topped(s, key)
    BY DEF MacroSound
  <2> QED
    BY <1>1, <1>2, <2>1 DEF Topped
<1>4. ASSUME NEW place \in DOMAIN s.current PROVE PointsTo(t, place, t.current[place])
  <2>1. PointsTo(s, place, s.current[place])
    BY DEF MacroSound
  <2> QED
    BY <1>1, <2>1 DEF PointsTo
<1>5. ASSUME NEW key \in DOMAIN s.chains PROVE key = AsKey(key) /\ Sourced(t, key[1], key[4])
  BY DEF MacroSound, Sourced
<1> QED
  BY <1>3, <1>4, <1>5 DEF MacroSound

LEMMA PublishedMacro ==
  ASSUME NEW s, MacroSound(s), NEW id, IsMacro(id), NEW c, c = Observed[id], MacroWrites(s, c),
         NEW t, t = MacroWritten(s, id, c)
  PROVE  Wrote(t, s, c) /\ t.published = s.published \cup {id}
<1> DEFINE k == [s EXCEPT !.series = WithSeries(s, c), !.releases = WithReleases(s, c)]
           seen == ObservationEntries(c)
           said == WithVersions(k, seen)
           gone == TombstoneEntries(said, c)
           last == WithVersions(said, gone)
           rows == Projected(s, c)
<1>0. id \in MacroCapture /\ ReleasesParse(c) /\ SeriesHeld(s, c) /\ ReleasesHeld(s, c)
  BY DEF IsMacro, MacroParses, MacroWrites
<1>1. t = [last EXCEPT !.rows = rows, !.published = last.published \cup {id}]
  BY DEF MacroWritten
<1>2. k.published = s.published
  <2> DEFINE a == WithSeries(s, c)  b == WithReleases(s, c)
  <2>1. k = [s EXCEPT !.series = a, !.releases = b] /\ MacroRecord(s)
    BY DEF MacroSound
  <2> HIDE DEF a, b, k
  <2> QED
    BY <2>1 DEF MacroRecord
<1>3. Knows(k, s, c)
  <2>1. k = [s EXCEPT !.series = WithSeries(s, c), !.releases = WithReleases(s, c)]
    OBVIOUS
  <2> HIDE DEF k
  <2> QED
    BY <1>0, <2>1, KnowsCapture
<1>4. /\ said = WithVersions(k, seen) /\ seen = ObservationEntries(c)
      /\ last = WithVersions(said, gone) /\ gone = TombstoneEntries(said, c)
  OBVIOUS
<1> HIDE DEF k, seen, said, gone, last, rows
<1>5. /\ IsFiniteSet(seen) /\ \A e \in seen : IsObservation(k, e)
      /\ Dated(SaidOf(seen), c)
  BY <1>3, <1>4, ObservationsAreRecorded
<1>6. MacroSound(k) /\ k.chains = s.chains /\ Stays(k.releases, s.releases)
  BY <1>3 DEF Knows
<1>7. RecordsMore(said, k, seen)
  BY <1>4, <1>5, <1>6, RecordsEntries
<1>8. MacroSound(said) /\ said.series = k.series /\ said.releases = k.releases
      /\ said.published = k.published
  BY <1>7 DEF RecordsMore, OnlyRecords
<1>9. /\ IsFiniteSet(gone) /\ \A e \in gone : IsObservation(said, e)
      /\ Dated(SaidOf(gone), c)
  BY <1>3, <1>4, <1>8, TombstonesAreRecorded
<1>10. RecordsMore(last, said, gone)
  BY <1>4, <1>8, <1>9, RecordsEntries
<1>11. MacroSound(last) /\ last.releases = k.releases /\ last.published = s.published
  BY <1>2, <1>8, <1>10 DEF RecordsMore, OnlyRecords
<1>12. Continues(last.chains, s.chains, SaidOf(seen) \cup SaidOf(gone))
  <2> DEFINE x == s.chains  y == said.chains  z == last.chains  E == SaidOf(seen)  F == SaidOf(gone)
  <2>1. AreChains(x) /\ AreChains(y) /\ AreChains(z) /\ Continues(y, x, E) /\ Continues(z, y, F)
    BY <1>6, <1>7, <1>8, <1>10, <1>11 DEF RecordsMore, MacroSound
  <2> HIDE DEF x, y, z, E, F
  <2>2. Continues(z, x, E \cup F)
    BY <2>1, ContinuesOn
  <2> QED
    BY <2>2 DEF x, z, E, F
<1>13. Dated(SaidOf(seen) \cup SaidOf(gone), c)
  <2> DEFINE E == SaidOf(seen)  F == SaidOf(gone)
  <2>1. Dated(E, c) /\ Dated(F, c)
    BY <1>5, <1>9
  <2> HIDE DEF E, F
  <2>2. Dated(E \cup F, c)
    BY <2>1 DEF Dated
  <2> QED
    BY <2>2 DEF E, F
<1>14. /\ MacroRecord(t) /\ t.series = last.series /\ t.releases = last.releases
       /\ t.chains = last.chains /\ t.current = last.current /\ t.published = last.published \cup {id}
  <2>1. MacroRecord(last)
    BY <1>11 DEF MacroSound
  <2> QED
    BY <1>1, <2>1 DEF MacroRecord
<1>15. MacroSound(t)
  BY <1>11, <1>14, SoundIsOfChains
<1>16. DeclaresAll(t, c)
  <2>1. DeclaresAll(k, c)
    BY <1>3 DEF Knows
  <2>2. t.releases = k.releases
    BY <1>11, <1>14
  <2> QED
    BY <2>1, <2>2 DEF DeclaresAll
<1> QED
  BY <1>6, <1>11, <1>12, <1>13, <1>14, <1>15, <1>16 DEF Wrote

MacroInv == MacroSound(macro)

MacroStepDoes ==
  \/ MacroSound(macro') /\ macro'.published = macro.published /\ macro'.chains = macro.chains
  \/ \E id \in MacroCapture :
       /\ Wrote(macro', macro, Observed[id])
       /\ macro'.published = macro.published \cup {id} /\ id \notin macro.published

LEMMA MacroSteps == MacroInv /\ [MacroNext]_macro => MacroStepDoes
<1> SUFFICES ASSUME MacroInv, [MacroNext]_macro PROVE MacroStepDoes
  OBVIOUS
<1>1. ASSUME NEW id \in MacroCapture, MacroPublish(id) PROVE MacroStepDoes
  <2> DEFINE s == macro  t == macro'  c == Observed[id]
  <2>1. /\ IsMacro(id) /\ MacroWrites(s, c) /\ t = MacroWritten(s, id, c) /\ MacroSound(s)
        /\ id \notin s.published
    BY <1>1 DEF MacroPublish, MacroAwaits, IsMacro, MacroInv
  <2>2. c = Observed[id]
    OBVIOUS
  <2> HIDE DEF s, t, c
  <2>3. Wrote(t, s, c) /\ t.published = s.published \cup {id}
    BY <2>1, <2>2, PublishedMacro
  <2> QED
    BY <2>1, <2>3 DEF MacroStepDoes, s, t, c
<1>2. ASSUME NEW id \in MacroCapture, MacroFails(id) PROVE MacroStepDoes
  <2> DEFINE s == macro  t == macro'  spent == macro.spent \cup {id}
  <2>1. t = [s EXCEPT !.spent = spent] /\ MacroSound(s)
    BY <1>2 DEF MacroFails, MacroInv
  <2> HIDE DEF s, t, spent
  <2>2. /\ MacroRecord(t) /\ t.series = s.series /\ t.releases = s.releases
        /\ t.chains = s.chains /\ t.current = s.current /\ t.published = s.published
    BY <2>1 DEF MacroSound, MacroRecord
  <2>3. MacroSound(t)
    BY <2>1, <2>2, SoundIsOfChains
  <2> QED
    BY <2>2, <2>3 DEF MacroStepDoes, s, t
<1>3. ASSUME UNCHANGED macro PROVE MacroStepDoes
  BY <1>3 DEF MacroInv, MacroStepDoes
<1> QED
  BY <1>1, <1>2, <1>3 DEF MacroNext

LEMMA MacroStepKeeps == MacroInv /\ [MacroNext]_macro => MacroInv'
BY MacroSteps DEF MacroStepDoes, Wrote, MacroInv

LEMMA MacroInvInit == MacroInit => MacroInv
<1> SUFFICES ASSUME MacroInit PROVE MacroSound(macro)
  BY DEF MacroInv
<1>1. macro = [series |-> << >>, releases |-> << >>, chains |-> << >>, current |-> << >>, rows |-> << >>,
               published |-> {}, spent |-> {}]
  BY DEF MacroInit, EmptyMacro
<1>2. MacroRecord(macro) /\ macro.chains = << >> /\ macro.current = << >>
  BY <1>1 DEF MacroRecord
<1>3. DOMAIN macro.chains = {} /\ DOMAIN macro.current = {}
  BY <1>2
<1>4. AreChains(macro.chains)
  BY <1>2, <1>3 DEF AreChains
<1>5. macro.current = [x \in DOMAIN macro.current |-> macro.current[x]]
  BY <1>2, <1>3
<1> QED
  BY <1>2, <1>3, <1>4, <1>5, FS_EmptySet DEF MacroSound

-----------------------------------------------------------------------------
\* The versions of a place are those of the chains of it.
LEMMA KeyOf ==
  ASSUME NEW s, MacroSound(s), NEW key \in DOMAIN s.chains
  PROVE  SubSeq(key, 1, 3) = PlaceOf(key) /\ ChainKey(PlaceOf(key), key[4]) = key
<1> DEFINE a == key[1]  b == key[2]  d == key[3]  v == key[4]
<1>1. key = <<a, b, d, v>>
  BY DEF MacroSound, AsKey
<1>2. SubSeq(<<a, b, d, v>>, 1, 3) = <<a, b, d>> /\ ChainKey(<<a, b, d>>, v) = <<a, b, d, v>>
  <2> HIDE DEF a, b, d, v
  <2> QED
    BY PlaceOfKey, KeyOfPlace
<1>3. PlaceOf(key) = <<a, b, d>>
  BY DEF PlaceOf
<1> HIDE DEF a, b, d
<1> QED
  BY <1>1, <1>2, <1>3

IsVersion(s, place, w, key, n) ==
  /\ key \in DOMAIN s.chains /\ n \in DOMAIN s.chains[key] /\ w = <<key[4], n>>
  /\ place = PlaceOf(key) /\ VersionAt(s, place, w) = s.chains[key][n]

LEMMA VersionsAre ==
  ASSUME NEW s, MacroSound(s), NEW place, NEW w
  PROVE  w \in VersionsOf(s, place) <=> \E key, n : IsVersion(s, place, w, key, n)
<1>1. ASSUME w \in VersionsOf(s, place) PROVE \E key, n : IsVersion(s, place, w, key, n)
  <2>1. PICK key \in DOMAIN s.chains :
          SubSeq(key, 1, 3) = place /\ \E n \in DOMAIN s.chains[key] : w = <<key[4], n>>
    BY <1>1 DEF VersionsOf
  <2>2. PICK n \in DOMAIN s.chains[key] : w = <<key[4], n>>
    BY <2>1
  <2>3. place = PlaceOf(key) /\ ChainKey(place, key[4]) = key
    BY <2>1, KeyOf
  <2>4. VersionAt(s, place, w) = s.chains[key][n]
    BY <2>2, <2>3 DEF VersionAt
  <2>5. IsVersion(s, place, w, key, n)
    BY <2>2, <2>3, <2>4 DEF IsVersion
  <2> QED
    BY <2>5
<1>2. ASSUME NEW key, NEW n, IsVersion(s, place, w, key, n) PROVE w \in VersionsOf(s, place)
  <2>1. key \in {x \in DOMAIN s.chains : SubSeq(x, 1, 3) = place}
    BY <1>2, KeyOf DEF IsVersion
  <2>2. w \in {<<key[4], m>> : m \in DOMAIN s.chains[key]}
    BY <1>2 DEF IsVersion
  <2> QED
    BY <2>1, <2>2 DEF VersionsOf
<1> QED
  BY <1>1, <1>2

LEMMA CurrentRanksHighest == MacroInv => CurrentIsLatest
<1> SUFFICES ASSUME MacroSound(macro), NEW place \in DOMAIN macro.current
             PROVE  macro.current[place] \in LatestOf(macro, place)
  BY DEF MacroInv, CurrentIsLatest
<1> DEFINE s == macro  w == macro.current[place]  key == <<place[1], place[2], place[3], w[1]>>
<1>1. /\ place = PlaceOf(place) /\ Pointed(s, place) /\ w = <<w[1], w[2]>>
      /\ key \in DOMAIN s.chains /\ w[2] \in DOMAIN s.chains[key]
  BY DEF MacroSound, PointsTo
<1>2. place = PlaceOf(key) /\ key[4] = w[1]
  BY <1>1 DEF PlaceOf
<1>3. ChainKey(PlaceOf(key), key[4]) = key
  <2> HIDE DEF key, s
  <2>1. MacroSound(s) /\ key \in DOMAIN s.chains
    BY <1>1 DEF s
  <2> QED
    BY <2>1, KeyOf
<1>4. IsVersion(s, place, w, key, w[2])
  BY <1>1, <1>2, <1>3 DEF IsVersion, VersionAt
<1>5. w \in VersionsOf(s, place)
  <2> HIDE DEF w, key
  <2> QED
    BY <1>4, VersionsAre
<1>6. ASSUME NEW v \in VersionsOf(s, place)
      PROVE  ~ Outranks(Rank(s, place, v), Rank(s, place, w))
  <2>1. PICK k, n : IsVersion(s, place, v, k, n)
    BY VersionsAre
  <2>2. Topped(s, k) /\ place = PlaceOf(k) /\ v = <<k[4], n>> /\ n \in DOMAIN s.chains[k]
    BY <2>1 DEF IsVersion, MacroSound
  <2> QED
    BY <1>1, <2>2 DEF Topped
<1> QED
  BY <1>5, <1>6 DEF LatestOf, Highest

-----------------------------------------------------------------------------
SeenOf(s, place, cutoff, policy) ==
  {v \in VersionsOf(s, place) : Visible(VersionAt(s, place, v), cutoff, policy)}

\* A publication whose releases are not available shows nothing new of a place,
\* and the versions of it that are visible keep what they say and their ranks.
SeesTheSame(t, s, place, cutoff, policy) ==
  /\ SeenOf(t, place, cutoff, policy) = SeenOf(s, place, cutoff, policy)
  /\ \A v \in SeenOf(s, place, cutoff, policy) :
       Rank(t, place, v) = Rank(s, place, v) /\ VersionAt(t, place, v) = VersionAt(s, place, v)

\* What is there of a place stays, with what it says and its rank.
VersionStays(t, s, place, v) ==
  /\ v \in VersionsOf(t, place) /\ Rank(t, place, v) = Rank(s, place, v)
  /\ VersionAt(t, place, v) = VersionAt(s, place, v)

LEMMA VersionsStay ==
  ASSUME NEW s, MacroSound(s), NEW c, NEW t, Wrote(t, s, c), NEW place,
         NEW v \in VersionsOf(s, place)
  PROVE  VersionStays(t, s, place, v)
<1>0. MacroSound(t) /\ Stays(t.releases, s.releases)
  BY DEF Wrote
<1>1. PICK entries : Continues(t.chains, s.chains, entries)
  BY DEF Wrote
<1>2. Keeps(t.chains, s.chains)
  <2> DEFINE x == s.chains  y == t.chains
  <2>1. AreChains(x) /\ AreChains(y) /\ Continues(y, x, entries)
    BY <1>0, <1>1 DEF MacroSound
  <2> HIDE DEF x, y
  <2>2. Keeps(y, x)
    BY <2>1, ContinuesKeeps
  <2> QED
    BY <2>2 DEF x, y
<1>3. PICK key, n : IsVersion(s, place, v, key, n)
  BY VersionsAre
<1>4. key \in DOMAIN t.chains /\ n \in DOMAIN t.chains[key] /\ t.chains[key][n] = s.chains[key][n]
  BY <1>2, <1>3 DEF Keeps, IsVersion
<1>5. ChainKey(place, v[1]) = key /\ v[2] = n
  BY <1>3, KeyOf DEF IsVersion
<1>6. VersionAt(t, place, v) = t.chains[key][n]
  BY <1>5 DEF VersionAt
<1>7. IsVersion(t, place, v, key, n)
  BY <1>3, <1>4, <1>6 DEF IsVersion
<1>8. v \in VersionsOf(t, place)
  BY <1>0, <1>7, VersionsAre
<1>9. <<place[1], v[1]>> \in DOMAIN s.releases
  BY <1>3 DEF IsVersion, MacroSound, Sourced, PlaceOf
<1>10. Rank(t, place, v) = Rank(s, place, v)
  BY <1>0, <1>9 DEF Rank, Stays
<1> QED
  BY <1>3, <1>4, <1>6, <1>8, <1>10 DEF IsVersion, VersionStays

\* What is new of a place is after what was there of its chain, and is what an
\* entry says of it.
Comes(t, s, place, v, entries) ==
  \E key, n : /\ IsVersion(t, place, v, key, n)
              /\ n > Len(History(s.chains, key)) /\ SaidBy(entries, key, t.chains[key][n])

LEMMA VersionsCome ==
  ASSUME NEW s, MacroSound(s), NEW t, MacroSound(t), NEW entries,
         Continues(t.chains, s.chains, entries), NEW place, NEW v \in VersionsOf(t, place)
  PROVE  v \in VersionsOf(s, place) \/ Comes(t, s, place, v, entries)
<1>1. PICK key, n : IsVersion(t, place, v, key, n)
  BY VersionsAre
<1>2. key \in DOMAIN t.chains /\ n \in DOMAIN t.chains[key]
  BY <1>1 DEF IsVersion
<1>3. n \in Nat /\ 1 <= n
  <2>1. t.chains[key] \in Seq(SaidIn(t.chains))
    BY <1>2 DEF MacroSound, AreChains
  <2> QED
    BY <1>2, <2>1
<1> DEFINE x == s.chains  len == Len(History(x, key))
<1>4. len \in Nat /\ DOMAIN History(x, key) = 1 .. len
  <2>1. AreChains(x)
    BY DEF MacroSound
  <2> HIDE DEF x
  <2> QED
    BY <2>1, HistoryIsSeq
<1> HIDE DEF len
<1>5. CASE n <= len
  <2>1. n \in DOMAIN History(s.chains, key)
    BY <1>3, <1>4, <1>5
  <2>2. key \in DOMAIN s.chains /\ n \in DOMAIN s.chains[key]
    BY <2>1 DEF History
  <2>3. place = PlaceOf(key) /\ v = <<key[4], n>>
    BY <1>1 DEF IsVersion
  <2>4. ChainKey(place, v[1]) = key /\ v[2] = n
    BY <2>2, <2>3, KeyOf
  <2>5. IsVersion(s, place, v, key, n)
    BY <2>2, <2>3, <2>4 DEF IsVersion, VersionAt
  <2> QED
    BY <2>5, VersionsAre
<1>6. CASE ~ (n <= len)
  <2>1. Accounted(t.chains, s.chains, entries, key, n)
    BY <1>2 DEF Continues
  <2>2. SaidBy(entries, key, t.chains[key][n]) /\ n > len
    BY <1>3, <1>4, <1>6, <2>1 DEF Accounted, len
  <2> QED
    BY <1>1, <2>2 DEF Comes, len
<1> QED
  BY <1>5, <1>6

LEMMA PlaceSeesTheSame ==
  ASSUME NEW s, MacroSound(s), NEW c, NEW t, Wrote(t, s, c), NEW cutoff, NEW policy, NEW place,
         \A r \in c.releases : ~ Visible(r, cutoff, policy)
  PROVE  SeesTheSame(t, s, place, cutoff, policy)
<1>0. MacroSound(t)
  BY DEF Wrote
<1>1. PICK entries : Dated(entries, c) /\ Continues(t.chains, s.chains, entries)
  BY DEF Wrote
<1>2. \A e \in entries : ~ Visible(e.version, cutoff, policy)
  BY <1>1 DEF Dated, Visible
<1>3. ASSUME NEW v \in VersionsOf(s, place)
      PROVE  /\ v \in VersionsOf(t, place) /\ Rank(t, place, v) = Rank(s, place, v)
             /\ VersionAt(t, place, v) = VersionAt(s, place, v)
  BY VersionsStay DEF VersionStays
<1>4. ASSUME NEW v \in VersionsOf(t, place), Visible(VersionAt(t, place, v), cutoff, policy)
      PROVE  v \in VersionsOf(s, place)
  <2>1. ~ Comes(t, s, place, v, entries)
    BY <1>2, <1>4 DEF Comes, IsVersion, SaidBy
  <2> QED
    BY <1>0, <1>1, <2>1, VersionsCome
<1> QED
  BY <1>3, <1>4 DEF SeesTheSame, SeenOf

SaidAsOf(s, place, cutoff, policy) ==
  {[place |-> place, said |-> VersionAt(s, place, v)] : v \in AsOf(s, place, cutoff, policy)}

LEMMA PlaceSaysTheSame ==
  ASSUME NEW s, NEW t, NEW place, NEW cutoff, NEW policy, SeesTheSame(t, s, place, cutoff, policy)
  PROVE  SaidAsOf(t, place, cutoff, policy) = SaidAsOf(s, place, cutoff, policy)
<1>1. AsOf(t, place, cutoff, policy) = AsOf(s, place, cutoff, policy)
      /\ AsOf(s, place, cutoff, policy) \subseteq SeenOf(s, place, cutoff, policy)
  <2> DEFINE seen == SeenOf(s, place, cutoff, policy)
  <2>1. AsOf(t, place, cutoff, policy) = Highest(t, place, seen)
        /\ AsOf(s, place, cutoff, policy) = Highest(s, place, seen)
    BY DEF AsOf, SeesTheSame, SeenOf
  <2>2. \A v \in seen : Rank(t, place, v) = Rank(s, place, v)
    BY DEF SeesTheSame
  <2> HIDE DEF seen
  <2>3. Highest(t, place, seen) = Highest(s, place, seen) /\ Highest(s, place, seen) \subseteq seen
    BY <2>2 DEF Highest
  <2> QED
    BY <2>1, <2>3 DEF seen
<1>2. \A v \in AsOf(s, place, cutoff, policy) : VersionAt(t, place, v) = VersionAt(s, place, v)
  BY <1>1 DEF SeesTheSame
<1> QED
  BY <1>1, <1>2 DEF SaidAsOf

\* A place that is answered has a version, so it is one of a chain.
LEMMA SeriesAsOf ==
  ASSUME NEW s, MacroSound(s), NEW cutoff, NEW policy, NEW a
  PROVE  a \in GetSeries(s, AsOfQuery(cutoff, policy)) <=>
           a.said.state = "active" /\ \E place : a \in SaidAsOf(s, place, cutoff, policy)
<1>1. \A place : Select(s, place, AsOfQuery(cutoff, policy)) = AsOf(s, place, cutoff, policy)
  BY DEF Select, AsOfQuery
<1>2. GetSeries(s, AsOfQuery(cutoff, policy))
        = {x \in UNION {SaidAsOf(s, place, cutoff, policy) : place \in Places(s)} : x.said.state = "active"}
  BY <1>1 DEF GetSeries, SaidAsOf
<1>3. ASSUME NEW place, a \in SaidAsOf(s, place, cutoff, policy) PROVE place \in Places(s)
  <2>1. PICK v \in AsOf(s, place, cutoff, policy) : TRUE
    BY <1>3 DEF SaidAsOf
  <2>2. v \in VersionsOf(s, place)
    BY DEF AsOf, Highest
  <2>3. PICK key, n : IsVersion(s, place, v, key, n)
    BY <2>2, VersionsAre
  <2> QED
    BY <2>3, KeyOf DEF Places, IsVersion
<1> QED
  BY <1>2, <1>3

MacroReadsTheSame ==
  \A id \in macro'.published \ macro.published, cutoff \in MacroCutoff, policy \in Policy :
    (\A r \in Observed[id].releases : ~Visible(r, cutoff, policy)) =>
      GetSeries(macro', AsOfQuery(cutoff, policy)) = GetSeries(macro, AsOfQuery(cutoff, policy))

LEMMA MacroStable == MacroInv /\ [MacroNext]_macro => MacroReadsTheSame
<1> SUFFICES ASSUME MacroInv, [MacroNext]_macro,
                    NEW id \in macro'.published \ macro.published, NEW cutoff \in MacroCutoff,
                    NEW policy \in Policy, \A r \in Observed[id].releases : ~Visible(r, cutoff, policy)
             PROVE  GetSeries(macro', AsOfQuery(cutoff, policy)) = GetSeries(macro, AsOfQuery(cutoff, policy))
  BY DEF MacroReadsTheSame
<1> DEFINE s == macro  t == macro'  c == Observed[id]
           before == GetSeries(s, AsOfQuery(cutoff, policy))
           after == GetSeries(t, AsOfQuery(cutoff, policy))
<1>1. Wrote(t, s, c)
  BY MacroSteps DEF MacroStepDoes
<1>2. MacroSound(s) /\ MacroSound(t) /\ \A r \in c.releases : ~Visible(r, cutoff, policy)
  BY <1>1 DEF MacroInv, Wrote
<1> HIDE DEF s, t, c
<1>3. ASSUME NEW place PROVE SaidAsOf(t, place, cutoff, policy) = SaidAsOf(s, place, cutoff, policy)
  <2>1. SeesTheSame(t, s, place, cutoff, policy)
    BY <1>1, <1>2, PlaceSeesTheSame
  <2> QED
    BY <2>1, PlaceSaysTheSame
<1>4. ASSUME NEW a PROVE a \in after <=> a \in before
  <2>1. a \in after <=> a.said.state = "active" /\ \E place : a \in SaidAsOf(t, place, cutoff, policy)
    BY <1>2, SeriesAsOf
  <2>2. a \in before <=> a.said.state = "active" /\ \E place : a \in SaidAsOf(s, place, cutoff, policy)
    BY <1>2, SeriesAsOf
  <2> QED
    BY <1>3, <2>1, <2>2
<1> HIDE DEF before, after
<1>5. before = after
  BY <1>4
<1> QED
  BY <1>5 DEF before, after, s, t

-----------------------------------------------------------------------------
\* What is first of a place is among versions whose ranks are pairs of numbers.
Ranked(s, place, v) ==
  Rank(s, place, v)[1] \in Int /\ Rank(s, place, v)[2] \in Int

LEMMA VersionsAreRanked ==
  ASSUME NEW s, MacroSound(s), NEW place, NEW v \in VersionsOf(s, place)
  PROVE  Ranked(s, place, v)
<1>1. PICK key, n : IsVersion(s, place, v, key, n)
  BY VersionsAre
<1>2. n \in Int
  <2>1. s.chains[key] \in Seq(SaidIn(s.chains)) /\ n \in DOMAIN s.chains[key]
    BY <1>1 DEF MacroSound, AreChains, IsVersion
  <2> QED
    BY <2>1
<1>3. s.releases[<<place[1], v[1]>>].order \in Int /\ v[2] = n
  BY <1>1 DEF IsVersion, MacroSound, Sourced, PlaceOf
<1> QED
  BY <1>2, <1>3 DEF Ranked, Rank

\* The hypothesis of FirstReleaseStands.
ComesAfter(s, place, c) ==
  \A r \in c.releases : r.first =>
    \E v \in FirstReleases(s, place) : r.vintage = v[1] \/ r.order > Rank(s, place, v)[1]

\* A version that comes and is called first is after one that is first.
LEMMA FirstIsBefore ==
  ASSUME NEW s, MacroSound(s), NEW c, NEW t, Wrote(t, s, c), NEW place, ComesAfter(s, place, c),
         NEW v \in Evidenced(t, place), v \notin VersionsOf(s, place)
  PROVE  \E u \in FirstReleases(s, place) : Outranks(Rank(t, place, v), Rank(t, place, u))
<1>0. MacroSound(t) /\ DeclaresAll(t, c) /\ v \in VersionsOf(t, place)
      /\ t.releases[<<place[1], v[1]>>].first
  BY DEF Wrote, Evidenced
<1>1. PICK entries : Dated(entries, c) /\ Continues(t.chains, s.chains, entries)
  BY DEF Wrote
<1>2. Comes(t, s, place, v, entries)
  BY <1>0, <1>1, VersionsCome
<1>3. PICK key, n : /\ IsVersion(t, place, v, key, n)
                    /\ n > Len(History(s.chains, key)) /\ SaidBy(entries, key, t.chains[key][n])
  BY <1>2 DEF Comes
<1>4. PICK r \in c.releases : key[4] = r.vintage /\ key[1] \in SeriesOf(c)
  BY <1>1, <1>3 DEF Dated, SaidBy
<1>5. place = PlaceOf(key) /\ v = <<key[4], n>> /\ place[1] = key[1] /\ v[1] = key[4] /\ v[2] = n
  BY <1>3 DEF IsVersion, PlaceOf
<1>6. t.releases[<<place[1], v[1]>>] = Declared(r)
  BY <1>0, <1>4, <1>5 DEF DeclaresAll
<1>7. r.first /\ Rank(t, place, v) = <<r.order, n>>
  BY <1>0, <1>5, <1>6 DEF Declared, Rank
<1>8. PICK u \in FirstReleases(s, place) : r.vintage = u[1] \/ r.order > Rank(s, place, u)[1]
  BY <1>7 DEF ComesAfter
<1>9. u \in VersionsOf(s, place)
  BY DEF FirstReleases, Evidenced
<1>10. Rank(t, place, u) = Rank(s, place, u)
  BY <1>9, VersionsStay DEF VersionStays
<1>11. CASE r.order > Rank(s, place, u)[1]
  <2>1. Outranks(Rank(t, place, v), Rank(t, place, u))
    BY <1>7, <1>10, <1>11 DEF Outranks
  <2> QED
    BY <2>1
<1>12. CASE r.vintage = u[1]
  <2>1. PICK k, m : IsVersion(s, place, u, k, m)
    BY <1>9, VersionsAre
  <2>2. k = key
    <3>1. k = AsKey(k) /\ key = AsKey(key)
      BY <1>0, <1>3, <2>1 DEF MacroSound, IsVersion
    <3>2. k[4] = key[4] /\ PlaceOf(k) = PlaceOf(key)
      BY <1>4, <1>5, <1>12, <2>1 DEF IsVersion
    <3> QED
      BY <3>1, <3>2 DEF PlaceOf, AsKey
  <2>3. m \in DOMAIN s.chains[key] /\ key \in DOMAIN s.chains
    BY <2>1, <2>2 DEF IsVersion
  <2>4. m \in Nat /\ m <= Len(History(s.chains, key))
    <3>1. s.chains[key] \in Seq(SaidIn(s.chains))
      BY <2>3 DEF MacroSound, AreChains
    <3>2. History(s.chains, key) = s.chains[key]
      BY <2>3 DEF History
    <3> QED
      BY <2>3, <3>1, <3>2
  <2>5. n > m /\ n \in Int
    <3>1. Len(History(s.chains, key)) \in Nat
      <4> DEFINE x == s.chains
      <4>1. AreChains(x)
        BY DEF MacroSound
      <4> HIDE DEF x
      <4>2. Len(History(x, key)) \in Nat
        BY <4>1, HistoryIsSeq
      <4> QED
        BY <4>2 DEF x
    <3>2. t.chains[key] \in Seq(SaidIn(t.chains)) /\ n \in DOMAIN t.chains[key]
      BY <1>0, <1>3 DEF MacroSound, AreChains, IsVersion
    <3>3. n \in Int
      BY <3>2
    <3> QED
      BY <1>3, <2>4, <3>1, <3>3
  <2>6. u = <<v[1], m>>
    BY <1>5, <2>1, <2>2 DEF IsVersion
  <2>7. Rank(t, place, u) = <<r.order, m>>
    BY <1>6, <2>6 DEF Rank, Declared
  <2>8. Outranks(Rank(t, place, v), Rank(t, place, u))
    BY <1>7, <2>5, <2>7 DEF Outranks
  <2> QED
    BY <2>8
<1> QED
  BY <1>8, <1>11, <1>12

FirstSame(t, s, place) ==
  /\ FirstReleases(t, place) = FirstReleases(s, place)
  /\ \A v \in FirstReleases(s, place) : VersionAt(t, place, v) = VersionAt(s, place, v)

LEMMA FirstStays ==
  ASSUME NEW s, MacroSound(s), NEW c, NEW t, Wrote(t, s, c), NEW place, ComesAfter(s, place, c)
  PROVE  FirstSame(t, s, place)
<1>0. MacroSound(t) /\ Stays(t.releases, s.releases)
  BY DEF Wrote
<1>1. ASSUME NEW v \in VersionsOf(s, place)
      PROVE  /\ v \in VersionsOf(t, place) /\ Rank(t, place, v) = Rank(s, place, v)
             /\ VersionAt(t, place, v) = VersionAt(s, place, v)
  BY VersionsStay DEF VersionStays
<1>2. ASSUME NEW v \in VersionsOf(s, place)
      PROVE  v \in Evidenced(t, place) <=> v \in Evidenced(s, place)
  <2>1. PICK key, n : IsVersion(s, place, v, key, n)
    BY VersionsAre
  <2>2. <<place[1], v[1]>> \in DOMAIN s.releases
    BY <2>1 DEF IsVersion, MacroSound, Sourced, PlaceOf
  <2>3. t.releases[<<place[1], v[1]>>] = s.releases[<<place[1], v[1]>>]
    BY <1>0, <2>2 DEF Stays
  <2> QED
    BY <1>1, <2>3 DEF Evidenced
<1>3. Evidenced(s, place) \subseteq VersionsOf(s, place) /\ FirstReleases(s, place) \subseteq Evidenced(s, place)
      /\ Evidenced(t, place) \subseteq VersionsOf(t, place)
  BY DEF Evidenced, FirstReleases
<1>4. ASSUME NEW v \in Evidenced(t, place), v \notin VersionsOf(s, place)
      PROVE  \E u \in FirstReleases(s, place) : Outranks(Rank(t, place, v), Rank(t, place, u))
  BY <1>4, FirstIsBefore
<1>5. ASSUME NEW v \in FirstReleases(t, place) PROVE v \in FirstReleases(s, place)
  <2>1. v \in Evidenced(t, place) /\ \A w \in Evidenced(t, place) : ~ Outranks(Rank(t, place, v), Rank(t, place, w))
    BY DEF FirstReleases
  <2>2. v \in VersionsOf(s, place)
    BY <1>2, <1>3, <1>4, <2>1
  <2>3. v \in Evidenced(s, place)
    BY <1>2, <2>1, <2>2
  <2>4. ASSUME NEW w \in Evidenced(s, place) PROVE ~ Outranks(Rank(s, place, v), Rank(s, place, w))
    BY <1>1, <1>2, <1>3, <2>1, <2>2
  <2> QED
    BY <2>3, <2>4 DEF FirstReleases
<1>6. ASSUME NEW v \in FirstReleases(s, place) PROVE v \in FirstReleases(t, place)
  <2>1. v \in Evidenced(s, place) /\ \A w \in Evidenced(s, place) : ~ Outranks(Rank(s, place, v), Rank(s, place, w))
    BY DEF FirstReleases
  <2>2. v \in VersionsOf(s, place) /\ v \in Evidenced(t, place)
    BY <1>2, <1>3, <2>1
  <2>3. ASSUME NEW w \in Evidenced(t, place), Outranks(Rank(t, place, v), Rank(t, place, w)) PROVE FALSE
    <3>1. CASE w \in VersionsOf(s, place)
      BY <1>1, <1>2, <2>1, <2>2, <2>3, <3>1
    <3>2. CASE w \notin VersionsOf(s, place)
      <4>1. PICK u \in FirstReleases(s, place) : Outranks(Rank(t, place, w), Rank(t, place, u))
        BY <1>4, <3>2
      <4>2. u \in Evidenced(s, place) /\ u \in VersionsOf(t, place) /\ v \in VersionsOf(t, place)
            /\ w \in VersionsOf(t, place) /\ u \in VersionsOf(s, place)
        BY <1>1, <1>3, <2>2
      <4> DEFINE x == Rank(t, place, v)  y == Rank(t, place, w)  z == Rank(t, place, u)
      <4>3. Ranked(t, place, v) /\ Ranked(t, place, w) /\ Ranked(t, place, u)
        BY <1>0, <4>2, VersionsAreRanked
      <4>4. /\ x[1] \in Int /\ x[2] \in Int /\ y[1] \in Int /\ y[2] \in Int
            /\ z[1] \in Int /\ z[2] \in Int
        BY <4>3 DEF Ranked
      <4>5. Outranks(x, y) /\ Outranks(y, z)
        BY <2>3, <4>1
      <4>6. x = Rank(s, place, v) /\ z = Rank(s, place, u)
        BY <1>1, <2>2, <4>2
      <4> HIDE DEF x, y, z
      <4>7. Outranks(x, z)
        BY <4>4, <4>5 DEF Outranks
      <4> QED
        BY <2>1, <4>2, <4>6, <4>7
    <3> QED
      BY <3>1, <3>2
  <2> QED
    BY <2>2, <2>3 DEF FirstReleases
<1>7. FirstReleases(t, place) = FirstReleases(s, place)
  BY <1>5, <1>6
<1>8. \A v \in FirstReleases(s, place) : VersionAt(t, place, v) = VersionAt(s, place, v)
  BY <1>1, <1>3
<1> QED
  BY <1>7, <1>8 DEF FirstSame

FirstReleaseStandsNow ==
  \A id \in macro'.published \ macro.published, place \in Places(macro') :
    LET held == FirstReleases(macro, place) IN
    (\A r \in Observed[id].releases : r.first =>
       \E v \in held : r.vintage = v[1] \/ r.order > Rank(macro, place, v)[1]) =>
    /\ FirstReleases(macro', place) = held
    /\ \A v \in held : VersionAt(macro', place, v) = VersionAt(macro, place, v)

LEMMA FirstStands == MacroInv /\ [MacroNext]_macro => FirstReleaseStandsNow
<1> SUFFICES ASSUME MacroInv, [MacroNext]_macro,
                    NEW id \in macro'.published \ macro.published, NEW place \in Places(macro'),
                    ComesAfter(macro, place, Observed[id])
             PROVE  FirstSame(macro', macro, place)
  BY DEF FirstReleaseStandsNow, FirstSame, ComesAfter
<1> DEFINE s == macro  t == macro'  c == Observed[id]
<1>1. Wrote(t, s, c)
  BY MacroSteps DEF MacroStepDoes
<1>2. MacroSound(s) /\ ComesAfter(s, place, c)
  BY DEF MacroInv
<1> HIDE DEF s, t, c
<1>3. FirstSame(t, s, place)
  BY <1>1, <1>2, FirstStays
<1> QED
  BY <1>3 DEF s, t, c

\* The current pointer and the answer to latest name the same version, for any
\* releases in any order, corrected and ended as they may be.
THEOREM CurrentIsLatestHolds == HistoriesSpec => []CurrentIsLatest
<1>1. HistoriesInit => MacroInv
  BY MacroInvInit DEF HistoriesInit
<1>2. MacroInv /\ [HistoriesNext]_historyVars => MacroInv'
  BY MacroStepKeeps
     DEF HistoriesNext, CompanyStep, NewsStep, MacroStep, CatalogStep, BarsStep, historyVars
<1>3. MacroInv => CurrentIsLatest
  BY CurrentRanksHighest
<1> QED
  BY <1>1, <1>2, <1>3, PTL DEF HistoriesSpec

\* A macro series reads as of a cutoff as it did before a capture whose releases
\* were not available then.
THEOREM MacroAsOfStableHolds == HistoriesSpec => MacroAsOfStable
<1>1. HistoriesInit => MacroInv
  BY MacroInvInit DEF HistoriesInit
<1>2. MacroInv /\ [HistoriesNext]_historyVars => MacroInv'
  BY MacroStepKeeps
     DEF HistoriesNext, CompanyStep, NewsStep, MacroStep, CatalogStep, BarsStep, historyVars
<1>3. MacroInv /\ [HistoriesNext]_historyVars => MacroReadsTheSame
  BY MacroStable
     DEF HistoriesNext, CompanyStep, NewsStep, MacroStep, CatalogStep, BarsStep, historyVars
<1> QED
  BY <1>1, <1>2, <1>3, PTL DEF HistoriesSpec, MacroAsOfStable, MacroReadsTheSame

\* A first release stands, whatever later releases, corrections and omissions
\* are published after it.
THEOREM FirstReleaseStandsHolds == HistoriesSpec => FirstReleaseStands
<1>1. HistoriesInit => MacroInv
  BY MacroInvInit DEF HistoriesInit
<1>2. MacroInv /\ [HistoriesNext]_historyVars => MacroInv'
  BY MacroStepKeeps
     DEF HistoriesNext, CompanyStep, NewsStep, MacroStep, CatalogStep, BarsStep, historyVars
<1>3. MacroInv /\ [HistoriesNext]_historyVars => FirstReleaseStandsNow
  BY FirstStands
     DEF HistoriesNext, CompanyStep, NewsStep, MacroStep, CatalogStep, BarsStep, historyVars
<1> QED
  BY <1>1, <1>2, <1>3, PTL DEF HistoriesSpec, FirstReleaseStands, FirstReleaseStandsNow

-----------------------------------------------------------------------------
(***************************************************************************)
(* The FMP bars.  Candidates wait while others are published, so what is    *)
(* compared at a publication is never what was there at the fetch.          *)
(***************************************************************************)
Fetched == {Bars!Candidate(r, at) : r \in Response, at \in Nat}

BarRow == {[price |-> c.prices[d], available |-> c.at, capture |-> c.prices, row |-> c.row[d],
            sequence |-> n + 1, supersedes |-> n] : c \in Fetched, d \in Date, n \in Nat}

BarsTypeOK ==
  /\ fmp \in [identity : {None} \cup {[at |-> c.at, run |-> c.prices] : c \in Fetched},
              captures : SUBSET {[prices |-> c.prices, at |-> c.at] : c \in Fetched},
              failed : SUBSET {c.prices : c \in Fetched},
              versions : [Date -> Seq(BarRow)],
              current : [Date -> Nat]]
  /\ prepared \in [Importer -> Fetched \cup {None}]
  /\ clock \in Nat

BarsInv ==
  /\ BarsTypeOK
  /\ \A d \in Date : fmp.current[d] = Len(fmp.versions[d])
  /\ BarsAreCaptured

LEMMA BarsInit == Bars!Init => BarsInv
<1> SUFFICES ASSUME Bars!Init PROVE BarsInv
  OBVIOUS
<1>1. fmp = [identity |-> None, captures |-> {}, failed |-> {},
             versions |-> [d \in Date |-> << >>], current |-> [d \in Date |-> 0]]
  BY DEF Bars!Init, Bars!EmptyMarket
<1>2. BarsTypeOK
  BY <1>1 DEF BarsTypeOK, Bars!Init
<1>3. \A d \in Date : fmp.versions[d] = << >> /\ fmp.current[d] = 0
  BY <1>1
<1>4. BarsAreCaptured
  BY <1>1, <1>3 DEF BarsAreCaptured, Bars!BarsAreOneCapture, Bars!HistoryIsCaptured, Bars!Lineage
<1> QED
  BY <1>2, <1>3, <1>4 DEF BarsInv

LEMMA VersionIsRow ==
  ASSUME BarsTypeOK, NEW c \in Fetched
  PROVE  \A d \in Date : Bars!Version(fmp, c, d) \in BarRow
BY DEF Bars!Version, BarRow, BarsTypeOK

\* What a publication writes of one date: nothing when the bar says the same
\* already, otherwise the next version.
LEMMA WrittenBar ==
  ASSUME BarsTypeOK, NEW c \in Fetched
  PROVE  LET m == Bars!Written(fmp, c) IN
         /\ m.captures = fmp.captures \cup {[prices |-> c.prices, at |-> c.at]}
         /\ m.failed = fmp.failed
         /\ m \in [identity : {None} \cup {[at |-> k.at, run |-> k.prices] : k \in Fetched},
                   captures : SUBSET {[prices |-> k.prices, at |-> k.at] : k \in Fetched},
                   failed : SUBSET {k.prices : k \in Fetched},
                   versions : [Date -> Seq(BarRow)],
                   current : [Date -> Nat]]
         /\ \A d \in Date :
              IF Bars!SameValues(fmp, c, d)
                THEN m.versions[d] = fmp.versions[d] /\ m.current[d] = fmp.current[d]
                ELSE /\ m.versions[d] = Append(fmp.versions[d], Bars!Version(fmp, c, d))
                     /\ m.current[d] = Len(fmp.versions[d]) + 1
<1> DEFINE m == Bars!Written(fmp, c)
           vs == [d \in Date |-> IF Bars!SameValues(fmp, c, d) THEN fmp.versions[d]
                                 ELSE Append(fmp.versions[d], Bars!Version(fmp, c, d))]
           cs == [d \in Date |-> IF Bars!SameValues(fmp, c, d) THEN fmp.current[d]
                                 ELSE Len(fmp.versions[d]) + 1]
           id == IF fmp.identity = None THEN [at |-> c.at, run |-> c.prices] ELSE fmp.identity
<1>1. m = [fmp EXCEPT !.identity = id,
                      !.captures = fmp.captures \cup {[prices |-> c.prices, at |-> c.at]},
                      !.versions = vs, !.current = cs]
  BY DEF Bars!Written
<1>2. \A d \in Date : Bars!Version(fmp, c, d) \in BarRow
  BY VersionIsRow
<1>3. vs \in [Date -> Seq(BarRow)] /\ cs \in [Date -> Nat]
  BY <1>2 DEF BarsTypeOK
<1>4. id \in {None} \cup {[at |-> k.at, run |-> k.prices] : k \in Fetched}
  BY DEF BarsTypeOK
<1> HIDE DEF m, vs, cs, id
<1>5. /\ m.captures = fmp.captures \cup {[prices |-> c.prices, at |-> c.at]}
      /\ m.failed = fmp.failed /\ m.versions = vs /\ m.current = cs /\ m.identity = id
  BY <1>1 DEF BarsTypeOK
<1>6. m \in [identity : {None} \cup {[at |-> k.at, run |-> k.prices] : k \in Fetched},
             captures : SUBSET {[prices |-> k.prices, at |-> k.at] : k \in Fetched},
             failed : SUBSET {k.prices : k \in Fetched},
             versions : [Date -> Seq(BarRow)],
             current : [Date -> Nat]]
  BY <1>1, <1>3, <1>4 DEF BarsTypeOK
<1>7. \A d \in Date :
        IF Bars!SameValues(fmp, c, d)
          THEN m.versions[d] = fmp.versions[d] /\ m.current[d] = fmp.current[d]
          ELSE /\ m.versions[d] = Append(fmp.versions[d], Bars!Version(fmp, c, d))
               /\ m.current[d] = Len(fmp.versions[d]) + 1
  BY <1>5 DEF vs, cs
<1> QED
  BY <1>5, <1>6, <1>7 DEF m

\* Publishing a candidate that is not there yet keeps the histories captured
\* and leaves every bar with the candidate's price.
LEMMA WrittenKeeps ==
  ASSUME BarsInv, NEW c \in Fetched, fmp' = Bars!Written(fmp, c)
  PROVE  /\ \A d \in Date : fmp'.current[d] = Len(fmp'.versions[d])
         /\ BarsAreCaptured'
<1>1. BarsTypeOK /\ Bars!HistoryIsCaptured /\ \A d \in Date : fmp.current[d] = Len(fmp.versions[d])
  BY DEF BarsInv, BarsAreCaptured
<1>2. /\ fmp'.captures = fmp.captures \cup {[prices |-> c.prices, at |-> c.at]}
      /\ \A d \in Date :
           IF Bars!SameValues(fmp, c, d)
             THEN fmp'.versions[d] = fmp.versions[d] /\ fmp'.current[d] = fmp.current[d]
             ELSE /\ fmp'.versions[d] = Append(fmp.versions[d], Bars!Version(fmp, c, d))
                  /\ fmp'.current[d] = Len(fmp.versions[d]) + 1
  BY <1>1, WrittenBar
<1>3. ASSUME NEW d \in Date
      PROVE  /\ fmp'.current[d] = Len(fmp'.versions[d]) /\ fmp'.current[d] # 0
             /\ fmp'.versions[d][fmp'.current[d]].price = c.prices[d]
             /\ Bars!Lineage(fmp'.versions[d])
             /\ \A i \in DOMAIN fmp'.versions[d] :
                  /\ Bars!Bound(fmp', fmp'.versions[d][i])
                  /\ fmp'.versions[d][i].price = fmp'.versions[d][i].capture[d]
             /\ \A i \in 2 .. Len(fmp'.versions[d]) :
                  fmp'.versions[d][i].price # fmp'.versions[d][i - 1].price
  <2> DEFINE h == fmp.versions[d]  v == Bars!Version(fmp, c, d)
  <2>1. /\ h \in Seq(BarRow) /\ fmp.current[d] = Len(h) /\ Len(h) \in Nat /\ DOMAIN h = 1 .. Len(h)
        /\ Bars!Lineage(h)
        /\ \A i \in DOMAIN h : Bars!Bound(fmp, h[i]) /\ h[i].price = h[i].capture[d]
        /\ \A i \in 2 .. Len(h) : h[i].price # h[i - 1].price
    BY <1>1 DEF BarsTypeOK, Bars!HistoryIsCaptured
  <2>2. \A x : Bars!Bound(fmp, x) => Bars!Bound(fmp', x)
    BY <1>2 DEF Bars!Bound
  <2>3. CASE Bars!SameValues(fmp, c, d)
    <3>1. /\ fmp'.versions[d] = h /\ fmp'.current[d] = Len(h) /\ Len(h) # 0
          /\ h[Len(h)].price = c.prices[d]
      BY <1>2, <2>1, <2>3 DEF Bars!SameValues, Bars!Bar
    <3> HIDE DEF h
    <3> QED
      BY <2>1, <2>2, <3>1
  <2>4. CASE ~ Bars!SameValues(fmp, c, d)
    <3>1. Len(h) # 0 => h[Len(h)].price # c.prices[d]
      BY <2>1, <2>4 DEF Bars!SameValues, Bars!Bar
    <3>1a. v = [price |-> c.prices[d], available |-> c.at, capture |-> c.prices, row |-> c.row[d],
               sequence |-> Len(h) + 1, supersedes |-> Len(h)]
      BY <2>1 DEF Bars!Version
    <3>1b. v \in BarRow
      BY <1>1, VersionIsRow
    <3>2. /\ v.price = c.prices[d] /\ v.available = c.at /\ v.capture = c.prices
          /\ v.sequence = Len(h) + 1 /\ v.supersedes = Len(h) /\ v \in BarRow
      BY <3>1a, <3>1b
    <3>2a. PICK k \in fmp'.captures : k = [prices |-> c.prices, at |-> c.at]
      BY <1>2
    <3>3. Bars!Bound(fmp', v)
      BY <3>2, <3>2a DEF Bars!Bound
    <3>4. fmp'.versions[d] = Append(h, v) /\ fmp'.current[d] = Len(h) + 1
      BY <1>2, <2>4
    <3> HIDE DEF h, v
    <3>5. /\ Len(Append(h, v)) = Len(h) + 1 /\ Append(h, v)[Len(h) + 1] = v
          /\ DOMAIN Append(h, v) = 1 .. Len(h) + 1
          /\ \A i \in 1 .. Len(h) : Append(h, v)[i] = h[i]
      BY <2>1, <3>2
    <3>6. Bars!Lineage(Append(h, v))
      BY <2>1, <3>2, <3>5 DEF Bars!Lineage
    <3>7. \A i \in 1 .. Len(h) + 1 :
            Bars!Bound(fmp', Append(h, v)[i]) /\ Append(h, v)[i].price = Append(h, v)[i].capture[d]
      BY <2>1, <2>2, <3>2, <3>3, <3>5
    <3>8. \A i \in 2 .. Len(h) + 1 : Append(h, v)[i].price # Append(h, v)[i - 1].price
      BY <2>1, <3>1, <3>2, <3>5
    <3> QED
      BY <2>1, <3>2, <3>4, <3>5, <3>6, <3>7, <3>8
  <2> QED
    BY <2>3, <2>4
<1>4. Bars!PointsAtNewest(fmp')
  BY <1>3 DEF Bars!PointsAtNewest
<1>5. [prices |-> c.prices, at |-> c.at] \in fmp'.captures
  BY <1>2
<1>6. Bars!BarsAreOneCapture'
  BY <1>3, <1>4, <1>5 DEF Bars!BarsAreOneCapture, Bars!Bar
<1>7. Bars!HistoryIsCaptured'
  BY <1>3 DEF Bars!HistoryIsCaptured
<1> QED
  BY <1>3, <1>6, <1>7 DEF BarsAreCaptured

LEMMA BarsKept ==
  ASSUME BarsInv, UNCHANGED <<fmp.captures, fmp.versions, fmp.current>>
  PROVE  (\A d \in Date : fmp.current[d] = Len(fmp.versions[d]))' /\ BarsAreCaptured'
BY DEF BarsInv, BarsAreCaptured, Bars!BarsAreOneCapture, Bars!HistoryIsCaptured,
       Bars!PointsAtNewest, Bars!Bound, Bars!Bar

LEMMA BarsStepKeeps == BarsInv /\ [Bars!Next]_barVars => BarsInv'
<1> SUFFICES ASSUME BarsInv, [Bars!Next]_barVars PROVE BarsInv'
  OBVIOUS
<1> USE DEF BarsInv
<1>1. ASSUME NEW i \in Importer, Bars!Prepare(i) PROVE BarsInv'
  <2>1. PICK r \in Response :
          prepared' =
            [prepared EXCEPT ![i] = IF Bars!Usable(r) THEN Bars!Candidate(r, clock) ELSE @]
    BY <1>1 DEF Bars!Prepare
  <2>2. Bars!Candidate(r, clock) \in Fetched
    BY DEF Fetched, BarsTypeOK
  <2>3. prepared' \in [Importer -> Fetched \cup {None}] /\ clock' \in Nat /\ fmp' = fmp
    BY <1>1, <2>1, <2>2 DEF Bars!Prepare, BarsTypeOK
  <2>4. BarsTypeOK'
    BY <2>3 DEF BarsTypeOK
  <2> QED
    BY <2>3, <2>4, BarsKept
<1>2. ASSUME NEW i \in Importer, Bars!Publish(i) PROVE BarsInv'
  <2>1. prepared[i] \in Fetched /\ UNCHANGED <<prepared, clock>>
    BY <1>2 DEF Bars!Publish, BarsTypeOK
  <2>2. CASE fmp' = fmp
    <3>1. BarsTypeOK'
      BY <2>1, <2>2 DEF BarsTypeOK
    <3> QED
      BY <2>2, <3>1, BarsKept
  <2>3. CASE fmp' = Bars!Written(fmp, prepared[i])
    <3>1. BarsTypeOK'
      BY <2>1, <2>3, WrittenBar DEF BarsTypeOK
    <3> QED
      BY <2>1, <2>3, <3>1, WrittenKeeps
  <2> QED
    BY <1>2, <2>2, <2>3 DEF Bars!Publish
<1>3. ASSUME NEW i \in Importer, Bars!Fail(i) PROVE BarsInv'
  <2>1. prepared[i] \in Fetched /\ UNCHANGED <<prepared, clock>>
    BY <1>3 DEF Bars!Fail, BarsTypeOK
  <2>2. fmp' = [fmp EXCEPT !.failed = fmp.failed \cup {prepared[i].prices}]
    BY <1>3 DEF Bars!Fail, Bars!FailedRun
  <2>3. BarsTypeOK' /\ UNCHANGED <<fmp.captures, fmp.versions, fmp.current>>
    BY <2>1, <2>2 DEF BarsTypeOK
  <2> QED
    BY <2>3, BarsKept
<1>4. ASSUME UNCHANGED barVars PROVE BarsInv'
  BY <1>4, BarsKept DEF barVars, BarsTypeOK
<1> QED
  BY <1>1, <1>2, <1>3, <1>4 DEF Bars!Next

\* The FMP bars are those of one captured response whichever importer publishes
\* last, for any number of importers, dates and answers of the provider; and
\* what their histories say is what was captured.
THEOREM BarsAreCapturedHolds == HistoriesSpec => []BarsAreCaptured
<1>1. HistoriesInit => BarsInv
  BY BarsInit DEF HistoriesInit
<1>2. BarsInv /\ [HistoriesNext]_historyVars => BarsInv'
  BY BarsStepKeeps
  DEF HistoriesNext, CompanyStep, NewsStep, MacroStep, CatalogStep, BarsStep, historyVars
<1>3. BarsInv => BarsAreCaptured
  BY DEF BarsInv
<1> QED
  BY <1>1, <1>2, <1>3, PTL DEF HistoriesSpec

-----------------------------------------------------------------------------
\* Whatever is asked as of a cutoff is answered as it was before, whatever is
\* published that was not available then: the five parts together.
THEOREM HistoriesAsOfStableHolds == HistoriesSpec => HistoriesAsOfStable
BY CompanyAsOfStableHolds, NewsAsOfStableHolds, MacroAsOfStableHolds, CatalogAsOfStableHolds,
   OptionsAsOfStableHolds DEF HistoriesAsOfStable

-----------------------------------------------------------------------------
(***************************************************************************)
(* The stores are logs.                                                     *)
(***************************************************************************)
\* One publication, as VersionLog has it.
Grows(now, held, times) ==
  /\ \A key \in DOMAIN held :
       /\ key \in DOMAIN now /\ DOMAIN held[key] \subseteq DOMAIN now[key]
       /\ \A n \in DOMAIN held[key] : now[key][n] = held[key][n]
  /\ \A key \in DOMAIN now : \A n \in DOMAIN now[key] :
       \/ key \in DOMAIN held /\ n \in DOMAIN held[key]
       \/ now[key][n].available \in times

LEMMA ContinuesGrows ==
  ASSUME NEW held, AreChains(held), NEW now, AreChains(now), NEW entries, Continues(now, held, entries),
         NEW times, \A e \in entries : e.version.available \in times
  PROVE  Grows(now, held, times)
<1>1. \A key \in DOMAIN held :
        /\ key \in DOMAIN now /\ DOMAIN held[key] \subseteq DOMAIN now[key]
        /\ \A n \in DOMAIN held[key] : now[key][n] = held[key][n]
  BY ContinuesKeeps DEF Keeps
<1>2. ASSUME NEW key \in DOMAIN now, NEW n \in DOMAIN now[key],
             ~ (key \in DOMAIN held /\ n \in DOMAIN held[key])
      PROVE  now[key][n].available \in times
  <2>1. now[key] \in Seq(SaidIn(now))
    BY DEF AreChains
  <2>2. n \in Nat /\ 1 <= n
    BY <2>1
  <2>3. Len(History(held, key)) \in Nat /\ DOMAIN History(held, key) = 1 .. Len(History(held, key))
    BY HistoryIsSeq
  <2>4. n \notin DOMAIN History(held, key)
    BY <1>2 DEF History
  <2>5. ~ (n <= Len(History(held, key)))
    BY <2>2, <2>3, <2>4
  <2>6. Accounted(now, held, entries, key, n)
    BY DEF Continues
  <2> QED
    BY <2>5, <2>6 DEF Accounted, SaidBy
<1> QED
  BY <1>1, <1>2 DEF Grows

LEMMA MovesGrow ==
  ASSUME NEW held, AreChains(held), NEW now, NEW c, DOMAIN held \subseteq DOMAIN now,
         \A key \in DOMAIN now : Moves(now, held, c, key), NEW times, c.available \in times
  PROVE  Grows(now, held, times)
<1>1. ASSUME NEW key \in DOMAIN now
      PROVE  /\ key \in DOMAIN held =>
                  /\ DOMAIN held[key] \subseteq DOMAIN now[key]
                  /\ \A n \in DOMAIN held[key] : now[key][n] = held[key][n]
             /\ \A n \in DOMAIN now[key] :
                  \/ key \in DOMAIN held /\ n \in DOMAIN held[key]
                  \/ now[key][n].available \in times
  <2>1. CASE key \in DOMAIN held /\ now[key] = held[key]
    BY <2>1
  <2>2. ASSUME NEW v, v.available = c.available, now[key] = Append(History(held, key), v)
        PROVE  /\ key \in DOMAIN held =>
                    /\ DOMAIN held[key] \subseteq DOMAIN now[key]
                    /\ \A n \in DOMAIN held[key] : now[key][n] = held[key][n]
               /\ \A n \in DOMAIN now[key] :
                    \/ key \in DOMAIN held /\ n \in DOMAIN held[key]
                    \/ now[key][n].available \in times
    <3> DEFINE h == History(held, key)
    <3>1. h \in Seq(SaidIn(held)) /\ Len(h) \in Nat /\ DOMAIN h = 1 .. Len(h)
      BY HistoryIsSeq
    <3>2. h \in Seq(SaidIn(held) \cup {v})
      BY <3>1
    <3>3. now[key] = Append(h, v)
      BY <2>2
    <3>4. key \in DOMAIN held => h = held[key]
      BY DEF History
    <3>5. key \notin DOMAIN held => h = << >>
      BY DEF History
    <3> HIDE DEF h
    <3>6. /\ DOMAIN now[key] = 1 .. Len(h) + 1 /\ now[key][Len(h) + 1] = v
          /\ \A n \in 1 .. Len(h) : now[key][n] = h[n]
      BY <3>2, <3>3
    <3>7. \A n \in DOMAIN now[key] : n \in DOMAIN h \/ now[key][n].available \in times
      BY <2>2, <3>1, <3>6
    <3>8. key \notin DOMAIN held => DOMAIN h = {}
      BY <3>5
    <3> QED
      BY <3>1, <3>4, <3>6, <3>7, <3>8
  <2> QED
    BY <2>1, <2>2 DEF Moves
<1> QED
  BY <1>1 DEF Grows

LEMMA CompanyLogs == CompanyInv /\ [CompanyNext]_company => [CompanyLog!Next]_(CompanyLog!vars)
<1> SUFFICES ASSUME CompanyInv, [CompanyNext]_company PROVE [CompanyLog!Next]_(CompanyLog!vars)
  OBVIOUS
<1>1. ASSUME NEW id \in CompanyCapture, CompanyPublish(id) PROVE CompanyLog!Next
  <2>1. /\ company'.published = company.published \cup {id} /\ id \notin company.published
        /\ AreChains(company.chains) /\ AreChains(company'.chains)
        /\ Continues(company'.chains, company.chains, CompanyEntries(company, id, Filed[id]))
    BY <1>1, PublishedCompany DEF CompanyInv
  <2>2. \A e \in CompanyEntries(company, id, Filed[id]) : e.version.available \in CompanyTimes(id)
    BY TimedAsSaid DEF TimedBy, CompanyTimes
  <2> DEFINE held == company.chains  now == company'.chains  times == CompanyTimes(id)
             entries == CompanyEntries(company, id, Filed[id])
  <2>3. Grows(now, held, times)
    <3>1. /\ AreChains(held) /\ AreChains(now) /\ Continues(now, held, entries)
          /\ \A e \in entries : e.version.available \in times
      BY <2>1, <2>2
    <3> HIDE DEF held, now, entries, times
    <3> QED
      BY <3>1, ContinuesGrows
  <2>4. CompanyLog!Publish(id)
    BY <2>1, <2>3 DEF Grows, CompanyLog!Publish, CompanyLog!Keeps, CompanyLog!Dates
  <2> QED
    BY <2>4 DEF CompanyLog!Next
<1>2. ASSUME NEW id \in CompanyCapture, CompanyFails(id) PROVE UNCHANGED CompanyLog!vars
  BY <1>2 DEF CompanyFails, CompanyInv, CompanyLog!vars
<1>3. ASSUME UNCHANGED company PROVE UNCHANGED CompanyLog!vars
  BY <1>3 DEF CompanyLog!vars
<1> QED
  BY <1>1, <1>2, <1>3 DEF CompanyNext

LEMMA NewsLogs == NewsInv /\ [NewsNext]_news => [NewsLog!Next]_(NewsLog!vars)
<1> SUFFICES ASSUME NewsInv, [NewsNext]_news PROVE [NewsLog!Next]_(NewsLog!vars)
  OBVIOUS
<1>1. ASSUME NEW id \in NewsSnapshot, NewsPublish(id) PROVE NewsLog!Next
  <2>1. /\ NewsInv' /\ news'.published = news.published \cup {id} /\ id \notin news.published
        /\ Continues(news'.items, news.items, ItemEntries(Reported[id]))
    BY <1>1, PublishedNews DEF NewsPublish, NewsAwaits
  <2> DEFINE held == news.items  now == news'.items  times == NewsTimes(id)
             entries == ItemEntries(Reported[id])
  <2>2. Grows(now, held, times)
    <3>1. /\ AreChains(held) /\ AreChains(now) /\ Continues(now, held, entries)
          /\ \A e \in entries : e.version.available \in times
      BY <2>1 DEF NewsInv, ItemEntries, Versioned, NewsTimes
    <3> HIDE DEF held, now, entries, times
    <3> QED
      BY <3>1, ContinuesGrows
  <2>3. NewsLog!Publish(id)
    BY <2>1, <2>2 DEF Grows, NewsLog!Publish, NewsLog!Keeps, NewsLog!Dates
  <2> QED
    BY <2>3 DEF NewsLog!Next
<1>2. ASSUME NEW id \in NewsSnapshot, NewsFails(id) PROVE UNCHANGED NewsLog!vars
  BY <1>2 DEF NewsFails, NewsInv, NewsLog!vars
<1>3. ASSUME UNCHANGED news PROVE UNCHANGED NewsLog!vars
  BY <1>3 DEF NewsLog!vars
<1> QED
  BY <1>1, <1>2, <1>3 DEF NewsNext

LEMMA MacroLogs == MacroInv /\ [MacroNext]_macro => [MacroLog!Next]_(MacroLog!vars)
<1> SUFFICES ASSUME MacroInv, [MacroNext]_macro PROVE [MacroLog!Next]_(MacroLog!vars)
  OBVIOUS
<1>1. ASSUME NEW id \in MacroCapture, Wrote(macro', macro, Observed[id]),
             macro'.published = macro.published \cup {id}, id \notin macro.published
      PROVE  MacroLog!Next
  <2>1. PICK entries : /\ Dated(entries, Observed[id])
                       /\ Continues(macro'.chains, macro.chains, entries)
    BY <1>1 DEF Wrote
  <2> DEFINE held == macro.chains  now == macro'.chains  times == MacroTimes(id)
  <2>2. Grows(now, held, times)
    <3>1. /\ AreChains(held) /\ AreChains(now) /\ Continues(now, held, entries)
          /\ \A e \in entries : e.version.available \in times
      BY <1>1, <2>1 DEF Wrote, MacroInv, MacroSound, Dated, MacroTimes
    <3> HIDE DEF held, now, times
    <3> QED
      BY <3>1, ContinuesGrows
  <2>3. MacroLog!Publish(id)
    BY <1>1, <2>2 DEF Grows, MacroLog!Publish, MacroLog!Keeps, MacroLog!Dates
  <2> QED
    BY <2>3 DEF MacroLog!Next
<1> QED
  BY <1>1, MacroSteps DEF MacroStepDoes, MacroLog!vars

\* Both logs of the catalog at once.
LEMMA CatalogLogs ==
  CatalogInv /\ [Next]_catalog => [ClassLog!Next]_(ClassLog!vars) /\ [MemberLog!Next]_(MemberLog!vars)
<1> SUFFICES ASSUME CatalogInv, [Next]_catalog
             PROVE  [ClassLog!Next]_(ClassLog!vars) /\ [MemberLog!Next]_(MemberLog!vars)
  OBVIOUS
<1>1. ASSUME NEW b \in Batch, Import(b) PROVE ClassLog!Next /\ MemberLog!Next
  <2>1. /\ CatalogInv' /\ DOMAIN catalog'.published = DOMAIN catalog.published \cup {b}
        /\ Continues(catalog'.classes, catalog.classes, ClassEntries(Content[b]))
        /\ DOMAIN catalog'.members = Said(Content[b]) \cup DOMAIN catalog.members
        /\ \A key \in DOMAIN catalog'.members : Moves(catalog'.members, catalog.members, Content[b], key)
    BY <1>1, Imported
  <2>2. b \notin DOMAIN catalog.published
    BY <1>1 DEF Import, Fresh
  <2>3. ClassLog!Publish(b)
    <3> DEFINE held == catalog.classes  now == catalog'.classes  times == ClassTimes(b)
               entries == ClassEntries(Content[b])
    <3>1. Grows(now, held, times)
      <4>1. /\ AreChains(held) /\ AreChains(now) /\ Continues(now, held, entries)
            /\ \A e \in entries : e.version.available \in times
        BY <2>1 DEF CatalogInv, ClassEntries, ClassTimes
      <4> HIDE DEF held, now, entries, times
      <4> QED
        BY <4>1, ContinuesGrows
    <3> QED
      BY <2>1, <2>2, <3>1 DEF Grows, ClassLog!Publish, ClassLog!Keeps, ClassLog!Dates
  <2>4. MemberLog!Publish(b)
    <3> DEFINE held == catalog.members  now == catalog'.members  times == MemberTimes(b)  c == Content[b]
    <3>1. Grows(now, held, times)
      <4>1. /\ AreChains(held) /\ DOMAIN held \subseteq DOMAIN now
            /\ \A key \in DOMAIN now : Moves(now, held, c, key)
            /\ c.available \in times
        BY <2>1 DEF CatalogInv, MemberTimes
      <4> HIDE DEF held, now, times, c
      <4> QED
        BY <4>1, MovesGrow
    <3> QED
      BY <2>1, <2>2, <3>1 DEF Grows, MemberLog!Publish, MemberLog!Keeps, MemberLog!Dates
  <2> QED
    BY <2>3, <2>4 DEF ClassLog!Next, MemberLog!Next
<1>2. ASSUME NEW b \in Batch, ImportFails(b) PROVE UNCHANGED <<ClassLog!vars, MemberLog!vars>>
  BY <1>2, ImportFailed DEF ClassLog!vars, MemberLog!vars
<1>3. ASSUME UNCHANGED catalog PROVE UNCHANGED <<ClassLog!vars, MemberLog!vars>>
  BY <1>3 DEF ClassLog!vars, MemberLog!vars
<1> QED
  BY <1>1, <1>2, <1>3 DEF Next

\* The stores of companies, news, macro series, classifications and universes
\* are logs: publishing appends to what they say, dates it by the capture that
\* says it, and takes nothing back.
THEOREM StoresAreLogsHolds == HistoriesSpec => StoresAreLogs
<1> DEFINE Inv == CompanyInv /\ NewsInv /\ MacroInv /\ CatalogInv
<1>1. HistoriesInit => Inv
  BY CompanyInvInit, NewsInvInit, MacroInvInit, CatalogInvInit DEF HistoriesInit, OptionsInit
<1>2. Inv /\ [HistoriesNext]_historyVars => Inv'
  BY CompanyStepKeeps, NewsKeeps, MacroStepKeeps, CatalogStepKeeps
     DEF HistoriesNext, CompanyStep, NewsStep, MacroStep, CatalogStep, BarsStep, historyVars,
         OptionsNext, optionVars, Publish, PublishFails
<1>3. HistoriesInit => /\ CompanyLog!Init /\ NewsLog!Init /\ MacroLog!Init
                       /\ ClassLog!Init /\ MemberLog!Init
  BY DEF HistoriesInit, CompanyInit, EmptyCompany, NewsInit, EmptyNews, MacroInit, EmptyMacro,
         OptionsInit, Init, EmptyCatalog, CompanyLog!Init, NewsLog!Init, MacroLog!Init,
         ClassLog!Init, MemberLog!Init
<1>4. [HistoriesNext]_historyVars =>
        /\ [CompanyNext]_company /\ [NewsNext]_news /\ [MacroNext]_macro /\ [Next]_catalog
  BY DEF HistoriesNext, CompanyStep, NewsStep, MacroStep, CatalogStep, BarsStep, historyVars,
         OptionsNext, optionVars, Publish, PublishFails
<1>5. Inv /\ [HistoriesNext]_historyVars =>
        /\ [CompanyLog!Next]_(CompanyLog!vars) /\ [NewsLog!Next]_(NewsLog!vars)
        /\ [MacroLog!Next]_(MacroLog!vars)
        /\ [ClassLog!Next]_(ClassLog!vars) /\ [MemberLog!Next]_(MemberLog!vars)
  BY <1>4, CompanyLogs, NewsLogs, MacroLogs, CatalogLogs
<1> HIDE DEF Inv
<1> QED
  BY <1>1, <1>2, <1>3, <1>5, PTL
  DEF HistoriesSpec, StoresAreLogs, CompanyLog!Spec, NewsLog!Spec, MacroLog!Spec, ClassLog!Spec,
      MemberLog!Spec
=============================================================================

------------------------------- MODULE Folding -------------------------------
(***************************************************************************)
(* What a fold over a sequence is, for the models that write the entries of *)
(* a capture one after another.  Op is the step; instances of this module   *)
(* give it.                                                                 *)
(***************************************************************************)
EXTENDS SequencesExt, WellFoundedInduction, TLAPS

CONSTANT Op(_, _)

Folded(base, seq) == FoldLeft(Op, base, seq)

\* A nonempty set of numbers has a least member: one that has no member below
\* it in the well-founded order of the numbers.
LEMMA LeastMember ==
  ASSUME NEW T \in SUBSET Nat, T # {}
  PROVE  \E x \in T : \A y \in T : x <= y
<1>1. PICK x \in T : \A y \in T : ~ (<<y, x>> \in OpToRel(<, Nat))
  BY NatLessThanWellFounded, WFMin
<1>2. ASSUME NEW y \in T, y < x
      PROVE  <<y, x>> \in OpToRel(<, Nat)
  BY <1>2 DEF OpToRel
<1>3. \A y \in T : x <= y
  <2> SUFFICES ASSUME NEW y \in T PROVE x <= y
    OBVIOUS
  <2>1. ~ (y < x)
    BY <1>1, <1>2
  <2>2. x \in Nat /\ y \in Nat
    OBVIOUS
  <2> QED
    BY <2>1, <2>2
<1> QED
  BY <1>1, <1>3

\* A property of 0 that every number hands on below N is one of all up to N:
\* the first number without it would be neither.
LEMMA UpTo ==
  ASSUME NEW N \in Nat, NEW H \in SUBSET Nat, 0 \in H,
         \A n \in Nat : n < N /\ n \in H => n + 1 \in H
  PROVE  \A n \in 0 .. N : n \in H
<1> DEFINE bad == {n \in 0 .. N : n \notin H}
<1> SUFFICES ASSUME bad # {} PROVE FALSE
  OBVIOUS
<1>0. bad \in SUBSET Nat
  OBVIOUS
<1>1. PICK n \in bad : \A m \in bad : n <= m
  BY <1>0, LeastMember
<1>2. n \in Nat /\ n <= N /\ n \notin H /\ n # 0
  BY <1>1
<1>3. n - 1 \in Nat /\ n - 1 < N /\ n - 1 \notin bad
  BY <1>1, <1>2
<1>4. n - 1 \in H
  BY <1>2, <1>3
<1> QED
  BY <1>2, <1>3, <1>4

LEMMA GreatestMember ==
  ASSUME NEW N \in Nat, NEW T \in SUBSET (1 .. N), T # {}
  PROVE  Max(T) \in T /\ \A y \in T : y <= Max(T)
<1> DEFINE below == {N - y : y \in T}
<1>0. \A y \in T : y \in Nat /\ y <= N /\ N - y \in Nat
  OBVIOUS
<1>1. below \in SUBSET Nat /\ below # {}
  BY <1>0
<1>2. PICK d \in below : \A e \in below : d <= e
  BY <1>1, LeastMember
<1>3. PICK x \in T : d = N - x
  OBVIOUS
<1>4. \A y \in T : x >= y
  <2> SUFFICES ASSUME NEW y \in T PROVE x >= y
    OBVIOUS
  <2>1. N - x <= N - y
    BY <1>2, <1>3
  <2> QED
    BY <2>1
<1>5. \E z \in T : \A y \in T : z >= y
  BY <1>4
<1>6. Max(T) \in T /\ \A y \in T : Max(T) >= y
  BY <1>5 DEF Max
<1> QED
  BY <1>6

-----------------------------------------------------------------------------
\* The recursive function of a fold, over the sets of positions.
Body(g, base, seq, s) == IF s = {} THEN base ELSE Op(g[s \ {Max(s)}], seq[Max(s)])

LEMMA TableExists ==
  ASSUME NEW base, NEW seq, NEW N \in Nat
  PROVE  \E g : g = [s \in SUBSET (1 .. N) |-> Body(g, base, seq, s)]
<1> DEFINE H == {n \in Nat : \E g : g = [s \in SUBSET (1 .. n) |-> Body(g, base, seq, s)]}
<1>1. 0 \in H
  <2> DEFINE g == [s \in SUBSET (1 .. 0) |-> base]
  <2>1. SUBSET (1 .. 0) = {{}}
    OBVIOUS
  <2>2. g = [s \in SUBSET (1 .. 0) |-> Body(g, base, seq, s)]
    BY <2>1 DEF Body
  <2> QED
    BY <2>2
<1>2. ASSUME NEW n \in Nat, n \in H PROVE n + 1 \in H
  <2>0. n \in Nat /\ n + 1 \in Nat /\ \A x \in 1 .. n + 1 : x # n + 1 => x \in 1 .. n
    OBVIOUS
  <2>1. PICK g : g = [s \in SUBSET (1 .. n) |-> Body(g, base, seq, s)]
    BY <1>2
  <2> DEFINE h == [s \in SUBSET (1 .. n + 1) |->
                     IF n + 1 \in s THEN Op(g[s \ {n + 1}], seq[n + 1]) ELSE g[s]]
  <2>2. \A s \in SUBSET (1 .. n) : h[s] = g[s] /\ g[s] = Body(g, base, seq, s)
    <3> SUFFICES ASSUME NEW s \in SUBSET (1 .. n)
                 PROVE  h[s] = g[s] /\ g[s] = Body(g, base, seq, s)
      OBVIOUS
    <3>1. s \in SUBSET (1 .. n + 1) /\ n + 1 \notin s
      OBVIOUS
    <3> HIDE DEF H
    <3> QED
      BY <2>1, <3>1
  <2>3. \A s \in SUBSET (1 .. n + 1) : h[s] = Body(h, base, seq, s)
    <3> SUFFICES ASSUME NEW s \in SUBSET (1 .. n + 1) PROVE h[s] = Body(h, base, seq, s)
      OBVIOUS
    <3>1. CASE n + 1 \in s
      <4>1. Max(s) \in s /\ \A y \in s : y <= Max(s)
        BY <2>0, <3>1, GreatestMember
      <4>2. Max(s) = n + 1
        <5>1. Max(s) \in 1 .. n + 1 /\ n + 1 <= Max(s)
          BY <3>1, <4>1
        <5> QED
          BY <2>0, <5>1
      <4>3. s \ {n + 1} \in SUBSET (1 .. n)
        OBVIOUS
      <4>4. h[s \ {n + 1}] = g[s \ {n + 1}]
        BY <2>2, <4>3
      <4>5. h[s] = Op(g[s \ {n + 1}], seq[n + 1])
        BY <3>1
      <4> HIDE DEF h
      <4> QED
        BY <3>1, <4>2, <4>4, <4>5 DEF Body
    <3>2. CASE n + 1 \notin s
      <4>1. s \in SUBSET (1 .. n) /\ s \ {Max(s)} \in SUBSET (1 .. n)
        <5>1. \A x \in s : x \in 1 .. n
          BY <2>0, <3>2
        <5> QED
          BY <5>1
      <4>2. h[s] = Body(g, base, seq, s) /\ h[s \ {Max(s)}] = g[s \ {Max(s)}]
        BY <2>2, <4>1
      <4> HIDE DEF h
      <4> QED
        BY <4>2 DEF Body
    <3> QED
      BY <3>1, <3>2
  <2>4. h = [s \in SUBSET (1 .. n + 1) |-> Body(h, base, seq, s)]
    <3>1. h = [s \in SUBSET (1 .. n + 1) |-> h[s]]
      OBVIOUS
    <3> HIDE DEF h
    <3> QED
      BY <2>3, <3>1
  <2> HIDE DEF h
  <2>5. \E f : f = [s \in SUBSET (1 .. n + 1) |-> Body(f, base, seq, s)]
    BY <2>4
  <2> QED
    BY <2>5
<1>3. H \in SUBSET Nat
  OBVIOUS
<1>4. N \in 0 .. N
  OBVIOUS
<1> HIDE DEF H
<1>5. N \in H
  BY <1>1, <1>2, <1>3, <1>4, UpTo
<1> QED
  BY <1>5 DEF H

\* A fold over a sequence of N entries is the last of the N + 1 values that
\* the steps lead through.
LEMMA FoldIsChain ==
  ASSUME NEW base, NEW S, NEW seq \in Seq(S)
  PROVE  \E f : /\ f[0] = base
                /\ \A n \in 1 .. Len(seq) : f[n] = Op(f[n - 1], seq[n])
                /\ Folded(base, seq) = f[Len(seq)]
<1> DEFINE N == Len(seq)
           g == CHOOSE g : g = [s \in SUBSET (1 .. N) |-> Body(g, base, seq, s)]
           f == [n \in 0 .. N |-> g[1 .. n]]
<1>1. N \in Nat /\ DOMAIN seq = 1 .. N
  OBVIOUS
<1>2. g = [s \in SUBSET (1 .. N) |-> Body(g, base, seq, s)]
  BY <1>1, TableExists
<1>3. Folded(base, seq) = g[1 .. N]
  BY <1>1 DEF Folded, FoldLeft, MapThenFoldSet, Body
<1> HIDE DEF g
<1>4. \A s \in SUBSET (1 .. N) : g[s] = Body(g, base, seq, s)
  BY <1>2
<1>5. f[0] = base
  <2>1. 0 \in 0 .. N /\ 1 .. 0 = {} /\ {} \in SUBSET (1 .. N)
    BY <1>1
  <2>2. g[{}] = base
    BY <1>4, <2>1 DEF Body
  <2> QED
    BY <2>1, <2>2
<1>6. ASSUME NEW n \in 1 .. N PROVE f[n] = Op(f[n - 1], seq[n])
  <2>1. 1 .. n \in SUBSET (1 .. N) /\ n - 1 \in 0 .. N /\ n \in 0 .. N /\ n \in Nat /\ n \in 1 .. n
    BY <1>1
  <2>2. Max(1 .. n) \in 1 .. n /\ \A y \in 1 .. n : y <= Max(1 .. n)
    BY <2>1, GreatestMember
  <2>3. Max(1 .. n) = n
    BY <2>1, <2>2
  <2>4. (1 .. n) \ {n} = 1 .. (n - 1)
    BY <2>1
  <2>5. g[1 .. n] = Op(g[1 .. (n - 1)], seq[n])
    BY <1>4, <2>1, <2>3, <2>4 DEF Body
  <2> QED
    BY <2>1, <2>5
<1>7. Folded(base, seq) = f[Len(seq)]
  BY <1>1, <1>3
<1> HIDE DEF f
<1> QED
  BY <1>5, <1>6, <1>7
\* What holds of the base and is handed on by every step holds of the fold;
\* the values it holds of are a set, for a predicate cannot be a parameter.
LEMMA FoldKeeps ==
  ASSUME NEW S, NEW seq \in Seq(S), NEW Kept, NEW base \in Kept,
         \A x \in Kept, e \in S : Op(x, e) \in Kept
  PROVE  Folded(base, seq) \in Kept
<1>1. PICK f : /\ f[0] = base
               /\ \A n \in 1 .. Len(seq) : f[n] = Op(f[n - 1], seq[n])
               /\ Folded(base, seq) = f[Len(seq)]
  BY FoldIsChain
<1> DEFINE N == Len(seq)  H == {n \in 0 .. N : f[n] \in Kept}
<1>2. N \in Nat /\ \A n \in 1 .. N : seq[n] \in S
  OBVIOUS
<1>3. 0 \in H /\ H \in SUBSET Nat
  BY <1>1, <1>2
<1>4. ASSUME NEW n \in Nat, n < N, n \in H PROVE n + 1 \in H
  <2>1. n + 1 \in 1 .. N /\ (n + 1) - 1 = n /\ n + 1 \in 0 .. N
    BY <1>2, <1>4
  <2>2. f[n + 1] = Op(f[n], seq[n + 1])
    BY <1>1, <2>1
  <2> QED
    BY <1>2, <1>4, <2>1, <2>2
<1>5. N \in 0 .. N
  BY <1>2
<1> HIDE DEF H
<1>6. N \in H
  BY <1>2, <1>3, <1>4, <1>5, UpTo
<1> QED
  BY <1>1, <1>6 DEF H
=============================================================================

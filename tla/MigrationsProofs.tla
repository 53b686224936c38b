-------------------------- MODULE MigrationsProofs --------------------------
(***************************************************************************)
(* Proofs about Migrations, for any number of stores, of registries and of  *)
(* processes that run them, however they interleave, stop and run again.    *)
(*                                                                         *)
(* What a process has achieved in the stores it has passed must survive the *)
(* processes that come after it: a ledger only grows, and a registration is *)
(* refused unless it keeps every row.  The inductive invariant says that    *)
(* every process has behind it the migrations, and in the second pass the   *)
(* datasets, of every store it has passed, and that the ledger of a store   *)
(* whose lock it holds follows its own chain once it is reconciled.         *)
(***************************************************************************)
EXTENDS Migrations, TLAPS

Digest == DOMAIN Creates

(* The stores that have all migrations, and all datasets, of process i.    *)
Migrated(i) == {s \in Store : IsPrefixOf(Chain[Gen[i]][s], ledger[s])}
Registered(i) ==
  {s \in Store : \A d \in DOMAIN Owned[Gen[i]][s] :
      d \in DOMAIN datasets[s] /\ datasets[s][d] = Owned[Gen[i]][s][d]}

(* What a process has behind it at each point.                             *)
Passed(i) ==
  /\ pc[i] \in {"migrate", "opened", "applying"} =>
       \A s \in Store : s < at[i] => s \in Migrated(i)
  /\ pc[i] = "applying" => IsPrefixOf(ledger[at[i]], MyChain(i))
  /\ pc[i] \in {"register", "registering", "done"} => \A s \in Store : s \in Migrated(i)
  /\ pc[i] \in {"register", "registering"} =>
       \A s \in Store : s < at[i] => s \in Registered(i)
  /\ pc[i] = "done" => \A s \in Store : s \in Registered(i)

PassedOK == \A i \in Initialiser : Passed(i)
LedgerOK == ledger \in [Store -> Seq(Digest)]

IInv ==
  /\ TypeOK
  /\ LedgerOK
  /\ NoMixture
  /\ PassedOK

-----------------------------------------------------------------------------
(* A beginning agrees at every place, and the converse.                    *)
LEMMA PrefixPointwise ==
  ASSUME NEW s \in Seq(Digest), NEW t \in Seq(Digest)
  PROVE  IsPrefixOf(s, t) <=> /\ Len(s) <= Len(t)
                              /\ \A n \in 1 .. Len(s) : s[n] = t[n]
<1>1. ASSUME Len(s) <= Len(t), \A n \in 1 .. Len(s) : s[n] = t[n]
      PROVE  s = SubSeq(t, 1, Len(s))
  <2>1. /\ SubSeq(t, 1, Len(s)) \in Seq(Digest)
        /\ Len(SubSeq(t, 1, Len(s))) = Len(s)
        /\ \A n \in 1 .. Len(s) : SubSeq(t, 1, Len(s))[n] = t[n]
    BY <1>1
  <2> QED
    BY <1>1, <2>1
<1>2. ASSUME Len(s) <= Len(t), s = SubSeq(t, 1, Len(s)), NEW n \in 1 .. Len(s)
      PROVE  s[n] = t[n]
  <2>1. SubSeq(t, 1, Len(s))[n] = t[n]
    BY <1>2
  <2> QED
    BY <1>2, <2>1
<1> QED
  BY <1>1, <1>2 DEF IsPrefixOf

(* Every chain begins with itself, a beginning of a beginning is one, and  *)
(* so is what has got longer by the next digest of a chain.                *)
LEMMA PrefixReflexive ==
  ASSUME NEW s \in Seq(Digest)
  PROVE  IsPrefixOf(s, s)
  BY PrefixPointwise

LEMMA PrefixTransitive ==
  ASSUME NEW s \in Seq(Digest), NEW t \in Seq(Digest), NEW u \in Seq(Digest),
         IsPrefixOf(s, t), IsPrefixOf(t, u)
  PROVE  IsPrefixOf(s, u)
<1>1. /\ Len(s) <= Len(t) /\ \A n \in 1 .. Len(s) : s[n] = t[n]
      /\ Len(t) <= Len(u) /\ \A n \in 1 .. Len(t) : t[n] = u[n]
  BY PrefixPointwise
<1>2. Len(s) \in Nat /\ Len(t) \in Nat /\ Len(u) \in Nat
  OBVIOUS
<1> QED
  BY <1>1, <1>2, PrefixPointwise

LEMMA PrefixGrows ==
  ASSUME NEW s \in Seq(Digest), NEW t \in Seq(Digest), IsPrefixOf(s, t), Len(s) < Len(t)
  PROVE  /\ Append(s, t[Len(s) + 1]) \in Seq(Digest)
         /\ IsPrefixOf(s, Append(s, t[Len(s) + 1]))
         /\ IsPrefixOf(Append(s, t[Len(s) + 1]), t)
<1> DEFINE u == Append(s, t[Len(s) + 1])
<1>1. t[Len(s) + 1] \in Digest
  OBVIOUS
<1>2. /\ u \in Seq(Digest) /\ Len(u) = Len(s) + 1
      /\ \A n \in 1 .. Len(s) : u[n] = s[n]
      /\ u[Len(s) + 1] = t[Len(s) + 1]
  BY <1>1
<1>3. \A n \in 1 .. Len(s) : s[n] = t[n]
  BY PrefixPointwise
<1>4. \A n \in 1 .. Len(u) : u[n] = t[n]
  BY <1>2, <1>3
<1>5. Len(u) <= Len(t) /\ Len(s) <= Len(u)
  BY <1>2
<1>6. IsPrefixOf(s, u)
  BY <1>2, <1>5, PrefixPointwise
<1>7. IsPrefixOf(u, t)
  BY <1>2, <1>4, <1>5, PrefixPointwise
<1> QED
  BY <1>2, <1>6, <1>7

(* A beginning that is as long as the whole is the whole.                  *)
LEMMA PrefixWhole ==
  ASSUME NEW s \in Seq(Digest), NEW t \in Seq(Digest), IsPrefixOf(s, t), Len(s) = Len(t)
  PROVE  s = t
  BY PrefixPointwise

(* The chain of every process, in every store, is a sequence of digests.   *)
LEMMA Chains ==
  ASSUME NEW i \in Initialiser, NEW s \in Store
  PROVE  Gen[i] \in Registry /\ Chain[Gen[i]][s] \in Seq(Digest)
  BY ChainAssumption DEF Registry, Digest

-----------------------------------------------------------------------------
(* Init satisfies the types.                                               *)
LEMMA TypeInit == Init => TypeOK /\ LedgerOK
<1> SUFFICES ASSUME Init PROVE TypeOK /\ LedgerOK
  OBVIOUS
<1>1. TypeOK
  BY StoresAssumption, InitialiserAssumption DEF Init, TypeOK, Store, Waiting, Holding, Ended
<1>2. LedgerOK
  BY DEF Init, LedgerOK
<1> QED
  BY <1>1, <1>2

(* Every step preserves them, and that a process has the lock of exactly   *)
(* the store it is at while it is at work there.                           *)
LEMMA TypeStep == TypeOK /\ LedgerOK /\ [Next]_vars => TypeOK' /\ LedgerOK'
<1> SUFFICES ASSUME TypeOK, LedgerOK, [Next]_vars PROVE TypeOK' /\ LedgerOK'
  OBVIOUS
<1>s. 1 \in Store /\ \A s \in Store : s # K => s + 1 \in Store
  BY StoresAssumption DEF Store
<1> USE <1>s, InitialiserAssumption
    DEF TypeOK, LedgerOK, Waiting, Holding, Ended, Become, Unlock
<1>1. CASE UNCHANGED vars
  BY <1>1 DEF vars
<1>2. ASSUME NEW i \in Initialiser, Begin(i)
      PROVE  TypeOK' /\ LedgerOK'
  BY <1>2 DEF Begin
<1>10. ASSUME NEW i \in Initialiser, LockTimeout(i)
      PROVE  TypeOK' /\ LedgerOK'
  BY <1>10 DEF LockTimeout
<1>3. ASSUME NEW i \in Initialiser, ApplyFails(i) \/ RegisterFails(i)
      PROVE  TypeOK' /\ LedgerOK'
  <2>1. lock[at[i]] = i
    BY <1>3 DEF ApplyFails, RegisterFails
  <2>2. /\ lock' = [lock EXCEPT ![at[i]] = Nobody] /\ pc' = [pc EXCEPT ![i] = "failed"]
        /\ UNCHANGED <<ledger, datasets, at>>
    BY <1>3 DEF ApplyFails, RegisterFails
  <2> QED
    BY <2>1, <2>2
<1>4. ASSUME NEW i \in Initialiser, Open(i)
      PROVE  TypeOK' /\ LedgerOK'
  BY <1>4 DEF Open
<1>5. ASSUME NEW i \in Initialiser, Reconcile(i)
      PROVE  TypeOK' /\ LedgerOK'
  <2>1. CASE pc' = [pc EXCEPT ![i] = "applying"] /\ UNCHANGED lock
    BY <1>5, <2>1 DEF Reconcile
  <2>2. CASE pc' = [pc EXCEPT ![i] = "failed"] /\ lock' = [lock EXCEPT ![at[i]] = Nobody]
    <3>1. lock[at[i]] = i
      BY <1>5 DEF Reconcile
    <3> QED
      BY <1>5, <2>2, <3>1 DEF Reconcile
  <2> QED
    BY <1>5, <2>1, <2>2 DEF Reconcile
<1>6. ASSUME NEW i \in Initialiser, Apply(i)
      PROVE  TypeOK' /\ LedgerOK'
  <2>1. MyChain(i) \in Seq(Digest)
    BY Chains DEF MyChain
  <2>2. Append(ledger[at[i]], MyChain(i)[Len(ledger[at[i]]) + 1]) \in Seq(Digest)
    BY <1>6, <2>1 DEF Apply
  <2> QED
    BY <1>6, <2>2 DEF Apply
<1>7. ASSUME NEW i \in Initialiser, EndMigrate(i)
      PROVE  TypeOK' /\ LedgerOK'
  BY <1>7 DEF EndMigrate
<1>8. ASSUME NEW i \in Initialiser, Register(i)
      PROVE  TypeOK' /\ LedgerOK'
  BY <1>8 DEF Register
<1>9. ASSUME NEW i \in Initialiser, Crash(i)
      PROVE  TypeOK' /\ LedgerOK'
  BY <1>9 DEF Crash
<1> QED
  BY <1>1, <1>2, <1>3, <1>4, <1>5, <1>6, <1>7, <1>8, <1>9, <1>10 DEF Next, Advance

-----------------------------------------------------------------------------
(* A ledger only grows.                                                    *)
LEMMA LedgerGrows ==
  ASSUME TypeOK, LedgerOK, PassedOK, [Next]_vars, NEW s \in Store
  PROVE  IsPrefixOf(ledger[s], ledger'[s])
<1>1. ledger[s] \in Seq(Digest)
  BY DEF LedgerOK
<1>2. ASSUME ledger'[s] = ledger[s]
      PROVE  IsPrefixOf(ledger[s], ledger'[s])
  BY <1>1, <1>2, PrefixReflexive
<1>3. ASSUME NEW i \in Initialiser, Apply(i), at[i] = s
      PROVE  IsPrefixOf(ledger[s], ledger'[s])
  <2>1. MyChain(i) \in Seq(Digest) /\ IsPrefixOf(ledger[s], MyChain(i))
    BY <1>3, Chains DEF MyChain, PassedOK, Passed, Apply
  <2>2. /\ Len(ledger[s]) < Len(MyChain(i))
        /\ ledger'[s] = Append(ledger[s], MyChain(i)[Len(ledger[s]) + 1])
    BY <1>3 DEF LedgerOK, Apply
  <2> QED
    BY <1>1, <2>1, <2>2, PrefixGrows
<1>4. ASSUME NEW i \in Initialiser, Apply(i), at[i] # s
      PROVE  ledger'[s] = ledger[s]
  BY <1>4 DEF LedgerOK, Apply
<1>5. ASSUME NEW i \in Initialiser,
             Begin(i) \/ LockTimeout(i) \/ ApplyFails(i) \/ Advance(i) \/ Crash(i), ~ Apply(i)
      PROVE  ledger'[s] = ledger[s]
  BY <1>5 DEF Begin, LockTimeout, ApplyFails, Advance, Open, Reconcile, EndMigrate, Register,
              RegisterFails, Crash
<1> QED
  BY <1>2, <1>3, <1>4, <1>5 DEF Next, vars

(* A dataset's row, once there, is not changed.                            *)
LEMMA RowKept ==
  ASSUME TypeOK, [Next]_vars, NEW s \in Store, NEW d \in DOMAIN datasets[s]
  PROVE  d \in DOMAIN datasets'[s] /\ datasets'[s][d] = datasets[s][d]
<1>1. ASSUME NEW i \in Initialiser, Register(i)
      PROVE  d \in DOMAIN datasets'[s] /\ datasets'[s][d] = datasets[s][d]
  BY <1>1 DEF TypeOK, Register, Ownership
<1>2. ASSUME NEW i \in Initialiser,
             Begin(i) \/ LockTimeout(i) \/ ApplyFails(i) \/ Advance(i) \/ Crash(i), ~ Register(i)
      PROVE  UNCHANGED datasets
  BY <1>2 DEF Begin, LockTimeout, ApplyFails, Advance, Open, Reconcile, EndMigrate, Apply,
              RegisterFails, Crash
<1> QED
  BY <1>1, <1>2 DEF Next, vars

(* So what a process has achieved in a store stays achieved, whoever comes *)
(* after it.                                                               *)
LEMMA AchievedKept ==
  ASSUME TypeOK, LedgerOK, PassedOK, [Next]_vars, NEW i \in Initialiser
  PROVE  Migrated(i) \subseteq Migrated(i)' /\ Registered(i) \subseteq Registered(i)'
<1>1. ASSUME NEW s \in Migrated(i)
      PROVE  s \in Migrated(i)'
  <2>1. s \in Store /\ IsPrefixOf(Chain[Gen[i]][s], ledger[s])
    BY <1>1 DEF Migrated
  <2>2. /\ ledger[s] \in Seq(Digest) /\ ledger'[s] \in Seq(Digest)
        /\ Chain[Gen[i]][s] \in Seq(Digest)
    BY <2>1, TypeStep, Chains DEF LedgerOK
  <2>3. IsPrefixOf(Chain[Gen[i]][s], ledger'[s])
    BY <2>1, <2>2, LedgerGrows, PrefixTransitive
  <2> QED
    BY <2>1, <2>3 DEF Migrated
<1>2. Registered(i) \subseteq Registered(i)'
  BY RowKept DEF Registered
<1> QED
  BY <1>1, <1>2

(* While a process is applying, nobody else changes the ledger it is at.   *)
LEMMA LockKeepsOthersOut ==
  ASSUME TypeOK, LedgerOK, NEW i \in Initialiser, NEW j \in Initialiser, i # j,
         Begin(j) \/ LockTimeout(j) \/ ApplyFails(j) \/ Advance(j) \/ Crash(j)
  PROVE  /\ UNCHANGED <<pc[i], at[i]>>
         /\ pc[i] = "applying" => UNCHANGED ledger[at[i]]
<1>1. UNCHANGED <<pc[i], at[i]>>
  BY DEF TypeOK, Begin, LockTimeout, ApplyFails, Advance, Open, Reconcile, EndMigrate, Apply,
         Register, RegisterFails, Crash, Become
<1>2. ASSUME Apply(j), pc[i] = "applying"
      PROVE  UNCHANGED ledger[at[i]]
  <2>1. at[i] # at[j]
    BY <1>2 DEF TypeOK, Apply, Holding
  <2> QED
    BY <1>2, <2>1 DEF TypeOK, LedgerOK, Apply
<1>3. ASSUME ~ Apply(j)
      PROVE  UNCHANGED ledger
  BY <1>3 DEF Begin, LockTimeout, ApplyFails, Advance, Open, Reconcile, EndMigrate,
         Register, RegisterFails, Crash
<1> QED
  BY <1>1, <1>2, <1>3

(* Every step preserves what the processes have behind them.               *)
LEMMA PassedStep == IInv /\ [Next]_vars => PassedOK'
<1> SUFFICES ASSUME IInv, [Next]_vars, NEW i \in Initialiser
             PROVE  Passed(i)'
  BY DEF PassedOK
<1>i. TypeOK /\ LedgerOK /\ PassedOK /\ TypeOK' /\ LedgerOK' /\ Passed(i)
  BY TypeStep DEF IInv, PassedOK
<1>k. Migrated(i) \subseteq Migrated(i)' /\ Registered(i) \subseteq Registered(i)'
  BY <1>i, AchievedKept
<1>s. /\ K \in Nat \ {0} /\ Store = 1 .. K /\ at[i] \in Store
      /\ ledger[at[i]] \in Seq(Digest) /\ MyChain(i) \in Seq(Digest)
  BY <1>i, Chains, StoresAssumption DEF TypeOK, LedgerOK, MyChain, Store
<1>1. CASE UNCHANGED vars
  BY <1>1, <1>i DEF vars, Passed, Migrated, Registered, MyChain
<1>2. ASSUME NEW j \in Initialiser, j # i,
             Begin(j) \/ LockTimeout(j) \/ ApplyFails(j) \/ Advance(j) \/ Crash(j)
      PROVE  Passed(i)'
  <2>1. /\ UNCHANGED <<pc[i], at[i]>>
        /\ pc[i] = "applying" => UNCHANGED ledger[at[i]]
    BY <1>2, <1>i, LockKeepsOthersOut
  <2> QED
    BY <2>1, <1>i, <1>k DEF Passed, MyChain
<1>3. CASE Begin(i)
  BY <1>3, <1>i, <1>s DEF Begin, Become, TypeOK, Passed
<1>4. CASE LockTimeout(i) \/ ApplyFails(i) \/ RegisterFails(i) \/ Crash(i)
  BY <1>4, <1>i DEF LockTimeout, ApplyFails, RegisterFails, Crash, Become, TypeOK, Passed
<1>5. CASE Open(i)
  BY <1>5, <1>i, <1>k DEF Open, Become, Waiting, TypeOK, Passed
<1>6. CASE Reconcile(i)
  BY <1>6, <1>i, <1>k DEF Reconcile, Reconciled, Become, TypeOK, Passed, MyChain
<1>7. CASE Apply(i)
  <2>1. IsPrefixOf(ledger'[at[i]], MyChain(i))
    BY <1>7, <1>i, <1>s, PrefixGrows DEF Apply, Passed, LedgerOK
  <2>2. UNCHANGED <<pc, at>> /\ pc[i] = "applying"
    BY <1>7 DEF Apply
  <2> QED
    BY <1>i, <1>k, <2>1, <2>2 DEF Passed, MyChain
<1>8. CASE EndMigrate(i)
  <2>1. ledger[at[i]] = MyChain(i)
    BY <1>8, <1>i, <1>s, PrefixWhole DEF EndMigrate, Passed
  <2>2. \A s \in Store : s = at[i] => s \in Migrated(i)'
    BY <1>8, <1>s, <2>1, PrefixReflexive DEF EndMigrate, Migrated, MyChain
  <2>3. \A s \in Store : s < at[i] => s \in Migrated(i)'
    BY <1>8, <1>i, <1>k DEF EndMigrate, Passed
  <2>4. CASE at[i] = K
    <3>1. \A s \in Store : s \in Migrated(i)'
      BY <1>s, <2>2, <2>3, <2>4
    <3>2. pc'[i] = "register" /\ at'[i] = 1
      BY <1>8, <1>i, <2>4 DEF EndMigrate, Become, TypeOK
    <3> QED
      BY <1>s, <3>1, <3>2 DEF Passed
  <2>5. CASE at[i] # K
    <3>1. pc'[i] = "migrate" /\ at'[i] = at[i] + 1
      BY <1>8, <1>i, <2>5 DEF EndMigrate, Become, TypeOK
    <3> QED
      BY <1>s, <2>2, <2>3, <3>1 DEF Passed
  <2> QED
    BY <2>4, <2>5
<1>9. CASE Register(i)
  <2>1. \A s \in Store : s = at[i] => s \in Registered(i)'
    BY <1>9, <1>i DEF Register, Registered, MyDatasets, TypeOK
  <2>2. \A s \in Store : s \in Migrated(i)' /\ (s < at[i] => s \in Registered(i)')
    BY <1>9, <1>i, <1>k DEF Register, Passed
  <2>3. CASE at[i] = K
    <3>1. \A s \in Store : s \in Registered(i)'
      BY <1>s, <2>1, <2>2, <2>3
    <3>2. pc'[i] = "done"
      BY <1>9, <1>i, <2>3 DEF Register, Become, TypeOK
    <3> QED
      BY <2>2, <3>1, <3>2 DEF Passed
  <2>4. CASE at[i] # K
    <3>1. pc'[i] = "register" /\ at'[i] = at[i] + 1
      BY <1>9, <1>i, <2>4 DEF Register, Become, TypeOK
    <3> QED
      BY <1>s, <2>1, <2>2, <3>1 DEF Passed
  <2> QED
    BY <2>3, <2>4
<1> QED
  BY <1>1, <1>2, <1>3, <1>4, <1>5, <1>6, <1>7, <1>8, <1>9 DEF Next, Advance

(* A ledger changes by the next migration of the chain it follows.         *)
LEMMA MixtureStep == IInv /\ [Next]_vars => NoMixture'
<1> SUFFICES ASSUME IInv, [Next]_vars, NEW s \in Store
             PROVE  \E g \in Registry : IsPrefixOf(ledger'[s], Chain[g][s])
  BY DEF NoMixture
<1>i. TypeOK /\ LedgerOK /\ PassedOK /\ NoMixture
  BY DEF IInv
<1>1. CASE ledger'[s] = ledger[s]
  BY <1>1, <1>i DEF NoMixture
<1>2. ASSUME NEW i \in Initialiser, Apply(i), at[i] = s
      PROVE  \E g \in Registry : IsPrefixOf(ledger'[s], Chain[g][s])
  <2>1. /\ MyChain(i) = Chain[Gen[i]][s] /\ MyChain(i) \in Seq(Digest)
        /\ Gen[i] \in Registry
    BY <1>2, Chains DEF MyChain
  <2>2. IsPrefixOf(ledger[s], MyChain(i)) /\ ledger[s] \in Seq(Digest)
    BY <1>2, <1>i DEF PassedOK, Passed, Apply, LedgerOK
  <2>3. /\ Len(ledger[s]) < Len(MyChain(i))
        /\ ledger'[s] = Append(ledger[s], MyChain(i)[Len(ledger[s]) + 1])
    BY <1>2, <1>i DEF Apply, LedgerOK
  <2>4. IsPrefixOf(ledger'[s], MyChain(i))
    BY <2>1, <2>2, <2>3, PrefixGrows
  <2> QED
    BY <2>1, <2>4
<1>3. ASSUME NEW i \in Initialiser, ~ (Apply(i) /\ at[i] = s),
             Begin(i) \/ LockTimeout(i) \/ ApplyFails(i) \/ Advance(i) \/ Crash(i)
      PROVE  ledger'[s] = ledger[s]
  BY <1>3, <1>i DEF LedgerOK, Begin, LockTimeout, ApplyFails, Advance, Open, Reconcile,
                    EndMigrate, Apply, Register, RegisterFails, Crash
<1> QED
  BY <1>1, <1>2, <1>3 DEF Next, vars

(* Initially every ledger is empty, the beginning of any chain, and nobody *)
(* has anything behind it.                                                 *)
LEMMA IInvInit == Init => IInv
<1> SUFFICES ASSUME Init PROVE IInv
  OBVIOUS
<1>1. TypeOK /\ LedgerOK
  BY TypeInit
<1>2. NoMixture
  <2> SUFFICES ASSUME NEW s \in Store
               PROVE  \E g \in Registry : IsPrefixOf(ledger[s], Chain[g][s])
    BY DEF NoMixture
  <2>1. PICK i \in Initialiser : TRUE
    BY InitialiserAssumption
  <2>2. ledger[s] = << >> /\ Chain[Gen[i]][s] \in Seq(Digest) /\ Gen[i] \in Registry
    BY Chains DEF Init
  <2>3. Len(<< >>) = 0 /\ \A t \in Seq(Digest) : SubSeq(t, 1, 0) = << >> /\ 0 <= Len(t)
    OBVIOUS
  <2>4. IsPrefixOf(<< >>, Chain[Gen[i]][s])
    BY <2>2, <2>3 DEF IsPrefixOf
  <2> QED
    BY <2>2, <2>4
<1>3. PassedOK
  BY DEF Init, PassedOK, Passed
<1> QED
  BY <1>1, <1>2, <1>3 DEF IInv

(* The parts together are an invariant of the specification.               *)
LEMMA Inductive == Spec => []IInv
<1>1. IInv /\ [Next]_vars => IInv'
  BY TypeStep, MixtureStep, PassedStep DEF IInv
<1> QED
  BY IInvInit, <1>1, PTL DEF Spec

-----------------------------------------------------------------------------
(* Every variable keeps its type, and a store's write lock is held by      *)
(* exactly the process that is at work in it.                              *)
THEOREM TypeCorrect == Spec => []TypeOK
  BY Inductive, PTL DEF IInv

(* The applied migrations of a store are always the beginning of one       *)
(* reviewed chain (migrate_store, _reconcile_applied): processes of        *)
(* different registries cannot mix two, whatever order they come in.       *)
THEOREM NoMixtureHolds == Spec => []NoMixture
  BY Inductive, PTL DEF IInv

(* When initialize_all returns every store has the migrations and the      *)
(* datasets of its registry, and keeps them for as long as the process     *)
(* does not begin again, whichever registries are run after it.            *)
THEOREM DoneMeansReadyHolds == Spec => []DoneMeansReady
<1>1. IInv => DoneMeansReady
  BY DEF IInv, PassedOK, Passed, Migrated, Registered, DoneMeansReady
<1> QED
  BY Inductive, <1>1, PTL

(* Nothing that has been applied is ever taken back, and no row of a       *)
(* dataset is ever changed (schema_migrations, dataset_registry).          *)
THEOREM NothingTakenBack ==
  Spec => [][\A s \in Store :
               /\ IsPrefixOf(ledger[s], ledger'[s])
               /\ \A d \in DOMAIN datasets[s] :
                    d \in DOMAIN datasets'[s] /\ datasets'[s][d] = datasets[s][d]]_vars
<1>1. IInv /\ [Next]_vars =>
        [\A s \in Store :
           /\ IsPrefixOf(ledger[s], ledger'[s])
           /\ \A d \in DOMAIN datasets[s] :
                d \in DOMAIN datasets'[s] /\ datasets'[s][d] = datasets[s][d]]_vars
  BY LedgerGrows, RowKept DEF IInv
<1> QED
  BY Inductive, <1>1, PTL DEF Spec
=============================================================================

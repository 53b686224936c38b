----------------------------- MODULE Migrations -----------------------------
(***************************************************************************)
(* initialize_all: every store is brought to the end of its migration chain *)
(* (migrate_store), then every store gets the rows of its datasets          *)
(* (_register_datasets).  Each of the two takes the store's write lock for  *)
(* itself; every migration and every registration is one transaction.       *)
(*                                                                         *)
(* Several initialisers may run at once, may stop at any point, and may run *)
(* again.  They need not be of one generation: a generation is a reviewed   *)
(* registry, with the digests of its migrations and of its datasets.        *)
(***************************************************************************)
EXTENDS Naturals, Sequences

CONSTANTS
  Initialiser,  \* the processes that call initialize_all
  Gen,          \* the registry each was built with
  Chain,        \* of a registry and a store: the migration digests, in order
  Creates,      \* the tables and views each migration creates, by its digest
  Owned,        \* of a registry and a store: dataset ids to their identities
  K,            \* the number of stores; they are visited in the order 1..K
  Nobody        \* the holder of a free lock

Store == 1..K
Registry == {Gen[i] : i \in Initialiser}

ASSUME StoresAssumption == K \in Nat \ {0}
ASSUME InitialiserAssumption == /\ DOMAIN Gen = Initialiser
                                /\ Initialiser # {} /\ Nobody \notin Initialiser
ASSUME ChainAssumption ==
  \A g \in Registry : /\ DOMAIN Chain[g] = Store /\ DOMAIN Owned[g] = Store
                      /\ \A s \in Store : Chain[g][s] \in Seq(DOMAIN Creates)

VARIABLES
  ledger,    \* the digests in schema_migrations of each store
  datasets,  \* dataset_registry and dataset_identity_contracts of each store
  lock,      \* who holds the write lock of each store
  pc,        \* where each initialiser is
  at         \* the store it is at

vars == <<ledger, datasets, lock, pc, at>>

Waiting == {"migrate", "register"}
Holding == {"opened", "applying", "registering"}
Ended == {"done", "failed", "dead"}

IsPrefixOf(s, t) == Len(s) <= Len(t) /\ s = SubSeq(t, 1, Len(s))
Relations(chain) == UNION {Creates[chain[n]] : n \in DOMAIN chain}
MyChain(i) == Chain[Gen[i]][at[i]]
MyDatasets(i) == Owned[Gen[i]][at[i]]

TypeOK ==
  /\ DOMAIN ledger = Store /\ DOMAIN datasets = Store
  /\ lock \in [Store -> Initialiser \cup {Nobody}]
  /\ pc \in [Initialiser -> {"idle"} \cup Waiting \cup Holding \cup Ended]
  /\ at \in [Initialiser -> Store]
  /\ \A s \in Store, i \in Initialiser :
       lock[s] = i <=> pc[i] \in Holding /\ at[i] = s

Init ==
  /\ ledger = [s \in Store |-> <<>>]
  /\ datasets = [s \in Store |-> <<>>]
  /\ lock = [s \in Store |-> Nobody]
  /\ pc = [i \in Initialiser |-> "idle"]
  /\ at = [i \in Initialiser |-> 1]

Become(i, state) == pc' = [pc EXCEPT ![i] = state]
Unlock(i) == lock' = [lock EXCEPT ![at[i]] = Nobody]

-----------------------------------------------------------------------------
(* Defective variants of the definitions below.  Nothing uses them; each   *)
(* stands for a bug the checks have to notice when it takes the place of   *)
(* the definition it is a variant of.                                      *)

(* Only the number of applied migrations is compared.                      *)
Reconciled_ByCount(i) == Len(ledger[at[i]]) <= Len(MyChain(i))

(* Rows that differ from the registry are patched, not refused.            *)
Ownership_Patched(i) ==
  /\ DOMAIN datasets[at[i]] \subseteq DOMAIN MyDatasets(i)
  /\ Relations(ledger[at[i]]) = Relations(MyChain(i))

-----------------------------------------------------------------------------
(* _reconcile_applied: what is applied is a beginning of the own chain.    *)
Reconciled(i) == IsPrefixOf(ledger[at[i]], MyChain(i))

(* The rows that are there agree with the registry, the ids will be exactly*)
(* its ids, and the relations of the store exactly those it declares: those*)
(* its own chain creates, as the review of a registry makes sure.          *)
Ownership(i) ==
  /\ DOMAIN datasets[at[i]] \subseteq DOMAIN MyDatasets(i)
  /\ \A d \in DOMAIN datasets[at[i]] : datasets[at[i]][d] = MyDatasets(i)[d]
  /\ Relations(ledger[at[i]]) = Relations(MyChain(i))

Begin(i) ==
  /\ pc[i] \in {"idle", "failed", "dead"}
  /\ Become(i, "migrate")
  /\ at' = [at EXCEPT ![i] = 1]
  /\ UNCHANGED <<ledger, datasets, lock>>

(* StoreWriteLock and writer_connection of migrate_store and of            *)
(* _register_datasets                                                      *)
Open(i) ==
  /\ pc[i] \in Waiting
  /\ lock[at[i]] = Nobody
  /\ lock' = [lock EXCEPT ![at[i]] = i]
  /\ Become(i, IF pc[i] = "migrate" THEN "opened" ELSE "registering")
  /\ UNCHANGED <<ledger, datasets, at>>

(* The lock is not free within its timeout.                                *)
LockTimeout(i) ==
  /\ pc[i] \in Waiting
  /\ lock[at[i]] # Nobody
  /\ Become(i, "failed")
  /\ UNCHANGED <<ledger, datasets, lock, at>>

Reconcile(i) ==
  /\ pc[i] = "opened"
  /\ \/ Reconciled(i) /\ Become(i, "applying") /\ UNCHANGED lock
     \/ ~Reconciled(i) /\ Become(i, "failed") /\ Unlock(i)
  /\ UNCHANGED <<ledger, datasets, at>>

(* _apply_one: the statements and the ledger row are one transaction.      *)
Apply(i) ==
  /\ pc[i] = "applying"
  /\ Len(ledger[at[i]]) < Len(MyChain(i))
  /\ ledger' = [ledger EXCEPT ![at[i]] = Append(@, MyChain(i)[Len(@) + 1])]
  /\ UNCHANGED <<datasets, lock, pc, at>>

(* A statement or the foreign-key check fails: that one is rolled back.    *)
ApplyFails(i) ==
  /\ pc[i] = "applying"
  /\ Len(ledger[at[i]]) < Len(MyChain(i))
  /\ Unlock(i)
  /\ Become(i, "failed")
  /\ UNCHANGED <<ledger, datasets, at>>

(* The chain is complete: on to the next store, or to the registrations.   *)
EndMigrate(i) ==
  /\ pc[i] = "applying"
  /\ Len(ledger[at[i]]) = Len(MyChain(i))
  /\ Unlock(i)
  /\ Become(i, IF at[i] = K THEN "register" ELSE "migrate")
  /\ at' = [at EXCEPT ![i] = IF @ = K THEN 1 ELSE @ + 1]
  /\ UNCHANGED <<ledger, datasets>>

Register(i) ==
  /\ pc[i] = "registering"
  /\ Ownership(i)
  /\ datasets' = [datasets EXCEPT ![at[i]] = MyDatasets(i)]
  /\ Unlock(i)
  /\ Become(i, IF at[i] = K THEN "done" ELSE "register")
  /\ at' = [at EXCEPT ![i] = IF @ = K THEN @ ELSE @ + 1]
  /\ UNCHANGED ledger

RegisterFails(i) ==
  /\ pc[i] = "registering"
  /\ ~Ownership(i)
  /\ Unlock(i)
  /\ Become(i, "failed")
  /\ UNCHANGED <<ledger, datasets, at>>

(* The process dies; the kernel frees its lock, SQLite rolls back.         *)
Crash(i) ==
  /\ pc[i] \in Waiting \cup Holding
  /\ lock' = [s \in Store |-> IF lock[s] = i THEN Nobody ELSE lock[s]]
  /\ Become(i, "dead")
  /\ UNCHANGED <<ledger, datasets, at>>

Advance(i) ==
  \/ Open(i) \/ Reconcile(i) \/ Apply(i) \/ EndMigrate(i) \/ Register(i) \/ RegisterFails(i)

Next ==
  \E i \in Initialiser :
    Begin(i) \/ LockTimeout(i) \/ ApplyFails(i) \/ Advance(i) \/ Crash(i)

Spec == Init /\ [][Next]_vars

-----------------------------------------------------------------------------
(* However initialisers of different registries interleave, stop and start *)
(* again, the applied migrations of a store are the beginning of one       *)
(* reviewed chain, never a mixture of two.                                 *)
NoMixture ==
  \A s \in Store : \E g \in Registry : IsPrefixOf(ledger[s], Chain[g][s])

(* When initialize_all has returned, every store is ready for the registry *)
(* it was called with: it has all its migrations and all its datasets, be  *)
(* it with those of a later registry added.                                *)
DoneMeansReady ==
  \A i \in Initialiser : pc[i] = "done" =>
    \A s \in Store :
      /\ IsPrefixOf(Chain[Gen[i]][s], ledger[s])
      /\ \A d \in DOMAIN Owned[Gen[i]][s] :
           d \in DOMAIN datasets[s] /\ datasets[s][d] = Owned[Gen[i]][s][d]

=============================================================================

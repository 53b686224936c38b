---------------------------- MODULE MCMigrations ----------------------------
(* Four initialisers over two stores: one of a registry, one of its         *)
(* successor, one of a registry whose chain has gone another way, and one  *)
(* of a registry that only gives a dataset another identity.               *)
EXTENDS Migrations

MCInitialiser == {"a", "b", "c", "d"}
MCGen == [a |-> "old", b |-> "new", c |-> "fork", d |-> "renamed"]

(* What the migrations create; the second of the first store is a trigger. *)
MCCreates ==
  [m1 |-> {"t1"}, m2 |-> {}, n1 |-> {"t2"}, n2 |-> {"t3"}, n3 |-> {"t4"}, k2 |-> {"t3"}]

(* The successor adds a migration to each store and a dataset to the       *)
(* second.  The fork has another second migration in the second store, for *)
(* the same table, and another identity for the dataset of that store.     *)
MCChain ==
  [old  |-> <<<<"m1">>, <<"n1", "n2">>>>,
   new  |-> <<<<"m1", "m2">>, <<"n1", "n2", "n3">>>>,
   fork |-> <<<<"m1">>, <<"n1", "k2">>>>,
   renamed |-> <<<<"m1">>, <<"n1", "n2">>>>]
MCOwned ==
  [old  |-> <<[x |-> "id1"], [y |-> "id2"]>>,
   new  |-> <<[x |-> "id1"], [y |-> "id2", z |-> "id3"]>>,
   fork |-> <<[x |-> "id1"], [y |-> "id8"]>>,
   renamed |-> <<[x |-> "id1"], [y |-> "id9"]>>]
=============================================================================

---------------------------- MODULE MCOperations ----------------------------
(***************************************************************************)
(* Two calls over the operational root and two more roots, with two roles.  *)
(* The stores begin either with one complete run each, and then collectors  *)
(* write while the calls go on, or with a longer history of the first       *)
(* store that the audit of an export has to read.  And two attempts of the  *)
(* backfill of two dates, with answers that can be used and that cannot.    *)
(***************************************************************************)
EXTENDS Operations, TLC

CONSTANTS market, macro, r1, r2

MCRoleSeq == <<market, macro>>

Complete(t) == [at |-> t, completeness |-> "complete", whole |-> TRUE]
Partial(t, whole) == [at |-> t, completeness |-> "partial", whole |-> whole]

MCRuns == {Complete(2), Partial(2, FALSE)}

Short == [runs |-> <<Complete(1)>>, failures |-> {}]

Long ==
  [runs : {<<a, b, c>> : a \in {Complete(1), Partial(2, TRUE)},
                         b \in {Partial(2, TRUE), Partial(2, FALSE)},
                         c \in {Partial(3, TRUE), Complete(1)}},
   failures : {{}, {2}}]

MCPast ==
  {[r \in {market, macro} |-> Short]} \cup
  {[r \in {market, macro} |-> IF r = market THEN l ELSE Short] : l \in Long}

Reply(status, rows) == [status |-> status, rows |-> rows]
Priced(d, price) == [date |-> d, price |-> price, consistent |-> TRUE]
MCResponse ==
  {Reply(200, <<Priced(1, 1), Priced(2, 1)>>), Reply(200, <<Priced(1, 1), Priced(2, 2)>>),
   Reply(200, <<Priced(2, 1), Priced(1, 2)>>), Reply(500, <<Priced(1, 1), Priced(2, 1)>>),
   Reply(200, <<Priced(1, 1)>>)}

Symmetry == Permutations({r1, r2}) \cup Permutations(Op)
=============================================================================

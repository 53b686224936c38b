---- MODULE MCStoreLocks ----
(* Two processes and two stores: enough for opposite request orders, for   *)
(* partly gathered sets and for a capability kept past its session.        *)
EXTENDS StoreLocks, TLC

CONSTANTS p1, p2, s1, s2
Processes == {p1, p2}
Stores == {s1, s2}
Rank == s1 :> 1 @@ s2 :> 2
====

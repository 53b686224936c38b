----------------------------- MODULE RunLedger -----------------------------
(***************************************************************************)
(* What the ingestion control plane of one store promises: a ledger of      *)
(* published runs that only grows, one run for each canonical dataset and   *)
(* semantic identity, each run identity spent once, on a publication or on  *)
(* the record of a failure, and for every dataset a checkpoint at the run   *)
(* that wrote it last.  Ingestion implements this module.                   *)
(***************************************************************************)
CONSTANTS Request, Dataset, Registered, NoRun

VARIABLES ledger, failures, checkpoint

vars == <<ledger, failures, checkpoint>>

Init ==
  /\ ledger = {}
  /\ failures = {}
  /\ checkpoint = [d \in Dataset |-> NoRun]

Spent(run) == run \in failures \/ \E r \in ledger : r.run = run

Publish(r) ==
  /\ ~Spent(r.run)
  /\ r.outputs \subseteq Registered
  /\ \A q \in ledger : q.dataset = r.dataset => q.identity # r.identity
  /\ ledger' = ledger \cup {r}
  /\ checkpoint' = [d \in Dataset |-> IF d \in r.outputs THEN r ELSE checkpoint[d]]
  /\ UNCHANGED failures

Fail(r) ==
  /\ ~Spent(r.run)
  /\ failures' = failures \cup {r.run}
  /\ UNCHANGED <<ledger, checkpoint>>

Next == \E r \in Request : Publish(r) \/ Fail(r)

Spec == Init /\ [][Next]_vars
=============================================================================

---- MODULE MCIngestion ----
(* Requests of two datasets of one store.  The run id is what the importers*)
(* make of the canonical dataset and the semantic identity (stable_id); the*)
(* last request is one the coordinator's interface allows and no importer  *)
(* makes, which reuses a run id for other work.                            *)
EXTENDS Ingestion

CONSTANTS c1, c2, evidence, canonical, retired, x, y, z

Work(run, identity, outputs) ==
  [run |-> run, dataset |-> canonical, identity |-> identity, outputs |-> outputs]

ImporterRequests ==
  { Work(x, "a", {evidence, canonical}), Work(y, "b", {canonical}) }

Requests ==
  ImporterRequests
    \cup { Work(y, "c", {canonical}), Work(z, "a", {canonical}),
           Work(z, "d", {canonical, retired}) }

MixedCallers == {c1, c2}
OneRunner == {c2}
BothRunners == {c1, c2}
Datasets == {evidence, canonical, retired}
ActiveDatasets == {evidence, canonical}
====

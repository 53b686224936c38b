--------------------------- MODULE SourceReceipts ---------------------------
(***************************************************************************)
(* The audit of a source's collector receipts that precedes a read-only     *)
(* copy (operations/backup.py, _required_source_receipt_checks).  A ledger  *)
(* is what one store says of one dataset: its succeeded runs in the order   *)
(* they were published, and the completion times of its failure records.    *)
(* A run has the completion time its collector reported, which need not     *)
(* follow the order of publication, the completeness of its snapshot, and   *)
(* whether its output, artifact, snapshot and membership rows all agree.    *)
(* The coordinator commits no run of another status.                        *)
(***************************************************************************)
EXTENDS Naturals, Sequences, FiniteSets

RunRow == [at : Nat, completeness : {"complete", "partial"}, whole : BOOLEAN]

Ledger == [runs : Seq(RunRow), failures : SUBSET Nat]

Rows(l) == {l.runs[i] : i \in DOMAIN l.runs}

\* The registry row of the dataset points at the run published last.
Selected(l) == l.runs[Len(l.runs)]
Others(l) == {l.runs[i] : i \in 1 .. Len(l.runs) - 1}

Validated(rows) == \A r \in rows : r.whole

Since(l, t) == {r \in Rows(l) : r.at >= t}

Baselines(l) ==
  {r \in Others(l) : r.completeness = "complete" /\ r.at <= Selected(l).at}

BaselineTime(l) ==
  CHOOSE t \in {b.at : b \in Baselines(l)} : \A b \in Baselines(l) : b.at <= t

\* A partial checkpoint stands on the latest complete one before it, and on
\* every succeeded run between the two.
Chain(l) ==
  IF Selected(l).completeness = "complete" THEN {Selected(l)}
  ELSE {r \in Since(l, BaselineTime(l)) : r.at <= Selected(l).at}

ChainReconciled(l) ==
  \/ Selected(l).completeness = "complete"
  \/ /\ Validated({r \in Others(l) : r.completeness = "complete"})
     /\ Baselines(l) # {}
     /\ Validated(Chain(l))

FailuresSince_Ever(l, t) == l.failures
FailuresSince(l, t) == {f \in l.failures : f >= t}

Accepted_ChainUnread(l) ==
  /\ l.runs # << >>
  /\ Selected(l).whole
  /\ Validated(Since(l, Selected(l).at))
  /\ FailuresSince(l, Selected(l).at) = {}

Accepted(l) ==
  /\ l.runs # << >>
  /\ Selected(l).whole
  /\ ChainReconciled(l)
  /\ Validated(Since(l, Selected(l).at))
  /\ FailuresSince(l, Selected(l).at) = {}

Published(l, r) == [l EXCEPT !.runs = Append(@, r)]
Failed(l, t) == [l EXCEPT !.failures = @ \cup {t}]

\* No hole: some complete and reconciled run, every later run reconciled too.
Unbroken(l) ==
  \E c \in Rows(l) : c.completeness = "complete" /\ Validated(Since(l, c.at))
=============================================================================

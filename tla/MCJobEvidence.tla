--------------------------- MODULE MCJobEvidence ---------------------------
(* Two monthly runs of one period, one of which has the run id of a third  *)
(* run that has no period.                                                 *)
EXTENDS JobEvidence

CONSTANTS p1, p2, p3

MCProc == {p1, p2, p3}
MCRunId == [p \in Proc |-> IF p = p1 THEN 1 ELSE 2]
MCPeriod == [p \in Proc |-> IF p = p3 THEN NoPeriod ELSE 1]
=============================================================================

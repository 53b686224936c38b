--------------------------- MODULE MCAtlasExport ---------------------------
(* Three calls: two arrive at the same revision, and the third has the      *)
(* attempt id of the first.                                                *)
EXTENDS AtlasExport

CONSTANTS p1, p2, p3

MCPublisher == {p1, p2, p3}
MCAttempt == [p \in Publisher |-> IF p = p2 THEN 2 ELSE 1]
MCRevision == [p \in Publisher |-> IF p = p3 THEN 2 ELSE 1]
=============================================================================

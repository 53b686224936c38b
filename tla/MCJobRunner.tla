---------------------------- MODULE MCJobRunner ----------------------------
(* Three steps over two stores; the third depends on the other two.        *)
EXTENDS JobRunner

MCDeps == <<{}, {}, {1, 2}>>
MCStore == <<"macro", "market", "market">>
MCStepTimeout == <<3, 1, 1>>
MCBackoff == <<1, 2, 4>>
=============================================================================

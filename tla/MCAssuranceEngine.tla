-------------------------- MODULE MCAssuranceEngine --------------------------
(* Two supervisor processes on one workspace.                               *)
EXTENDS AssuranceEngine, TLC

CONSTANTS s1, s2
=============================================================================

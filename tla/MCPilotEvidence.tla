----------------------------- MODULE MCPilotEvidence -----------------------------
(* Small instances of PilotEvidence: invocations choose among the scripts and *)
(* ids freely, so two may share a run directory, a synthesis, or neither.     *)
EXTENDS PilotEvidence

CONSTANTS r1, r2

TwoRuns == {r1, r2}
=================================================================================

-------------------------- MODULE MCWorkflowEngine --------------------------
(* The engine with small sets of runs and events for TLC. *)
EXTENDS WorkflowInvariant, TLC

\* Run ids and message ids are only compared, so they may be permuted.
Symmetry == Permutations(Runs) \cup Permutations(Events)
=============================================================================

--------------------------- MODULE MCScenarioRuntime --------------------------
(* ScenarioRuntime on small instances. *)
EXTENDS ScenarioRuntime, TLC

\* Runs are interchangeable when all or none of them are timed.
RunSymmetry == Permutations(Runs)
=============================================================================

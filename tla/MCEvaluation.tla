---------------------------- MODULE MCEvaluation ----------------------------
(* A small instance of Evaluation: two tasks, once each, half of the trials *)
(* enough for a score, and one task name nobody planned.                    *)
EXTENDS Evaluation

Kind(outcome, owner, reward, fault) ==
  [outcome |-> outcome, owner |-> owner, reward |-> reward, fault |-> fault]

MCKinds ==
  {Kind("benchmark_complete", "benchmark", {1}, FALSE),
   Kind("benchmark_complete", "benchmark", {1}, TRUE),
   Kind("benchmark_complete", "benchmark", {}, FALSE),
   Kind("timeout", "benchmark_agent", {3}, FALSE),
   Kind("timeout", "harness", {}, FALSE),
   Kind("infrastructure_failed", "infrastructure", {}, TRUE),
   Kind("candidate_invalid", "candidate", {}, TRUE)}

(* Nothing wrong, each defect alone, and the pairs whose members matter     *)
(* only together or hide each other.                                        *)
MCAilmentSets ==
  {{}} \cup {{defect} : defect \in AllAilments} \cup
  {{"index_down", "deps_not_cached"}, {"index_down", "backend_not_cached"},
   {"lock_stale", "tool_missing"}, {"files_missing", "stub"}}

MCSuffixed == {<<"org/t1", "t1">>}
MCFloor == <<1, 2>>
=============================================================================

------------------------------- MODULE MCDriver -------------------------------
(* Instances of Driver for TLC. *)
EXTENDS DriverLineage, DriverInvariant, RunReport

MCGenesis == <<0, 0>>
MCShortStages == <<"rollout", "mutate", "validate">>
MCTwoStages == <<"rollout", "mutate">>
MCAllStages == <<"rollout", "analyze", "mutate", "validate", "novelty">>
==============================================================================

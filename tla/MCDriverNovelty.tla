---------------------------- MODULE MCDriverNovelty ----------------------------
(* An instance of DriverNovelty for TLC. *)
EXTENDS DriverNovelty

MCGenesis == <<0, 0>>
MCNoveltyStages == <<"rollout", "mutate", "novelty">>
==============================================================================

------------------------- MODULE MCCandidateFiles -------------------------
(* An instance of CandidateFiles for TLC: a tracked file inside the surface,  *)
(* one outside, and a directory that the parent lacks, with a part of it      *)
(* outside the surface and an ignored file.                                   *)
EXTENDS CandidateFiles

MCFiles == {"prompt", "score", "skill", "sealed", "cache"}
MCDirsOf == [f \in MCFiles |->
  CASE f = "skill" -> <<"skills">> [] f = "sealed" -> <<"skills", "locked">>
    [] OTHER -> <<>>]
============================================================================

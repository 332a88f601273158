---------------------------- MODULE MCArchiveStore ----------------------------
(* Instances of ArchiveStore for TLC. *)
EXTENDS ArchiveStore

MCWorkload == <<"evaluation", "verdict", "evaluation of a sibling">>
==============================================================================

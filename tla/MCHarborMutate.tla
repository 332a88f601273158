---------------------------- MODULE MCHarborMutate ----------------------------
(* The import of two roots, of which every step may fail. *)
EXTENDS HarborMutate

MCRoots == <<"target", "operators">>
==============================================================================

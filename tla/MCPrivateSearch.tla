--------------------------- MODULE MCPrivateSearch ---------------------------
(* Three names, one of which is the beginning of another and one a whole      *)
(* identifier of that length, in all short files over two characters of       *)
(* identifiers and one other.                                               *)
EXTENDS PrivateSearch

MCNames == {<<"a">>, <<"a", " ", "b">>, <<"b", "a", "b">>}
MCTexts == UNION {[1..n -> {"a", "b", " "}] : n \in 0..6}
==============================================================================

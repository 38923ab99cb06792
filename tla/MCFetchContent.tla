--------------------------- MODULE MCFetchContent ---------------------------
(* Model-checking instance of FetchContent.                                  *)
EXTENDS FetchContent

CONSTANTS g1, y1, w1, w2, w3, m1

\* A URL with a helper alone and beside one without; more URLs than may be under way.
MCInputs == {<<g1>>, <<g1, w1>>, <<y1>>, <<m1, w1, w2>>, <<w1, w2, w3>>}

Grouped == {[grouped |-> TRUE, piped |-> TRUE]}
=============================================================================

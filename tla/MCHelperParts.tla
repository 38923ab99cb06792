--------------------------- MODULE MCHelperParts ----------------------------
(* An instance of HelperParts.                                               *)
EXTENDS MCHelper, HelperParts

MCTexts == {"", "a", "ab", "b"}

MCExtensions == {<<"", t>> : t \in MCTexts}
                  \cup {<<"a", "a">>, <<"a", "ab">>, <<"ab", "ab">>, <<"b", "b">>}
=============================================================================

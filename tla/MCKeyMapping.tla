--------------------------- MODULE MCKeyMapping ---------------------------
(* Short keys: prefixes of one or two characters and up to two after them. *)
EXTENDS KeyMapping

Chars == {"a", "b", "d"}

\* Renamed to characters that occur nowhere else, or not renamed at all.
Apart == {<<<<"a">>, <<"d">>>>, <<<<"a">>, <<"d", "d">>>>, <<<<"a", "d">>, <<"d">>>>,
          <<<<"b", "a">>, <<"d", "a">>>>, <<<<"a">>, <<"a">>>>}
\* A destination that may occur again further back in a key.
Again == {<<<<"a">>, <<"b">>>>, <<<<"b", "a">>, <<"b">>>>}

RestsAB     == BoundedSeq({"a", "b"}, 2)
FewRests    == {<<>>, <<"a">>, <<"a", "b">>}
============================================================================

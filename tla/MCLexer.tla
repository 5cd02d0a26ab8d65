------------------------------ MODULE MCLexer ------------------------------
(* Texts for TLC.                                                           *)
EXTENDS LexicalGrammar

UpTo(A, n) == UNION {[1..k -> A] : k \in 0..n}
Then(S, R) == {s \o r : s \in S, r \in R}

MCKeywords == {<<"i", "f">>, <<"n", "o">>}

(* Any text of at most two characters, three of the more telling.          *)
AnyText == UpTo(Char, 2)
Telling == {"a", "b", "0", "1", ".", "quote", "apostrophe", "backslash", NL, "/", "*",
            "=", "-", "&", "umlaut"}

Words     == Then({<<"i", "f">>, <<"n">>, <<"_">>}, UpTo({"o", "1", "_", "=", " "}, 2))
Comments  == UpTo({"/", "*", NL, "a"}, 6) \cup Then({<<"/", "*">>}, UpTo({"/", "*"}, 6))
Literals  ==
  Then({<<"a", "quote">>, <<"b", "apostrophe">>}, UpTo({"backslash", "quote", "apostrophe", NL, "n"}, 4))
    \cup Then({<<";", "c", "quote", "backslash">>}, UpTo({"quote", "x", "o", "1", "8", "a", "z"}, 3))
Numbers   ==
  Then({<<>>, <<"a", " ">>, <<"0", "x">>, <<"0", "o">>, <<"-", "0", "b">>},
       UpTo({"1", "8", ".", "i", "o", "a"}, 4))
    \cup Then({<<"1">>}, Then(IntSuffix \cup {<<"i">>}, IntSuffix \cup UpTo({"8", ";"}, 2)))
    \cup Then({<<"1", ".">>}, Then(FloatSuffix \cup {<<"f">>}, FloatSuffix \cup UpTo({"d", "3", ";"}, 2)))
    \cup Then({<<"0", "b", "1">>, <<";", "0", "b", "0", "1">>}, UpTo({"b", "1", "o", ";"}, 2))
Operators == UpTo({"=", "-", ">", "&", "/", "(", " "}, 4)
Errors    ==
  Then(UpTo({"a", NL}, 3),
       {<<"&">>, <<"1", "z">>, <<"1", "z", NL>>, <<"umlaut">>, <<"/", "*">>, <<"/", "*", NL>>})

MCTexts ==
  AnyText \cup UpTo(Telling, 3) \cup Words \cup Comments \cup Literals \cup Numbers
    \cup Operators \cup Errors
=============================================================================

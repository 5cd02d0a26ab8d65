-------------------------- MODULE MCStatementParser --------------------------
(* Token lists for TLC.                                                     *)
EXTENDS StatementGrammar

Longer(S, A) == {Append(s, t) : s \in S, t \in A}
Joined(S, T) == {s \o t : s \in S, t \in T}
Closed(S) == Longer(S, {"EOF"})
Word(A) == {<<t>> : t \in A}

(* Up to three tokens of top-level statements.                             *)
Top == {"x", "str", "=", ";", ".", "import", "module", "def", "let", "export",
        "nomangle", "use", ":", "{"}
Tops == Longer(Longer(Word(Top), Top), Top)

(* Beginnings, and what may follow them.                                   *)
Heads ==
  Longer(Longer(Longer({<<"def", "x", "(">>},
    {"x", ")"}), {":", "->", "{", ";"}), {"x", ")", "=", ",", "{", "}"})
DefX == <<"def", "x", "(", ")", "{">>
Inside == {"x", "(", ")", ",", ";", "{", "}", "if", "else", "while", "for",
           "return", "let", "=", "?"}
Begun ==
  {DefX, DefX \o <<"if", "x">>, DefX \o <<"if", "*", "x">>, DefX \o <<"if", "(", "x", ")", ";">>,
   DefX \o <<"for", "(">>, DefX \o <<"for", ",", "x", ",">>,
   DefX \o <<"for", "let", "x", "=", "x">>, DefX \o <<"let", "x", "=", "x", "(">>,
   <<"export", "def", "x", "(", "x", ":", "x">>, <<"let", "x", ":", "x">>,
   <<"export", "nomangle", "let", "x", "=">>, <<"module", "x">>, <<"import", "module">>,
   <<"use", "x", "=", "x">>}

(* The programs that the comments on the syntax and the guide allow, with  *)
(* the parentheses without which the guide says that "sometimes" there is  *)
(* an error.  "var" is an "x".                                             *)
Lines == {<<";">>, <<"x", "(", ")", ";">>, <<"return", "x", ";">>, <<"return", ";">>,
          <<"let", "x", "=", "1", ";">>, <<"x", "=", "x", "*", "1", ";">>}
Definitions ==
  Joined(Joined({<<"let">>, <<"let", "mut">>, <<"x">>}, {<<"x">>, <<"x", ":", "x">>}),
         {<<";">>, <<"=", "1", ";">>}) \ {<<"x", "x", ";">>}
Conditions == {<<"x">>, <<"(", "x", ")">>}
Loops == {<<"(", "let", "x", "=", "1", ",", "x", "<", "x", ",", "x", "=", "x", ")">>,
          <<"(", "x", "x", "=", "1", ",", "x", ",", ")">>, <<"(", ",", ",", ")">>}
Parts == {<<>>, <<"x">>, <<"x", "=", "x">>}
Heads3 ==   \* the heads that are refused: "for" () and those with ";"
  {<<"(", ")">>}
    \cup {<<"(">> \o a \o <<";">> \o b \o <<";">> \o c \o <<")">> : a, b, c \in Parts}
    \cup {<<"(", "let", "x", "=", "1", ";", "x", ";", ")">>}
BareLoops == {<<",", ",">>, <<"let", "x", "=", "1", ",", "x", "<", "x", ",", "x", "=", "x">>}
Choice(S) == Joined(Joined({<<"if">>}, Conditions), S)
Nested(S) ==
  Choice(S) \cup Joined(Joined({<<"while">>}, Conditions), S)
    \cup Joined(Joined({<<"for">>}, Loops), S)
    \cup Joined(Joined({<<"for">>}, BareLoops), Joined({<<"{">>}, Joined(S, {<<"}">>})))
    \cup Joined({<<"{">>}, Joined(S, {<<"}">>}))
Refusable(S) ==
  Joined({<<"if", "(", ")">>, <<"while", "(", ")">>}, S)
    \cup Joined({<<"if", "{">>, <<"while", "{">>}, Joined(S, {<<"}">>}))
    \cup Joined({<<"for">>}, Joined(Heads3, S))
FewLines == {<<"x", "(", ")", ";">>, <<"return", "x", ";">>, <<"{", "}">>}
Statements ==
  Lines \cup Definitions \cup Refusable(FewLines) \cup Choice(Refusable(FewLines))
    \cup Nested(FewLines) \cup Nested(Choice(FewLines)) \cup Joined(Lines, Lines)
    \cup Joined(Choice(FewLines) \cup Choice(Choice(FewLines)), {<<"else", "x", "(", ")", ";">>})
    \cup Joined(Choice(FewLines), {<<"else", "if", "x", ";", "else", "{", "}">>})

Signatures ==
  {<<"(", ")">>, <<"(", "x", ":", "x", ")">>, <<"(", "x", ":", "x", ",", "x", ":", "x", "=", "1", ")">>}
Functions0 ==
  Joined(Joined({<<"def", "x">>}, Joined(Signatures, {<<>>, <<"->", "x">>})),
         {<<";">>, <<"{", "}">>, <<"{", "return", "x", ";", "}">>})
Declarations ==
  {<<"import", "x", ";">>, <<"import", "module", "x", ".", "x", ";">>, <<"import", "str", ";">>,
   <<"import", "package", "x", ";">>, <<"import", "module", "str", ";">>,
   <<"module", "x", ".", "x", ";">>, <<"use", "x", "=", "x", ";">>,
   <<"let", "x", "=", "1", ";">>, <<"let", "mut", "x", ":", "x", ";">>}
    \cup Definitions
Exported == Joined({<<"export">>, <<"export", "nomangle">>},
                   Functions0 \cup {<<"let", "x", ":", "x", "=", "1", ";">>})

Programs ==
  Closed(
    {DefX \o s \o <<"}">> : s \in Statements}
    \cup Functions0 \cup Exported
    \cup Joined(Declarations, Declarations \cup Functions0))

AnyTokens ==
  Closed(Tops \cup Heads \cup Begun \cup Longer(Begun, Inside)
           \cup Longer(Longer(Begun, Inside), Inside)
           \cup Joined(Longer(Longer(Begun, Inside), Inside), {<<"}">>, <<";", "}">>}))
    \cup Programs

OneToken == Closed(Word({"import", "def", "x"}) \cup {DefX})
NoPrograms == {}
=============================================================================

---------------------------- MODULE MCExprParser ----------------------------
(* Token lists for TLC.                                                     *)
EXTENDS ExprGrammar

Longer(S, A) == {Append(s, t) : s \in S, t \in A}
Statement(S) == {s \o <<";", "EOF">> : s \in S}
Closed(S) == {s \o <<"EOF">> : s \in S}

(* Every list of at most three tokens, those of four that have no          *)
(* definition in them, and what may follow the beginning of a call, a      *)
(* parenthesis, a subscript or a variable definition.                      *)
Operating == {"x", "1", "*", "-", "=", "not", "(", ")", ","}
Alphabet  == Operating \cup {"bad", "[", "]", ";", "let"}
Beginning ==
  {<<"x", "(">>, <<"(", "x", "*">>, <<"let", "x", ":", "x">>,
   <<"1", "*", "let", "mut", "x">>, <<"x", "(", "1", ",">>, <<"x", "=", "x", "[">>}

One  == {<<t>> : t \in Alphabet}
Two  == Longer(One, Alphabet)
Four == Longer(Longer(Longer({<<t>> : t \in Operating}, Operating), Operating), Operating)

AnyTokens ==
  Closed(One \cup Two \cup Longer(Two, Alphabet) \cup Four
           \cup Beginning \cup Longer(Longer(Beginning, Alphabet), Alphabet))
    \cup {<<"let", "x", t, "x", "=", "1", "EOF">> : t \in {":", "mut", "?"}}

(* Expression statements without a prefix operator, except as the last     *)
(* operand of the statement, an argument or an assignment.                 *)
Levels == {"as", "*", "-", "<", "==", "and", "or", "="}
FewLevels == {"*", "+", "=", "=="}
Chain(P, Os, Q) == {p \o <<o>> \o q : p \in P, o \in Os, q \in Q}
Around(a, S, b) == {<<a>> \o s \o <<b>> : s \in S}

X  == {<<"x">>}
X2 == Chain(X, FewLevels, X)
X3 == Chain(X2, {"*", "-", "="}, X)
Args(S) == {<<"x", "(">> \o s \o <<")">> : s \in S}
Operands ==
  X \cup Around("(", X2 \cup X3 \cup Around("(", X2, ")"), ")")
    \cup Args(X2 \cup {<<>>} \cup Chain(X, {","}, X \cup X2))
    \cup {<<"x", "[", i, "]">> : i \in {"x", "1"}}
WithPrefix == {<<s, "x">> : s \in {"-", "+", "not"}}

Sentences ==
  Statement(
    Chain(Chain(Chain(X, Levels, X), FewLevels, X), Levels, X)
    \cup Chain(Chain(Operands, {"*", "+"}, X), {"=", "=="}, Operands)
    \cup WithPrefix
    \cup Chain(Chain(X, {"=", "*"}, X \cup Args(WithPrefix)), {"-", "=", "and"},
               WithPrefix \cup Args(WithPrefix)))

Statements == Sentences \cup {}   \* (one sorted set, for TLC)
AnyInput == AnyTokens \cup Statements

(* A sign that more of the expression follows.                             *)
SignFirst == Statement(Chain(WithPrefix, FewLevels \cup {"-"}, X))
SignInParens == Statement(Around("(", WithPrefix, ")") \cup Chain(X, {"*"}, Around("(", WithPrefix, ")")))
=============================================================================

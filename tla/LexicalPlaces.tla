--------------------------- MODULE LexicalPlaces ---------------------------
(***************************************************************************)
(* Where the cursor and the tokens stand, and when reading a text has an   *)
(* undefined effect. No definition here is recursive.                      *)
(***************************************************************************)
EXTENDS Lexer

End == Len(text)
Get(i) == IF i <= End THEN text[i] ELSE NUL

(* Every variable holds a value of its kind, and the cursor is in the text.*)
TypeOK ==
  /\ text \in Texts
  /\ it \in Location /\ it.pos \in 1..(End + 1)
  /\ mode \in {"next", "line comment", "comment", "word", "number", "suffix",
               "literal", "operator", "finish", "done", "undefined"}
  /\ cur \in Char \cup {NUL}
  /\ buf \in Seq(Char \cup {NUL})
  /\ depth \in Nat
  /\ level \in {"none", "warning", "error"}
  /\ start \in 1..(End + 1)
  /\ Len(spans) = Len(tokens)

-----------------------------------------------------------------------------
(* "CHECK(v.at(1).loc.line == 3)" (the tests): the line and column of the  *)
(* cursor, and of every token, are those of its place, and that is where   *)
(* the token begins, except for one that has quotes or a prefix.           *)
OnSpot(l) ==
  /\ l.line = Cardinality({i \in LineBreaks(text) : i < l.pos}) + 1
  /\ l.col = l.pos - Largest({0} \cup {i \in LineBreaks(text) : i < l.pos})

LocationsExact ==
  /\ OnSpot(it)
  /\ \A k \in 1..Len(tokens) :
       LET l == tokens[k].loc IN
       /\ OnSpot(l)
       /\ spans[k][1] <= l.pos /\ l.pos <= spans[k][2] + 1
       /\ \/ l.pos = spans[k][1]
          \/ tokens[k].type \in {"char", "bchar", "string", "cstring"}
          \/ tokens[k].type \in {"integer", "float"} /\ Get(spans[k][1] + 1) \in DOMAIN PrefixOf

(* The last escape of b is \x or \o, and b ends before all of its digits   *)
(* were read.                                                              *)
ShortOf(b, e, n, D) ==
  \E i \in 1..Len(b) : /\ b[i] = "backslash" /\ i < Len(b) /\ b[i + 1] = e
                       /\ Len(b) < i + 1 + n
                       /\ \A j \in (i + 2)..Len(b) : b[j] \in D
ShortEscape(b) == ShortOf(b, "x", 2, isCharHexDigit) \/ ShortOf(b, "o", 3, isCharOctDigit)

LiteralCutShort ==
  /\ text[start] \in DOMAIN LiteralType
  /\ \/ Get(it.pos + 1) = NL
     \/ it.pos = End /\ \E i \in 1..Len(buf) : buf[i] = "backslash"
     \/ ShortEscape(buf)

(* Reading a text has no undefined effect, and stops at no assert(), but   *)
(* in these cases: the first token is refused (run() looks at the last of  *)
(* no tokens); a literal is cut by a line break, ends right after an       *)
(* escape that may have more digits, or has one and is cut by the end of   *)
(* the text; a number with a wrong suffix ends its line or the text; a     *)
(* comment or a prefix of a number ends the text; something is reported on *)
(* the second line when the first is empty (getErrorMessage).              *)
UndefinedOnlyWhen ==
  mode = "undefined" =>
    \/ tokens = <<>> /\ level = "error"
    \/ LiteralCutShort
    \/ text[start] \in isCharDigit \cup {"."} /\ Here \in {NL, NUL} /\ WrongNumber
    \/ ~More /\ depth > 0
    \/ Here = "0" /\ There \in DOMAIN PrefixOf /\ it.pos + 1 = End
    \/ text[1] = NL /\ it.line = 2
=============================================================================

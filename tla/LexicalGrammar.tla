--------------------------- MODULE LexicalGrammar ---------------------------
(***************************************************************************)
(* What the tokens of a text are, said of intervals of the text: no cursor,*)
(* no state. The lexer is checked against it.                              *)
(***************************************************************************)
EXTENDS LexicalPlaces

Slice(lo, hi) == SubSeq(text, lo, hi)
Pair(i) == <<Get(i), Get(i + 1)>>

-----------------------------------------------------------------------------
(* An interval of the text in pieces: where those after the first begin is *)
(* C, and Stop is where the piece that begins at c ends.                   *)
Stop(C, hi, c) == Smallest({d \in C : d > c} \cup {hi + 1}) - 1
Pieces(lo, hi, S) ==
  \/ lo > hi
  \/ \E C \in SUBSET ((lo + 1)..hi) : \A c \in C \cup {lo} : <<c, Stop(C, hi, c)>> \in S

Spans == (1..End) \X (1..End)
Opens(i) == Pair(i) = <<"/", "*">>
Closes(i) == Pair(i) = <<"*", "/">>

(* "C-style multi-line comments ... That nest properly" (the guide): a     *)
(* comment is a pair of marks around characters and comments.              *)
Nested[s \in Spans] ==
  /\ s[2] >= s[1] + 3 /\ Opens(s[1]) /\ Closes(s[2] - 1)
  /\ Pieces(s[1] + 2, s[2] - 2,
            {r \in Spans : Nested[r] \/ (r[1] = r[2] /\ ~Opens(r[1]) /\ ~Closes(r[1]))})

BlockComment(lo, hi) == <<lo, hi>> \in Spans /\ Nested[<<lo, hi>>]

OneLineComment(lo, hi) ==
  /\ Pair(lo) = <<"/", "/">> /\ hi > lo
  /\ \A i \in lo..(hi - 1) : text[i] # NL
  /\ text[hi] = NL \/ hi = End

(* What may stand between two tokens.                                      *)
Blank(lo, hi) ==
  Pieces(lo, hi, {s \in Spans : \/ s[1] = s[2] /\ text[s[1]] \in isCharWhitespace
                                \/ OneLineComment(s[1], s[2]) \/ BlockComment(s[1], s[2])})

(* A comment that never ends is warned about and swallows the rest.        *)
UnclosedAt(lo) ==
  Pair(lo) = <<"/", "*">> /\ ~\E k \in lo..End : BlockComment(lo, k)

BlankToEnd(lo) ==
  \/ Blank(lo, End)
  \/ \E k \in lo..End : Blank(lo, k - 1) /\ UnclosedAt(k)

-----------------------------------------------------------------------------
(* The lexemes.                                                            *)

InSet(lo, hi, S) == \A i \in lo..hi : text[i] \in S

IsWord(lo, hi) ==
  text[lo] \in isValidIdentifierBeginningChar /\ InSet(lo, hi, isValidIdentifierChar)

(* Suffixes in any order, none of them twice.                              *)
Suffixed(lo, hi, S) ==
  \/ lo > hi
  \/ \E C \in SUBSET ((lo + 1)..hi) :
       LET Piece(c) == Slice(c, Stop(C, hi, c))
       IN  \A c \in C \cup {lo} : /\ Piece(c) \in S
                                  /\ \A d \in C \cup {lo} : Piece(c) = Piece(d) => c = d

(* Digits and dots with a suffix; a base only without a dot. A number is   *)
(* not followed by a letter or a digit, its digits not by a dot.           *)
IsNumber(type, lo, hi) ==
  /\ Get(hi + 1) \notin isCharAlnum
  /\ \/ \E k \in lo..hi :
          /\ InSet(lo, k, isCharDigit \cup {"."}) /\ ~InSet(lo, k, {"."})
          /\ Get(k + 1) # "."
          /\ text[lo] # "." \/ Get(lo + 1) \in isCharDigit
          /\ IF InSet(lo, k, isCharDigit)
             THEN type = "integer" /\ Suffixed(k + 1, hi, IntSuffix)
             ELSE type = "float" /\ Suffixed(k + 1, hi, FloatSuffix)
     \/ /\ type = "integer" /\ lo + 2 <= hi
        /\ text[lo] = "0" /\ text[lo + 1] \in DOMAIN PrefixOf
        /\ \E k \in (lo + 2)..hi : /\ Get(k + 1) # "."
                                   /\ InSet(lo + 2, k, DigitsOf[PrefixOf[text[lo + 1]]])
                                   /\ Suffixed(k + 1, hi, IntSuffix)

(* "let g: byte = 0b01010101b; // ... type byte, value 85" (the guide).     *)
IsByte(lo, hi) ==
  /\ lo + 3 <= hi /\ Pair(lo) = <<"0", "b">>
  /\ InSet(lo + 2, hi - 1, isCharBinDigit) /\ text[hi] = "b" /\ Get(hi + 1) \notin isCharAlnum

(* The code takes any character for the first digit after a prefix, the    *)
(* end of the text included; and so 0o, which the guide's suffix o makes   *)
(* a byte, is no number.                                                   *)
TakenUnseen(lo) ==
  /\ Get(lo) = "0" /\ Get(lo + 1) \in DOMAIN PrefixOf
  /\ Get(lo + 2) \notin DigitsOf[PrefixOf[Get(lo + 1)]]

(* A quote ends a literal unless an odd number of backslashes is before it.*)
EndsAt(open, quote, i) ==
  /\ text[i] = quote
  /\ \E k \in (open + 1)..i : /\ InSet(k, i - 1, {"backslash"})
                              /\ text[k - 1] # "backslash"
                              /\ (i - k) % 2 = 0

IsLiteral(type, lo, hi) ==
  LET open == lo + IF text[lo] \in {"b", "c"} THEN 1 ELSE 0
      quote == Quote(text[lo])
  IN  /\ text[lo] \in DOMAIN LiteralType /\ type = LiteralType[text[lo]]
      /\ open < hi /\ Get(open) = quote
      /\ \A i \in (open + 1)..(hi - 1) : text[i] # NL /\ ~EndsAt(open, quote, i)
      /\ EndsAt(open, quote, hi)

(* Where the code ends a literal that has not ended: it looks at two       *)
(* characters only, and the end of the text closes what is open.           *)
EndsElsewhere(lo, hi) ==
  LET open == lo + IF text[lo] \in {"b", "c"} THEN 1 ELSE 0
      quote == Quote(text[lo])
  IN  /\ text[lo] \in DOMAIN LiteralType /\ Get(open) = quote
      /\ \A i \in (open + 1)..hi : text[i] # NL /\ ~EndsAt(open, quote, i)
      /\ \/ hi = End
         \/ /\ open + 3 < hi /\ text[hi] = quote
            /\ InSet(hi - 3, hi - 1, {"backslash"})

(* A dot before a digit begins a number, two slashes a comment.            *)
IsOperator(lo, hi) ==
  /\ Slice(lo, hi) \in operators
  /\ ~(Get(lo) = "." /\ Get(lo + 1) \in isCharDigit)
  /\ Pair(lo) \notin {<<"/", "/">>, <<"/", "*">>}

Lexeme(type, lo, hi) ==
  \/ type = "identifier" /\ IsWord(lo, hi) /\ Slice(lo, hi) \notin Keywords
  \/ type = "keyword" /\ IsWord(lo, hi) /\ Slice(lo, hi) \in Keywords
  \/ type \in {"integer", "float"} /\ IsNumber(type, lo, hi)
  \/ type = "integer" /\ IsByte(lo, hi)
  \/ type = "operator" /\ IsOperator(lo, hi)
  \/ IsLiteral(type, lo, hi)
  \/ type = "DEFAULT" /\ lo = hi /\ text[lo] \in {"DEL", "umlaut"}

TokenType == {"identifier", "keyword", "integer", "float", "operator", "char",
              "bchar", "string", "cstring", "DEFAULT"}

Longest(lo, hi) ==
  \A type \in TokenType : \A k \in (hi + 1)..End : ~Lexeme(type, lo, k)

-----------------------------------------------------------------------------
(* Properties.                                                             *)

After(k) == IF k = 0 THEN 1 ELSE spans[k][2] + 1

Tile(k) ==
  LET lo == spans[k][1]
      hi == spans[k][2]
  IN  IF tokens[k].type = "EOF" THEN lo = End + 1 /\ BlankToEnd(After(k - 1))
      ELSE /\ Blank(After(k - 1), lo - 1)
           /\ \/ Lexeme(tokens[k].type, lo, hi) /\ Longest(lo, hi)
              \/ TakenUnseen(lo) /\ tokens[k].type \in {"integer", "float"}
              \/ EndsElsewhere(lo, hi) /\ tokens[k].type = LiteralType[text[lo]]

(* "C-style multi-line comments that nest properly", "Literal syntax",     *)
(* "Literal suffix" (the guide): the tokens are the longest lexemes, in    *)
(* order, with nothing but blanks and comments before, between and after   *)
(* them, and EOF is the last. Two things the code does are left to it: a   *)
(* prefix before no digit (TakenUnseen), and a literal that has not ended  *)
(* by the rules (EndsElsewhere).                                           *)
TokensTile ==
  \A k \in 1..Len(tokens) : Tile(k) /\ (tokens[k].type = "EOF" => k = Len(tokens))

(* A text is refused, at its first token or later, only at a place where   *)
(* no lexeme begins, and when it is not refused all of it has been read.   *)
(* Two lexemes of the guide are refused none the less: 0o (zero, a byte)   *)
(* before something that goes on as a number (TakenUnseen), and a binary   *)
(* number with the suffix b (IsByte).                                      *)
RefusedForCause ==
  /\ level = "error" =>
       \/ \A type \in TokenType : \A k \in start..End : ~Lexeme(type, start, k)
       \/ TakenUnseen(start)
       \/ \E k \in start..End : IsByte(start, k)
  /\ mode = "done" /\ level # "error" => tokens[Len(tokens)].type = "EOF"

Termination == <>(mode \in {"done", "undefined"})

=============================================================================

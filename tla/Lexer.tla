------------------------------- MODULE Lexer -------------------------------
(***************************************************************************)
(* core::lexer::Lexer: run, getNextToken, comments, words, numbers,        *)
(* literals and operators. One step is one turn of a loop. A character is  *)
(* a string; of those the code treats alike only some are in the alphabet  *)
(* ("b" stands for 'b' and 'B', "umlaut" for every byte above 0x7F).       *)
(***************************************************************************)
EXTENDS SourceLocation

CONSTANTS
  Texts,      \* the files to read
  Keywords    \* the words with a meaning of their own (getTokenTypeFromWord)

VARIABLES
  text,
  it,      \* the cursor
  mode,    \* the loop under way
  cur,     \* currentChar, in a number
  buf,     \* the characters collected
  depth,   \* openCommentCount
  number,  \* the number under way: base, whether it has a dot, suffixes left
  token,   \* the number's token, made before its suffix is read
  level,   \* the error level
  tokens,  \* what run() has collected
  start,   \* history: where the token under way begins
  spans    \* history: where each token began and ended

vars == <<text, it, mode, cur, buf, depth, number, token, level, tokens, start, spans>>
scratch == <<cur, buf, number, token>>

-----------------------------------------------------------------------------
(* Characters.                                                             *)

isCharAlpha == {"a", "b", "c", "d", "f", "i", "l", "n", "o", "x", "z"}
isCharBinDigit == {"0", "1"}
isCharOctDigit == isCharBinDigit \cup {"2", "3", "4", "6"}
isCharDigit == isCharOctDigit \cup {"8"}
isCharHexDigit == isCharDigit \cup {"a", "b", "c", "d", "f"}
isCharAlnum == isCharAlpha \cup isCharDigit
isCharPunctuation ==
  {"+", "-", "*", "/", "%", "=", "<", ">", "!", "&", "|", ".", ",", ":", ";", "(",
   ")", "{", "}", "[", "]", "quote", "apostrophe", "backslash", "_", "@"}
isCharWhitespace == {" ", NL}
isCharControlCharacter == isCharWhitespace \cup {"DEL"}
isValidIdentifierBeginningChar == isCharAlpha \cup {"_"}
isValidIdentifierChar == isCharAlnum \cup {"_"}

Char == isCharAlnum \cup isCharPunctuation \cup isCharControlCharacter \cup {"umlaut"}

ASSUME TextsAssumption == \A t \in Texts : t \in Seq(Char)

operators ==
  {<<x>> : x \in {"=", "+", "-", "*", "/", "%", "<", ">", ".", "!", "(", ")", "{",
                  "}", "[", "]", ":", ";", ","}}
    \cup {<<x, "=">> : x \in {"+", "-", "*", "/", "%", "=", "!", "<", ">"}}
    \cup {<<"&", "&">>, <<"|", "|">>, <<"-", ">">>}

Quote(x) == IF x \in {"apostrophe", "b"} THEN "apostrophe" ELSE "quote"

(* The type and modifier of a literal, by its first character.             *)
LiteralType ==
  [x \in {"apostrophe", "b", "quote", "c"} |->
     CASE x = "apostrophe" -> "char" [] x = "b" -> "bchar"
       [] x = "quote" -> "string" [] x = "c" -> "cstring"]

PrefixOf == [x |-> "hex", o |-> "oct", b |-> "bin"]
DigitsOf == [dec |-> isCharDigit, bin |-> isCharBinDigit,
             oct |-> isCharOctDigit, hex |-> isCharHexDigit]

IntSuffix ==
  {<<"i", "6", "4">>, <<"i", "3", "2">>, <<"i", "1", "6">>, <<"i", "8">>, <<"o">>}
FloatSuffix == {<<"f", "3", "2">>, <<"f", "6", "4">>, <<"d">>, <<"l">>}

-----------------------------------------------------------------------------
(* What is at the cursor; each kind excludes those the code tries before.  *)

More  == HasMore(text, it)
Here  == At(text, it)
There == At(text, Forward(text, it))   \* peekNext

CommentHere == Here = "/" /\ There \in {"/", "*"}
LiteralHere ==
  \/ Here \in {"quote", "apostrophe"}
  \/ <<Here, There>> \in {<<"b", "apostrophe">>, <<"c", "quote">>}
WordHere == Here \in isValidIdentifierBeginningChar /\ ~LiteralHere
NumberHere == Here \in isCharDigit \/ (Here = "." /\ There \in isCharDigit)
OperatorHere ==
  /\ Here \in isCharPunctuation \ {"_"}
  /\ ~LiteralHere /\ ~NumberHere /\ ~CommentHere

(* createToken: from the end of the token back by the length of its value. *)
createToken(type, val, end) ==
  [type |-> type, value |-> val, suffix |-> {},
   loc |-> IF type = "EOF" THEN end ELSE Back(text, end, Len(val))]

(* getNextToken returns t, and the loop of run() goes on or ends.          *)
Deliver(t, from, end, lv) ==
  /\ it' = end
  /\ level' = lv
  /\ IF lv = "error"
     THEN mode' = "finish" /\ UNCHANGED <<tokens, spans>>
     ELSE /\ mode' = IF t.type = "EOF" THEN "finish" ELSE "next"
          /\ tokens' = Append(tokens, t)
          /\ spans' = Append(spans, <<from, end.pos - 1>>)

Goto(m) == mode' = m /\ UNCHANGED <<level, tokens, spans>>

(* lexerWarning, lexerError: the message about l is put together at once.  *)
(* What it reads may lie outside of the text; and it may not be asked for  *)
(* at the end of the text ("\pre it != getEnd()"): with assert() the       *)
(* program stops there, without it the message is that of the last line.   *)
Reported(l)   == MessageDefined(text, l)
Unreported(l) == ~MessageDefined(text, l) \/ ~HasMore(text, l)
Undefined == Goto("undefined") /\ UNCHANGED <<text, it, scratch, depth, start>>

-----------------------------------------------------------------------------
Init ==
  /\ text \in Texts
  /\ it = Start
  /\ mode = "next"
  /\ cur = NUL /\ buf = <<>>
  /\ depth = 0
  /\ number = [base |-> "dec", float |-> FALSE, left |-> {}]
  /\ token = <<>>
  /\ level = "none"
  /\ tokens = <<>>
  /\ start = 1
  /\ spans = <<>>

EndOfText ==
  /\ mode = "next" /\ ~More
  /\ start' = it.pos
  /\ Deliver(createToken("EOF", <<>>, it), it.pos, it, level)
  /\ UNCHANGED <<text, scratch, depth>>

SkipWhitespace ==
  /\ mode = "next" /\ Here \in isCharWhitespace
  /\ it' = Forward(text, it)
  /\ Goto("next")
  /\ UNCHANGED <<text, scratch, depth, start>>

BeginComment ==
  /\ mode = "next" /\ CommentHere
  /\ it' = Twice(text, it)
  /\ Goto(IF There = "/" THEN "line comment" ELSE "comment")
  /\ depth' = IF There = "/" THEN 0 ELSE 1
  /\ UNCHANGED <<text, scratch, start>>

(* _advance tells whether the character it has passed was a line break.    *)
LineComment ==
  /\ mode = "line comment"
  /\ it' = Forward(text, it)
  /\ Goto(IF Here = NL \/ ~HasMore(text, it') THEN "next" ELSE "line comment")
  /\ UNCHANGED <<text, scratch, depth, start>>

(* Mutant: a comment ends at the first end of one.                         *)
CommentFlat ==
  /\ mode = "comment" /\ More
  /\ LET closes == Here = "*" /\ There = "/" IN
     /\ depth' = IF closes THEN 0 ELSE 1
     /\ it' = IF closes THEN Twice(text, it) ELSE Forward(text, it)
     /\ Goto(IF closes THEN "next" ELSE "comment")
  /\ UNCHANGED <<text, scratch, start>>

Comment ==
  /\ mode = "comment" /\ More
  /\ LET opens  == Here = "/" /\ There = "*"
         closes == Here = "*" /\ There = "/"
     IN /\ depth' = IF opens THEN depth + 1 ELSE IF closes THEN depth - 1 ELSE depth
        /\ it' = IF opens \/ closes THEN Twice(text, it) ELSE Forward(text, it)
        /\ Goto(IF depth' = 0 THEN "next" ELSE "comment")
  /\ UNCHANGED <<text, scratch, start>>

(* Mutant: at the end, the comment is looked at again.                     *)
UnclosedAgain == mode = "comment" /\ ~More /\ UNCHANGED vars

UnclosedComment ==
  /\ mode = "comment" /\ ~More
  /\ \/ /\ Reported(it)
        /\ mode' = "next"
        /\ level' = "warning"
        /\ UNCHANGED <<text, it, scratch, depth, tokens, start, spans>>
     \/ Unreported(it) /\ Undefined

(* Characters no token begins with: control characters and unknown ones.   *)
Stray == (isCharControlCharacter \ isCharWhitespace) \cup {"umlaut"}

(* Mutant: the warning comes after the step over the character.            *)
UnrecognizedLate ==
  /\ mode = "next" /\ More
  /\ Here \in Stray
  /\ LET end == Forward(text, it) IN
     IF Reported(end)
     THEN /\ start' = it.pos
          /\ Deliver(createToken("DEFAULT", <<Here>>, end), it.pos, end, "warning")
          /\ UNCHANGED <<text, scratch, depth>>
     ELSE Undefined

(* One is warned about and kept.                                           *)
Unrecognized ==
  /\ mode = "next" /\ More
  /\ Here \in Stray
  /\ IF Reported(it)
     THEN LET end == Forward(text, it) IN
          /\ start' = it.pos
          /\ Deliver(createToken("DEFAULT", <<Here>>, end), it.pos, end, "warning")
          /\ UNCHANGED <<text, scratch, depth>>
     ELSE Undefined

Begin(m, l) ==
  /\ it' = l
  /\ Goto(m)
  /\ start' = it.pos
  /\ buf' = <<>>
  /\ UNCHANGED <<text, token, depth>>

BeginWord == mode = "next" /\ WordHere /\ Begin("word", it) /\ UNCHANGED <<cur, number>>

Word ==
  /\ mode = "word" /\ Here \in isValidIdentifierChar
  /\ buf' = Append(buf, Here)
  /\ it' = Forward(text, it)
  /\ Goto("word")
  /\ UNCHANGED <<text, cur, number, token, depth, start>>

EndWord ==
  /\ mode = "word" /\ Here \notin isValidIdentifierChar
  /\ Deliver(createToken(IF buf \in Keywords THEN "keyword" ELSE "identifier", buf, it),
             start, it, level)
  /\ UNCHANGED <<text, scratch, depth, start>>

-----------------------------------------------------------------------------
(* Numbers.                                                                *)

BeginNumber ==
  /\ mode = "next" /\ NumberHere
  /\ LET prefixed == Here = "0" /\ There \in DOMAIN PrefixOf IN
     /\ Begin("number", IF prefixed THEN Twice(text, it) ELSE it)
     /\ number' = [base |-> IF prefixed THEN PrefixOf[There] ELSE "dec",
                   float |-> Here = ".", left |-> {}]
  /\ cur' = At(text, it')

(* _getNext asserts that something follows the prefix.                     *)
BarePrefix ==
  /\ mode = "next" /\ Here = "0" /\ There \in DOMAIN PrefixOf
  /\ ~HasMore(text, Twice(text, it))
  /\ Undefined

(* do ... while: the first character, which may be any when there was a    *)
(* prefix, is taken unseen.                                                *)
Number ==
  LET end   == Forward(text, it)
      ch    == At(text, end)
      value == Append(buf, cur)
      float == number.float \/ ch = "."
  IN
  /\ mode = "number"
  /\ it' = end
  /\ cur' = ch
  /\ IF ch \in DigitsOf[number.base] \cup {"."}
     THEN /\ Goto("number")
          /\ buf' = value
          /\ number' = [number EXCEPT !.float = float]
          /\ UNCHANGED token
     ELSE /\ Goto("suffix")
          /\ token' = createToken(IF float THEN "float" ELSE "integer", value, end)
          /\ buf' = <<>>
          /\ number' = [number EXCEPT !.left = IF float THEN FloatSuffix ELSE IntSuffix]
  /\ UNCHANGED <<text, depth, start>>

Suffix ==
  LET longer == Append(buf, cur)
      known  == longer \in number.left
  IN
  /\ mode = "suffix" /\ cur \in isCharAlnum
  /\ it' = Forward(text, it)
  /\ cur' = At(text, it')
  /\ buf' = IF known THEN <<>> ELSE longer
  /\ number' = [number EXCEPT !.left = @ \ {longer}]
  /\ token' = [token EXCEPT !.suffix = @ \cup (IF known THEN {longer} ELSE {})]
  /\ Goto("suffix")
  /\ UNCHANGED <<text, depth, start>>

(* What is left is no suffix, or a number with a dot has a prefix.         *)
WrongNumber == buf # <<>> \/ (token.type = "float" /\ number.base # "dec")

EndNumber ==
  /\ mode = "suffix" /\ cur \notin isCharAlnum
  /\ \/ /\ WrongNumber => Reported(it)
        /\ Deliver(token, start, it, IF WrongNumber THEN "error" ELSE level)
        /\ UNCHANGED <<text, scratch, depth, start>>
     \/ WrongNumber /\ Unreported(it) /\ Undefined

-----------------------------------------------------------------------------
(* String and character literals: the cursor is on the opening quote.      *)

BeginLiteral ==
  /\ mode = "next" /\ LiteralHere
  /\ Begin("literal", IF Here \in {"b", "c"} THEN Forward(text, it) ELSE it)
  /\ UNCHANGED <<cur, number>>

(* How many characters of b from i on, at most n, are in D.                *)
Digits(b, i, n, D) ==
  Largest({k \in 0..n : i + k <= Len(b) + 1 /\ \A j \in i..(i + k - 1) : b[j] \in D})

(* The second half of lexStringLiteral: what b stands for, whether an      *)
(* escape in it was warned about and dropped, and whether a digit of \x or *)
(* \o was looked for past the end of b: an undefined effect, or the NUL    *)
(* that a std::string keeps there. The number that they give is left out.  *)
Escaped(b, quote) ==
  LET Put(ch, r) == [r EXCEPT !.value = <<ch>> \o @]
      f[i \in 1..(Len(b) + 2)] ==
        IF i > Len(b) THEN [value |-> <<>>, warned |-> FALSE, past |-> i > Len(b) + 1]
        ELSE IF b[i] # "backslash" \/ i = Len(b) THEN Put(b[i], f[i + 1])
        ELSE LET e == b[i + 1]
                 most == IF e = "x" THEN 2 ELSE IF e = "o" THEN 3 ELSE 0
                 n == Digits(b, i + 2, most, IF e = "x" THEN isCharHexDigit ELSE isCharOctDigit)
                 next == i + 2 + n + IF n < most /\ i + 2 + n > Len(b) THEN 1 ELSE 0
             IN  CASE e \in {"backslash", quote} -> Put(e, f[i + 2])
                   [] e \in {"n", "b", "a", "f"} -> Put("control", f[i + 2])
                   [] e \in {"quote", "apostrophe"} \ {quote} -> Put("backslash", f[i + 2])
                   [] e \in {"x", "o"} /\ n > 0 -> Put("code", f[next])
                   [] OTHER -> [f[next] EXCEPT !.warned = TRUE]
  IN f[1]

(* A quote is escaped by a backslash, unless another stands before that.   *)
QuoteEscaped(l) == text[l.pos - 1] = "backslash" /\ text[l.pos - 2] # "backslash"

(* A line break in a literal is an error reported at the line break, where *)
(* no message can be made (MessageDefined).                                *)
BrokenLiteral ==
  /\ mode = "literal"
  /\ At(text, Forward(text, it)) = NL
  /\ Undefined

Literal ==
  LET here == Forward(text, it)
      ch   == At(text, here)
  IN
  /\ mode = "literal" /\ HasMore(text, here) /\ ch # NL
  /\ ch = Quote(text[start]) => QuoteEscaped(here)
  /\ it' = here
  /\ buf' = Append(IF ch = Quote(text[start]) THEN SubSeq(buf, 1, Len(buf) - 1) ELSE buf, ch)
  /\ Goto("literal")
  /\ UNCHANGED <<text, cur, number, token, depth, start>>

(* The closing quote, or the end of the text, which is no error.           *)
CloseLiteral(end) ==
  LET here == Forward(text, it)
      r    == Escaped(buf, Quote(text[start]))
  IN
  /\ mode = "literal"
  /\ HasMore(text, here) => At(text, here) = Quote(text[start]) /\ ~QuoteEscaped(here)
  /\ \/ /\ r.warned => Reported(here)
        /\ Deliver(createToken(LiteralType[text[start]], r.value, end), start, end,
                   IF r.warned THEN "warning" ELSE level)
        /\ UNCHANGED <<text, scratch, depth, start>>
     \/ (r.past \/ (r.warned /\ Unreported(here))) /\ Undefined

(* Mutant: the end of the text is stepped over as a quote is.              *)
EndLiteralPast == CloseLiteral([Forward(text, it) EXCEPT !.pos = @ + 1, !.col = @ + 1])

EndLiteral == CloseLiteral(Twice(text, it))

-----------------------------------------------------------------------------
(* Operators and punctuation.                                              *)

BeginOperator ==
  mode = "next" /\ OperatorHere /\ Begin("operator", it) /\ UNCHANGED <<cur, number>>

(* Mutant: a known operator goes on with anything.                         *)
ExtendsEagerly == Here \in isCharPunctuation /\ Len(buf) < 2

(* What is known goes on as long as it stays known; what is not goes on.   *)
Extends == Here \in isCharPunctuation /\ (buf \in operators => Append(buf, Here) \in operators)

Operator ==
  /\ mode = "operator" /\ Extends
  /\ buf' = Append(buf, Here)
  /\ it' = Forward(text, it)
  /\ Goto("operator")
  /\ UNCHANGED <<text, cur, number, token, depth, start>>

EndOperator ==
  /\ mode = "operator" /\ ~Extends
  /\ LET lv == IF buf \in operators THEN level ELSE "error" IN
     IF lv = "error" => Reported(Back(text, it, Len(buf)))
     THEN /\ Deliver(createToken("operator", buf, it), start, it, lv)
          /\ UNCHANGED <<text, scratch, depth, start>>
     ELSE Undefined

-----------------------------------------------------------------------------
(* After the loop, run() looks at the last of its tokens.                  *)
Finish ==
  /\ mode = "finish"
  /\ mode' = IF tokens = <<>> THEN "undefined" ELSE "done"
  /\ level' = IF tokens = <<>> THEN "error"
              ELSE IF tokens[Len(tokens)].type # "EOF" THEN "error" ELSE level
  /\ UNCHANGED <<text, it, scratch, depth, tokens, start, spans>>

Over == mode \in {"done", "undefined"} /\ UNCHANGED vars

getNextToken ==
  \/ EndOfText \/ SkipWhitespace
  \/ BeginComment \/ LineComment \/ Comment \/ UnclosedComment
  \/ Unrecognized
  \/ BeginWord \/ Word \/ EndWord
  \/ BeginNumber \/ BarePrefix \/ Number \/ Suffix \/ EndNumber
  \/ BeginLiteral \/ BrokenLiteral \/ Literal \/ EndLiteral
  \/ BeginOperator \/ Operator \/ EndOperator

Next == getNextToken \/ Finish \/ Over

Spec == Init /\ [][Next]_vars

(* One thread, which nothing interrupts.                                   *)
FairSpec == Spec /\ WF_vars(getNextToken \/ Finish)
=============================================================================

--------------------------- MODULE StatementProofs ---------------------------
(***************************************************************************)
(* Proofs about Parser::run and the functions that parse statements, for   *)
(* every set of token lists: the variables keep to their kinds, and what   *)
(* is accepted without a message is a program, token by token.             *)
(*                                                                         *)
(* Until something is reported, every function under way has read exactly  *)
(* the tokens that its point in the code promises (ShapesInv), the         *)
(* expression it waits for has eaten nothing foreign since it began        *)
(* (EatenInv, from ExprParserProofs), every node made is a statement of    *)
(* the language or a leaf (NodesInv), and the top-level nodes claim all    *)
(* that lies before the statement under way (TopInv).  IInv is inductive;  *)
(* its steps are first proved for the moves the functions are made of      *)
(* (Going, Evaluating, Rejecting, Calling, Returning, Topped, Started) and *)
(* then for the functions, one by one.                                     *)
(***************************************************************************)
EXTENDS StatementGrammar, StackFacts, TLAPS

(* What is proved of parseExpression, as the statement parser uses it.     *)
EP == INSTANCE ExprParserProofs

LEMMA ExpressionInputs == EP!InputsAssumption
BY InputsAssumption
DEF EP!InputsAssumption, EP!TokenClass, E!TokenClass, EP!BinaryPrecedence,
    E!BinaryPrecedence, EP!Unknown, E!Unknown

LEMMA SameStep ==
  ASSUME E!Step
  PROVE  EP!Step
<1> USE DEF E!Scanning, EP!Scanning, E!F, EP!F, E!Token, EP!Token, E!Replace,
            EP!Replace, E!Advance, EP!Advance, E!Fixed, EP!Fixed, E!BreakLoop,
            EP!BreakLoop, E!Closing, EP!Closing, E!Top, EP!Top, E!ReduceUnchecked,
            EP!ReduceUnchecked, E!Applied, EP!Applied, E!Node, EP!Node, E!Undefined,
            EP!Undefined, E!IsSign, EP!IsSign, E!isBinaryOperator, EP!isBinaryOperator,
            E!getBinOpPrecedence, EP!getBinOpPrecedence, E!BinaryPrecedence,
            EP!BinaryPrecedence, E!Push, EP!Push, E!AtBinary, EP!AtBinary, E!Reduces,
            EP!Reduces, E!isBinOpRightAssociative, EP!isBinOpRightAssociative,
            E!Deliver, EP!Deliver, E!Leaf, EP!Leaf, E!Refuse, EP!Refuse, E!Call,
            EP!Call, E!Frame, EP!Frame, E!Empty, EP!Empty, E!parserError,
            EP!parserError, E!Unknown, EP!Unknown, E!isUnaryOperator,
            EP!isUnaryOperator, E!Returning, EP!Returning, E!Value, EP!Value, E!Last,
            EP!Last, E!Front, EP!Front
<1>1. E!OpenParen => EP!OpenParen
  BY DEF E!OpenParen, EP!OpenParen
<1>2. E!StopAtParen => EP!StopAtParen
  BY DEF E!StopAtParen, EP!StopAtParen
<1>3. E!ReduceInParens => EP!ReduceInParens
  BY DEF E!ReduceInParens, EP!ReduceInParens
<1>4. E!CloseParen => EP!CloseParen
  BY DEF E!CloseParen, EP!CloseParen
<1>5. E!PushSign => EP!PushSign
  BY DEF E!PushSign, EP!PushSign
<1>6. E!ReduceBinary => EP!ReduceBinary
  BY DEF E!ReduceBinary, EP!ReduceBinary
<1>7. E!PushBinary => EP!PushBinary
  BY DEF E!PushBinary, EP!PushBinary
<1>8. E!PushPrefix => EP!PushPrefix
  BY DEF E!PushPrefix, EP!PushPrefix
<1>9. E!Literal => EP!Literal
  BY DEF E!Literal, EP!Literal
<1>10. E!BadLiteral => EP!BadLiteral
  BY DEF E!BadLiteral, EP!BadLiteral
<1>11. E!Variable => EP!Variable
  BY DEF E!Variable, EP!Variable
<1>12. E!BeginSubscript => EP!BeginSubscript
  BY DEF E!BeginSubscript, EP!BeginSubscript
<1>13. E!EmptyCall => EP!EmptyCall
  BY DEF E!EmptyCall, EP!EmptyCall
<1>14. E!BeginCall => EP!BeginCall
  BY DEF E!BeginCall, EP!BeginCall
<1>15. E!Let => EP!Let
  BY DEF E!Let, EP!Let
<1>16. E!StopAtDelimiter => EP!StopAtDelimiter
  BY DEF E!StopAtDelimiter, EP!StopAtDelimiter
<1>17. E!UnexpectedEof => EP!UnexpectedEof
  BY DEF E!UnexpectedEof, EP!UnexpectedEof
<1>18. E!Unrecognized => EP!Unrecognized
  BY DEF E!Unrecognized, EP!Unrecognized
<1>19. E!StopAtEnd => EP!StopAtEnd
  BY DEF E!StopAtEnd, EP!StopAtEnd
<1>20. E!ReduceFinal => EP!ReduceFinal
  BY DEF E!ReduceFinal, EP!ReduceFinal
<1>21. E!Lost => EP!Lost
  BY DEF E!Lost, EP!Lost
<1>22. E!ReturnStatement => EP!ReturnStatement
  BY DEF E!ReturnStatement, EP!ReturnStatement
<1>23. E!ReturnSubscript => EP!ReturnSubscript
  BY DEF E!ReturnSubscript, EP!ReturnSubscript
<1>24. E!ReturnArgument => EP!ReturnArgument
  BY DEF E!ReturnArgument, EP!ReturnArgument
<1>25. E!ReturnInitialiser => EP!ReturnInitialiser
  BY DEF E!ReturnInitialiser, EP!ReturnInitialiser
<1>26. E!ReturnNull => EP!ReturnNull
  BY DEF E!ReturnNull, EP!ReturnNull
<1> QED
  BY <1>1, <1>2, <1>3, <1>4, <1>5, <1>6, <1>7, <1>8, <1>9, <1>10, <1>11, <1>12, <1>13,
     <1>14, <1>15, <1>16, <1>17, <1>18, <1>19, <1>20, <1>21, <1>22, <1>23, <1>24, <1>25,
     <1>26 DEF E!Step, EP!Step

-----------------------------------------------------------------------------
(* The invariant, first what holds whatever happened.                      *)

Points(fn) ==
  CASE fn = "def" -> {"begin", "params", "default", "init", "separator", "result",
                      "body?", "body", "done"}
    [] fn = "global" -> {"value"}
    [] fn = "block" -> {"begin", "loop", "done"}
    [] fn = "if" -> {"begin", "cond", "then", "else?", "else", "done"}
    [] fn = "while" -> {"begin", "cond", "body", "done"}
    [] fn = "for" -> {"begin", "init", "end?", "end", "step?", "step", "body", "done"}
    [] fn = "return" -> {"begin", "value", "done"}
    [] fn = "simple" -> {"value", "done"}

Function == {"def", "global", "block", "if", "while", "for", "return", "simple"}

CallOK(f) ==
  /\ DOMAIN f = {"fn", "at", "from", "mark", "kids", "export"}
  /\ f.fn \in Function /\ f.at \in Points(f.fn)
  /\ f.from \in 1..Len0 /\ f.mark \in 1..Len0
  /\ IsSeq(f.kids) /\ f.export \in BOOLEAN

Called(f) == f.at \in {"loop", "then", "else", "body"}

CallsInv ==
  /\ IsSeq(calls)
  /\ \A i \in 1..Len(calls) :
       /\ CallOK(calls[i])
       /\ i = 1 <=> calls[i].fn \in {"def", "global"}
       /\ i < Len(calls) => Called(calls[i])

(* A function begins at the first token of what it parses.                 *)
Opening(fn) == IF fn = "block" THEN "{" ELSE fn

AtBegin ==
  calls # <<>> /\ C.at = "begin" => it = C.from /\ toks[it] = Opening(C.fn)

ExpressionInv ==
  outcome = "running" => calls # <<>> /\ C.at \in Waiting /\ EP!IInv

TypeInv ==
  /\ toks \in Inputs
  /\ it \in 1..(Len0 + 2) /\ (calls # <<>> => it <= Len0 + 1)
  /\ error \in BOOLEAN /\ logged \in BOOLEAN
  /\ outcome \in {"running", "parsed", "null", "undefined"}
  /\ result \in {"parsing", "returned", "thrown", "undefined"}
  /\ IsSeq(nodes)
  /\ CallsInv /\ AtBegin /\ ExpressionInv

-----------------------------------------------------------------------------
(* Then what holds as long as nothing was reported.  First the expression  *)
(* under way: it began at C.mark, and has eaten nothing foreign.           *)

Clean(lo, hi) == \A i \in lo..hi : toks[i] \notin Foreign

Defines(f) ==
  \/ f.fn = "global" \/ (f.fn = "for" /\ f.at = "init")
  \/ f.fn = "simple" /\ toks[f.from] = "let"

Eaten(f) ==
  IF Defines(f)
  THEN it > f.mark + 1 /\ toks[f.mark + 1] \in {"x", "mut"} /\ Clean(f.mark + 1, it - 1)
  ELSE it >= f.mark /\ Clean(f.mark, it - 1)

EatenInv ==
  calls # <<>> /\ C.at \in Waiting /\ outcome \in {"running", "parsed"} =>
    \/ outcome = "running" /\ Defines(C) /\ E!F.mode = "define" /\ it = C.mark
    \/ (outcome = "running" => E!F.mode # "define") /\ Eaten(C)

(* The shape of a function under way, whose part up to e has been parsed.  *)

DefaultValue(n) == n.kind = "expr" /\ toks[n.from - 1] = "="
Separated(n) == toks[n.to + 1] \in {",", ")"}
Defaults(K) == \A i \in DOMAIN K : DefaultValue(K[i]) /\ Separated(K[i])

AfterSignature(e) == toks[e - 1] = ")" \/ (toks[e - 2] = "->" /\ toks[e - 1] = "x")

DefShape(f, e) ==
  /\ f.at # "begin" => toks[f.from + 2] = "("
  /\ f.at = "begin" => f.kids = <<>>
  /\ f.at \in {"params", "default", "init", "result", "body?", "body"} => Defaults(f.kids)
  /\ f.at = "separator" =>
       \A i \in DOMAIN f.kids :
         DefaultValue(f.kids[i]) /\ (Separated(f.kids[i]) \/ f.kids[i].to + 1 = e)
  /\ f.at = "init" => toks[e - 1] = "="
  /\ f.at = "result" => toks[e - 1] = ")"
  /\ f.at \in {"body?", "body"} => AfterSignature(e)
  /\ f.at = "done" => IsFunction(Node("def", f.from, e - 1, f.kids))
                      /\ f.kids # <<>>

BlockShape(f, e) ==
  /\ f.at = "begin" => f.kids = <<>>
  /\ f.at = "loop" => /\ Tile(f.kids, f.from + 1, e - 1)
                      /\ \A i \in DOMAIN f.kids : IsBody(f.kids[i])

(* if and while, up to the first statement and behind it.                  *)
Condition(f, e) ==
  /\ Optional(f.from, "(", f.kids[1].from) /\ IsExpression(f.kids[1])
  /\ Optional(f.kids[1].to, ")", e)

Branch(f, e) ==
  Condition(f, f.kids[2].from) /\ IsBody(f.kids[2]) /\ f.kids[2].to = e - 1

ChoiceShape(f, e) ==
  /\ f.at \in {"begin", "cond"} => f.kids = <<>>
  /\ f.at = "cond" => Optional(f.from, "(", e)
  /\ f.at \in {"then", "body"} => Len(f.kids) = 1 /\ Condition(f, e)
  /\ f.at = "else?" => Len(f.kids) = 2 /\ Branch(f, e)
  /\ f.at = "else" => Len(f.kids) = 2 /\ Branch(f, e - 1) /\ toks[e - 1] = "else"

ForStart(f, e) ==
  /\ Optional(f.from, "(", f.kids[1].from)
  /\ f.kids[1].kind = "none" \/ IsDefinition(f.kids[1])
  /\ toks[f.kids[1].to + 1] = "," /\ e = f.kids[1].to + 2

ForEnd(f, e) ==
  /\ ForStart(f, f.kids[2].from)
  /\ f.kids[2].kind = "none" \/ IsExpression(f.kids[2])
  /\ toks[f.kids[2].to + 1] = "," /\ e = f.kids[2].to + 2

ForHead(f, e) ==
  /\ ForEnd(f, f.kids[3].from)
  /\ f.kids[3].kind = "none" \/ IsExpression(f.kids[3])
  /\ Optional(f.kids[3].to, ")", e)

ForShape(f, e) ==
  /\ f.at \in {"begin", "init"} => f.kids = <<>>
  /\ f.at = "init" => Optional(f.from, "(", e)
  /\ f.at \in {"end?", "end"} => Len(f.kids) = 1 /\ ForStart(f, e)
  /\ f.at \in {"step?", "step"} => Len(f.kids) = 2 /\ ForEnd(f, e)
  /\ f.at = "body" => Len(f.kids) = 3 /\ ForHead(f, e)

LineShape(f, e) ==
  /\ f.at \in {"begin", "value"} => f.kids = <<>>
  /\ f.at = "value" => e = f.from + IF f.fn = "return" THEN 1 ELSE 0

Shape(f, e) ==
  /\ f.fn \notin {"simple", "block"} => toks[f.from] = IF f.fn = "global" THEN "let" ELSE f.fn
  /\ f.fn = "block" => toks[f.from] = "{"
  /\ f.fn = "def" => DefShape(f, e)
  /\ f.fn = "block" => BlockShape(f, e)
  /\ f.fn \in {"if", "while"} => ChoiceShape(f, e)
  /\ f.fn = "for" => ForShape(f, e)
  /\ f.fn \in {"return", "simple", "global"} => LineShape(f, e)
  /\ f.at = "done" /\ f.fn # "def" => IsStatement(Node(f.fn, f.from, e - 1, f.kids))

(* How far the i-th function has parsed.                                   *)
End(i) ==
  IF i < Len(calls) THEN calls[i + 1].from
  ELSE IF C.at \in Waiting THEN C.mark ELSE it

ShapesInv == \A i \in 1..Len(calls) : Shape(calls[i], End(i))

(* The nodes made so far keep the rules.                                   *)
Proper(n) ==
  /\ DOMAIN n = {"kind", "from", "to", "kids"}
  /\ n.from \in Int /\ n.to \in Int /\ IsSeq(n.kids)
  /\ n.kind \in {"expr", "let", "none"} \/ IsStatement(n)

Lawful(S) == \A n \in S : Proper(n) /\ Range(n.kids) \subseteq S

Semicolon(k) == toks[k] = ";"

TopNode(n) ==
  /\ DOMAIN n = {"kind", "from", "to", "kids"}
  /\ n.from \in Int /\ n.to \in Int /\ IsSeq(n.kids)
  /\ \/ n.kind \in {"import", "module", "use"}
        /\ toks[n.from] = n.kind /\ Semicolon(n.to)
     \/ n.kind = "empty" /\ IsLine(n)
     \/ n.kind = "def" /\ IsFunction(n)
     \/ n.kind = "global" /\ Semicolon(n.to) /\ IsDefinition(n.kids[1])
          /\ Tile(n.kids, n.from, n.to - 1)

Made ==
  UNION ({Range(nodes[i].kids) : i \in DOMAIN nodes}
           \cup {Range(calls[i].kids) : i \in DOMAIN calls})

NodesInv ==
  \E S : Lawful(S) /\ Made \subseteq S

(* Where the top-level statement under way began.                          *)
Start ==
  IF calls = <<>> THEN it ELSE Exports(Node(calls[1].fn, calls[1].from, 0, <<>>))

Complete(k) == toks[k] \in {";", "}"}

TopInv ==
  /\ \A i \in DOMAIN nodes : TopNode(nodes[i])
  /\ Tile([i \in DOMAIN nodes |-> [nodes[i] EXCEPT !.from = Exports(nodes[i])]],
          1, Start - 1)
  /\ calls = <<>> /\ it > 1 => Complete(it - 1)

Good == ~error /\ ~logged

(* A function definition asks for a block only.                            *)
BodyInv == Len(calls) > 1 /\ calls[1].fn = "def" => calls[2].fn = "block"

Whole == EatenInv /\ ShapesInv /\ BodyInv /\ NodesInv /\ TopInv

Finished == result = "returned" /\ ~error => calls = <<>> /\ it = Len0

IInv == TypeInv /\ (Good => Whole) /\ Finished

-----------------------------------------------------------------------------
(* Tokens, and the function under way.                                     *)

LEMMA TokenFacts ==
  ASSUME toks \in Inputs
  PROVE  /\ toks \in Seq(E!TokenClass) /\ Len0 \in Nat /\ Len0 > 0
         /\ DOMAIN toks = 1..Len0
         /\ \A j \in 1..Len0 : toks[j] = "EOF" <=> j = Len0
         /\ \A j \in 1..Len0 : toks[j] # "EOF" => j + 1 \in 1..Len0
<1>1. /\ toks \in Seq(E!TokenClass) /\ toks # <<>>
      /\ \A j \in DOMAIN toks : toks[j] = "EOF" <=> j = Len(toks)
  BY InputsAssumption
<1>2. Len0 \in Nat /\ Len0 > 0 /\ DOMAIN toks = 1..Len0
  BY <1>1, LenProperties, EmptySeq DEF Len0
<1>3. ASSUME NEW j \in 1..Len0, toks[j] # "EOF" PROVE j + 1 \in 1..Len0
  <2>1. j # Len0
    BY <1>1, <1>2, <1>3 DEF Len0
  <2> QED
    BY <1>2, <2>1
<1> QED
  BY <1>1, <1>2, <1>3 DEF Len0

LEMMA TopCall ==
  ASSUME TypeInv, calls # <<>>
  PROVE  /\ IsSeq(calls) /\ Len(calls) \in Nat /\ Len(calls) > 0
         /\ DOMAIN calls = 1..Len(calls) /\ C = calls[Len(calls)]
         /\ CallOK(C)
         /\ C.fn \in {"def", "global"} <=> Len(calls) = 1
         /\ it \in 1..(Len0 + 1)
<1>1. IsSeq(calls)
  BY DEF TypeInv, CallsInv
<1>2. Len(calls) \in Nat /\ Len(calls) > 0 /\ DOMAIN calls = 1..Len(calls)
  BY <1>1, SeqFacts
<1>3. C = calls[Len(calls)]
  BY DEF C, Last
<1>4. Len(calls) \in 1..Len(calls) /\ Len0 \in Nat
  BY <1>2, TokenFacts DEF TypeInv
<1>5. it \in 1..(Len0 + 1)
  BY <1>4 DEF TypeInv
<1> QED
  BY <1>1, <1>2, <1>3, <1>4, <1>5 DEF TypeInv, CallsInv

(* The call below the innermost.                                           *)
LEMMA CallBelow ==
  ASSUME TypeInv, calls # <<>>, Front(calls) # <<>>
  PROVE  /\ IsSeq(Front(calls)) /\ Len(calls) > 1 /\ Len(Front(calls)) = Len(calls) - 1
         /\ \A k \in 1..(Len(calls) - 1) : Front(calls)[k] = calls[k]
         /\ Last(Front(calls)) = calls[Len(calls) - 1]
         /\ CallOK(Last(Front(calls))) /\ Called(Last(Front(calls)))
         /\ Last(Front(calls)).fn \in {"def", "global"} <=> Len(calls) - 1 = 1
<1>1. IsSeq(calls) /\ Len(calls) \in Nat /\ Len(calls) > 0
  BY TopCall
<1>2. /\ IsSeq(Front(calls)) /\ Len(Front(calls)) = Len(calls) - 1
      /\ \A k \in 1..(Len(calls) - 1) : Front(calls)[k] = calls[k]
  BY <1>1, Shortened
<1>3. Len(Front(calls)) > 0
  BY <1>2, SeqFacts
<1>4. Len(calls) - 1 \in 1..(Len(calls) - 1) /\ Len(calls) - 1 \in 1..Len(calls)
  BY <1>1, <1>2, <1>3
<1>5. Last(Front(calls)) = calls[Len(calls) - 1]
  BY <1>2, <1>4 DEF Last
<1>6. Len(calls) > 1
  BY <1>1, <1>2, <1>3
<1> QED
  BY <1>1, <1>2, <1>4, <1>5, <1>6 DEF TypeInv, CallsInv

(* What the stack of calls becomes.                                        *)
LEMMA CallsEmptied ==
  ASSUME calls' = <<>>
  PROVE  CallsInv' /\ AtBegin'
BY NothingIsSeq DEF CallsInv, AtBegin

LEMMA CallsReplaced ==
  ASSUME TypeInv, calls # <<>>, toks' = toks, NEW f, CallOK(f), f.fn = C.fn,
         calls' = Append(Front(calls), f)
  PROVE  /\ CallsInv' /\ C' = f /\ calls' # <<>> /\ Len(calls') = Len(calls)
         /\ \A k \in 1..(Len(calls) - 1) : calls'[k] = calls[k]
         /\ calls'[Len(calls)] = f
<1>0. /\ Len(calls) \in Nat /\ Len(calls) > 0 /\ IsSeq(calls)
      /\ f.fn \in {"def", "global"} <=> Len(calls) = 1
  BY TopCall
<1>1. /\ IsSeq(calls') /\ calls' # <<>>
      /\ Last(calls') = f /\ Len(calls') = Len(calls)
      /\ \A k \in 1..(Len(calls) - 1) : calls'[k] = calls[k]
      /\ calls'[Len(calls)] = f
  BY <1>0, Replaced
<1>2. ASSUME NEW k \in 1..Len(calls)
      PROVE  /\ CallOK(calls[k])'
             /\ k = 1 <=> calls'[k].fn \in {"def", "global"}
             /\ k < Len(calls) => Called(calls'[k])
  <2>1. CASE k = Len(calls)
    BY <1>0, <1>1, <2>1 DEF CallOK, Len0
  <2>2. CASE k # Len(calls)
    <3>1. k \in 1..(Len(calls) - 1)
      BY <1>0, <2>2
    <3>2. CallOK(calls[k]) /\ (k = 1 <=> calls[k].fn \in {"def", "global"}) /\ Called(calls[k])
      BY <3>1, TopCall DEF TypeInv, CallsInv
    <3> QED
      BY <1>0, <1>1, <3>1, <3>2 DEF CallOK, Len0
  <2> QED
    BY <2>1, <2>2
<1> QED
  BY <1>1, <1>2 DEF CallsInv, C, Called

LEMMA CallsPushed ==
  ASSUME TypeInv, calls # <<>>, toks' = toks, NEW f, CallOK(f), f.fn = C.fn, Called(f),
         NEW g, CallOK(g), g.fn \notin {"def", "global"},
         calls' = Append(Append(Front(calls), f), g)
  PROVE  /\ CallsInv' /\ C' = g /\ calls' # <<>> /\ Len(calls') = Len(calls) + 1
         /\ \A k \in 1..(Len(calls) - 1) : calls'[k] = calls[k]
         /\ calls'[Len(calls)] = f /\ calls'[Len(calls) + 1] = g
<1> DEFINE s == Append(Front(calls), f)
<1>0. /\ Len(calls) \in Nat /\ Len(calls) > 0 /\ IsSeq(calls)
      /\ f.fn \in {"def", "global"} <=> Len(calls) = 1
  BY TopCall
<1>1. /\ IsSeq(s) /\ Len(s) = Len(calls)
      /\ \A k \in 1..(Len(calls) - 1) : s[k] = calls[k]
      /\ s[Len(calls)] = f
  BY <1>0, Replaced
<1>9. calls' = Append(s, g)
  OBVIOUS
<1> HIDE DEF s
<1>2. /\ IsSeq(calls') /\ calls' # <<>> /\ Last(calls') = g /\ Len(calls') = Len(calls) + 1
      /\ \A k \in 1..Len(calls) : calls'[k] = s[k]
      /\ calls'[Len(calls) + 1] = g
  BY <1>1, <1>9, Appended
<1>3. Len(calls) \in 1..Len(calls) /\ \A k \in 1..(Len(calls) - 1) : k \in 1..Len(calls)
  BY <1>0
<1>4. /\ \A k \in 1..(Len(calls) - 1) : calls'[k] = calls[k]
      /\ calls'[Len(calls)] = f
  BY <1>1, <1>2, <1>3
<1>5. ASSUME NEW k \in 1..(Len(calls) + 1)
      PROVE  /\ CallOK(calls[k])'
             /\ k = 1 <=> calls'[k].fn \in {"def", "global"}
             /\ k < Len(calls) + 1 => Called(calls'[k])
  <2>1. CASE k = Len(calls) + 1
    BY <1>0, <1>2, <2>1 DEF CallOK, Len0
  <2>2. CASE k = Len(calls)
    BY <1>0, <1>4, <2>2 DEF CallOK, Len0
  <2>3. CASE k # Len(calls) /\ k # Len(calls) + 1
    <3>1. k \in 1..(Len(calls) - 1)
      BY <1>0, <2>3
    <3>2. CallOK(calls[k]) /\ (k = 1 <=> calls[k].fn \in {"def", "global"}) /\ Called(calls[k])
      BY <3>1, TopCall DEF TypeInv, CallsInv
    <3> QED
      BY <1>0, <1>4, <3>1, <3>2 DEF CallOK, Len0
  <2> QED
    BY <2>1, <2>2, <2>3
<1> QED
  BY <1>2, <1>4, <1>5 DEF CallsInv, C, Called

LEMMA CallsReturned ==
  ASSUME TypeInv, calls # <<>>, Front(calls) # <<>>, toks' = toks, NEW f, CallOK(f),
         f.fn = Last(Front(calls)).fn,
         calls' = Append(Front(Front(calls)), f)
  PROVE  /\ CallsInv' /\ C' = f /\ calls' # <<>> /\ Len(calls') = Len(calls) - 1
         /\ \A k \in 1..(Len(calls) - 2) : calls'[k] = calls[k]
         /\ calls'[Len(calls) - 1] = f
<1> PICK s : s = Front(calls)
  OBVIOUS
<1>1. /\ IsSeq(s) /\ s # <<>> /\ Len(s) = Len(calls) - 1 /\ Len(calls) \in Nat /\ Len(calls) > 1
      /\ \A k \in 1..(Len(calls) - 1) : s[k] = calls[k]
  BY TopCall, CallBelow
<1>0. f.fn \in {"def", "global"} <=> Len(calls) - 1 = 1
  BY CallBelow
<1>2. /\ IsSeq(calls') /\ calls' # <<>> /\ Last(calls') = f /\ Len(calls') = Len(s)
      /\ \A k \in 1..(Len(s) - 1) : calls'[k] = s[k]
      /\ calls'[Len(s)] = f
  <2>1. calls' = Append(Front(s), f)
    OBVIOUS
  <2> QED
    BY <1>1, <2>1, Replaced
<1>3. /\ Len(calls') = Len(calls) - 1
      /\ \A k \in 1..(Len(calls) - 2) : calls'[k] = calls[k]
      /\ calls'[Len(calls) - 1] = f
  <2>1. Len(s) - 1 = Len(calls) - 2 /\ \A k \in 1..(Len(calls) - 2) : k \in 1..(Len(calls) - 1)
    BY <1>1
  <2> QED
    BY <1>1, <1>2, <2>1
<1>4. ASSUME NEW k \in 1..(Len(calls) - 1)
      PROVE  /\ CallOK(calls[k])'
             /\ k = 1 <=> calls'[k].fn \in {"def", "global"}
             /\ k < Len(calls) - 1 => Called(calls'[k])
  <2>1. CASE k = Len(calls) - 1
    BY <1>0, <1>1, <1>3, <2>1 DEF CallOK, Len0
  <2>2. CASE k # Len(calls) - 1
    <3>1. k \in 1..(Len(calls) - 2) /\ k \in 1..Len(calls) /\ k < Len(calls)
      BY <1>1, <2>2
    <3>2. CallOK(calls[k]) /\ (k = 1 <=> calls[k].fn \in {"def", "global"}) /\ Called(calls[k])
      BY <3>1, TopCall DEF TypeInv, CallsInv
    <3> QED
      BY <1>1, <1>3, <3>1, <3>2 DEF CallOK, Len0
  <2> QED
    BY <2>1, <2>2
<1> QED
  BY <1>2, <1>3, <1>4 DEF CallsInv, C, Called

LEMMA CallsStarted ==
  ASSUME toks' = toks, NEW f, CallOK(f), f.fn \in {"def", "global"}, calls' = <<f>>
  PROVE  CallsInv' /\ C' = f /\ calls' # <<>> /\ Len(calls') = 1 /\ calls'[1] = f
<1>1. IsSeq(<<f>>) /\ Len(<<f>>) = 1 /\ <<f>>[1] = f
  <2>1. <<f>> \in Seq({f})
    OBVIOUS
  <2> QED
    BY <2>1, SeqIsSeq
<1>2. \A k \in 1..Len(<<f>>) : k = 1
  BY <1>1
<1> QED
  BY <1>1, <1>2 DEF CallsInv, CallOK, C, Last, Len0

-----------------------------------------------------------------------------
(* The state has its type: what each kind of move does to it.              *)

(* The kids a function gains with a move.                                  *)
Few(kids) == kids = <<>> \/ \E n : kids = <<n>>

LEMMA KidsJoined ==
  ASSUME NEW s, IsSeq(s), NEW kids, Few(kids)
  PROVE  /\ IsSeq(s \o kids)
         /\ kids = <<>> => s \o kids = s
         /\ \A n : kids = <<n>> => s \o kids = Append(s, n)
<1> DEFINE T == {s[k] : k \in DOMAIN s}
<1>1. s \in Seq(T)
  BY DEF IsSeq
<1> HIDE DEF T
<1>2. s \o <<>> = s
  BY <1>1, ConcatEmptySeq
<1>3. ASSUME NEW n PROVE s \o <<n>> = Append(s, n)
  <2> DEFINE U == T \cup {n}
  <2>1. s \in Seq(U) /\ <<n>> \in Seq(U) /\ Len(<<n>>) = 1 /\ <<n>>[1] = n
    BY <1>1, SeqMonotonic
  <2> HIDE DEF U
  <2>2. /\ s \o <<n>> \in Seq(U) /\ Len(s) \in Nat
        /\ Len(s \o <<n>>) = Len(s) + 1
        /\ \A i \in 1..(Len(s) + 1) :
             (s \o <<n>>)[i] = IF i <= Len(s) THEN s[i] ELSE <<n>>[i - Len(s)]
    BY <2>1, ConcatProperties, LenProperties
  <2>3. /\ Append(s, n) \in Seq(U) /\ Len(Append(s, n)) = Len(s) + 1
        /\ \A i \in 1..Len(s) : Append(s, n)[i] = s[i]
        /\ Append(s, n)[Len(s) + 1] = n
    <3>1. n \in U
      BY DEF U
    <3> QED
      BY <2>1, <3>1, AppendProperties
  <2>4. ASSUME NEW i \in 1..(Len(s) + 1) PROVE (s \o <<n>>)[i] = Append(s, n)[i]
    <3>1. CASE i = Len(s) + 1
      <4>1. ~(i <= Len(s)) /\ i - Len(s) = 1
        BY <2>2, <3>1
      <4> QED
        BY <2>1, <2>2, <2>3, <3>1, <4>1
    <3>2. CASE i # Len(s) + 1
      <4>1. i \in 1..Len(s) /\ i <= Len(s)
        BY <2>2, <3>2
      <4> QED
        BY <2>2, <2>3, <4>1
    <3> QED
      BY <3>1, <3>2
  <2> QED
    BY <2>2, <2>3, <2>4, SeqEqual
<1>4. \A n : IsSeq(Append(s, n))
  BY Appended
<1> QED
  BY <1>2, <1>3, <1>4 DEF Few

LEMMA Resting ==
  ASSUME TypeInv, outcome' # "running", outcome' \in {"parsed", "null", "undefined"},
         CallsInv', AtBegin', toks' = toks, it' \in 1..(Len0 + 2),
         calls' # <<>> => it' <= Len0 + 1, error' \in BOOLEAN, logged' \in BOOLEAN,
         IsSeq(nodes'), result' \in {"parsing", "returned", "thrown", "undefined"}
  PROVE  TypeInv'
BY DEF TypeInv, ExpressionInv, Len0

(* The function on top after it has gone to point p, or asked for an       *)
(* expression there.                                                       *)
Gone(p, kids) == [C EXCEPT !.at = p, !.kids = @ \o kids]
Asked(k, p, kids) == [C EXCEPT !.at = p, !.mark = k, !.kids = @ \o kids]

LEMMA GotoTyped ==
  ASSUME TypeInv, calls # <<>>, Idle, NEW k \in 1..(Len0 + 1), NEW p \in Points(C.fn),
         p # "begin", NEW kids, Few(kids), Goto(k, p, kids)
  PROVE  /\ TypeInv' /\ calls' # <<>> /\ Len(calls') = Len(calls)
         /\ C' = Gone(p, kids)
         /\ \A j \in 1..(Len(calls) - 1) : calls'[j] = calls[j]
<1> DEFINE f == Gone(p, kids)
<1>1. CallOK(C)
  BY TopCall
<1>2. CallOK(f) /\ f.fn = C.fn /\ f.at = p
  BY <1>1, KidsJoined DEF CallOK, Gone
<1>3. calls' = Append(Front(calls), f)
  BY DEF Goto, Replace, Gone
<1>4. toks' = toks
  BY DEF Goto, Same
<1> HIDE DEF f
<1>5. /\ CallsInv' /\ C' = f /\ calls' # <<>> /\ Len(calls') = Len(calls)
      /\ \A j \in 1..(Len(calls) - 1) : calls'[j] = calls[j]
  BY <1>2, <1>3, <1>4, CallsReplaced
<1>6. AtBegin'
  BY <1>2, <1>5 DEF AtBegin
<1>7. it' \in 1..(Len0 + 2) /\ it' <= Len0 + 1 
  <2>1. Len0 \in Nat
    BY TokenFacts DEF TypeInv
  <2> QED
    BY <2>1 DEF Goto
<1>8. TypeInv'
  BY <1>4, <1>5, <1>6, <1>7, Resting DEF Goto, Same, NoExpression, Idle, TypeInv
<1> QED
  BY <1>5, <1>8 DEF f

(* A call of parseExpression.                                              *)
LEMMA EnterTyped ==
  ASSUME TypeInv, NEW k \in 1..Len0, NEW mode \in {"scan", "define"}, Enter(k, mode),
         toks' = toks
  PROVE  EP!IInv' /\ (E!F).mode' = mode
<1> DEFINE f == [E!Frame("statement", k, 0, <<>>, FALSE) EXCEPT !.mode = mode]
<1>1. Len0 \in Nat /\ toks \in Inputs /\ error \in BOOLEAN
  BY TokenFacts DEF TypeInv
<1>2. EP!OpsOK(<<>>) /\ EP!Cardinality(EP!Parens(<<>>)) = 0
  BY ExpressionInputs, EP!EmptyStack
<1>3. /\ EP!FrameOK(f) /\ f.caller = "statement" /\ f.mode = mode
  BY <1>2 DEF EP!FrameOK, EP!Field, E!Frame, Len0
<1>4. frames' = <<f>> /\ outcome' = "running" /\ it' = k /\ tree' = <<>> /\ error' = error
  BY DEF Enter
<1> HIDE DEF f
<1>5. IsSeq(<<f>>) /\ Len(<<f>>) = 1 /\ <<f>>[1] = f /\ <<f>> # <<>> /\ Last(<<f>>) = f
  <2>1. <<f>> \in Seq({f})
    OBVIOUS
  <2> QED
    BY <2>1, SeqIsSeq DEF Last
<1>6. EP!FrameOK(f)'
  BY <1>3 DEF EP!FrameOK, EP!OpsOK
<1>7. EP!FramesInv'
  <2>1. \A j \in 1..Len(<<f>>) : j = 1
    BY <1>5
  <2> QED
    BY <1>3, <1>4, <1>5, <1>6, <2>1 DEF EP!FramesInv, EP!IsSeq, IsSeq
<1>8. it' \in 1..(Len(toks') + 1)
  BY <1>1, <1>4 DEF Len0
<1> QED
  BY <1>1, <1>3, <1>4, <1>5, <1>7, <1>8
  DEF EP!IInv, EP!Outcome, EP!NullMeansError, E!F, E!Last

(* The last element put back.                                              *)
LEMMA Restored ==
  ASSUME NEW s, IsSeq(s), s # <<>>
  PROVE  Append(Front(s), Last(s)) = s
<1> DEFINE T == {s[k] : k \in DOMAIN s}
<1>1. s \in Seq(T) /\ Len(s) \in Nat /\ Len(s) > 0 /\ DOMAIN s = 1..Len(s)
  BY SeqFacts DEF IsSeq
<1>2. \A k \in 1..Len(s) : s[k] \in T
  BY <1>1
<1> HIDE DEF T
<1>3. /\ Len(Append(Front(s), Last(s))) = Len(s)
      /\ \A k \in 1..(Len(s) - 1) : Append(Front(s), Last(s))[k] = s[k]
      /\ Append(Front(s), Last(s))[Len(s)] = s[Len(s)]
  BY Replaced DEF Last
<1>4. Append(Front(s), Last(s)) \in Seq(T)
  <2>1. Front(s) \in Seq(T)
    <3>1. \A k \in 1..(Len(s) - 1) : s[k] \in T
      BY <1>1, <1>2
    <3> QED
      BY <1>1, <3>1, SubSeqProperties DEF Front
  <2>2. Last(s) \in T
    BY <1>1, <1>2 DEF Last
  <2> QED
    BY <2>1, <2>2, AppendProperties
<1>5. \A k \in 1..Len(s) : Append(Front(s), Last(s))[k] = s[k]
  BY <1>1, <1>3
<1> QED
  BY <1>1, <1>3, <1>4, <1>5, SeqEqual

LEMMA Entered ==
  ASSUME TypeInv, NEW k \in 1..Len0, NEW mode \in {"scan", "define"}, Enter(k, mode), Same,
         result = "parsing", CallsInv', calls' # <<>>, C.at' \in Waiting
  PROVE  TypeInv'
<1>1. Len0 \in Nat
  BY TokenFacts DEF TypeInv
<1>2. EP!IInv'
  BY EnterTyped DEF Same
<1>3. AtBegin'
  BY DEF AtBegin, Waiting
<1>4. it' \in 1..(Len0 + 2) /\ it' <= Len0 + 1
  BY <1>1 DEF Enter
<1> QED
  BY <1>2, <1>3, <1>4 DEF TypeInv, ExpressionInv, Enter, Same, Len0

LEMMA EvaluateTyped ==
  ASSUME TypeInv, calls # <<>>, Idle, NEW k \in 1..Len0, NEW mode \in {"scan", "define"},
         NEW p \in Points(C.fn), p \in Waiting, NEW kids, Few(kids),
         Evaluate(k, mode, p, kids)
  PROVE  /\ TypeInv' /\ calls' # <<>> /\ Len(calls') = Len(calls)
         /\ C' = Asked(k, p, kids)
         /\ \A j \in 1..(Len(calls) - 1) : calls'[j] = calls[j]
<1> DEFINE f == Asked(k, p, kids)
<1>1. CallOK(C)
  BY TopCall
<1>2. CallOK(f) /\ f.fn = C.fn /\ f.at = p
  BY <1>1, KidsJoined DEF CallOK, Asked
<1>3. calls' = Append(Front(calls), f) /\ toks' = toks
  BY DEF Evaluate, Replace, Same, Asked
<1> HIDE DEF f
<1>4. /\ CallsInv' /\ C' = f /\ calls' # <<>> /\ Len(calls') = Len(calls)
      /\ \A j \in 1..(Len(calls) - 1) : calls'[j] = calls[j]
  BY <1>2, <1>3, CallsReplaced
<1>5. TypeInv'
  BY <1>2, <1>4, Entered DEF Evaluate, Idle
<1> QED
  BY <1>4, <1>5 DEF f

LEMMA RejectTyped ==
  ASSUME TypeInv, calls # <<>>, Idle, NEW k \in 1..(Len0 + 1), Reject(k)
  PROVE  TypeInv' /\ error'
<1>1. Len0 \in Nat
  BY TokenFacts DEF TypeInv
<1>2. it' \in 1..(Len0 + 2)
  BY <1>1 DEF Reject, Unwind
<1> QED
  BY <1>2, CallsEmptied, Resting DEF Reject, Unwind, Same, NoExpression, Idle, TypeInv

LEMMA CallTyped ==
  ASSUME TypeInv, calls # <<>>, Idle, it <= Len0,
         NEW fn \in {"block", "if", "while", "for", "return"}, toks[it] = Opening(fn),
         NEW p \in Points(C.fn), p \in {"loop", "then", "else", "body"}, Call(fn, p)
  PROVE  /\ TypeInv' /\ calls' # <<>> /\ Len(calls') = Len(calls) + 1
         /\ C' = Frame(fn, FALSE)
         /\ calls'[Len(calls)] = [C EXCEPT !.at = p]
         /\ calls'[Len(calls) + 1] = Frame(fn, FALSE)
         /\ \A j \in 1..(Len(calls) - 1) : calls'[j] = calls[j]
<1> DEFINE f == [C EXCEPT !.at = p]
           g == Frame(fn, FALSE)
<1>1. CallOK(C) /\ it \in 1..Len0
  BY TopCall
<1>2. CallOK(f) /\ f.fn = C.fn /\ Called(f)
  BY <1>1 DEF CallOK, Called
<1>3. "begin" \in Points(fn) /\ fn \in Function
  BY DEF Points, Function
<1>5. CallOK(g) /\ g.fn = fn /\ g.at = "begin" /\ g.from = it
  BY <1>1, <1>3, NothingIsSeq DEF CallOK, Frame
<1>6. calls' = Append(Append(Front(calls), f), g) /\ toks' = toks
  BY DEF Call, Same
<1> HIDE DEF f, g
<1>7. /\ CallsInv' /\ C' = g /\ calls' # <<>> /\ Len(calls') = Len(calls) + 1
      /\ \A k \in 1..(Len(calls) - 1) : calls'[k] = calls[k]
      /\ calls'[Len(calls)] = f /\ calls'[Len(calls) + 1] = g
  BY <1>2, <1>5, <1>6, CallsPushed
<1>8. AtBegin'
  BY <1>5, <1>7 DEF AtBegin, Call, Same, Opening
<1>9. it' = it /\ it' \in 1..(Len0 + 2) /\ it' <= Len0 + 1
  BY TopCall DEF Call, TypeInv
<1>10. TypeInv'
  BY <1>6, <1>7, <1>8, <1>9, Resting DEF Call, Same, NoExpression, Idle, TypeInv
<1> QED
  BY <1>7, <1>10 DEF f, g

LEMMA SimpleTyped ==
  ASSUME TypeInv, calls # <<>>, Idle, it <= Len0, Called(C),
         NEW mode \in {"scan", "define"}, Enter(it, mode), Same,
         calls' = Append(calls, [Frame("simple", FALSE) EXCEPT !.at = "value"])
  PROVE  LET g == [Frame("simple", FALSE) EXCEPT !.at = "value"]
         IN  /\ TypeInv' /\ calls' # <<>> /\ Len(calls') = Len(calls) + 1 /\ C' = g
             /\ calls'[Len(calls) + 1] = g
             /\ \A j \in 1..Len(calls) : calls'[j] = calls[j]
<1> DEFINE g == [Frame("simple", FALSE) EXCEPT !.at = "value"]
<1>1. CallOK(C) /\ it \in 1..Len0 /\ IsSeq(calls) /\ Len(calls) \in Nat
      /\ C = calls[Len(calls)]
  BY TopCall
<1>2. "value" \in Points("simple") /\ "simple" \in Function
  BY DEF Points, Function
<1>3. CallOK(g) /\ g.fn = "simple" /\ g.at = "value"
  BY <1>1, <1>2, NothingIsSeq DEF CallOK, Frame
<1>4. Append(Front(calls), C) = calls
  BY <1>1, Restored DEF C
<1>5. calls' = Append(Append(Front(calls), C), g) /\ toks' = toks
  BY <1>4 DEF Same
<1> HIDE DEF g
<1>6. /\ CallsInv' /\ C' = g /\ calls' # <<>> /\ Len(calls') = Len(calls) + 1
      /\ \A k \in 1..(Len(calls) - 1) : calls'[k] = calls[k]
      /\ calls'[Len(calls)] = C /\ calls'[Len(calls) + 1] = g
  BY <1>1, <1>3, <1>5, CallsPushed
<1>7. \A j \in 1..Len(calls) : calls'[j] = calls[j]
  BY <1>1, <1>6
<1>8. TypeInv'
  BY <1>1, <1>3, <1>6, Entered DEF Idle, Waiting
<1> QED
  BY <1>6, <1>7, <1>8 DEF g

LEMMA ReceivedOK ==
  ASSUME NEW f, CallOK(f), Called(f), NEW n
  PROVE  LET g == Received(f, n)
         IN  /\ CallOK(g) /\ g.fn = f.fn /\ g.from = f.from /\ g.export = f.export
             /\ g.kids = Append(f.kids, n) /\ IsSeq(g.kids)
             /\ g.at = IF f.fn = "block" THEN "loop"
                       ELSE IF f.at = "then" THEN "else?" ELSE "done"
             /\ g.at # "begin" /\ g.at \notin Waiting
<1> DEFINE p == IF f.fn = "block" THEN "loop" ELSE IF f.at = "then" THEN "else?" ELSE "done"
           K == Append(f.kids, n)
<1>1. p \in Points(f.fn)
  BY DEF CallOK, Called, Points, Function
<1>2. IsSeq(K)
  BY Appended DEF CallOK
<1>3. p # "begin" /\ p \notin Waiting
  BY DEF Waiting
<1>4. Received(f, n) = [f EXCEPT !.kids = K, !.at = p]
  BY DEF Received
<1> HIDE DEF p, K
<1>5. LET g == [f EXCEPT !.kids = K, !.at = p]
      IN  CallOK(g) /\ g.fn = f.fn /\ g.from = f.from /\ g.export = f.export /\ g.kids = K
          /\ g.at = p
  BY <1>1, <1>2 DEF CallOK
<1> QED
  BY <1>2, <1>3, <1>4, <1>5 DEF p, K

LEMMA ReceivedTyped ==
  ASSUME TypeInv, calls # <<>>, Idle, it <= Len0, Called(C), NEW n,
         Replace(Received(C, n)), it' = it + 1, UNCHANGED error, NoExpression, Same
  PROVE  /\ TypeInv' /\ calls' # <<>> /\ Len(calls') = Len(calls)
         /\ C' = Received(C, n)
         /\ \A j \in 1..(Len(calls) - 1) : calls'[j] = calls[j]
<1> DEFINE f == Received(C, n)
<1>1. CallOK(C) /\ it \in 1..Len0 /\ Len0 \in Nat
  BY TopCall, TokenFacts DEF TypeInv
<1>2. CallOK(f) /\ f.fn = C.fn /\ f.at # "begin"
  BY <1>1, ReceivedOK
<1>3. calls' = Append(Front(calls), f) /\ toks' = toks
  BY DEF Replace, Same
<1> HIDE DEF f
<1>4. /\ CallsInv' /\ C' = f /\ calls' # <<>> /\ Len(calls') = Len(calls)
      /\ \A j \in 1..(Len(calls) - 1) : calls'[j] = calls[j]
  BY <1>2, <1>3, CallsReplaced
<1>5. AtBegin'
  BY <1>2, <1>4 DEF AtBegin
<1>6. it' \in 1..(Len0 + 2) /\ it' <= Len0 + 1
  BY <1>1
<1>7. TypeInv'
  BY <1>3, <1>4, <1>5, <1>6, Resting DEF Same, NoExpression, Idle, TypeInv
<1> QED
  BY <1>4, <1>7 DEF f

LEMMA DoneTyped ==
  ASSUME TypeInv, Done
  PROVE  TypeInv'
<1>1. Idle /\ calls # <<>> /\ UNCHANGED shared /\ UNCHANGED <<logged, result>>
  BY DEF Done
<1>2. toks' = toks /\ it' = it /\ error' = error /\ outcome' = outcome
  BY <1>1 DEF shared
<1>3. it \in 1..(Len0 + 2) /\ it <= Len0 + 1
  BY <1>1 DEF TypeInv
<1>4. CASE Front(calls) = <<>>
  <2> DEFINE n == Node(C.fn, C.from, it - 1, C.kids)
  <2>3. calls' = <<>> /\ nodes' = Append(nodes, n)
    BY <1>4 DEF Done
  <2> HIDE DEF n
  <2>1. calls' = <<>> /\ IsSeq(nodes')
    BY <2>3, Appended DEF TypeInv
  <2> QED
    BY <1>1, <1>2, <1>3, <2>1, CallsEmptied, Resting DEF Idle, TypeInv
<1>5. CASE Front(calls) # <<>>
  <2> DEFINE n == Node(C.fn, C.from, it - 1, C.kids)
             f == Received(Last(Front(calls)), n)
  <2>1. calls' = Append(Front(Front(calls)), f) /\ nodes' = nodes
    BY <1>5 DEF Done
  <2>2. CallOK(f) /\ f.fn = Last(Front(calls)).fn /\ f.at # "begin"
    BY <1>1, <1>5, CallBelow, ReceivedOK
  <2> HIDE DEF n, f
  <2>3. CallsInv' /\ C' = f /\ calls' # <<>>
    BY <1>1, <1>2, <1>5, <2>1, <2>2, CallsReturned
  <2>4. AtBegin'
    BY <2>2, <2>3 DEF AtBegin
  <2> QED
    BY <1>1, <1>2, <1>3, <2>1, <2>3, <2>4, Resting DEF Idle, TypeInv
<1> QED
  BY <1>4, <1>5

(* The loop over the top-level statements.                                 *)
LEMMA TopResting ==
  ASSUME TypeInv, Idle, calls = <<>>, calls' = <<>>, toks' = toks, NoExpression,
         it' \in 1..(Len0 + 2), error' \in BOOLEAN, logged' \in BOOLEAN, IsSeq(nodes'),
         result' \in {"parsing", "returned", "thrown", "undefined"}
  PROVE  TypeInv'
BY CallsEmptied, Resting DEF NoExpression, Idle, TypeInv

LEMMA PushTyped ==
  ASSUME TypeInv, Idle, calls = <<>>, NEW k \in 1..(Len0 + 1), NEW n, PushNode(k, n)
  PROVE  TypeInv'
<1>1. Len0 \in Nat /\ IsSeq(nodes')
  BY TokenFacts, Appended DEF TypeInv, PushNode
<1>2. it' \in 1..(Len0 + 2)
  BY <1>1 DEF PushNode
<1> QED
  BY <1>1, <1>2, TopResting DEF PushNode, Idle, TypeInv

LEMMA SkipTyped ==
  ASSUME TypeInv, Idle, calls = <<>>, NEW k \in 1..Len0, Skip(k)
  PROVE  TypeInv' /\ error'
<1>1. Len0 \in Nat
  BY TokenFacts DEF TypeInv
<1>2. it' \in 1..(Len0 + 2)
  BY <1>1 DEF Skip
<1> QED
  BY <1>1, <1>2, TopResting DEF Skip, Same, Idle, TypeInv

LEMMA CallFromTyped ==
  ASSUME TypeInv, Idle, it <= Len0, NEW k \in 1..Len0, toks[k] = "def",
         NEW export \in BOOLEAN, CallFrom(k, "def", export)
  PROVE  LET f == [Frame("def", export) EXCEPT !.from = k]
         IN  /\ TypeInv' /\ calls' # <<>> /\ Len(calls') = 1 /\ C' = f /\ calls'[1] = f
<1> DEFINE f == [Frame("def", export) EXCEPT !.from = k]
<1>1. Len0 \in Nat /\ it \in 1..Len0
  BY TokenFacts DEF TypeInv
<1>2. "begin" \in Points("def") /\ "def" \in Function
  BY DEF Points, Function
<1>3. CallOK(f) /\ f.fn = "def" /\ f.at = "begin" /\ f.from = k
  BY <1>1, <1>2, NothingIsSeq DEF CallOK, Frame
<1>4. calls' = <<f>> /\ toks' = toks /\ it' = k
  BY DEF CallFrom
<1> HIDE DEF f
<1>5. CallsInv' /\ C' = f /\ calls' # <<>> /\ Len(calls') = 1 /\ calls'[1] = f
  BY <1>3, <1>4, CallsStarted
<1>6. AtBegin'
  BY <1>3, <1>4, <1>5 DEF AtBegin, Opening
<1>7. it' \in 1..(Len0 + 2) /\ it' <= Len0 + 1
  BY <1>1, <1>4
<1>8. TypeInv'
  BY <1>4, <1>5, <1>6, <1>7, Resting DEF CallFrom, NoExpression, Idle, TypeInv
<1> QED
  BY <1>5, <1>8 DEF f

LEMMA DefineTyped ==
  ASSUME TypeInv, Idle, NEW k \in 1..Len0, NEW export \in BOOLEAN, DefineGlobal(k, export)
  PROVE  LET f == [Frame("global", export) EXCEPT !.from = k, !.mark = k, !.at = "value"]
         IN  /\ TypeInv' /\ calls' # <<>> /\ Len(calls') = 1 /\ C' = f /\ calls'[1] = f
<1> DEFINE f == [Frame("global", export) EXCEPT !.from = k, !.mark = k, !.at = "value"]
<1>1. "value" \in Points("global") /\ "global" \in Function
  BY DEF Points, Function
<1>2. CallOK(f) /\ f.fn = "global" /\ f.at = "value"
  BY <1>1, NothingIsSeq DEF CallOK, Frame
<1>3. calls' = <<f>> /\ toks' = toks
  BY DEF DefineGlobal, Same
<1> HIDE DEF f
<1>4. CallsInv' /\ C' = f /\ calls' # <<>> /\ Len(calls') = 1 /\ calls'[1] = f
  BY <1>2, <1>3, CallsStarted
<1>5. TypeInv'
  BY <1>2, <1>4, Entered DEF DefineGlobal, Idle, Waiting
<1> QED
  BY <1>4, <1>5 DEF f

(* The run ends, or the step changes nothing.                              *)
LEMMA EndedTyped ==
  ASSUME TypeInv, UNCHANGED <<shared, calls, nodes, logged>>,
         result' \in {"parsing", "returned", "thrown", "undefined"}
  PROVE  TypeInv'
<1>1. UNCHANGED <<toks, it, frames, error, outcome, tree>>
  BY DEF shared
<1>2. CallsInv' /\ AtBegin'
  BY <1>1 DEF TypeInv, CallsInv, AtBegin, CallOK, C, Last, Len0
<1>3. ExpressionInv'
  <2>1. SUFFICES ASSUME outcome = "running"
                 PROVE  calls' # <<>> /\ C.at' \in Waiting /\ EP!IInv'
    BY <1>1 DEF ExpressionInv
  <2>2. EP!IInv /\ calls # <<>> /\ C.at \in Waiting
    BY <2>1 DEF TypeInv, ExpressionInv
  <2>3. EP!IInv'
    BY <1>1, <2>2, ExpressionInputs, EP!StepInductive DEF EP!vars
  <2> QED
    BY <2>1, <2>2, <2>3 DEF C, Last
<1> QED
  BY <1>1, <1>2, <1>3 DEF TypeInv, Len0

(* A step of the expression.                                               *)
LEMMA ExpressionTyped ==
  ASSUME TypeInv, Expression
  PROVE  TypeInv' /\ EP!Known /\ EP!Step
<1>1. EP!Step /\ result = "parsing" /\ UNCHANGED <<calls, nodes, logged, result>>
  BY SameStep DEF Expression
<1>2. outcome = "running"
  BY <1>1, ExpressionInputs, EP!StepRuns
<1>3. EP!IInv /\ calls # <<>> /\ C.at \in Waiting
  BY <1>1, <1>2 DEF TypeInv, ExpressionInv
<1>4. EP!IInv'
  BY <1>1, <1>3, ExpressionInputs, EP!StepInductive DEF EP!Next
<1>5. toks' = toks
  BY <1>1, <1>2, <1>3, ExpressionInputs, EP!StepEats DEF EP!Known, EP!Eats
<1>6. CallsInv' /\ C.at' = C.at /\ calls' # <<>>
  BY <1>1, <1>3, <1>5 DEF TypeInv, CallsInv, CallOK, C, Last, Len0
<1>7. AtBegin'
  BY <1>3, <1>6 DEF AtBegin, Waiting
<1>8. /\ toks' \in Inputs /\ it' \in 1..(Len0 + 1) /\ error' \in BOOLEAN
      /\ outcome' \in {"running", "parsed", "null", "undefined"}
  BY <1>4, <1>5 DEF EP!IInv, EP!Outcome, Len0
<1>9. it' \in 1..(Len0 + 2) /\ it' <= Len0 + 1
  <2>1. Len0 \in Nat
    BY TokenFacts DEF TypeInv
  <2> QED
    BY <1>8, <2>1
<1>10. TypeInv'
  BY <1>1, <1>3, <1>4, <1>5, <1>6, <1>7, <1>8, <1>9 DEF TypeInv, ExpressionInv, Len0
<1> QED
  BY <1>1, <1>2, <1>3, <1>10 DEF EP!Known

-----------------------------------------------------------------------------
(* The rules look at the tokens only, which no step changes.               *)

LEMMA SameLeaves ==
  ASSUME toks' = toks, NEW n
  PROVE  (IsExpression(n)' <=> IsExpression(n)) /\ (IsDefinition(n)' <=> IsDefinition(n))
BY DEF IsExpression, IsDefinition

LEMMA SameOptional ==
  ASSUME toks' = toks, NEW i, NEW t, NEW j
  PROVE  Optional(i, t, j)' <=> Optional(i, t, j)
BY DEF Optional

LEMMA SameLine ==
  ASSUME toks' = toks, NEW n
  PROVE  IsLine(n)' <=> IsLine(n)
BY SameLeaves DEF IsLine

LEMMA SameStatement ==
  ASSUME toks' = toks, NEW n
  PROVE  IsStatement(n)' <=> IsStatement(n)
BY SameLeaves, SameOptional, SameLine DEF IsStatement

LEMMA SameFunction ==
  ASSUME toks' = toks, NEW n
  PROVE  IsFunction(n)' <=> IsFunction(n)
BY DEF IsFunction

LEMMA SameExports ==
  ASSUME toks' = toks, NEW n
  PROVE  Exports(n)' = Exports(n)
BY DEF Exports

LEMMA SameShape ==
  ASSUME toks' = toks, NEW f, NEW e
  PROVE  Shape(f, e)' <=> Shape(f, e)
<1>1. DefShape(f, e)' <=> DefShape(f, e)
  BY SameFunction DEF DefShape, Defaults, DefaultValue, Separated, AfterSignature
<1>2. BlockShape(f, e)' <=> BlockShape(f, e)
  BY DEF BlockShape
<1>3. ChoiceShape(f, e)' <=> ChoiceShape(f, e)
  BY SameOptional, SameLeaves DEF ChoiceShape, Branch, Condition
<1>4. ForShape(f, e)' <=> ForShape(f, e)
  BY SameOptional, SameLeaves DEF ForShape, ForHead, ForEnd, ForStart
<1>5. LineShape(f, e)' <=> LineShape(f, e)
  BY DEF LineShape
<1> QED
  BY <1>1, <1>2, <1>3, <1>4, <1>5, SameStatement DEF Shape

LEMMA SameProper ==
  ASSUME toks' = toks, NEW n
  PROVE  (Proper(n)' <=> Proper(n)) /\ (TopNode(n)' <=> TopNode(n))
BY SameStatement, SameLine, SameFunction, SameLeaves DEF Proper, TopNode, Semicolon

-----------------------------------------------------------------------------
(* The functions whose state stays, with the ones that change on top.      *)

LEMMA ShapesFrom ==
  ASSUME ShapesInv, toks' = toks, Len(calls) \in Nat, Len(calls') \in Nat,
         NEW m \in Nat, m < Len(calls), m < Len(calls'),
         \A j \in 1..m : calls'[j] = calls[j],
         calls'[m + 1].from = calls[m + 1].from,
         \A j \in (m + 1)..Len(calls') : Shape(calls'[j], End(j)')
  PROVE  ShapesInv'
<1>1. ASSUME NEW j \in 1..m PROVE Shape(calls'[j], End(j)')
  <2>1. j \in 1..Len(calls) /\ j < Len(calls) /\ j < Len(calls') /\ j + 1 \in 1..(m + 1)
    OBVIOUS
  <2>2. calls'[j + 1].from = calls[j + 1].from
    <3>1. j + 1 \in 1..m \/ j + 1 = m + 1
      BY <2>1
    <3> QED
      BY <3>1
  <2>3. End(j)' = End(j)
    BY <2>1, <2>2 DEF End
  <2>4. calls'[j] = calls[j]
    OBVIOUS
  <2>5. Shape(calls[j], End(j))
    BY <2>1 DEF ShapesInv
  <2> QED
    BY <2>3, <2>4, <2>5
<1>2. \A j \in 1..Len(calls') : j \in 1..m \/ j \in (m + 1)..Len(calls')
  OBVIOUS
<1>3. \A j \in 1..Len(calls') : Shape(calls'[j], End(j)')
  BY <1>1, <1>2
<1>4. ASSUME NEW j \in 1..Len(calls') PROVE Shape(calls[j], End(j))'
  <2>1. Shape(calls'[j], End(j)')
    BY <1>3
  <2> DEFINE f == calls'[j]
             e == End(j)'
  <2>2. \A g, d : Shape(g, d)' <=> Shape(g, d)
    BY SameShape
  <2> QED
    BY <2>1, <2>2
<1> QED
  BY <1>4 DEF ShapesInv

LEMMA MadeFrom ==
  ASSUME NEW Y, \A i \in DOMAIN nodes' : Range(nodes'[i].kids) \subseteq Y,
         \A i \in DOMAIN calls' : Range(calls'[i].kids) \subseteq Y
  PROVE  Made' \subseteq Y
BY DEF Made

LEMMA MadeHas ==
  /\ \A i \in DOMAIN nodes : Range(nodes[i].kids) \subseteq Made
  /\ \A i \in DOMAIN calls : Range(calls[i].kids) \subseteq Made
BY DEF Made

LEMMA NodesKept ==
  ASSUME NodesInv, toks' = toks, Made' \subseteq Made
  PROVE  NodesInv'
<1>1. PICK S : Lawful(S) /\ Made \subseteq S
  BY DEF NodesInv
<1>2. Lawful(S)'
  BY <1>1, SameProper DEF Lawful
<1> QED
  BY <1>1, <1>2 DEF NodesInv

LEMMA NodesGained ==
  ASSUME NodesInv, toks' = toks, NEW n, Proper(n), Range(n.kids) \subseteq Made,
         Made' \subseteq Made \cup {n}
  PROVE  NodesInv'
<1>1. PICK S : Lawful(S) /\ Made \subseteq S
  BY DEF NodesInv
<1>2. Lawful(S \cup {n})'
  BY <1>1, SameProper DEF Lawful
<1>3. Made' \subseteq S \cup {n}
  BY <1>1
<1> QED
  BY <1>2, <1>3 DEF NodesInv

(* What the top-level nodes claim.                                         *)
Claims == [i \in DOMAIN nodes |-> [nodes[i] EXCEPT !.from = Exports(nodes[i])]]

LEMMA SameClaims ==
  ASSUME toks' = toks, nodes' = nodes
  PROVE  Claims' = Claims /\ ((\A i \in DOMAIN nodes : TopNode(nodes[i]))'
                              <=> \A i \in DOMAIN nodes : TopNode(nodes[i]))
<1>1. \A i \in DOMAIN nodes : Exports(nodes[i])' = Exports(nodes[i])
  BY DEF Exports
<1> QED
  BY <1>1, SameProper DEF Claims

LEMMA TopKept ==
  ASSUME TopInv, toks' = toks, nodes' = nodes, calls # <<>>, calls' # <<>>,
         calls'[1].fn = calls[1].fn, calls'[1].from = calls[1].from
  PROVE  TopInv'
<1>1. Start' = Start
  BY DEF Start, Exports, Node
<1> QED
  BY <1>1, SameClaims DEF TopInv, Claims

-----------------------------------------------------------------------------
(* The moves inside a function, as long as nothing was reported.           *)

LEMMA KidsRange ==
  ASSUME NEW s, IsSeq(s), NEW kids, Few(kids)
  PROVE  \A x \in Range(s \o kids) : x \in Range(s) \/ kids = <<x>>
<1>1. CASE kids = <<>>
  BY <1>1, KidsJoined
<1>2. ASSUME NEW n, kids = <<n>> PROVE \A x \in Range(s \o kids) : x \in Range(s) \/ kids = <<x>>
  <2>1. s \o kids = Append(s, n)
    BY <1>2, KidsJoined
  <2>2. /\ DOMAIN Append(s, n) = 1..(Len(s) + 1) /\ DOMAIN s = 1..Len(s) /\ Len(s) \in Nat
        /\ \A k \in 1..Len(s) : Append(s, n)[k] = s[k]
        /\ Append(s, n)[Len(s) + 1] = n
    BY Appended, SeqFacts
  <2>3. \A k \in 1..(Len(s) + 1) : k \in 1..Len(s) \/ k = Len(s) + 1
    BY <2>2
  <2> QED
    BY <1>2, <2>1, <2>2, <2>3 DEF Range
<1> QED
  BY <1>1, <1>2 DEF Few

LEMMA WholeKept ==
  ASSUME TypeInv, Whole, calls # <<>>, toks' = toks, nodes' = nodes, calls' # <<>>,
         IsSeq(calls'), EatenInv',
         NEW m \in Nat, m < Len(calls), m < Len(calls'),
         \A j \in 1..m : calls'[j] = calls[j],
         calls'[m + 1].from = calls[m + 1].from, calls'[m + 1].fn = calls[m + 1].fn,
         \A j \in (m + 1)..Len(calls') : Shape(calls'[j], End(j)'),
         m = 0 => Len(calls') = 1 \/ calls'[2].fn = "block",
         \/ \A j \in (m + 1)..Len(calls') : Range(calls'[j].kids) \subseteq Made
         \/ \E n : /\ Proper(n) /\ Range(n.kids) \subseteq Made
                   /\ \A j \in (m + 1)..Len(calls') :
                        Range(calls'[j].kids) \subseteq Made \cup {n}
  PROVE  Whole'
<1>1. /\ Len(calls) \in Nat /\ DOMAIN calls = 1..Len(calls)
      /\ Len(calls') \in Nat /\ DOMAIN calls' = 1..Len(calls')
  BY TopCall, SeqFacts
<1>2. ShapesInv'
  BY <1>1, ShapesFrom DEF Whole
<1>3. ASSUME NEW Y, Made \subseteq Y,
             \A j \in (m + 1)..Len(calls') : Range(calls'[j].kids) \subseteq Y
      PROVE  Made' \subseteq Y
  <2>1. \A i \in DOMAIN nodes' : Range(nodes'[i].kids) \subseteq Y
    BY <1>3, MadeHas
  <2>2. ASSUME NEW j \in DOMAIN calls' PROVE Range(calls'[j].kids) \subseteq Y
    <3>1. CASE j \in 1..m
      <4>1. j \in DOMAIN calls /\ calls'[j] = calls[j]
        BY <1>1, <3>1
      <4> QED
        BY <1>3, <4>1, MadeHas
    <3>2. CASE j \in (m + 1)..Len(calls')
      BY <1>3, <3>2
    <3>3. j \in 1..m \/ j \in (m + 1)..Len(calls')
      BY <1>1
    <3> QED
      BY <3>1, <3>2, <3>3
  <2> QED
    BY <2>1, <2>2, MadeFrom
<1>4. NodesInv'
  <2>1. CASE \A j \in (m + 1)..Len(calls') : Range(calls'[j].kids) \subseteq Made
    BY <1>3, <2>1, NodesKept DEF Whole
  <2>2. ASSUME NEW n, Proper(n), Range(n.kids) \subseteq Made,
               \A j \in (m + 1)..Len(calls') : Range(calls'[j].kids) \subseteq Made \cup {n}
        PROVE  NodesInv'
    <3>1. Made' \subseteq Made \cup {n}
      BY <1>3, <2>2
    <3> QED
      BY <2>2, <3>1, NodesGained DEF Whole
  <2> QED
    BY <2>1, <2>2
<1>5. calls'[1].fn = calls[1].fn /\ calls'[1].from = calls[1].from
  <2>1. CASE m = 0
    <3>1. m + 1 = 1
      BY <2>1
    <3> QED
      BY <3>1
  <2>2. CASE m # 0
    <3>1. 1 \in 1..m
      BY <2>2
    <3> QED
      BY <3>1
  <2> QED
    BY <2>1, <2>2
<1>6. TopInv'
  BY <1>5, TopKept DEF Whole
<1>7. BodyInv'
  <2>1. CASE m = 0
    BY <2>1 DEF BodyInv
  <2>2. CASE m # 0
    <3>1. calls'[2].fn = calls[2].fn /\ Len(calls) > 1
      <4>1. CASE m = 1
        <5>1. m + 1 = 2
          BY <4>1
        <5> QED
          BY <1>1, <4>1, <5>1
      <4>2. CASE m > 1
        <5>1. 2 \in 1..m
          BY <4>2
        <5> QED
          BY <1>1, <4>2, <5>1
      <4> QED
        BY <2>2, <4>1, <4>2
    <3> QED
      BY <1>5, <3>1 DEF BodyInv, Whole
  <2> QED
    BY <2>1, <2>2
<1> QED
  BY <1>2, <1>4, <1>6, <1>7 DEF Whole

(* The function on top goes on, with one more kid or none.                 *)
LEMMA TopReplaced ==
  ASSUME TypeInv, Whole, calls # <<>>, toks' = toks, nodes' = nodes, TypeInv', calls' # <<>>,
         Len(calls') = Len(calls), \A j \in 1..(Len(calls) - 1) : calls'[j] = calls[j],
         NEW f, C' = f, f.from = C.from, f.fn = C.fn,
         NEW kids, Few(kids), f.kids = C.kids \o kids,
         \A n : kids = <<n>> => Proper(n) /\ n.kids = <<>>,
         Shape(f, IF f.at \in Waiting THEN f.mark ELSE it'), EatenInv'
  PROVE  Whole'
<1> DEFINE m == Len(calls) - 1
<1>1. /\ Len(calls) \in Nat /\ Len(calls) > 0 /\ DOMAIN calls = 1..Len(calls)
      /\ C = calls[Len(calls)] /\ CallOK(C)
  BY TopCall
<1>2. m \in Nat /\ m < Len(calls) /\ m < Len(calls') /\ m + 1 = Len(calls)
  BY <1>1
<1>3. C' = calls'[Len(calls')]
  BY DEF C, Last
<1>4. calls'[m + 1] = f /\ calls[m + 1] = C
  BY <1>1, <1>2, <1>3
<1>5. \A j \in (m + 1)..Len(calls') : j = m + 1 /\ j = Len(calls')
  BY <1>1, <1>2
<1>6. End(m + 1)' = IF f.at \in Waiting THEN f.mark ELSE it'
  BY <1>2 DEF End
<1>7. Range(C.kids) \subseteq Made
  <2>1. Len(calls) \in DOMAIN calls
    BY <1>1
  <2> QED
    BY <1>1, <2>1, MadeHas
<1>8. \A x \in Range(f.kids) : x \in Made \/ kids = <<x>>
  <2>1. IsSeq(C.kids)
    BY <1>1 DEF CallOK
  <2> QED
    BY <1>7, <2>1, KidsRange
<1>9. \/ Range(f.kids) \subseteq Made
      \/ \E n : Proper(n) /\ Range(n.kids) \subseteq Made /\ Range(f.kids) \subseteq Made \cup {n}
  <2>1. CASE kids = <<>>
    BY <1>1, <1>7, <2>1, KidsJoined DEF CallOK
  <2>2. ASSUME NEW n, kids = <<n>>
        PROVE  Proper(n) /\ Range(n.kids) \subseteq Made /\ Range(f.kids) \subseteq Made \cup {n}
    <3>1. Proper(n) /\ n.kids = <<>>
      BY <2>2
    <3>2. \A x : kids = <<x>> => x = n
      BY <2>2
    <3>3. Range(n.kids) = {}
      BY <3>1 DEF Range
    <3> QED
      BY <1>8, <3>1, <3>2, <3>3
  <2> QED
    BY <2>1, <2>2 DEF Few
<1>10. IsSeq(calls')
  BY DEF TypeInv, CallsInv
<1>11. \A j \in (m + 1)..Len(calls') : Shape(calls'[j], End(j)')
  BY <1>4, <1>5, <1>6
<1>12. \/ \A j \in (m + 1)..Len(calls') : Range(calls'[j].kids) \subseteq Made
       \/ \E n : /\ Proper(n) /\ Range(n.kids) \subseteq Made
                 /\ \A j \in (m + 1)..Len(calls') :
                      Range(calls'[j].kids) \subseteq Made \cup {n}
  <2>1. CASE Range(f.kids) \subseteq Made
    BY <1>4, <1>5, <2>1
  <2>2. ASSUME NEW n, Proper(n), Range(n.kids) \subseteq Made, Range(f.kids) \subseteq Made \cup {n}
        PROVE  \A j \in (m + 1)..Len(calls') : Range(calls'[j].kids) \subseteq Made \cup {n}
    BY <1>4, <1>5, <2>2
  <2> QED
    BY <1>9, <2>1, <2>2
<1>13. /\ \A j \in 1..m : calls'[j] = calls[j]
       /\ m = 0 => Len(calls') = 1
  BY <1>1
<1> HIDE DEF m
<1>14. calls'[m + 1].from = calls[m + 1].from /\ calls'[m + 1].fn = calls[m + 1].fn
  BY <1>4
<1> QED
  BY <1>2, <1>10, <1>11, <1>12, <1>13, <1>14, WholeKept

(* An expression has been asked for, and nothing of it has been read.      *)
LEMMA Beginning ==
  ASSUME TypeInv, toks' = toks, NEW k \in 1..Len0, NEW mode \in {"scan", "define"},
         Enter(k, mode), NEW f, C' = f, f.mark = k, mode = "define" <=> Defines(f)
  PROVE  EatenInv'
<1>0. (E!F).mode' = mode
  BY EnterTyped
<1>1. (E!F).mode' = mode /\ it' = k /\ k \in Int
  BY <1>0 DEF Enter
<1>2. (Defines(f)' <=> Defines(f)) /\ (Clean(k, k - 1))'
  <2>1. \A i \in k..(k - 1) : FALSE
    OBVIOUS
  <2> QED
    BY <2>1 DEF Defines, Clean
<1>3. CASE mode = "define"
  BY <1>1, <1>2, <1>3 DEF EatenInv, Enter, Defines
<1>4. CASE mode = "scan"
  <2>1. Eaten(C)'
    <3>1. ~Defines(C)' /\ it' >= C'.mark
      BY <1>1, <1>2, <1>4 DEF Defines
    <3>2. Clean(C.mark, it - 1)'
      BY <1>1, <1>2 DEF Clean
    <3> QED
      BY <3>1, <3>2 DEF Eaten
  <2> QED
    BY <1>1, <1>4, <2>1 DEF EatenInv, Enter
<1> QED
  BY <1>3, <1>4

(* Going to a point that waits for nothing.                                *)
LEMMA Going ==
  ASSUME IInv, calls # <<>>, Idle, NEW k \in 1..(Len0 + 1), NEW p \in Points(C.fn),
         p # "begin", p \notin Waiting, NEW kids, Few(kids), Goto(k, p, kids),
         Good => /\ Shape(Gone(p, kids), k)
                 /\ \A n : kids = <<n>> => Proper(n) /\ n.kids = <<>>
  PROVE  IInv'
<1> DEFINE f == Gone(p, kids)
<1>1. TypeInv
  BY DEF IInv
<1>2. /\ TypeInv' /\ calls' # <<>> /\ Len(calls') = Len(calls) /\ C' = f
      /\ \A j \in 1..(Len(calls) - 1) : calls'[j] = calls[j]
  BY <1>1, GotoTyped
<1>3. CallOK(C)
  BY <1>1, TopCall
<1>4. f.from = C.from /\ f.fn = C.fn /\ f.at = p /\ f.kids = C.kids \o kids
  BY <1>3 DEF CallOK, Gone
<1>5. /\ toks' = toks /\ it' = k /\ error' = error /\ logged' = logged /\ nodes' = nodes
      /\ result' = "parsing"
  BY DEF Goto, Same, Idle
<1>6. ASSUME Good PROVE Whole'
  <2>1. Shape(f, k) /\ \A n : kids = <<n>> => Proper(n) /\ n.kids = <<>>
    BY <1>6
  <2> HIDE DEF f
  <2>2. EatenInv'
    BY <1>2, <1>4 DEF EatenInv
  <2>3. Shape(f, IF f.at \in Waiting THEN f.mark ELSE it')
    BY <1>4, <1>5, <2>1
  <2> QED
    BY <1>1, <1>2, <1>4, <1>5, <1>6, <2>1, <2>2, <2>3, TopReplaced DEF IInv
<1> QED
  BY <1>2, <1>5, <1>6 DEF IInv, Good, Finished

(* Waiting for an expression.                                              *)
LEMMA Evaluating ==
  ASSUME IInv, calls # <<>>, Idle, NEW k \in 1..Len0, NEW mode \in {"scan", "define"},
         NEW p \in Points(C.fn), p \in Waiting, NEW kids, Few(kids),
         Evaluate(k, mode, p, kids),
         Good => /\ Shape(Asked(k, p, kids), k)
                 /\ mode = "define" <=> Defines(Asked(k, p, kids))
                 /\ \A n : kids = <<n>> => Proper(n) /\ n.kids = <<>>
  PROVE  IInv'
<1> DEFINE f == Asked(k, p, kids)
<1>1. TypeInv
  BY DEF IInv
<1>2. /\ TypeInv' /\ calls' # <<>> /\ Len(calls') = Len(calls) /\ C' = f
      /\ \A j \in 1..(Len(calls) - 1) : calls'[j] = calls[j]
  BY <1>1, EvaluateTyped
<1>3. CallOK(C)
  BY <1>1, TopCall
<1>4. f.from = C.from /\ f.fn = C.fn /\ f.at = p /\ f.mark = k /\ f.kids = C.kids \o kids
  BY <1>3 DEF CallOK, Asked
<1>5. /\ toks' = toks /\ it' = k /\ error' = error /\ logged' = logged /\ nodes' = nodes
      /\ result' = "parsing" /\ outcome' = "running" /\ Enter(k, mode)
  BY DEF Evaluate, Enter, Same, Idle
<1>6. ASSUME Good PROVE Whole'
  <2>1. /\ Shape(f, k) /\ (mode = "define" <=> Defines(f))
        /\ \A n : kids = <<n>> => Proper(n) /\ n.kids = <<>>
    BY <1>6
  <2> HIDE DEF f
  <2>2. EatenInv'
    BY <1>1, <1>2, <1>4, <1>5, <2>1, Beginning
  <2>3. Shape(f, IF f.at \in Waiting THEN f.mark ELSE it')
    BY <1>4, <1>5, <2>1
  <2> QED
    BY <1>1, <1>2, <1>4, <1>5, <1>6, <2>1, <2>2, <2>3, TopReplaced DEF IInv
<1> QED
  BY <1>2, <1>5, <1>6 DEF IInv, Good, Finished

(* A function fails: nothing is promised any more.                         *)
LEMMA Rejecting ==
  ASSUME IInv, calls # <<>>, Idle, NEW k \in 1..(Len0 + 1), Reject(k)
  PROVE  IInv'
<1>1. TypeInv' /\ error'
  BY RejectTyped DEF IInv
<1> QED
  BY <1>1 DEF IInv, Good, Finished

-----------------------------------------------------------------------------
(* A function that gets the statement it asked for.                        *)

LEMMA TileAppended ==
  ASSUME NEW ns, IsSeq(ns), NEW lo \in Int, NEW n, n.from \in Int, Tile(ns, lo, n.from - 1)
  PROVE  Tile(Append(ns, n), lo, n.to)
<1> DEFINE K == Append(ns, n)
<1>1. /\ K # <<>> /\ Last(K) = n /\ Len(K) = Len(ns) + 1 /\ Len(ns) \in Nat
      /\ \A k \in 1..Len(ns) : K[k] = ns[k]
      /\ K[Len(ns) + 1] = n
  BY Appended, SeqFacts
<1>2. CASE ns = <<>>
  <2>1. lo = n.from /\ Len(ns) = 0
    BY <1>2, NothingIsSeq DEF Tile
  <2> HIDE DEF K
  <2>2. K[1] = n /\ Len(K) - 1 = 0
    BY <1>1, <2>1
  <2>3. ASSUME NEW i \in 1..(Len(K) - 1) PROVE FALSE
    <3>1. i \in 1..0
      BY <2>2
    <3> QED
      BY <3>1
  <2> QED
    BY <1>1, <2>1, <2>2, <2>3 DEF Tile, K
<1>3. CASE ns # <<>>
  <2>1. Len(ns) > 0 /\ Last(ns) = ns[Len(ns)]
    BY <1>3, SeqFacts DEF Last
  <2>2. /\ ns[1].from = lo /\ Last(ns).to = n.from - 1
        /\ \A i \in 1..(Len(ns) - 1) : ns[i + 1].from = ns[i].to + 1
    BY <1>3 DEF Tile
  <2> HIDE DEF K
  <2>3. K[1].from = lo
    BY <1>1, <2>1, <2>2
  <2>4. ASSUME NEW i \in 1..(Len(K) - 1) PROVE K[i + 1].from = K[i].to + 1
    <3>1. CASE i = Len(ns)
      <4>1. K[i] = ns[i] /\ K[i + 1] = n
        BY <1>1, <2>1, <3>1
      <4>2. ns[i].to = n.from - 1
        BY <2>1, <2>2, <3>1
      <4> QED
        BY <4>1, <4>2
    <3>2. CASE i # Len(ns)
      <4>1. i \in 1..(Len(ns) - 1) /\ i \in 1..Len(ns) /\ i + 1 \in 1..Len(ns)
        BY <1>1, <3>2
      <4> QED
        BY <1>1, <2>2, <4>1
    <3> QED
      BY <3>1, <3>2
  <2> QED
    BY <1>1, <2>3, <2>4 DEF Tile, K
<1> QED
  BY <1>2, <1>3

LEMMA OneTile ==
  ASSUME NEW n, NEW lo, n.from = lo
  PROVE  Tile(<<n>>, lo, n.to)
BY DEF Tile, Last

LEMMA ReceivedShape ==
  ASSUME NEW f, CallOK(f), Called(f), NEW n, n.from \in Int, NEW e \in Int, n.to = e - 1,
         Shape(f, n.from), IsBody(n), f.fn = "def" => n.kind \in {"empty", "block"}
  PROVE  Shape(Received(f, n), e)
<1> DEFINE g == Received(f, n)
           K == Append(f.kids, n)
<1>1. /\ CallOK(g) /\ g.fn = f.fn /\ g.from = f.from /\ g.kids = K
      /\ g.at = IF f.fn = "block" THEN "loop" ELSE IF f.at = "then" THEN "else?" ELSE "done"
  BY ReceivedOK
<1>2. /\ K # <<>> /\ Last(K) = n /\ Len(K) = Len(f.kids) + 1 /\ Len(f.kids) \in Nat
      /\ DOMAIN K = 1..Len(K) /\ IsSeq(K) /\ DOMAIN f.kids = 1..Len(f.kids) /\ IsSeq(f.kids)
      /\ \A k \in 1..Len(f.kids) : K[k] = f.kids[k]
      /\ K[Len(f.kids) + 1] = n
  BY Appended, SeqFacts DEF CallOK
<1>3. f.from \in Int
  BY DEF CallOK
<1>0. ASSUME Shape(g, e) PROVE Shape(Received(f, n), e)
  BY <1>0
<1> HIDE DEF g, K
<1>4. f.fn \in {"def", "block", "if", "while", "for"}
  BY DEF CallOK, Called, Points, Function
<1>5. CASE f.fn = "block"
  <2>1. /\ g.at = "loop" /\ toks[f.from] = "{" /\ Tile(f.kids, f.from + 1, n.from - 1)
        /\ \A i \in DOMAIN f.kids : IsBody(f.kids[i])
    <3>1. f.at = "loop"
      BY <1>5 DEF CallOK, Called, Points
    <3> QED
      BY <1>1, <1>5, <3>1 DEF Shape, BlockShape
  <2>2. Tile(K, f.from + 1, e - 1)
    <3>1. f.from + 1 \in Int
      BY <1>3
    <3>2. Tile(Append(f.kids, n), f.from + 1, n.to)
      BY <1>2, <2>1, <3>1, TileAppended
    <3> QED
      BY <3>2 DEF K
  <2>3. \A i \in DOMAIN K : IsBody(K[i])
    <3>1. \A i \in DOMAIN K : i \in DOMAIN f.kids \/ i = Len(f.kids) + 1
      BY <1>2
    <3> QED
      BY <1>2, <2>1, <3>1
  <2>4. Shape(g, e)
    BY <1>1, <1>5, <2>1, <2>2, <2>3 DEF Shape, BlockShape
  <2> QED
    BY <1>0, <2>4
<1>6. CASE f.fn = "if" /\ f.at = "then"
  <2>1. Len(f.kids) = 1 /\ Condition(f, n.from) /\ toks[f.from] = "if"
    BY <1>6 DEF Shape, ChoiceShape
  <2>2. K[1] = f.kids[1] /\ K[2] = n /\ Len(K) = 2
    BY <1>2, <2>1
  <2>3. g.at = "else?" /\ Branch(g, e)
    BY <1>1, <1>6, <2>1, <2>2 DEF Branch, Condition
  <2>9. Shape(g, e)
    BY <1>1, <1>6, <2>1, <2>2, <2>3 DEF Shape, ChoiceShape
  <2> QED
    BY <1>0, <2>9
<1>7. CASE f.fn = "if" /\ f.at = "else"
  <2>1. Len(f.kids) = 2 /\ Branch(f, n.from - 1) /\ toks[n.from - 1] = "else" /\ toks[f.from] = "if"
    BY <1>7 DEF Shape, ChoiceShape
  <2>2. K[1] = f.kids[1] /\ K[2] = f.kids[2] /\ K[3] = n /\ Len(K) = 3
    BY <1>2, <2>1
  <2>3. K[2].to + 1 = n.from - 1 /\ K[2].to + 2 = n.from
    BY <2>1, <2>2 DEF Branch
  <2>4. Tile(<<K[3]>>, K[2].to + 2, e - 1)
    BY <2>2, <2>3, OneTile
  <2>5. IsStatement(Node("if", f.from, e - 1, K))
    BY <2>1, <2>2, <2>3, <2>4 DEF IsStatement, Node, Branch, Condition
  <2>9. Shape(g, e)
    BY <1>1, <1>7, <2>1, <2>5 DEF Shape, ChoiceShape
  <2> QED
    BY <1>0, <2>9
<1>8. CASE f.fn = "while"
  <2>1. Len(f.kids) = 1 /\ Condition(f, n.from) /\ toks[f.from] = "while"
    <3>1. f.at = "body"
      BY <1>8 DEF CallOK, Called, Points
    <3> QED
      BY <1>8, <3>1 DEF Shape, ChoiceShape
  <2>2. K[1] = f.kids[1] /\ K[2] = n /\ Len(K) = 2
    BY <1>2, <2>1
  <2>3. IsStatement(Node("while", f.from, e - 1, K))
    BY <2>1, <2>2 DEF IsStatement, Node, Condition
  <2>4. g.at = "done"
    BY <1>1, <1>8 DEF CallOK, Called, Points
  <2>9. Shape(g, e)
    BY <1>1, <1>8, <2>1, <2>3, <2>4 DEF Shape, ChoiceShape
  <2> QED
    BY <1>0, <2>9
<1>9. CASE f.fn = "for"
  <2>1. Len(f.kids) = 3 /\ ForHead(f, n.from) /\ toks[f.from] = "for"
    <3>1. f.at = "body"
      BY <1>9 DEF CallOK, Called, Points
    <3> QED
      BY <1>9, <3>1 DEF Shape, ForShape
  <2>2. K[1] = f.kids[1] /\ K[2] = f.kids[2] /\ K[3] = f.kids[3] /\ K[4] = n /\ Len(K) = 4
    BY <1>2, <2>1
  <2>3. IsStatement(Node("for", f.from, e - 1, K))
    BY <2>1, <2>2 DEF IsStatement, Node, ForHead, ForEnd, ForStart
  <2>4. g.at = "done"
    BY <1>1, <1>9 DEF CallOK, Called, Points
  <2>9. Shape(g, e)
    BY <1>1, <1>9, <2>1, <2>3, <2>4 DEF Shape, ForShape
  <2> QED
    BY <1>0, <2>9
<1>10. CASE f.fn = "def"
  <2>1. f.at = "body" /\ g.at = "done"
    BY <1>1, <1>10 DEF CallOK, Called, Points
  <2>2. /\ Defaults(f.kids) /\ AfterSignature(n.from) /\ toks[f.from] = "def"
        /\ toks[f.from + 2] = "("
    BY <1>10, <2>1 DEF Shape, DefShape
  <2>3. /\ DOMAIN Front(K) = DOMAIN f.kids
        /\ \A i \in DOMAIN f.kids : Front(K)[i] = f.kids[i]
    <3>1. /\ IsSeq(Front(K)) /\ Len(Front(K)) = Len(K) - 1
          /\ \A k \in 1..(Len(K) - 1) : Front(K)[k] = K[k]
      BY <1>2, Shortened
    <3> QED
      BY <1>2, <3>1, SeqFacts
  <2>4. IsFunction(Node("def", f.from, e - 1, K))
    BY <1>2, <1>10, <2>2, <2>3
    DEF IsFunction, Node, Defaults, DefaultValue, Separated, AfterSignature
  <2>9. Shape(g, e)
    BY <1>1, <1>2, <1>10, <2>1, <2>2, <2>4 DEF Shape, DefShape
  <2> QED
    BY <1>0, <2>9
<1>11. f.fn = "if" => f.at \in {"then", "else"}
  BY DEF CallOK, Called, Points
<1> QED
  BY <1>4, <1>5, <1>6, <1>7, <1>8, <1>9, <1>10, <1>11

-----------------------------------------------------------------------------
(* Calls and returns, as long as nothing was reported.                     *)

LEMMA OnTop ==
  ASSUME TypeInv, calls # <<>>
  PROVE  /\ Range(C.kids) \subseteq Made
         /\ ShapesInv => Shape(C, IF C.at \in Waiting THEN C.mark ELSE it)
<1>1. /\ Len(calls) \in Nat /\ Len(calls) > 0 /\ DOMAIN calls = 1..Len(calls)
      /\ C = calls[Len(calls)]
  BY TopCall
<1>2. Len(calls) \in DOMAIN calls /\ ~(Len(calls) < Len(calls))
  BY <1>1
<1>3. End(Len(calls)) = IF C.at \in Waiting THEN C.mark ELSE it
  BY <1>2 DEF End
<1> QED
  BY <1>1, <1>2, <1>3, MadeHas DEF ShapesInv

LEMMA FrameShape ==
  ASSUME NEW fn \in {"block", "if", "while", "for", "return"}, toks[it] = Opening(fn)
  PROVE  LET g == Frame(fn, FALSE)
         IN  g.fn = fn /\ g.at = "begin" /\ g.from = it /\ g.kids = <<>> /\ Shape(g, it)
<1> DEFINE g == Frame(fn, FALSE)
<1>1. g.fn = fn /\ g.at = "begin" /\ g.from = it /\ g.kids = <<>>
  BY DEF Frame
<1> HIDE DEF g
<1>2. Shape(g, it)
  BY <1>1 DEF Shape, Opening, BlockShape, ChoiceShape, ForShape, LineShape
<1> QED
  BY <1>1, <1>2 DEF g

LEMMA NoKids == Range(<<>>) = {}
BY DEF Range

LEMMA Calling ==
  ASSUME IInv, calls # <<>>, Idle, it <= Len0,
         NEW fn \in {"block", "if", "while", "for", "return"}, toks[it] = Opening(fn),
         NEW p \in Points(C.fn), p \in {"loop", "then", "else", "body"}, Call(fn, p),
         C.fn = "def" => fn = "block",
         Good => Shape([C EXCEPT !.at = p], it)
  PROVE  IInv'
<1> DEFINE f == [C EXCEPT !.at = p]
           g == Frame(fn, FALSE)
<1>1. TypeInv
  BY DEF IInv
<1>2. /\ TypeInv' /\ calls' # <<>> /\ Len(calls') = Len(calls) + 1 /\ C' = g
      /\ calls'[Len(calls)] = f /\ calls'[Len(calls) + 1] = g
      /\ \A j \in 1..(Len(calls) - 1) : calls'[j] = calls[j]
  BY <1>1, CallTyped
<1>3. CallOK(C) /\ C = calls[Len(calls)] /\ Len(calls) \in Nat /\ Len(calls) > 0
      /\ (C.fn \in {"def", "global"} <=> Len(calls) = 1)
  BY <1>1, TopCall
<1>4. f.from = C.from /\ f.fn = C.fn /\ f.kids = C.kids
  BY <1>3 DEF CallOK
<1>5. g.fn = fn /\ g.at = "begin" /\ g.from = it /\ g.kids = <<>> /\ Shape(g, it)
  BY FrameShape
<1>6. /\ toks' = toks /\ it' = it /\ error' = error /\ logged' = logged /\ nodes' = nodes
      /\ result' = "parsing" /\ outcome' = outcome
  BY DEF Call, Same, NoExpression, Idle
<1>7. ASSUME Good PROVE Whole'
  <2>1. Shape(f, it)
    BY <1>7
  <2>2. C.fn # "global"
    BY DEF Points
  <2> PICK m \in Nat : m + 1 = Len(calls)
    <3>1. Len(calls) - 1 \in Nat /\ Len(calls) - 1 + 1 = Len(calls)
      BY <1>3
    <3> QED
      BY <3>1
  <2>3. m = 0 => fn = "block"
    BY <1>3, <2>2
  <2> HIDE DEF f, g
  <2>4. EatenInv'
    BY <1>2, <1>5 DEF EatenInv, Waiting
  <2>5. /\ m \in Nat /\ Len(calls') \in Nat /\ Len(calls) \in Nat /\ m < Len(calls) /\ m < Len(calls') /\ m + 1 = Len(calls)
        /\ m + 2 = Len(calls') /\ m + 1 < Len(calls') /\ ~(m + 2 < Len(calls'))
        /\ \A j \in (m + 1)..Len(calls') : j = m + 1 \/ j = m + 2
    BY <1>2, <1>3
  <2>6. calls'[m + 1] = f /\ calls'[m + 2] = g /\ calls[m + 1] = C /\ \A j \in 1..m : calls'[j] = calls[j]
    BY <1>2, <1>3, <2>5
  <2>7. m + 1 + 1 = m + 2
    BY <2>5
  <2>8. End(m + 1)' = it /\ End(m + 2)' = it
    <3>1. End(m + 1)' = calls'[m + 2].from
      BY <2>5, <2>7 DEF End
    <3>2. End(m + 2)' = IF C'.at \in Waiting THEN C'.mark ELSE it'
      BY <2>5 DEF End
    <3> QED
      BY <1>2, <1>5, <1>6, <2>6, <3>1, <3>2 DEF Waiting
  <2>9. \A j \in (m + 1)..Len(calls') : Shape(calls'[j], End(j)')
    <3>1. Shape(calls'[m + 1], End(m + 1)') /\ Shape(calls'[m + 2], End(m + 2)')
      BY <1>5, <2>1, <2>6, <2>8
    <3> QED
      BY <2>5, <3>1
  <2>10. \A j \in (m + 1)..Len(calls') : Range(calls'[j].kids) \subseteq Made
    BY <1>1, <1>4, <1>5, <2>5, <2>6, OnTop, NoKids
  <2>11. m = 0 => Len(calls') = 1 \/ calls'[2].fn = "block"
    <3>1. m = 0 => m + 2 = 2
      OBVIOUS
    <3> QED
      BY <1>5, <2>3, <2>6, <3>1
  <2>12. IsSeq(calls')
    BY <1>2 DEF TypeInv, CallsInv
  <2>13. calls'[m + 1].from = calls[m + 1].from /\ calls'[m + 1].fn = calls[m + 1].fn
    BY <1>4, <2>6
  <2> QED
    BY <1>1, <1>2, <1>6, <1>7, <2>4, <2>5, <2>6, <2>9, <2>10, <2>11, <2>12, <2>13, WholeKept
    DEF IInv
<1> QED
  BY <1>2, <1>6, <1>7 DEF IInv, Good, Finished

(* A statement that is an expression or a definition.                      *)
LEMMA SimpleCalling ==
  ASSUME IInv, calls # <<>>, Idle, it <= Len0, Called(C), C.fn # "def",
         toks[it] \in {"let", "x"},
         Enter(it, IF toks[it] = "let" THEN "define" ELSE "scan"), Same,
         calls' = Append(calls, [Frame("simple", FALSE) EXCEPT !.at = "value"])
  PROVE  IInv'
<1> DEFINE mode == IF toks[it] = "let" THEN "define" ELSE "scan"
           g == [Frame("simple", FALSE) EXCEPT !.at = "value"]
<1>1. TypeInv /\ mode \in {"scan", "define"}
  BY DEF IInv
<1>2. /\ TypeInv' /\ calls' # <<>> /\ Len(calls') = Len(calls) + 1 /\ C' = g
      /\ calls'[Len(calls) + 1] = g
      /\ \A j \in 1..Len(calls) : calls'[j] = calls[j]
  BY <1>1, SimpleTyped
<1>3. CallOK(C) /\ C = calls[Len(calls)] /\ Len(calls) \in Nat /\ Len(calls) > 0
      /\ (C.fn \in {"def", "global"} <=> Len(calls) = 1) /\ it \in 1..Len0
  BY <1>1, TopCall
<1>5. /\ g.fn = "simple" /\ g.at = "value" /\ g.from = it /\ g.mark = it
      /\ g.kids = <<>>
  BY DEF Frame
<1>6. /\ toks' = toks /\ it' = it /\ error' = error /\ logged' = logged /\ nodes' = nodes
      /\ result' = "parsing" /\ outcome' = "running"
  BY DEF Enter, Same, Idle
<1>7. ASSUME Good PROVE Whole'
  <2>1. Shape(C, it)
    BY <1>1, <1>7, OnTop DEF IInv, Whole, Called, Waiting
  <2>2. C.fn # "global"
    BY <1>3 DEF Points, Called, CallOK
  <2> PICK m \in Nat : m + 1 = Len(calls)
    <3>1. Len(calls) - 1 \in Nat /\ Len(calls) - 1 + 1 = Len(calls)
      BY <1>3
    <3> QED
      BY <3>1
  <2>3. m # 0
    BY <1>3, <2>2
  <2> HIDE DEF g
  <2>4. EatenInv'
    <3>1. mode = "define" <=> Defines(g)
      BY <1>5 DEF Defines
    <3> QED
      BY <1>1, <1>2, <1>3, <1>5, <1>6, <3>1, Beginning
  <2>5. /\ m \in Nat /\ Len(calls') \in Nat /\ Len(calls) \in Nat /\ m < Len(calls) /\ m < Len(calls') /\ m + 1 = Len(calls)
        /\ m + 2 = Len(calls') /\ m + 1 < Len(calls') /\ ~(m + 2 < Len(calls'))
        /\ \A j \in (m + 1)..Len(calls') : j = m + 1 \/ j = m + 2
    BY <1>2, <1>3
  <2>6. calls'[m + 1] = C /\ calls'[m + 2] = g /\ calls[m + 1] = C /\ \A j \in 1..m : calls'[j] = calls[j]
    <3>1. Len(calls) \in 1..Len(calls) /\ \A j \in 1..m : j \in 1..Len(calls)
      BY <1>3
    <3>2. m + 2 = Len(calls) + 1
      BY <1>3
    <3> QED
      BY <1>2, <1>3, <2>5, <3>1, <3>2
  <2>7. m + 1 + 1 = m + 2
    BY <1>3
  <2>8. End(m + 1)' = it /\ End(m + 2)' = it
    <3>1. End(m + 1)' = calls'[m + 2].from
      BY <2>5, <2>7 DEF End
    <3>2. End(m + 2)' = IF C'.at \in Waiting THEN C'.mark ELSE it'
      BY <2>5 DEF End
    <3> QED
      BY <1>2, <1>5, <1>6, <2>6, <3>1, <3>2 DEF Waiting
  <2>14. Shape(g, it)
    <3>1. it = it + 0
      BY <1>3
    <3> QED
      BY <1>5, <3>1 DEF Shape, LineShape
  <2>9. \A j \in (m + 1)..Len(calls') : Shape(calls'[j], End(j)')
    <3>1. Shape(calls'[m + 1], End(m + 1)') /\ Shape(calls'[m + 2], End(m + 2)')
      BY <2>1, <2>6, <2>8, <2>14
    <3> QED
      BY <2>5, <3>1
  <2>10. \A j \in (m + 1)..Len(calls') : Range(calls'[j].kids) \subseteq Made
    BY <1>1, <1>5, <2>5, <2>6, OnTop, NoKids
  <2>12. IsSeq(calls')
    BY <1>2 DEF TypeInv, CallsInv
  <2>13. calls'[m + 1].from = calls[m + 1].from /\ calls'[m + 1].fn = calls[m + 1].fn
    BY <2>6
  <2> QED
    BY <1>1, <1>2, <1>6, <1>7, <2>3, <2>4, <2>5, <2>6, <2>9, <2>10, <2>12, <2>13, WholeKept
    DEF IInv
<1> QED
  BY <1>2, <1>6, <1>7 DEF IInv, Good, Finished

(* An empty statement is received at once.                                 *)
LEMMA EmptyProper ==
  ASSUME NEW k \in Int, Semicolon(k)
  PROVE  LET n == Node("empty", k, k, <<>>)
         IN  Proper(n) /\ n.kids = <<>> /\ IsBody(n) /\ TopNode(n)
BY NothingIsSeq DEF Proper, Node, IsStatement, IsLine, IsBody, StatementKind, TopNode, Semicolon

LEMMA Receiving ==
  ASSUME IInv, calls # <<>>, Idle, it <= Len0, Called(C), C.fn # "def", Semicolon(it),
         Replace(Received(C, Node("empty", it, it, <<>>))), it' = it + 1,
         UNCHANGED error, NoExpression, Same
  PROVE  IInv'
<1> DEFINE n == Node("empty", it, it, <<>>)
           f == Received(C, n)
<1>1. TypeInv
  BY DEF IInv
<1>2. /\ TypeInv' /\ calls' # <<>> /\ Len(calls') = Len(calls) /\ C' = f
      /\ \A j \in 1..(Len(calls) - 1) : calls'[j] = calls[j]
  BY <1>1, ReceivedTyped
<1>3. CallOK(C) /\ Len0 \in Nat /\ it \in 1..Len0 /\ it \in Int /\ IsSeq(C.kids)
  <2>1. CallOK(C) /\ it \in 1..(Len0 + 1) /\ Len0 \in Nat
    BY <1>1, TopCall, TokenFacts DEF TypeInv
  <2>2. IsSeq(C.kids)
    BY <2>1 DEF CallOK
  <2> QED
    BY <2>1, <2>2
<1>4. f.from = C.from /\ f.fn = C.fn /\ f.at \notin Waiting /\ f.kids = Append(C.kids, n)
  BY <1>3, ReceivedOK
<1>5. Proper(n) /\ n.kids = <<>> /\ IsBody(n) /\ n.from = it /\ n.to = it
  BY <1>3, EmptyProper DEF Node
<1>6. /\ toks' = toks /\ error' = error /\ logged' = logged /\ nodes' = nodes
      /\ result' = "parsing"
  BY DEF Same, Idle
<1> HIDE DEF n
<1>7. ASSUME Good PROVE Whole'
  <2>1. Shape(C, it)
    BY <1>1, <1>7, OnTop DEF IInv, Whole, Called, Waiting
  <2>2. it + 1 \in Int
    BY <1>3
  <2>3. Shape(f, it + 1)
    <3>1. n.from \in Int /\ n.to = it + 1 - 1 /\ Shape(C, n.from)
      BY <1>3, <1>5, <2>1
    <3> QED
      BY <1>3, <1>5, <2>2, <3>1, ReceivedShape
  <2>4. Few(<<n>>) /\ C.kids \o <<n>> = Append(C.kids, n)
    BY <1>3, KidsJoined DEF Few
  <2>7. \A x : <<n>> = <<x>> => Proper(x) /\ x.kids = <<>>
    BY <1>5
  <2> HIDE DEF f
  <2>5. EatenInv'
    BY <1>2, <1>4 DEF EatenInv
  <2>6. Shape(f, IF f.at \in Waiting THEN f.mark ELSE it')
    BY <1>4, <2>3
  <2> QED
    BY <1>1, <1>2, <1>4, <1>6, <1>7, <2>4, <2>5, <2>6, <2>7, TopReplaced DEF IInv
<1> QED
  BY <1>2, <1>6, <1>7 DEF IInv, Good, Finished

(* A statement goes back to the function that asked for it.                *)
LEMMA BodyIs ==
  ASSUME NEW fn, fn \in Function, fn \notin {"def", "global"}
  PROVE  fn \in StatementKind /\ fn \notin {"expr", "let", "none"}
BY DEF Function, StatementKind

LEMMA OneBelow ==
  ASSUME NEW m \in Nat, NEW l, m + 2 = l
  PROVE  l - 1 = 1 => m + 1 = 1 /\ m + 2 = 2
<1>1. m + 2 \in Int
  OBVIOUS
<1>2. l \in Int
  BY <1>1
<1> QED
  BY <1>2

LEMMA Returning ==
  ASSUME IInv, Done, Front(calls) # <<>>
  PROVE  IInv'
<1> DEFINE n == Node(C.fn, C.from, it - 1, C.kids)
           b == Last(Front(calls))
           f == Received(b, n)
<1>1. TypeInv /\ Idle /\ calls # <<>> /\ C.at = "done"
  BY DEF IInv, Done
<1>2. /\ calls' = Append(Front(Front(calls)), f) /\ nodes' = nodes
      /\ toks' = toks /\ it' = it /\ error' = error /\ logged' = logged
      /\ result' = "parsing" /\ outcome' = outcome
  BY <1>1 DEF Done, shared, Idle
<1>3. /\ CallOK(C) /\ C = calls[Len(calls)] /\ Len(calls) \in Nat /\ Len(calls) > 1
      /\ C.fn \notin {"def", "global"} /\ CallOK(b) /\ Called(b) /\ b = calls[Len(calls) - 1]
      /\ (b.fn \in {"def", "global"} <=> Len(calls) - 1 = 1) /\ IsSeq(calls)
      /\ DOMAIN calls = 1..Len(calls)
  <2>1. /\ CallOK(C) /\ C = calls[Len(calls)] /\ Len(calls) \in Nat
        /\ (C.fn \in {"def", "global"} <=> Len(calls) = 1)
        /\ IsSeq(calls) /\ DOMAIN calls = 1..Len(calls)
    BY <1>1, TopCall
  <2>2. /\ Len(calls) > 1 /\ CallOK(b) /\ Called(b) /\ b = calls[Len(calls) - 1]
        /\ (b.fn \in {"def", "global"} <=> Len(calls) - 1 = 1)
    BY <1>1, CallBelow
  <2>3. Len(calls) # 1
    BY <2>1, <2>2
  <2> QED
    BY <2>1, <2>2, <2>3
<1>4. /\ CallOK(f) /\ f.fn = b.fn /\ f.from = b.from /\ f.kids = Append(b.kids, n)
      /\ f.at # "begin" /\ f.at \notin Waiting
  BY <1>3, ReceivedOK
<1>5. n.kind = C.fn /\ n.from = C.from /\ n.to = it - 1 /\ n.kids = C.kids
      /\ DOMAIN n = {"kind", "from", "to", "kids"}
  BY DEF Node
<1>6. TypeInv'
  BY <1>1, DoneTyped
<1> HIDE DEF f
<1>7. /\ CallsInv' /\ C' = f /\ calls' # <<>> /\ Len(calls') = Len(calls) - 1
      /\ \A k \in 1..(Len(calls) - 2) : calls'[k] = calls[k]
      /\ calls'[Len(calls) - 1] = f
  BY <1>1, <1>2, <1>4, CallsReturned
<1>8. ASSUME Good PROVE Whole'
  <2>1. Whole
    BY <1>8 DEF IInv
  <2>2. PICK m \in Nat : m + 2 = Len(calls)
    <3>1. Len(calls) - 2 \in Nat /\ Len(calls) - 2 + 2 = Len(calls)
      BY <1>3
    <3> QED
      BY <3>1
  <2>0. Len(calls) \in Nat /\ Len(calls') = Len(calls) - 1
    BY <1>3, <1>7
  <2>3. /\ m + 1 = Len(calls') /\ m < Len(calls) /\ m < Len(calls') /\ Len(calls') \in Nat
        /\ ~(m + 1 < Len(calls')) /\ m + 1 < Len(calls) /\ m + 1 + 1 = Len(calls)
        /\ m + 1 \in 1..Len(calls) /\ m + 2 \in 1..Len(calls)
        /\ \A j \in (m + 1)..Len(calls') : j = m + 1
    BY <2>0, <2>2
  <2>4. /\ calls'[m + 1] = f /\ calls[m + 1] = b /\ calls[m + 2] = C
        /\ \A j \in 1..m : calls'[j] = calls[j]
    <3>1. m = Len(calls) - 2 /\ m + 1 = Len(calls) - 1
      BY <2>0, <2>2
    <3> QED
      BY <1>3, <1>7, <2>2, <3>1
  <2>5. End(m + 1) = C.from
    BY <2>2, <2>3, <2>4 DEF End
  <2>6. Shape(b, n.from)
    BY <1>5, <2>1, <2>3, <2>4, <2>5 DEF Whole, ShapesInv
  <2>7. Shape(C, it)
    BY <1>1, <2>1, OnTop DEF Whole, Waiting
  <2>8. IsStatement(n)
    BY <1>1, <1>3, <2>7 DEF Shape
  <2>9. it \in Int /\ Len0 \in Nat /\ C.from \in Int
    <3>1. Len0 \in Nat
      BY <1>1, TokenFacts DEF TypeInv
    <3> QED
      BY <1>1, <1>3, <3>1 DEF TypeInv, CallOK
  <2>10. IsBody(n) /\ n.kind \notin {"expr", "let", "none"}
    BY <1>3, <1>5, BodyIs DEF IsBody, CallOK
  <2>11. b.fn = "def" => n.kind \in {"empty", "block"}
    <3>0. Len(calls) - 1 = 1 => m + 1 = 1 /\ m + 2 = 2
      BY <2>2, OneBelow
    <3>1. ASSUME b.fn = "def" PROVE C.fn = "block"
      <4>1. m + 1 = 1 /\ m + 2 = 2
        BY <1>3, <3>0, <3>1
      <4>2. calls[1].fn = "def" /\ calls[2] = C
        BY <2>4, <3>1, <4>1
      <4> QED
        BY <1>3, <2>1, <4>2 DEF Whole, BodyInv
    <3> QED
      BY <1>5, <3>1
  <2>12. Shape(f, it)
    <3>1. n.from \in Int
      BY <1>5, <2>9
    <3> HIDE DEF n
    <3> QED
      BY <1>3, <1>5, <2>6, <2>9, <2>10, <2>11, <3>1, ReceivedShape DEF f
  <2>13. End(m + 1)' = it
    BY <1>2, <1>4, <1>7, <2>3 DEF End
  <2>14. \A j \in (m + 1)..Len(calls') : Shape(calls'[j], End(j)')
    BY <2>3, <2>4, <2>12, <2>13
  <2>15. Proper(n) /\ Range(n.kids) \subseteq Made
    <3>1. it - 1 \in Int
      BY <2>9
    <3>2. IsSeq(C.kids)
      BY <1>3 DEF CallOK
    <3> HIDE DEF n
    <3> QED
      BY <1>1, <1>5, <2>8, <2>9, <3>1, <3>2, OnTop DEF Proper
  <2>16. Range(f.kids) \subseteq Made \cup {n}
    <3>1. Range(b.kids) \subseteq Made
      BY <1>3, <2>3, <2>4, MadeHas
    <3>2. IsSeq(b.kids)
      BY <1>3 DEF CallOK
    <3>3. Few(<<n>>) /\ b.kids \o <<n>> = f.kids
      BY <1>4, <3>2, KidsJoined DEF Few
    <3>4. \A x : <<n>> = <<x>> => x = n
      OBVIOUS
    <3> HIDE DEF n, b
    <3>5. \A x \in Range(b.kids \o <<n>>) : x \in Range(b.kids) \/ <<n>> = <<x>>
      BY <3>2, <3>3, KidsRange
    <3> QED
      BY <3>1, <3>3, <3>4, <3>5
  <2>17. EatenInv'
    BY <1>4, <1>7 DEF EatenInv
  <2>18. m = 0 => Len(calls') = 1
    BY <2>3
  <2>19. \A j \in (m + 1)..Len(calls') : Range(calls'[j].kids) \subseteq Made \cup {n}
    BY <2>3, <2>4, <2>16
  <2>20. calls'[m + 1].from = calls[m + 1].from /\ calls'[m + 1].fn = calls[m + 1].fn
    BY <1>4, <2>4
  <2> HIDE DEF n, b
  <2>21. IsSeq(calls')
    BY <1>7 DEF CallsInv
  <2> QED
    BY <1>1, <1>2, <1>7, <2>1, <2>3, <2>4, <2>14, <2>15, <2>17, <2>18, <2>19, <2>20, <2>21,
       WholeKept
<1> QED
  BY <1>2, <1>6, <1>8 DEF IInv, Good, Finished

-----------------------------------------------------------------------------
(* The loop over the top-level statements, as long as nothing was          *)
(* reported.                                                               *)

LEMMA NoCalls ==
  ASSUME calls' = <<>>
  PROVE  EatenInv' /\ ShapesInv' /\ BodyInv'
<1>1. Len(<<>>) = 0 /\ ~(Len(<<>>) > 1) /\ \A i \in 1..Len(<<>>) : FALSE
  <2>1. Len(<<>>) = 0
    BY NothingIsSeq
  <2>2. \A i \in 1..0 : FALSE
    OBVIOUS
  <2> QED
    BY <2>1, <2>2
<1> QED
  BY <1>1 DEF EatenInv, ShapesInv, BodyInv

LEMMA SameEnd ==
  ASSUME NEW a \in Nat, NEW b \in Nat, 1..a = 1..b
  PROVE  a = b
<1>1. (a > 0 => a \in 1..a) /\ (b > 0 => b \in 1..b)
  OBVIOUS
<1>2. (a > 0 => a \in 1..b) /\ (b > 0 => b \in 1..a)
  BY <1>1
<1> QED
  BY <1>2

(* A node joins the others, which claim what lies before it.               *)
LEMMA Topped ==
  ASSUME TypeInv, Whole, calls' = <<>>, toks' = toks, NEW n, TopNode(n),
         nodes' = Append(nodes, n), Start \in Int, Exports(n) = Start,
         it' \in Int, n.to = it' - 1, Complete(it' - 1),
         Range(n.kids) \subseteq Made
           \/ \E x : n.kids = <<x>> /\ Proper(x) /\ x.kids = <<>>
  PROVE  Whole'
<1> DEFINE claim(x) == [x EXCEPT !.from = Exports(x)]
<1>1. /\ IsSeq(nodes) /\ DOMAIN nodes = 1..Len(nodes) /\ Len(nodes) \in Nat
      /\ IsSeq(nodes') /\ DOMAIN nodes' = 1..Len(nodes') /\ Len(nodes') = Len(nodes) + 1
      /\ \A k \in 1..Len(nodes) : nodes'[k] = nodes[k]
      /\ nodes'[Len(nodes) + 1] = n
  <2>1. IsSeq(nodes) /\ IsSeq(nodes')
    BY Appended DEF TypeInv
  <2> QED
    BY <2>1, Appended, SeqFacts
<1>2. \A k \in 1..(Len(nodes) + 1) : k \in 1..Len(nodes) \/ k = Len(nodes) + 1
  BY <1>1
<1>3. (\A i \in DOMAIN nodes : TopNode(nodes[i]))'
  <2>1. \A i \in DOMAIN nodes' : TopNode(nodes'[i])
    BY <1>1, <1>2 DEF Whole, TopInv
  <2>2. \A x : TopNode(x)' <=> TopNode(x)
    BY SameProper
  <2> QED
    BY <2>1, <2>2
<1>4. Tile(Claims, 1, Start - 1)
  BY DEF Whole, TopInv, Claims
<1>5. IsSeq(Claims) /\ Len(Claims) = Len(nodes)
  <2>1. Claims \in Seq({Claims[i] : i \in DOMAIN Claims})
    <3>1. DOMAIN Claims = 1..Len(nodes)
      BY <1>1 DEF Claims
    <3> HIDE DEF claim
    <3>2. Claims \in [1..Len(nodes) -> {Claims[i] : i \in DOMAIN Claims}]
      BY <3>1 DEF Claims
    <3> QED
      BY <1>1, <3>2, SeqDef
  <2>2. DOMAIN Claims = 1..Len(Claims) /\ Len(Claims) \in Nat
    BY <2>1, LenProperties
  <2>3. 1..Len(Claims) = 1..Len(nodes)
    BY <1>1, <2>2 DEF Claims
  <2>4. Len(Claims) = Len(nodes)
    BY <1>1, <2>2, <2>3, SameEnd
  <2> QED
    BY <2>1, <2>4 DEF IsSeq
<1>6. Claims' = Append(Claims, claim(n))
  <2>1. /\ IsSeq(Append(Claims, claim(n))) /\ Len(Append(Claims, claim(n))) = Len(nodes) + 1
        /\ \A k \in 1..Len(nodes) : Append(Claims, claim(n))[k] = Claims[k]
        /\ Append(Claims, claim(n))[Len(nodes) + 1] = claim(n)
    BY <1>5, Appended
  <2>2. \A k \in 1..Len(nodes) : Claims[k] = claim(nodes[k])
    BY <1>1 DEF Claims
  <2>3. DOMAIN Append(Claims, claim(n)) = 1..(Len(nodes) + 1)
    BY <2>1, SeqFacts
  <2>4. Claims' = [i \in 1..(Len(nodes) + 1) |-> claim(nodes'[i])]
    <3>1. \A x : Exports(x)' = Exports(x)
      BY SameExports
    <3> QED
      BY <1>1, <3>1 DEF Claims
  <2>5. Append(Claims, claim(n)) = [i \in 1..(Len(nodes) + 1) |-> Append(Claims, claim(n))[i]]
    <3>1. Append(Claims, claim(n)) \in
            Seq({Append(Claims, claim(n))[k] : k \in DOMAIN Append(Claims, claim(n))})
      BY <2>1 DEF IsSeq
    <3>2. Append(Claims, claim(n)) \in
            [1..Len(Append(Claims, claim(n))) ->
               {Append(Claims, claim(n))[k] : k \in DOMAIN Append(Claims, claim(n))}]
      BY <3>1, LenProperties
    <3> QED
      BY <2>3, <3>2
  <2>6. \A i \in 1..(Len(nodes) + 1) : claim(nodes'[i]) = Append(Claims, claim(n))[i]
    BY <1>1, <1>2, <2>1, <2>2
  <2> QED
    BY <2>4, <2>5, <2>6
<1>7. Tile(Claims, 1, it - 1)'
  <2>1. claim(n).from = Start /\ claim(n).to = it' - 1
    BY DEF TopNode
  <2> HIDE DEF claim
  <2>2. Tile(Claims', 1, it' - 1)
    BY <1>4, <1>5, <1>6, <2>1, TileAppended
  <2> QED
    BY <2>2 DEF Tile
<1>8. TopInv'
  <2>1. (calls = <<>> /\ it > 1 => Complete(it - 1))'
    BY DEF Complete
  <2>2. Start' = it'
    BY DEF Start
  <2> QED
    BY <1>3, <1>7, <2>1, <2>2 DEF TopInv, Claims
<1>9. NodesInv'
  <2>1. Whole => NodesInv
    BY DEF Whole
  <2>2. ASSUME NEW Y, Made \subseteq Y, Range(n.kids) \subseteq Y PROVE Made' \subseteq Y
    <3>1. \A i \in DOMAIN nodes' : Range(nodes'[i].kids) \subseteq Y
      BY <1>1, <1>2, <2>2, MadeHas
    <3>2. \A i \in DOMAIN calls' : FALSE
      <4>1. DOMAIN <<>> = 1..0
        BY NothingIsSeq, SeqFacts
      <4>2. \A i \in 1..0 : FALSE
        OBVIOUS
      <4> QED
        BY <4>1, <4>2
    <3> QED
      BY <3>1, <3>2, MadeFrom
  <2>3. CASE Range(n.kids) \subseteq Made
    <3>1. Made' \subseteq Made
      BY <2>2, <2>3
    <3> QED
      BY <2>1, <3>1, NodesKept
  <2>4. ASSUME NEW x, n.kids = <<x>>, Proper(x), x.kids = <<>> PROVE NodesInv'
    <3>1. Range(n.kids) \subseteq {x} /\ Range(x.kids) \subseteq Made
      <4>1. \A y \in Range(<<>> \o <<x>>) : y \in Range(<<>>) \/ <<x>> = <<y>>
        BY NothingIsSeq, KidsRange DEF Few
      <4>2. <<>> \o <<x>> = Append(<<>>, x)
        BY NothingIsSeq, KidsJoined DEF Few
      <4>3. Append(<<>>, x) = <<x>>
        OBVIOUS
      <4> QED
        BY <2>4, <4>1, <4>2, <4>3, NoKids
    <3>2. Made' \subseteq Made \cup {x}
      BY <2>2, <3>1
    <3> QED
      BY <2>1, <2>4, <3>1, <3>2, NodesGained
  <2> QED
    BY <2>3, <2>4
<1> QED
  BY <1>8, <1>9, NoCalls DEF Whole

(* A definition begins, perhaps with "export" before it.                   *)
LEMMA Started ==
  ASSUME TypeInv, Whole, calls = <<>>, toks' = toks, nodes' = nodes, NEW f, IsSeq(calls'),
         Len(calls') = 1, calls' # <<>>, C' = f, calls'[1] = f, f.kids = <<>>,
         Exports(Node(f.fn, f.from, 0, <<>>)) = it,
         Shape(f, IF f.at \in Waiting THEN f.mark ELSE it'), EatenInv'
  PROVE  Whole'
<1>1. DOMAIN calls' = 1..1 /\ \A j \in 1..1 : j = 1
  BY SeqFacts
<1>2. End(1)' = IF f.at \in Waiting THEN f.mark ELSE it'
  BY DEF End
<1>3. ShapesInv'
  <2>1. \A j \in 1..Len(calls') : Shape(calls'[j], End(j)')
    BY <1>1, <1>2
  <2>2. \A g, d : Shape(g, d)' <=> Shape(g, d)
    BY SameShape
  <2> QED
    BY <2>1, <2>2 DEF ShapesInv
<1>4. BodyInv'
  BY DEF BodyInv
<1>5. NodesInv'
  <2>1. \A i \in DOMAIN nodes' : Range(nodes'[i].kids) \subseteq Made
    BY MadeHas
  <2>2. \A i \in DOMAIN calls' : Range(calls'[i].kids) \subseteq Made
    BY <1>1, NoKids
  <2> QED
    BY <2>1, <2>2, MadeFrom, NodesKept DEF Whole
<1>6. TopInv'
  <2>1. Start' = it
    BY SameExports DEF Start
  <2>2. Start = it
    BY DEF Start
  <2> QED
    BY <2>1, <2>2, SameClaims DEF TopInv, Claims, Whole
<1> QED
  BY <1>3, <1>4, <1>5, <1>6 DEF Whole

-----------------------------------------------------------------------------
(* Steps of the expression under way, and steps that end the run.          *)

LEMMA SameForeign == EP!Foreign = Foreign
BY DEF EP!Foreign, Foreign, EP!Unknown, E!Unknown

LEMMA TwoSpans ==
  ASSUME NEW lo \in Int, NEW m \in Int, NEW hi \in Int
  PROVE  \A i \in lo..(hi - 1) : i \in lo..(m - 1) \/ i \in m..(hi - 1)
OBVIOUS

LEMMA ExpressionStep ==
  ASSUME IInv, Expression
  PROVE  IInv'
<1>1. TypeInv' /\ EP!Known /\ EP!Step
  BY ExpressionTyped DEF IInv
<1>2. EP!Eats /\ (outcome' = "running" => EP!Last(frames').mode # "define")
  BY <1>1, ExpressionInputs, EP!StepEats, EP!ModeLeft
<1>3. /\ calls' = calls /\ nodes' = nodes /\ logged' = logged /\ result' = "parsing"
      /\ result = "parsing" /\ toks' = toks /\ (error => error') /\ outcome = "running"
  BY <1>1, <1>2 DEF Expression, EP!Eats, EP!Known, E!Step, E!Scanning
<1>4. TypeInv /\ calls # <<>> /\ C.at \in Waiting /\ C' = C
  BY <1>3 DEF IInv, TypeInv, ExpressionInv, C, Last
<1>5. /\ Len(calls) \in Nat /\ DOMAIN calls = 1..Len(calls) /\ IsSeq(calls) /\ CallOK(C)
      /\ it \in 1..(Len0 + 1)
  BY <1>4, TopCall
<1>6. \A i \in 1..Len(calls) : End(i)' = End(i)
  BY <1>3, <1>4 DEF End
<1>7. ASSUME Good, Good' PROVE Whole'
  <2>1. Whole
    BY <1>7 DEF IInv
  <2>2. ShapesInv'
    <3>1. ASSUME NEW i \in 1..Len(calls') PROVE Shape(calls[i], End(i))'
      <4>1. i \in 1..Len(calls) /\ Shape(calls[i], End(i)) /\ End(i)' = End(i)
        BY <1>3, <1>6, <2>1 DEF Whole, ShapesInv
      <4>2. Shape(calls[i], End(i))' <=> Shape(calls[i], End(i))
        <5> DEFINE e == End(i)
        <5>1. \A g, d : Shape(g, d)' <=> Shape(g, d)
          BY <1>3, SameShape
        <5> QED
          BY <1>3, <4>1, <5>1
      <4> QED
        BY <4>1, <4>2
    <3> QED
      BY <3>1 DEF ShapesInv
  <2>3. NodesInv' /\ BodyInv'
    <3>1. Made' = Made
      BY <1>3 DEF Made
    <3> QED
      BY <1>3, <2>1, <3>1, NodesKept DEF Whole, BodyInv
  <2>4. TopInv'
    BY <1>3, <1>4, <2>1, TopKept DEF Whole
  <2>5. EatenInv'
    <3>1. /\ it' >= it
          /\ IF E!F.mode = "define"
             THEN /\ it' > it + 1 /\ toks[it + 1] \in {"x", "mut"}
                  /\ Clean(it + 1, it' - 1)
             ELSE Clean(it, it' - 1)
      BY <1>2, <1>7, SameForeign DEF EP!Eats, EP!Passes, Clean, Good, EP!F, E!F, EP!Last, E!Last
    <3>2. \/ Defines(C) /\ E!F.mode = "define" /\ it = C.mark
          \/ E!F.mode # "define" /\ Eaten(C)
      BY <1>3, <1>4, <2>1 DEF Whole, EatenInv
    <3>3. outcome' = "running" => (E!F)'.mode # "define"
      BY <1>2 DEF E!F, E!Last, EP!Last
    <3>4. Defines(C)' <=> Defines(C)
      BY <1>3, <1>4 DEF Defines
    <3>5. it \in Int /\ it' \in Int /\ C.mark \in Int
      <4>1. Len0 \in Nat
        BY <1>4, TokenFacts DEF TypeInv
      <4>2. it' \in 1..(Len0 + 2)
        BY <1>1, <1>3 DEF TypeInv, Len0
      <4>3. C.mark \in 1..Len0
        BY <1>5 DEF CallOK
      <4> QED
        BY <1>5, <4>1, <4>2, <4>3
    <3>6. Eaten(C)'
      <4>1. CASE Defines(C) /\ E!F.mode = "define" /\ it = C.mark
        <5>1. it' > C.mark + 1 /\ toks[C.mark + 1] \in {"x", "mut"} /\ Clean(C.mark + 1, it' - 1)
          BY <3>1, <4>1
        <5> QED
          BY <1>3, <1>4, <3>4, <4>1, <5>1 DEF Eaten, Clean
      <4>2. CASE E!F.mode # "define" /\ Eaten(C)
        <5>1. Clean(it, it' - 1)
          BY <3>1, <4>2
        <5>2. ASSUME NEW lo \in Int, Clean(lo, it - 1) PROVE Clean(lo, it' - 1)
          <6>1. \A i \in lo..(it' - 1) : i \in lo..(it - 1) \/ i \in it..(it' - 1)
            BY <3>5, TwoSpans
          <6> QED
            BY <5>1, <5>2, <6>1 DEF Clean
        <5>3. CASE Defines(C)
          <6>1. it > C.mark + 1 /\ toks[C.mark + 1] \in {"x", "mut"} /\ Clean(C.mark + 1, it - 1)
            BY <4>2, <5>3 DEF Eaten
          <6>2. it' > C.mark + 1 /\ C.mark + 1 \in Int
            BY <3>1, <3>5, <6>1
          <6>3. Clean(C.mark + 1, it' - 1)
            BY <5>2, <6>1, <6>2
          <6> QED
            BY <1>3, <1>4, <3>4, <5>3, <6>1, <6>2, <6>3 DEF Eaten, Clean
        <5>4. CASE ~Defines(C)
          <6>1. it >= C.mark /\ Clean(C.mark, it - 1)
            BY <4>2, <5>4 DEF Eaten
          <6>2. it' >= C.mark
            BY <3>1, <3>5, <6>1
          <6>3. Clean(C.mark, it' - 1)
            BY <3>5, <5>2, <6>1
          <6> QED
            BY <1>3, <1>4, <3>4, <5>4, <6>2, <6>3 DEF Eaten, Clean
        <5> QED
          BY <5>3, <5>4
      <4> QED
        BY <3>2, <4>1, <4>2
    <3> QED
      BY <3>3, <3>6 DEF EatenInv
  <2> QED
    BY <2>2, <2>3, <2>4, <2>5 DEF Whole
<1>8. Good' => Good
  <2>1. error' = FALSE \/ error' = TRUE
    BY <1>1 DEF TypeInv
  <2> QED
    BY <1>3, <2>1 DEF Good
<1> QED
  BY <1>1, <1>3, <1>7, <1>8 DEF IInv, Finished

LEMMA Unmoved ==
  ASSUME TypeInv, Whole, UNCHANGED <<toks, it, frames, outcome, calls, nodes>>
  PROVE  Whole'
<1>1. \A i : End(i)' = End(i)
  BY DEF End, C, Last
<1>2. ShapesInv'
  <2>1. ASSUME NEW i \in 1..Len(calls') PROVE Shape(calls[i], End(i))'
    <3>1. Shape(calls[i], End(i)) /\ End(i)' = End(i)
      BY <1>1 DEF Whole, ShapesInv
    <3>2. \A g, d : Shape(g, d)' <=> Shape(g, d)
      BY SameShape
    <3> QED
      BY <3>1, <3>2
  <2> QED
    BY <2>1 DEF ShapesInv
<1>3. NodesInv' /\ BodyInv'
  <2>1. Made' = Made
    BY DEF Made
  <2> QED
    BY <2>1, NodesKept DEF Whole, BodyInv
<1>4. TopInv'
  <2>1. Start' = Start
    BY DEF Start, Exports
  <2> QED
    BY <2>1, SameClaims DEF Whole, TopInv, Claims, Complete
<1>5. EatenInv'
  BY DEF Whole, EatenInv, Eaten, Defines, Clean, C, Last, E!F, E!Last
<1> QED
  BY <1>2, <1>3, <1>4, <1>5 DEF Whole

LEMMA Ending ==
  ASSUME IInv, UNCHANGED <<shared, calls, nodes, logged>>,
         result' \in {"thrown", "undefined"} \/ (result' = result /\ result # "parsing")
  PROVE  IInv'
<1>1. TypeInv'
  BY EndedTyped DEF IInv, TypeInv
<1>2. UNCHANGED <<toks, it, frames, error, outcome, tree>> /\ logged' = logged
  BY DEF shared
<1>3. Good => Whole'
  BY <1>2, Unmoved DEF IInv
<1>4. Finished'
  BY <1>2 DEF IInv, Finished, Len0
<1> QED
  BY <1>1, <1>2, <1>3, <1>4 DEF IInv, Good

LEMMA ReturnStep ==
  ASSUME IInv, ReturnAtEof \/ ReturnAtForeign
  PROVE  IInv'
<1>1. /\ calls = <<>> /\ calls' = <<>> /\ Idle /\ it <= Len0 /\ Return
      /\ toks' = toks /\ it' = it /\ nodes' = nodes /\ logged' = logged /\ NoExpression
      /\ result' \in {"undefined", "returned"} /\ error' \in BOOLEAN
      /\ (error' = error /\ toks[it] = "EOF") \/ error' = TRUE
  BY DEF ReturnAtEof, ReturnAtForeign, Return, TopLevel, IInv, TypeInv, Token
<1>2. TypeInv'
  BY <1>1, TopResting DEF IInv, TypeInv, Len0
<1>3. ASSUME error' = error, Good PROVE Whole'
  BY <1>1, <1>3, Unmoved DEF IInv, NoExpression
<1>4. Finished'
  <2>1. toks[it] = "EOF" => it = Len0
    <3>1. it \in 1..Len0
      <4>1. Len0 \in Nat /\ it \in 1..(Len0 + 2)
        BY TokenFacts DEF IInv, TypeInv
      <4> QED
        BY <1>1, <4>1
    <3> QED
      BY <3>1, TokenFacts DEF IInv, TypeInv
  <2> QED
    BY <1>1, <2>1 DEF Finished, Len0
<1> QED
  BY <1>1, <1>2, <1>3, <1>4 DEF IInv, Good

-----------------------------------------------------------------------------
(* The steps of the functions, one by one.                                 *)

LEMMA Here ==
  ASSUME IInv, NEW fn, NEW p, At(fn, p)
  PROVE  /\ TypeInv /\ calls # <<>> /\ Idle /\ C.fn = fn /\ C.at = p
         /\ Len0 \in Nat /\ it \in 1..Len0 /\ it \in Int /\ it <= Len0
         /\ CallOK(C) /\ IsSeq(C.kids) /\ C.from \in Int
         /\ p = "begin" => it = C.from /\ toks[it] = Opening(fn)
         /\ Good => Shape(C, IF p \in Waiting THEN C.mark ELSE it)
<1>1. TypeInv /\ calls # <<>> /\ Idle /\ C.fn = fn /\ C.at = p /\ it <= Len0
  BY DEF IInv, At
<1>2. Len0 \in Nat /\ CallOK(C) /\ it \in 1..(Len0 + 1)
  BY <1>1, TokenFacts, TopCall DEF TypeInv
<1>3. it \in 1..Len0 /\ it \in Int
  BY <1>1, <1>2
<1>4. IsSeq(C.kids) /\ C.from \in 1..Len0
  BY <1>2 DEF CallOK
<1>5. C.from \in Int
  BY <1>2, <1>4
<1>6. Good => Shape(C, IF p \in Waiting THEN C.mark ELSE it)
  BY <1>1, OnTop DEF IInv, Whole
<1> QED
  BY <1>1, <1>2, <1>3, <1>4, <1>5, <1>6 DEF TypeInv, AtBegin

(* What lies ahead of the cursor.                                          *)
LEMMA Ahead ==
  ASSUME toks \in Inputs, NEW k \in 1..Len0
  PROVE  /\ k \in 1..(Len0 + 1) /\ k + 1 \in 1..(Len0 + 1)
         /\ toks[k] # "EOF" => k + 1 \in 1..Len0
<1>1. Len0 \in Nat /\ (toks[k] # "EOF" => k + 1 \in 1..Len0)
  BY TokenFacts
<1> QED
  BY <1>1

LEMMA NoneFew == Few(<<>>) /\ \A n : <<>> # <<n>>
BY DEF Few

(* Going on without a new kid.                                             *)
LEMMA GoingOn ==
  ASSUME IInv, NEW fn, NEW q, At(fn, q), NEW k \in 1..(Len0 + 1), NEW p \in Points(fn),
         p # "begin", p \notin Waiting, Goto(k, p, <<>>),
         \A f : f.fn = fn /\ f.at = p /\ f.from = C.from /\ f.kids = C.kids /\ Good
                => Shape(f, k)
  PROVE  IInv'
<1>1. calls # <<>> /\ Idle /\ CallOK(C) /\ IsSeq(C.kids) /\ C.fn = fn
  BY Here
<1>2. C.kids \o <<>> = C.kids
  BY <1>1, NoneFew, KidsJoined
<1> DEFINE g == Gone(p, <<>>)
<1>3. g.fn = fn /\ g.at = p /\ g.from = C.from /\ g.kids = C.kids \o <<>>
  BY <1>1 DEF CallOK, Gone
<1> HIDE DEF g
<1>4. Good => Shape(g, k)
  BY <1>2, <1>3
<1> QED
  BY <1>1, <1>4, NoneFew, Going DEF g

(* Going on with a new kid.                                                *)
LEMMA GoingWith ==
  ASSUME IInv, NEW fn, NEW q, At(fn, q), NEW k \in 1..(Len0 + 1), NEW p \in Points(fn),
         p # "begin", p \notin Waiting, NEW n, Goto(k, p, <<n>>),
         Good => Proper(n) /\ n.kids = <<>>,
         \A f : f.fn = fn /\ f.at = p /\ f.from = C.from /\ f.kids = Append(C.kids, n) /\ Good
                => Shape(f, k)
  PROVE  IInv'
<1>1. calls # <<>> /\ Idle /\ CallOK(C) /\ IsSeq(C.kids) /\ C.fn = fn
  BY Here
<1>2. Few(<<n>>) /\ C.kids \o <<n>> = Append(C.kids, n)
  BY <1>1, KidsJoined DEF Few
<1> DEFINE g == Gone(p, <<n>>)
<1>3. g.fn = fn /\ g.at = p /\ g.from = C.from /\ g.kids = C.kids \o <<n>>
  <2>1. g.fn = C.fn /\ g.at = p /\ g.from = C.from /\ g.kids = C.kids \o <<n>>
    BY <1>1 DEF CallOK, Gone
  <2> QED
    BY <1>1, <2>1
<1> HIDE DEF g
<1>4. Good => Shape(g, k)
  BY <1>2, <1>3
<1>5. \A x : <<n>> = <<x>> => x = n
  OBVIOUS
<1>6. Good => \A x : <<n>> = <<x>> => Proper(x) /\ x.kids = <<>>
  BY <1>5
<1> QED
  BY <1>1, <1>2, <1>4, <1>6, Going DEF g

(* Asking for an expression, with a new kid or without.                    *)
LEMMA AskingOn ==
  ASSUME IInv, NEW fn, NEW q, At(fn, q), NEW k \in 1..Len0, NEW mode \in {"scan", "define"},
         NEW p \in Points(fn), p \in Waiting, Evaluate(k, mode, p, <<>>),
         \A f : f.fn = fn /\ f.at = p /\ f.from = C.from /\ f.kids = C.kids /\ Good
                => Shape(f, k) /\ (mode = "define" <=> Defines(f))
  PROVE  IInv'
<1>1. calls # <<>> /\ Idle /\ CallOK(C) /\ IsSeq(C.kids) /\ C.fn = fn
  BY Here
<1>2. C.kids \o <<>> = C.kids
  BY <1>1, NoneFew, KidsJoined
<1> DEFINE g == Asked(k, p, <<>>)
<1>3. g.fn = fn /\ g.at = p /\ g.from = C.from /\ g.kids = C.kids \o <<>>
  <2>1. g.fn = C.fn /\ g.at = p /\ g.from = C.from /\ g.kids = C.kids \o <<>>
    BY <1>1 DEF CallOK, Asked
  <2> QED
    BY <1>1, <2>1
<1> HIDE DEF g
<1>4. Good => Shape(g, k) /\ (mode = "define" <=> Defines(g))
  BY <1>2, <1>3
<1> QED
  BY <1>1, <1>4, NoneFew, Evaluating DEF g

LEMMA ResultShape ==
  ASSUME NEW f, NEW e, f.fn = "def", f.at = "result", toks[f.from] = "def",
         toks[f.from + 2] = "(", Defaults(f.kids), toks[e - 1] = ")"
  PROVE  Shape(f, e)
BY DEF Shape, DefShape

LEMMA InitShape ==
  ASSUME NEW f, NEW e, f.fn = "def", f.at = "init", toks[f.from] = "def",
         toks[f.from + 2] = "(", Defaults(f.kids), toks[e - 1] = "="
  PROVE  Shape(f, e)
BY DEF Shape, DefShape

LEMMA ArrowRead ==
  ASSUME NEW k \in Int, toks[k] = "->", toks[k + 1] = "x"
  PROVE  AfterSignature(k + 2)
<1>1. (k + 2) - 2 = k /\ (k + 2) - 1 = k + 1
  OBVIOUS
<1>2. toks[(k + 2) - 2] = "->" /\ toks[(k + 2) - 1] = "x"
  BY <1>1, Zenon
<1> QED
  BY <1>2, Zenon DEF AfterSignature

LEMMA HeadingStep ==
  ASSUME IInv, Heading
  PROVE  IInv'
<1> DEFINE pattern == <<"x", "(">>
           wrong == {j \in 1..2 : it + j > Len0 \/ toks[it + j] # pattern[j]}
<1>1. /\ At("def", "begin")
      /\ IF wrong = {} THEN Goto(it + 3, "params", <<>>) ELSE Reject(it + Min(wrong))
  BY DEF Heading
<1>2. /\ Len0 \in Nat /\ it \in 1..Len0 /\ C.from = it /\ calls # <<>> /\ Idle
      /\ (Good => Shape(C, it)) /\ C.at = "begin" /\ C.fn = "def" /\ CallOK(C)
      /\ IsSeq(C.kids)
  BY <1>1, Here DEF Waiting
<1>3. CASE wrong = {}
  <2>1. it + 2 <= Len0 /\ toks[it + 2] = "("
    BY <1>2, <1>3
  <2>2. it + 3 \in 1..(Len0 + 1)
    BY <1>2, <2>1
  <2>3. "params" \in Points("def") /\ "params" # "begin" /\ "params" \notin Waiting
    BY DEF Points, Waiting
  <2>5. Goto(it + 3, "params", <<>>)
    BY <1>1, <1>3
  <2>4. ASSUME NEW f, f.fn = "def", f.at = "params", f.from = C.from, f.kids = C.kids, Good
        PROVE  Shape(f, it + 3)
    <3>1. C.kids = <<>> /\ toks[C.from] = "def"
      BY <1>2, <2>4 DEF Shape, DefShape
    <3>2. Defaults(<<>>)
      BY NothingIsSeq, SeqFacts DEF Defaults
    <3> QED
      BY <1>2, <2>1, <2>4, <3>1, <3>2 DEF Shape, DefShape
  <2> QED
    BY <1>1, <2>2, <2>3, <2>4, <2>5, GoingOn
<1>4. CASE wrong # {}
  <2>1. wrong \subseteq 1..2 /\ wrong \subseteq Nat
    OBVIOUS
  <2>2. PICK x \in wrong : \A y \in wrong : x <= y
    BY <1>4, <2>1, LeastExists
  <2>3. Min(wrong) = x
    BY <1>4, <2>1, <2>2 DEF Min
  <2>4. it + x \in 1..(Len0 + 1)
    <3>1. x = 1 \/ x = 2
      BY <2>1
    <3>2. CASE x = 1
      BY <1>2, <3>2
    <3>3. CASE x = 2
      <4>1. 1 \notin wrong
        BY <2>2, <3>3
      <4>2. it + 1 <= Len0
        BY <1>2, <4>1
      <4> QED
        BY <1>2, <3>3, <4>2
    <3> QED
      BY <3>1, <3>2, <3>3
  <2> QED
    BY <1>1, <1>2, <1>4, <2>3, <2>4, Rejecting
<1> QED
  BY <1>3, <1>4

LEMMA ParameterStep ==
  ASSUME IInv, Parameter
  PROVE  IInv'
<1>1. At("def", "params")
  BY DEF Parameter
<1>2. /\ Len0 \in Nat /\ it \in 1..Len0 /\ calls # <<>> /\ Idle /\ it \in Int
      /\ (Good => Shape(C, it)) /\ C.at = "params" /\ C.fn = "def" /\ toks \in Inputs
  BY <1>1, Here DEF Waiting, TypeInv
<1>3. CASE Token = ")" /\ Goto(it + 1, "result", <<>>)
  <2>1. "result" \in Points("def") /\ "result" # "begin" /\ "result" \notin Waiting
    BY DEF Points, Waiting
  <2>2. ASSUME NEW f, f.fn = "def", f.at = "result", f.from = C.from, f.kids = C.kids, Good
        PROVE  Shape(f, it + 1)
    <3>1. Defaults(C.kids) /\ toks[C.from] = "def" /\ toks[C.from + 2] = "("
      BY <1>2, <2>2 DEF Shape, DefShape
    <3>2. toks[(it + 1) - 1] = ")"
      <4>1. (it + 1) - 1 = it
        BY <1>2
      <4> QED
        BY <1>3, <4>1 DEF Token
    <3> QED
      BY <2>2, <3>1, <3>2, ResultShape
  <2> QED
    BY <1>1, <1>2, <1>3, <2>1, <2>2, Ahead, GoingOn
<1>4. CASE Token = "x" /\ toks[it + 1] = ":" /\ Goto(it + 3, "default", <<>>)
  <2>1. "default" \in Points("def") /\ "default" # "begin" /\ "default" \notin Waiting
    BY DEF Points, Waiting
  <2>2. ASSUME NEW f, f.fn = "def", f.at = "default", f.from = C.from, f.kids = C.kids, Good
        PROVE  Shape(f, it + 3)
    BY <1>2, <2>2 DEF Shape, DefShape
  <2>3. it + 1 \in 1..Len0
    BY <1>2, <1>4, Ahead DEF Token
  <2>4. it + 1 + 1 \in 1..Len0
    BY <1>2, <1>4, <2>3, Ahead
  <2>5. it + 3 \in 1..(Len0 + 1)
    BY <1>2, <2>4
  <2> QED
    BY <1>1, <1>4, <2>1, <2>2, <2>5, GoingOn
<1>5. CASE Reject(it + 1) \/ Reject(it)
  BY <1>2, <1>5, Ahead, Rejecting
<1> QED
  BY <1>3, <1>4, <1>5 DEF Parameter

LEMMA DefaultStep ==
  ASSUME IInv, Default
  PROVE  IInv'
<1>1. At("def", "default")
  BY DEF Default
<1>2. /\ Len0 \in Nat /\ it \in 1..Len0 /\ calls # <<>> /\ Idle /\ it \in Int /\ CallOK(C)
      /\ IsSeq(C.kids)
      /\ (Good => Shape(C, it)) /\ C.at = "default" /\ C.fn = "def" /\ toks \in Inputs
  BY <1>1, Here DEF Waiting, TypeInv
<1>3. CASE Token = "=" /\ Evaluate(it + 1, "scan", "init", <<>>)
  <2>1. "init" \in Points("def") /\ "init" \in Waiting
    BY DEF Points, Waiting
  <2>2. it + 1 \in 1..Len0
    BY <1>2, <1>3, Ahead DEF Token
  <2>3. ASSUME NEW f, f.fn = "def", f.at = "init", f.from = C.from, f.kids = C.kids, Good
        PROVE  Shape(f, it + 1) /\ ~Defines(f)
    <3>1. Defaults(C.kids) /\ toks[C.from] = "def" /\ toks[C.from + 2] = "("
      BY <1>2, <2>3 DEF Shape, DefShape
    <3>2. toks[(it + 1) - 1] = "="
      <4>1. (it + 1) - 1 = it
        BY <1>2
      <4> QED
        BY <1>3, <4>1 DEF Token
    <3>3. ~Defines(f)
      BY <2>3 DEF Defines
    <3> QED
      BY <2>3, <3>1, <3>2, <3>3, InitShape
  <2> QED
    BY <1>1, <1>3, <2>1, <2>2, <2>3, AskingOn
<1>4. CASE Goto(it, "separator", <<>>)
  <2>1. "separator" \in Points("def") /\ "separator" # "begin" /\ "separator" \notin Waiting
    BY DEF Points, Waiting
  <2>2. ASSUME NEW f, f.fn = "def", f.at = "separator", f.from = C.from, f.kids = C.kids, Good
        PROVE  Shape(f, it)
    BY <1>2, <2>2 DEF Shape, DefShape, Defaults
  <2> QED
    BY <1>1, <1>2, <1>4, <2>1, <2>2, Ahead, GoingOn
<1> QED
  BY <1>3, <1>4 DEF Default

LEMMA SeparatorStep ==
  ASSUME IInv, Separator
  PROVE  IInv'
<1>1. At("def", "separator")
  BY DEF Separator
<1>2. /\ Len0 \in Nat /\ it \in 1..Len0 /\ calls # <<>> /\ Idle /\ it \in Int /\ toks \in Inputs
      /\ (Good => Shape(C, it)) /\ C.at = "separator" /\ C.fn = "def"
  BY <1>1, Here DEF Waiting, TypeInv
<1>3. ASSUME toks[it] \in {",", ")"}, Good
      PROVE  Defaults(C.kids) /\ toks[C.from] = "def" /\ toks[C.from + 2] = "("
  BY <1>2, <1>3 DEF Shape, DefShape, Defaults, Separated
<1>4. CASE Token = "," /\ Goto(it + 1, "params", <<>>)
  <2>1. "params" \in Points("def") /\ "params" # "begin" /\ "params" \notin Waiting
    BY DEF Points, Waiting
  <2>2. ASSUME NEW f, f.fn = "def", f.at = "params", f.from = C.from, f.kids = C.kids, Good
        PROVE  Shape(f, it + 1)
    <3>1. Defaults(C.kids) /\ toks[C.from] = "def" /\ toks[C.from + 2] = "("
      BY <1>3, <1>4, <2>2 DEF Token
    <3> QED
      BY <2>2, <3>1 DEF Shape, DefShape
  <2> QED
    BY <1>1, <1>2, <1>4, <2>1, <2>2, Ahead, GoingOn
<1>5. CASE Token = ")" /\ Goto(it + 1, "result", <<>>)
  <2>1. "result" \in Points("def") /\ "result" # "begin" /\ "result" \notin Waiting
    BY DEF Points, Waiting
  <2>2. ASSUME NEW f, f.fn = "def", f.at = "result", f.from = C.from, f.kids = C.kids, Good
        PROVE  Shape(f, it + 1)
    <3>1. Defaults(C.kids) /\ toks[C.from] = "def" /\ toks[C.from + 2] = "("
      BY <1>3, <1>5, <2>2 DEF Token
    <3>2. toks[(it + 1) - 1] = ")"
      <4>1. (it + 1) - 1 = it
        BY <1>2
      <4> QED
        BY <1>5, <4>1 DEF Token
    <3> QED
      BY <2>2, <3>1, <3>2, ResultShape
  <2> QED
    BY <1>1, <1>2, <1>5, <2>1, <2>2, Ahead, GoingOn
<1>6. CASE Reject(it)
  BY <1>2, <1>6, Ahead, Rejecting
<1> QED
  BY <1>4, <1>5, <1>6 DEF Separator

LEMMA ResultTypeStep ==
  ASSUME IInv, ResultType
  PROVE  IInv'
<1>1. At("def", "result")
  BY DEF ResultType
<1>2. /\ Len0 \in Nat /\ it \in 1..Len0 /\ calls # <<>> /\ Idle /\ it \in Int /\ toks \in Inputs
      /\ (Good => Shape(C, it)) /\ C.at = "result" /\ C.fn = "def"
  BY <1>1, Here DEF Waiting, TypeInv
<1>3. "body?" \in Points("def") /\ "body?" # "begin" /\ "body?" \notin Waiting
  BY DEF Points, Waiting
<1>4. CASE Goto(it, "body?", <<>>)
  <2>1. ASSUME NEW f, f.fn = "def", f.at = "body?", f.from = C.from, f.kids = C.kids, Good
        PROVE  Shape(f, it)
    BY <1>2, <2>1 DEF Shape, DefShape, AfterSignature
  <2> QED
    BY <1>1, <1>2, <1>3, <1>4, <2>1, Ahead, GoingOn
<1>5. CASE Token = "->" /\ toks[it + 1] = "x" /\ Goto(it + 2, "body?", <<>>)
  <2>1. it + 1 \in 1..Len0
    BY <1>2, <1>5, Ahead DEF Token
  <2>2. it + 2 \in 1..(Len0 + 1)
    BY <1>2, <2>1
  <2>3. ASSUME NEW f, f.fn = "def", f.at = "body?", f.from = C.from, f.kids = C.kids, Good
        PROVE  Shape(f, it + 2)
    <3>1. AfterSignature(it + 2)
      BY <1>2, <1>5, ArrowRead DEF Token
    <3> QED
      BY <1>2, <2>3, <3>1 DEF Shape, DefShape
  <2> QED
    BY <1>1, <1>3, <1>5, <2>2, <2>3, GoingOn
<1>6. CASE Reject(it + 1)
  BY <1>2, <1>6, Ahead, Rejecting
<1> QED
  BY <1>4, <1>5, <1>6 DEF ResultType

(* The expression that was read becomes a node.                            *)
LEMMA ParsedLeaf ==
  ASSUME IInv, Good, NEW fn, NEW p, Has(fn, p), p \in Waiting, NEW kind \in {"expr", "let"}
  PROVE  LET n == Parsed(kind)
         IN  /\ Proper(n) /\ n.kids = <<>> /\ n.kind = kind /\ n.from = C.mark /\ n.to = it - 1
             /\ C.mark \in Int /\ it \in Int
             /\ ~Defines(C) /\ kind = "expr" => IsExpression(n)
             /\ Defines(C) => IsDefinition(n)
<1> DEFINE n == Parsed(kind)
<1>1. /\ At(fn, p) /\ outcome = "parsed" /\ C.at = p /\ calls # <<>> /\ CallOK(C)
      /\ Len0 \in Nat /\ it \in Int
  BY Here DEF Has
<1>2. Eaten(C)
  BY <1>1 DEF IInv, Whole, EatenInv
<1>3. C.mark \in 1..Len0
  BY <1>1 DEF CallOK
<1>4. C.mark \in Int /\ it - 1 \in Int
  BY <1>1, <1>3
<1>5. /\ n.kids = <<>> /\ n.kind = kind /\ n.from = C.mark /\ n.to = it - 1
      /\ DOMAIN n = {"kind", "from", "to", "kids"}
  BY DEF Parsed, Node
<1> HIDE DEF n
<1>6. Proper(n)
  BY <1>4, <1>5, NothingIsSeq DEF Proper
<1>7. ~Defines(C) /\ kind = "expr" => IsExpression(n)
  BY <1>2, <1>5 DEF Eaten, Clean, IsExpression
<1>8. Defines(C) => IsDefinition(n)
  <2>1. SUFFICES ASSUME Defines(C) PROVE IsDefinition(n)
    OBVIOUS
  <2>2. it > C.mark + 1 /\ toks[C.mark + 1] \in {"x", "mut"} /\ Clean(C.mark + 1, it - 1)
    BY <1>2, <2>1 DEF Eaten
  <2>3. C.mark < it - 1
    BY <1>1, <1>4, <2>2
  <2> QED
    BY <1>5, <2>2, <2>3 DEF IsDefinition, Clean
<1> QED
  BY <1>1, <1>4, <1>5, <1>6, <1>7, <1>8 DEF n

LEMMA EndDefaultStep ==
  ASSUME IInv, EndDefault
  PROVE  IInv'
<1> DEFINE n == Parsed("expr")
<1>1. Has("def", "init") /\ At("def", "init") /\ Goto(it, "separator", <<n>>)
  BY DEF EndDefault, Has
<1>2. /\ Len0 \in Nat /\ it \in 1..Len0 /\ it \in Int /\ toks \in Inputs /\ IsSeq(C.kids)
      /\ (Good => Shape(C, C.mark)) /\ C.at = "init" /\ C.fn = "def"
  BY <1>1, Here DEF Waiting, TypeInv
<1>3. "separator" \in Points("def") /\ "separator" # "begin" /\ "separator" \notin Waiting
  BY DEF Points, Waiting
<1>4. ASSUME Good
      PROVE  Proper(n) /\ n.kids = <<>> /\ n.kind = "expr" /\ n.from = C.mark /\ n.to + 1 = it
  <2>1. /\ Proper(n) /\ n.kids = <<>> /\ n.kind = "expr" /\ n.from = C.mark
        /\ n.to = it - 1
    BY <1>1, <1>4, ParsedLeaf DEF Waiting
  <2>2. n.to + 1 = it
    BY <1>2, <2>1
  <2> QED
    BY <2>1, <2>2
<1> HIDE DEF n
<1>5. ASSUME NEW f, f.fn = "def", f.at = "separator", f.from = C.from,
             f.kids = Append(C.kids, n), Good
      PROVE  Shape(f, it)
  <2>1. /\ Defaults(C.kids) /\ toks[C.from] = "def" /\ toks[C.from + 2] = "("
        /\ toks[C.mark - 1] = "="
    BY <1>2, <1>5 DEF Shape, DefShape
  <2>2. DefaultValue(n) /\ n.to + 1 = it
    BY <1>4, <1>5, <2>1 DEF DefaultValue
  <2>3. \A i \in DOMAIN f.kids :
          (i \in DOMAIN C.kids /\ f.kids[i] = C.kids[i]) \/ f.kids[i] = n
    <3>1. /\ DOMAIN Append(C.kids, n) = 1..(Len(C.kids) + 1) /\ Len(C.kids) \in Nat
          /\ DOMAIN C.kids = 1..Len(C.kids)
          /\ \A k \in 1..Len(C.kids) : Append(C.kids, n)[k] = C.kids[k]
          /\ Append(C.kids, n)[Len(C.kids) + 1] = n
      BY <1>2, Appended, SeqFacts
    <3>2. \A k \in 1..(Len(C.kids) + 1) : k \in 1..Len(C.kids) \/ k = Len(C.kids) + 1
      BY <3>1
    <3> QED
      BY <1>5, <3>1, <3>2
  <2>4. \A i \in DOMAIN f.kids :
          DefaultValue(f.kids[i]) /\ (Separated(f.kids[i]) \/ f.kids[i].to + 1 = it)
    BY <2>1, <2>2, <2>3 DEF Defaults
  <2> QED
    BY <1>5, <2>1, <2>4 DEF Shape, DefShape
<1> QED
  BY <1>1, <1>2, <1>3, <1>4, <1>5, Ahead, GoingWith

(* A function with its body.                                               *)
LEMMA FunctionShape ==
  ASSUME NEW K, IsSeq(K), NEW n, NEW from, NEW e, n.to = e - 1, n.kind \in {"empty", "block"},
         Defaults(K), AfterSignature(n.from), toks[from] = "def", toks[from + 2] = "(",
         NEW f, f.fn = "def", f.at = "done", f.from = from, f.kids = Append(K, n)
  PROVE  Shape(f, e)
<1> DEFINE L == Append(K, n)
<1>1. /\ L # <<>> /\ Last(L) = n /\ IsSeq(L) /\ Len(L) = Len(K) + 1 /\ Len(K) \in Nat
      /\ DOMAIN K = 1..Len(K) /\ \A k \in 1..Len(K) : L[k] = K[k]
  BY Appended, SeqFacts
<1>2. DOMAIN Front(L) = DOMAIN K /\ \A i \in DOMAIN K : Front(L)[i] = K[i]
  <2>1. /\ IsSeq(Front(L)) /\ Len(Front(L)) = Len(L) - 1
        /\ \A k \in 1..(Len(L) - 1) : Front(L)[k] = L[k]
    BY <1>1, Shortened
  <2>2. DOMAIN Front(L) = 1..Len(Front(L)) /\ Len(L) - 1 = Len(K)
    BY <1>1, <2>1, SeqFacts
  <2> QED
    BY <1>1, <2>1, <2>2
<1> HIDE DEF L
<1>3. IsFunction(Node("def", from, e - 1, L))
  <2> DEFINE d == Node("def", from, e - 1, L)
  <2>1. d.kind = "def" /\ d.from = from /\ d.to = e - 1 /\ d.kids = L
    BY DEF Node
  <2> HIDE DEF d
  <2>2. \A i \in DOMAIN Front(L) :
          /\ Front(L)[i].kind = "expr" /\ toks[Front(L)[i].from - 1] = "="
          /\ toks[Front(L)[i].to + 1] \in {",", ")"}
    BY <1>2 DEF Defaults, DefaultValue, Separated
  <2>3. toks[n.from - 1] = ")" \/ (toks[n.from - 2] = "->" /\ toks[n.from - 1] = "x")
    BY DEF AfterSignature
  <2>4. IsFunction(d)
    BY <1>1, <2>1, <2>2, <2>3 DEF IsFunction
  <2> QED
    BY <2>4 DEF d
<1> QED
  BY <1>1, <1>3 DEF Shape, DefShape, L

LEMMA BodyStep ==
  ASSUME IInv, Body
  PROVE  IInv'
<1>1. At("def", "body?")
  BY DEF Body
<1>2. /\ Len0 \in Nat /\ it \in 1..Len0 /\ it \in Int /\ toks \in Inputs /\ IsSeq(C.kids)
      /\ (Good => Shape(C, it)) /\ C.at = "body?" /\ C.fn = "def" /\ calls # <<>> /\ Idle
      /\ CallOK(C) /\ it <= Len0
  BY <1>1, Here DEF Waiting, TypeInv
<1>3. ASSUME Good
      PROVE  /\ Defaults(C.kids) /\ AfterSignature(it) /\ toks[C.from] = "def"
             /\ toks[C.from + 2] = "("
  BY <1>2, <1>3 DEF Shape, DefShape
<1>4. ASSUME Semicolon(it), Goto(it + 1, "done", <<Node("empty", it, it, <<>>)>>) PROVE IInv'
  <2> DEFINE n == Node("empty", it, it, <<>>)
  <2>1. "done" \in Points("def") /\ "done" # "begin" /\ "done" \notin Waiting
    BY DEF Points, Waiting
  <2>2. Proper(n) /\ n.kids = <<>>
    BY <1>2, <1>4, EmptyProper
  <2>3. n.from = it /\ n.to = it /\ n.kind = "empty"
    BY DEF Node
  <2> HIDE DEF n
  <2>4. ASSUME NEW f, f.fn = "def", f.at = "done", f.from = C.from,
               f.kids = Append(C.kids, n), Good
        PROVE  Shape(f, it + 1)
    <3>1. n.to = (it + 1) - 1
      BY <1>2, <2>3
    <3> QED
      BY <1>2, <1>3, <2>3, <2>4, <3>1, FunctionShape
  <2>5. Goto(it + 1, "done", <<n>>) /\ it + 1 \in 1..(Len0 + 1)
    BY <1>2, <1>4, Ahead DEF n
  <2> QED
    BY <1>1, <2>1, <2>2, <2>4, <2>5, GoingWith
<1>5. CASE Token = "{" /\ Call("block", "body")
  <2>1. "body" \in Points("def")
    BY DEF Points
  <2> DEFINE f == [C EXCEPT !.at = "body"]
  <2>2. f.fn = "def" /\ f.at = "body" /\ f.from = C.from /\ f.kids = C.kids
    BY <1>2 DEF CallOK
  <2> HIDE DEF f
  <2>3. ASSUME Good PROVE Shape(f, it)
    BY <1>3, <2>2, <2>3 DEF Shape, DefShape
  <2>4. toks[it] = Opening("block")
    BY <1>5 DEF Opening, Token
  <2> QED
    BY <1>2, <1>5, <2>1, <2>3, <2>4, Calling DEF f
<1>6. CASE Reject(it)
  BY <1>2, <1>6, Ahead, Rejecting
<1> QED
  BY <1>4, <1>5, <1>6 DEF Body, Semicolon, Token

LEMMA OpenBlockStep ==
  ASSUME IInv, OpenBlock
  PROVE  IInv'
<1>1. At("block", "begin") /\ Goto(it + 1, "loop", <<>>)
  BY DEF OpenBlock
<1>2. /\ Len0 \in Nat /\ it \in 1..Len0 /\ it \in Int /\ toks \in Inputs /\ it = C.from
      /\ (Good => Shape(C, it)) /\ C.at = "begin" /\ C.fn = "block"
  BY <1>1, Here DEF Waiting, TypeInv
<1>3. "loop" \in Points("block") /\ "loop" # "begin" /\ "loop" \notin Waiting
  BY DEF Points, Waiting
<1>4. ASSUME NEW f, f.fn = "block", f.at = "loop", f.from = C.from, f.kids = C.kids, Good
      PROVE  Shape(f, it + 1)
  <2>1. C.kids = <<>> /\ toks[C.from] = "{"
    BY <1>2, <1>4 DEF Shape, BlockShape
  <2>2. Tile(<<>>, C.from + 1, (it + 1) - 1)
    BY <1>2 DEF Tile
  <2>3. \A i \in DOMAIN <<>> : IsBody(<<>>[i])
    BY NothingIsSeq, SeqFacts
  <2> QED
    BY <1>4, <2>1, <2>2, <2>3 DEF Shape, BlockShape
<1> QED
  BY <1>1, <1>2, <1>3, <1>4, Ahead, GoingOn

LEMMA CloseBlockStep ==
  ASSUME IInv, CloseBlock
  PROVE  IInv'
<1>1. At("block", "loop")
  BY DEF CloseBlock
<1>2. /\ Len0 \in Nat /\ it \in 1..Len0 /\ it \in Int /\ toks \in Inputs
      /\ (Good => Shape(C, it)) /\ C.at = "loop" /\ C.fn = "block" /\ calls # <<>> /\ Idle
  BY <1>1, Here DEF Waiting, TypeInv
<1>3. "done" \in Points("block") /\ "done" # "begin" /\ "done" \notin Waiting
  BY DEF Points, Waiting
<1>4. CASE Token = "}" /\ Goto(it + 1, "done", <<>>)
  <2>1. ASSUME NEW f, f.fn = "block", f.at = "done", f.from = C.from, f.kids = C.kids, Good
        PROVE  Shape(f, it + 1)
    <3>1. /\ Tile(C.kids, C.from + 1, it - 1) /\ toks[C.from] = "{"
          /\ \A i \in DOMAIN C.kids : IsBody(C.kids[i])
      BY <1>2, <2>1 DEF Shape, BlockShape
    <3>2. (it + 1) - 1 = it
      BY <1>2
    <3>3. IsStatement(Node("block", C.from, it, C.kids))
      BY <1>4, <3>1 DEF IsStatement, Node, Token
    <3> QED
      BY <2>1, <3>1, <3>2, <3>3 DEF Shape, BlockShape
  <2> QED
    BY <1>1, <1>2, <1>3, <1>4, <2>1, Ahead, GoingOn
<1>5. CASE Reject(it)
  BY <1>2, <1>5, Ahead, Rejecting
<1> QED
  BY <1>4, <1>5 DEF CloseBlock

(* Of a function under way the shape depends on its parts only.            *)
LEMMA ShapeByParts ==
  ASSUME NEW f, NEW g, f.fn = g.fn, f.at = g.at, f.from = g.from, f.kids = g.kids, NEW e,
         Shape(g, e), g.at # "done"
  PROVE  Shape(f, e)
<1>1. \A x : Condition(f, x) <=> Condition(g, x)
  BY DEF Condition
<1>2. \A x : Branch(f, x) <=> Branch(g, x)
  BY <1>1 DEF Branch
<1>3. ChoiceShape(g, e) => ChoiceShape(f, e)
  BY <1>1, <1>2 DEF ChoiceShape
<1>4. DefShape(g, e) => DefShape(f, e)
  BY DEF DefShape
<1>5. BlockShape(g, e) => BlockShape(f, e)
  BY DEF BlockShape
<1>6. \A x : ForStart(f, x) <=> ForStart(g, x)
  BY DEF ForStart
<1>7. \A x : ForEnd(f, x) <=> ForEnd(g, x)
  BY <1>6 DEF ForEnd
<1>8. \A x : ForHead(f, x) <=> ForHead(g, x)
  BY <1>7 DEF ForHead
<1>9. ForShape(g, e) => ForShape(f, e)
  BY <1>6, <1>7, <1>8 DEF ForShape
<1>10. LineShape(g, e) => LineShape(f, e)
  BY DEF LineShape
<1> QED
  BY <1>3, <1>4, <1>5, <1>9, <1>10 DEF Shape

LEMMA StatementStep ==
  ASSUME IInv, Statement
  PROVE  IInv'
<1>1. /\ Idle /\ calls # <<>> /\ it <= Len0 /\ StatementDue
      /\ Called(C) /\ C.fn # "def"
  BY DEF Statement, StatementDue, Called
<1>2. At(C.fn, C.at)
  BY <1>1 DEF At
<1>3. /\ TypeInv /\ CallOK(C) /\ it \in 1..Len0 /\ Len0 \in Nat /\ toks \in Inputs
      /\ (Good => Shape(C, it))
  <2>1. C.at \notin Waiting
    BY <1>1 DEF Called, Waiting
  <2> QED
    BY <1>2, <2>1, Here DEF TypeInv
<1>4. CASE Token \in DOMAIN Compound /\ Call(Compound[Token], C.at)
  <2>1. /\ Compound[Token] \in {"block", "if", "while", "for", "return"}
        /\ toks[it] = Opening(Compound[Token])
    BY <1>4 DEF Compound, Opening, Token
  <2>2. C.at \in Points(C.fn) /\ C.at \in {"loop", "then", "else", "body"} /\ C.at # "done"
    BY <1>1, <1>3 DEF CallOK, Called
  <2> DEFINE f == [C EXCEPT !.at = C.at]
  <2>3. f.fn = C.fn /\ f.at = C.at /\ f.from = C.from /\ f.kids = C.kids
    BY <1>3 DEF CallOK
  <2> HIDE DEF f
  <2>4. Good => Shape(f, it)
    BY <1>3, <2>2, <2>3, ShapeByParts
  <2> QED
    BY <1>1, <1>4, <2>1, <2>2, <2>4, Calling DEF f
<1>5. CASE /\ Token \in {"let", "x"}
           /\ Enter(it, IF Token = "let" THEN "define" ELSE "scan")
           /\ calls' = Append(calls, [Frame("simple", FALSE) EXCEPT !.at = "value"])
           /\ Same
  BY <1>1, <1>5, SimpleCalling DEF Token
<1>6. ASSUME Semicolon(it), it' = it + 1, Replace(Received(C, Node("empty", it, it, <<>>))),
             UNCHANGED error, NoExpression, Same
      PROVE  IInv'
  BY <1>1, <1>6, Receiving
<1>7. CASE Reject(it)
  BY <1>1, <1>3, <1>7, Ahead, Rejecting
<1> QED
  BY <1>4, <1>5, <1>6, <1>7 DEF Statement, Semicolon, Token

(* A line is its node, and the semicolon.                                  *)
LEMMA LineMade ==
  ASSUME NEW fn \in {"simple", "return"}, NEW from \in Int, NEW lo \in Int, NEW to \in Int, NEW n,
         lo = from + IF fn = "return" THEN 1 ELSE 0,
         fn = "return" => toks[from] = "return" /\ (n.kind = "none" \/ IsExpression(n)),
         fn = "simple" => IF toks[from] = "let" THEN IsDefinition(n) ELSE IsExpression(n),
         n.from = lo, n.to = to - 1, Semicolon(to)
  PROVE  IsStatement(Node(fn, from, to, <<n>>))
<1>1. Tile(<<n>>, lo, to - 1)
  BY OneTile
<1>2. Len(<<n>>) = 1 /\ <<n>>[1] = n
  OBVIOUS
<1> DEFINE d == Node(fn, from, to, <<n>>)
<1>3. d.kind = fn /\ d.from = from /\ d.to = to /\ d.kids = <<n>>
  BY DEF Node
<1> HIDE DEF d
<1>4. CASE fn = "simple"
  <2>1. lo = from
    BY <1>4
  <2>2. Tile(d.kids, d.from, d.to - 1) /\ Len(d.kids) = 1 /\ d.kids[1] = n
    BY <1>1, <1>2, <1>3, <2>1
  <2> QED
    BY <1>3, <1>4, <2>2, Zenon DEF IsStatement, IsLine, Semicolon, d
<1>5. CASE fn = "return"
  <2>1. lo = from + 1
    BY <1>5
  <2>2. Tile(d.kids, d.from + 1, d.to - 1) /\ Len(d.kids) = 1 /\ d.kids[1] = n
    BY <1>1, <1>2, <1>3, <2>1
  <2> QED
    BY <1>3, <1>5, <2>2, Zenon DEF IsStatement, IsLine, Semicolon, d
<1> QED
  BY <1>4, <1>5

LEMMA EndSimpleStep ==
  ASSUME IInv, EndSimple
  PROVE  IInv'
<1> DEFINE n == Parsed("expr")
<1>1. PICK fn \in {"simple", "return"} : Has(fn, "value")
  BY DEF EndSimple
<1>2. At(fn, "value")
  BY <1>1 DEF Has
<1>3. /\ Len0 \in Nat /\ it \in 1..Len0 /\ it \in Int /\ toks \in Inputs /\ C.from \in Int
      /\ (Good => Shape(C, C.mark)) /\ C.at = "value" /\ C.fn = fn /\ calls # <<>> /\ Idle
      /\ IsSeq(C.kids)
  BY <1>2, Here DEF Waiting, TypeInv
<1>4. ASSUME Semicolon(it), Goto(it + 1, "done", <<n>>) PROVE IInv'
  <2>1. "done" \in Points(fn) /\ "done" # "begin" /\ "done" \notin Waiting
    BY DEF Points, Waiting
  <2>2. ASSUME Good
        PROVE  /\ Proper(n) /\ n.kids = <<>> /\ n.from = C.mark /\ n.to = it - 1
               /\ C.mark \in Int
               /\ IF Defines(C) THEN IsDefinition(n) ELSE IsExpression(n)
    BY <1>1, <2>2, ParsedLeaf DEF Waiting
  <2> HIDE DEF n
  <2>3. ASSUME NEW f, f.fn = fn, f.at = "done", f.from = C.from,
               f.kids = Append(C.kids, n), Good
        PROVE  Shape(f, it + 1)
    <3>1. C.kids = <<>> /\ C.mark = C.from + IF fn = "return" THEN 1 ELSE 0
      BY <1>3, <2>3 DEF Shape, LineShape
    <3>2. fn = "return" => toks[C.from] = "return"
      BY <1>3, <2>3 DEF Shape
    <3>3. Defines(C) <=> fn = "simple" /\ toks[C.from] = "let"
      BY <1>3 DEF Defines
    <3>4. IsStatement(Node(fn, C.from, it, <<n>>))
      BY <1>3, <1>4, <2>2, <2>3, <3>1, <3>2, <3>3, LineMade
    <3>5. f.kids = <<n>>
      BY <2>3, <3>1
    <3>6. (it + 1) - 1 = it
      BY <1>3
    <3>7. IsStatement(Node(fn, f.from, (it + 1) - 1, f.kids))
      BY <2>3, <3>4, <3>5, <3>6
    <3> QED
      BY <2>3, <3>2, <3>7 DEF Shape, LineShape
  <2>4. it + 1 \in 1..(Len0 + 1)
    BY <1>3
  <2> QED
    BY <1>2, <1>4, <2>1, <2>2, <2>3, <2>4, GoingWith
<1>5. CASE Reject(it)
  BY <1>3, <1>5, Ahead, Rejecting
<1> QED
  BY <1>4, <1>5 DEF EndSimple, Semicolon, Token

LEMMA BeginConditionStep ==
  ASSUME IInv, BeginCondition
  PROVE  IInv'
<1>1. PICK fn \in {"if", "while"} : At(fn, "begin")
  BY DEF BeginCondition
<1>2. /\ Len0 \in Nat /\ it \in 1..Len0 /\ it \in Int /\ toks \in Inputs /\ it = C.from
      /\ (Good => Shape(C, it)) /\ C.at = "begin" /\ C.fn = fn /\ calls # <<>> /\ Idle
      /\ toks[it] = fn
  BY <1>1, Here DEF Waiting, TypeInv, Opening
<1> DEFINE k == IF toks[it + 1] = "(" THEN it + 2 ELSE it + 1
<1>3. it + 1 \in 1..Len0
  BY <1>2, Ahead
<1>4. toks[it + 1] = "(" => it + 2 \in 1..Len0
  <2>1. toks[it + 1] = "(" => it + 1 + 1 \in 1..Len0
    BY <1>2, <1>3, Ahead
  <2> QED
    BY <1>2, <2>1
<1>5. k \in 1..Len0 /\ k \in 1..(Len0 + 1)
  BY <1>2, <1>3, <1>4
<1>6. Optional(C.from, "(", k)
  BY <1>2 DEF Optional
<1>7. Reject(k) \/ Evaluate(k, "scan", "cond", <<>>)
  BY DEF BeginCondition
<1> HIDE DEF k
<1>8. CASE Reject(k)
  BY <1>2, <1>5, <1>8, Rejecting
<1>9. CASE Evaluate(k, "scan", "cond", <<>>)
  <2>1. "cond" \in Points(fn) /\ "cond" \in Waiting
    BY DEF Points, Waiting
  <2>2. ASSUME NEW f, f.fn = fn, f.at = "cond", f.from = C.from, f.kids = C.kids, Good
        PROVE  Shape(f, k) /\ ~Defines(f)
    <3>1. C.kids = <<>> /\ toks[C.from] = fn
      BY <1>2, <2>2 DEF Shape, ChoiceShape
    <3> QED
      BY <1>6, <2>2, <3>1 DEF Shape, ChoiceShape, Defines
  <2> QED
    BY <1>1, <1>5, <1>9, <2>1, <2>2, AskingOn
<1> QED
  BY <1>7, <1>8, <1>9

LEMMA Behind ==
  ASSUME toks \in Inputs, it \in 1..Len0, NEW n, n.to = it - 1
  PROVE  AfterParen \in 1..(Len0 + 1) /\ Optional(n.to, ")", AfterParen)
<1>1. Len0 \in Nat
  BY TokenFacts
<1>2. n.to + 1 = it /\ n.to + 2 = it + 1
  BY <1>1
<1>3. AfterParen = n.to + 1 \/ (toks[n.to + 1] = ")" /\ AfterParen = n.to + 2)
  BY <1>2 DEF AfterParen, Token
<1> QED
  BY <1>1, <1>3, <1>2 DEF Optional

LEMMA EndConditionStep ==
  ASSUME IInv, EndCondition
  PROVE  IInv'
<1> DEFINE n == Parsed("expr")
<1>1. PICK fn \in {"if", "while"} : Has(fn, "cond")
  BY DEF EndCondition
<1>2. At(fn, "cond")
  BY <1>1 DEF Has
<1>3. /\ Len0 \in Nat /\ it \in 1..Len0 /\ it \in Int /\ toks \in Inputs
      /\ (Good => Shape(C, C.mark)) /\ C.at = "cond" /\ C.fn = fn /\ calls # <<>> /\ Idle
      /\ IsSeq(C.kids)
  BY <1>2, Here DEF Waiting, TypeInv
<1> DEFINE p == IF fn = "if" THEN "then" ELSE "body"
<1>4. p \in Points(fn) /\ p # "begin" /\ p \notin Waiting /\ Goto(AfterParen, p, <<n>>)
  BY <1>3 DEF Points, Waiting, EndCondition
<1>5. ASSUME Good
      PROVE  /\ Proper(n) /\ n.kids = <<>> /\ n.from = C.mark /\ n.to = it - 1
             /\ IsExpression(n) /\ Optional(n.to, ")", AfterParen)
  <2>1. ~Defines(C)
    BY <1>3 DEF Defines
  <2>2. /\ Proper(n) /\ n.kids = <<>> /\ n.from = C.mark /\ n.to = it - 1 /\ IsExpression(n)
    BY <1>1, <1>5, <2>1, ParsedLeaf DEF Waiting
  <2> QED
    BY <1>3, <2>2, Behind
<1>6. AfterParen \in 1..(Len0 + 1)
  BY <1>3, Ahead DEF AfterParen
<1>7. p \in {"then", "body"}
  OBVIOUS
<1> HIDE DEF n, p
<1>8. ASSUME NEW f, f.fn = fn, f.at = p, f.from = C.from, f.kids = Append(C.kids, n), Good
      PROVE  Shape(f, AfterParen)
  <2>1. C.kids = <<>> /\ toks[C.from] = fn /\ Optional(C.from, "(", C.mark)
    BY <1>3, <1>8 DEF Shape, ChoiceShape
  <2>2. f.kids = <<n>> /\ Len(f.kids) = 1 /\ f.kids[1] = n
    BY <1>8, <2>1
  <2>3. Condition(f, AfterParen)
    BY <1>5, <1>8, <2>1, <2>2 DEF Condition
  <2> QED
    BY <1>7, <1>8, <2>1, <2>2, <2>3 DEF Shape, ChoiceShape
<1> QED
  BY <1>2, <1>4, <1>5, <1>6, <1>8, GoingWith

LEMMA NoneProper ==
  ASSUME NEW k \in Int
  PROVE  LET n == None(k)
         IN  Proper(n) /\ n.kids = <<>> /\ n.kind = "none" /\ n.from = k /\ n.to = k - 1
BY NothingIsSeq DEF Proper, None, Node

LEMMA ElseStep ==
  ASSUME IInv, Else
  PROVE  IInv'
<1>1. At("if", "else?")
  BY DEF Else
<1>2. /\ Len0 \in Nat /\ it \in 1..Len0 /\ it \in Int /\ toks \in Inputs
      /\ (Good => Shape(C, it)) /\ C.at = "else?" /\ C.fn = "if" /\ IsSeq(C.kids)
  BY <1>1, Here DEF Waiting, TypeInv
<1>3. ASSUME Good
      PROVE  Len(C.kids) = 2 /\ Branch(C, it) /\ toks[C.from] = "if"
  BY <1>2, <1>3 DEF Shape, ChoiceShape
<1>4. CASE Token = "else" /\ Goto(it + 1, "else", <<>>)
  <2>1. "else" \in Points("if") /\ "else" # "begin" /\ "else" \notin Waiting
    BY DEF Points, Waiting
  <2>2. ASSUME NEW f, f.fn = "if", f.at = "else", f.from = C.from, f.kids = C.kids, Good
        PROVE  Shape(f, it + 1)
    <3>1. (it + 1) - 1 = it
      BY <1>2
    <3>2. Branch(f, (it + 1) - 1) /\ toks[(it + 1) - 1] = "else"
      BY <1>3, <1>4, <2>2, <3>1 DEF Branch, Condition, Token
    <3> QED
      BY <1>3, <2>2, <3>2 DEF Shape, ChoiceShape
  <2>3. it + 1 \in 1..(Len0 + 1)
    BY <1>2
  <2> QED
    BY <1>1, <1>4, <2>1, <2>2, <2>3, GoingOn
<1>5. CASE Token # "else" /\ Goto(it, "done", <<None(it)>>)
  <2>1. "done" \in Points("if") /\ "done" # "begin" /\ "done" \notin Waiting
    BY DEF Points, Waiting
  <2> DEFINE n == None(it)
  <2>2. Proper(n) /\ n.kids = <<>> /\ n.kind = "none"
    BY <1>2, NoneProper
  <2> HIDE DEF n
  <2>3. ASSUME NEW f, f.fn = "if", f.at = "done", f.from = C.from,
               f.kids = Append(C.kids, n), Good
        PROVE  Shape(f, it)
    <3>1. /\ f.kids[1] = C.kids[1] /\ f.kids[2] = C.kids[2] /\ f.kids[3] = n /\ Len(f.kids) = 3
      <4>1. /\ Len(f.kids) = Len(C.kids) + 1
            /\ \A k \in 1..Len(C.kids) : f.kids[k] = C.kids[k]
            /\ f.kids[Len(C.kids) + 1] = n
        BY <1>2, <2>3, Appended
      <4> QED
        BY <1>3, <2>3, <4>1
    <3>2. /\ Condition(C, C.kids[2].from) /\ IsBody(C.kids[2]) /\ C.kids[2].to = it - 1
      BY <1>3, <2>3 DEF Branch
    <3>3. toks[(it - 1) + 1] # "else"
      <4>1. (it - 1) + 1 = it
        BY <1>2
      <4> QED
        BY <1>5, <4>1 DEF Token
    <3>4. IsStatement(Node("if", C.from, it - 1, f.kids))
      BY <1>3, <2>2, <2>3, <3>1, <3>2, <3>3 DEF IsStatement, Node, Condition
    <3> QED
      BY <1>3, <2>3, <3>4 DEF Shape, ChoiceShape
  <2>4. it \in 1..(Len0 + 1)
    BY <1>2
  <2> QED
    BY <1>1, <1>5, <2>1, <2>2, <2>3, <2>4, GoingWith DEF n
<1> QED
  BY <1>4, <1>5 DEF Else

LEMMA SameForStart ==
  ASSUME NEW f, NEW g, f.from = g.from, f.kids[1] = g.kids[1], NEW e
  PROVE  ForStart(f, e) <=> ForStart(g, e)
BY DEF ForStart

LEMMA SameForEnd ==
  ASSUME NEW f, NEW g, f.from = g.from, f.kids[1] = g.kids[1], f.kids[2] = g.kids[2], NEW e
  PROVE  ForEnd(f, e) <=> ForEnd(g, e)
<1>1. ForStart(f, f.kids[2].from) <=> ForStart(g, g.kids[2].from)
  BY SameForStart
<1> QED
  BY <1>1 DEF ForEnd

LEMMA TwoBefore ==
  ASSUME NEW e \in Int, NEW t, t = e - 2
  PROVE  t + 1 = e - 1 /\ e = t + 2
OBVIOUS

LEMMA OpeningIs ==
  ASSUME NEW fn, fn # "block"
  PROVE  Opening(fn) = fn
BY DEF Opening

LEMMA OneKid ==
  ASSUME NEW n, NEW K, K = <<n>>
  PROVE  Len(K) = 1 /\ K[1] = n
<1>1. Len(<<n>>) = 1 /\ <<n>>[1] = n
  OBVIOUS
<1> QED
  BY <1>1

LEMMA AnotherKid ==
  ASSUME NEW K, IsSeq(K), NEW n, NEW J, J = Append(K, n)
  PROVE  /\ Len(K) = 1 => Len(J) = 2 /\ J[1] = K[1] /\ J[2] = n
         /\ Len(K) = 2 => Len(J) = 3 /\ J[1] = K[1] /\ J[2] = K[2] /\ J[3] = n
<1>1. /\ Len(J) = Len(K) + 1 /\ J[Len(K) + 1] = n
      /\ \A k \in 1..Len(K) : J[k] = K[k]
  <2>1. /\ Len(Append(K, n)) = Len(K) + 1 /\ Append(K, n)[Len(K) + 1] = n
        /\ \A k \in 1..Len(K) : Append(K, n)[k] = K[k]
    BY Appended
  <2> QED
    BY <2>1
<1>2. 1 \in 1..1 /\ 1 + 1 = 2 /\ 1 \in 1..2 /\ 2 \in 1..2 /\ 2 + 1 = 3
  OBVIOUS
<1>3. Len(K) = 1 => Len(J) = 2 /\ J[1] = K[1] /\ J[2] = n
  BY <1>1, <1>2, Zenon
<1>4. Len(K) = 2 => Len(J) = 3 /\ J[1] = K[1] /\ J[2] = K[2] /\ J[3] = n
  BY <1>1, <1>2, Zenon
<1> QED
  BY <1>3, <1>4

(* The parts of a loop's head, each from the one before it.                *)
LEMMA StartMade ==
  ASSUME NEW f, f.fn = "for", f.at = "end?", toks[f.from] = "for", NEW n, f.kids = <<n>>,
         Optional(f.from, "(", n.from), n.kind = "none" \/ IsDefinition(n),
         NEW e \in Int, n.to = e - 2, toks[e - 1] = ","
  PROVE  Shape(f, e)
<1>1. Len(f.kids) = 1 /\ f.kids[1] = n
  BY OneKid
<1>2. n.to + 1 = e - 1 /\ e = n.to + 2
  BY TwoBefore
<1>3. ForStart(f, e)
  BY <1>1, <1>2 DEF ForStart
<1> QED
  BY <1>1, <1>3 DEF Shape, ForShape

LEMMA EndMade ==
  ASSUME NEW f, f.fn = "for", f.at = "step?", toks[f.from] = "for",
         NEW g, g.from = f.from, NEW n,
         Len(f.kids) = 2, f.kids[1] = g.kids[1], f.kids[2] = n, ForStart(g, n.from),
         n.kind = "none" \/ IsExpression(n),
         NEW e \in Int, n.to = e - 2, toks[e - 1] = ","
  PROVE  Shape(f, e)
<1>2. n.to + 1 = e - 1 /\ e = n.to + 2
  BY TwoBefore
<1>3. ForStart(f, f.kids[2].from)
  BY SameForStart
<1>4. ForEnd(f, e)
  BY <1>2, <1>3 DEF ForEnd
<1> QED
  BY <1>4 DEF Shape, ForShape

LEMMA HeadMade ==
  ASSUME NEW f, f.fn = "for", f.at = "body", toks[f.from] = "for",
         NEW g, IsSeq(g.kids), Len(g.kids) = 2, g.from = f.from,
         NEW n, f.kids = Append(g.kids, n), ForEnd(g, n.from),
         n.kind = "none" \/ IsExpression(n),
         NEW e, Optional(n.to, ")", e)
  PROVE  Shape(f, e)
<1>1. Len(f.kids) = 3 /\ f.kids[1] = g.kids[1] /\ f.kids[2] = g.kids[2] /\ f.kids[3] = n
  BY AnotherKid
<1>2. ForEnd(f, f.kids[3].from)
  BY <1>1, SameForEnd
<1>3. ForHead(f, e)
  BY <1>1, <1>2 DEF ForHead
<1> QED
  BY <1>1, <1>3 DEF Shape, ForShape

LEMMA ForPoints ==
  /\ \A p \in {"end?", "step?", "body"} :
       p \in Points("for") /\ p # "begin" /\ p \notin Waiting
  /\ \A p \in {"init", "end", "step"} : p \in Points("for") /\ p \in Waiting
BY DEF Points, Waiting

LEMMA BeginForStep ==
  ASSUME IInv, BeginFor
  PROVE  IInv'
<1>1. At("for", "begin")
  BY DEF BeginFor
<1>2. /\ Len0 \in Nat /\ it \in 1..Len0 /\ it \in Int /\ toks \in Inputs /\ it = C.from
      /\ (Good => Shape(C, it)) /\ C.at = "begin" /\ C.fn = "for" /\ calls # <<>> /\ Idle
      /\ toks[it] = "for"
  BY <1>1, Here, OpeningIs DEF Waiting, TypeInv
<1> DEFINE k == IF toks[it + 1] = "(" THEN it + 2 ELSE it + 1
<1>3. it + 1 \in 1..Len0
  BY <1>2, Ahead
<1>4. toks[it + 1] = "(" => it + 2 \in 1..Len0
  <2>1. toks[it + 1] = "(" => it + 1 + 1 \in 1..Len0
    BY <1>2, <1>3, Ahead
  <2> QED
    BY <1>2, <2>1
<1>5. k \in 1..Len0 /\ k + 1 \in 1..(Len0 + 1) /\ k \in Int
  BY <1>2, <1>3, <1>4
<1>6. Optional(C.from, "(", k)
  BY <1>2 DEF Optional
<1>7. \/ Reject(k + 1)
      \/ toks[k] = "," /\ Goto(k + 1, "end?", <<None(k)>>)
      \/ Evaluate(k, "define", "init", <<>>)
  BY DEF BeginFor
<1>8. Good => C.kids = <<>> /\ toks[C.from] = "for"
  BY <1>2 DEF Shape, ForShape
<1> HIDE DEF k
<1>9. CASE Reject(k + 1)
  BY <1>2, <1>5, <1>9, Rejecting
<1>10. CASE toks[k] = "," /\ Goto(k + 1, "end?", <<None(k)>>)
  <2> DEFINE n == None(k)
  <2>1. Proper(n) /\ n.kids = <<>> /\ n.kind = "none" /\ n.from = k /\ n.to = k - 1
    BY <1>5, NoneProper
  <2> HIDE DEF n
  <2>2. ASSUME NEW f, f.fn = "for", f.at = "end?", f.from = C.from,
               f.kids = Append(C.kids, n), Good
        PROVE  Shape(f, k + 1)
    <3>4. C.kids = <<>>
      BY <1>8, <2>2
    <3>5. f.kids = <<n>>
      BY <2>2, <3>4
    <3>1. f.kids = <<n>> /\ toks[f.from] = "for" /\ Optional(f.from, "(", n.from)
      BY <1>6, <1>8, <2>1, <2>2, <3>5
    <3>2. k + 1 \in Int /\ n.to = (k + 1) - 2 /\ (k + 1) - 1 = k
      BY <1>5, <2>1
    <3>3. toks[(k + 1) - 1] = ","
      BY <1>10, <3>2
    <3> QED
      BY <2>1, <2>2, <3>1, <3>2, <3>3, StartMade
  <2>3. "end?" \in Points("for") /\ "end?" # "begin" /\ "end?" \notin Waiting
    BY ForPoints
  <2>4. Goto(k + 1, "end?", <<n>>)
    BY <1>10 DEF n
  <2> QED
    BY <1>1, <1>5, <2>1, <2>2, <2>3, <2>4, GoingWith
<1>11. CASE Evaluate(k, "define", "init", <<>>)
  <2>1. ASSUME NEW f, f.fn = "for", f.at = "init", f.from = C.from, f.kids = C.kids, Good
        PROVE  Shape(f, k) /\ Defines(f)
    BY <1>6, <1>8, <2>1 DEF Shape, ForShape, Defines
  <2> QED
    BY <1>1, <1>5, <1>11, <2>1, ForPoints, AskingOn
<1> QED
  BY <1>7, <1>9, <1>10, <1>11

LEMMA ForConditionStep ==
  ASSUME IInv, ForCondition
  PROVE  IInv'
<1>1. At("for", "end?")
  BY DEF ForCondition
<1>2. /\ Len0 \in Nat /\ it \in 1..Len0 /\ it \in Int /\ toks \in Inputs
      /\ (Good => Shape(C, it)) /\ C.at = "end?" /\ C.fn = "for" /\ IsSeq(C.kids)
  BY <1>1, Here, ForPoints DEF TypeInv
<1>3. Good => Len(C.kids) = 1 /\ ForStart(C, it) /\ toks[C.from] = "for"
  BY <1>2 DEF Shape, ForShape
<1>4. CASE Token = "," /\ Goto(it + 1, "step?", <<None(it)>>)
  <2> DEFINE n == None(it)
  <2>1. Proper(n) /\ n.kids = <<>> /\ n.kind = "none" /\ n.from = it /\ n.to = it - 1
    BY <1>2, NoneProper
  <2> HIDE DEF n
  <2>2. /\ it + 1 \in 1..(Len0 + 1) /\ it + 1 \in Int /\ n.to = (it + 1) - 2
        /\ (it + 1) - 1 = it
    BY <1>2, <2>1
  <2>3. toks[(it + 1) - 1] = ","
    BY <1>4, <2>2 DEF Token
  <2>4. ASSUME NEW f, f.fn = "for", f.at = "step?", f.from = C.from,
               f.kids = Append(C.kids, n), Good
        PROVE  Shape(f, it + 1)
    <3>1. toks[f.from] = "for" /\ C.from = f.from /\ Len(C.kids) = 1 /\ ForStart(C, n.from)
      BY <1>3, <2>1, <2>4
    <3>2. Len(f.kids) = 2 /\ f.kids[1] = C.kids[1] /\ f.kids[2] = n
      BY <1>2, <2>4, <3>1, AnotherKid
    <3> QED
      BY <2>1, <2>2, <2>3, <2>4, <3>1, <3>2, EndMade
  <2>5. "step?" \in Points("for") /\ "step?" # "begin" /\ "step?" \notin Waiting
    BY ForPoints
  <2>6. Goto(it + 1, "step?", <<n>>)
    BY <1>4 DEF n
  <2> QED
    BY <1>1, <2>1, <2>2, <2>4, <2>5, <2>6, GoingWith
<1>5. CASE Evaluate(it, "scan", "end", <<>>)
  <2>1. ASSUME NEW f, f.fn = "for", f.at = "end", f.from = C.from, f.kids = C.kids, Good
        PROVE  Shape(f, it) /\ ~Defines(f)
    <3>1. ForStart(f, it)
      BY <1>3, <2>1, SameForStart
    <3> QED
      BY <1>3, <2>1, <3>1 DEF Shape, ForShape, Defines
  <2> QED
    BY <1>1, <1>2, <1>5, <2>1, ForPoints, AskingOn
<1> QED
  BY <1>4, <1>5 DEF ForCondition

LEMMA ForCommaStep ==
  ASSUME IInv, ForComma
  PROVE  IInv'
<1>1. PICK p \in {"init", "end"} : Has("for", p)
  BY DEF ForComma
<1>2. At("for", p)
  BY <1>1 DEF Has
<1>3. /\ Len0 \in Nat /\ it \in 1..Len0 /\ it \in Int /\ toks \in Inputs /\ calls # <<>> /\ Idle
      /\ (Good => Shape(C, C.mark)) /\ C.at = p /\ C.fn = "for" /\ IsSeq(C.kids)
  BY <1>2, Here, ForPoints DEF TypeInv
<1>4. /\ it + 1 \in 1..(Len0 + 1) /\ it + 1 \in Int /\ it - 1 = (it + 1) - 2
      /\ (it + 1) - 1 = it
  BY <1>3
<1>5. CASE Token = "," /\ p = "init" /\ Goto(it + 1, "end?", <<Parsed("let")>>)
  <2> DEFINE n == Parsed("let")
  <2>1. ASSUME Good
        PROVE  /\ Proper(n) /\ n.kids = <<>> /\ n.from = C.mark /\ n.to = it - 1
               /\ IsDefinition(n)
    <3>1. Defines(C)
      BY <1>3, <1>5 DEF Defines
    <3> QED
      BY <1>1, <2>1, <3>1, ParsedLeaf, ForPoints
  <2> HIDE DEF n
  <2>2. ASSUME NEW f, f.fn = "for", f.at = "end?", f.from = C.from,
               f.kids = Append(C.kids, n), Good
        PROVE  Shape(f, it + 1)
    <3>1. C.kids = <<>> /\ toks[C.from] = "for" /\ Optional(C.from, "(", C.mark)
      BY <1>3, <1>5, <2>2 DEF Shape, ForShape
    <3>2. f.kids = <<n>> /\ toks[f.from] = "for" /\ Optional(f.from, "(", n.from)
      BY <2>1, <2>2, <3>1
    <3>3. toks[(it + 1) - 1] = ","
      BY <1>4, <1>5 DEF Token
    <3> QED
      BY <1>4, <2>1, <2>2, <3>2, <3>3, StartMade
  <2> QED
    BY <1>2, <1>4, <1>5, <2>1, <2>2, ForPoints, GoingWith DEF n
<1>6. CASE Token = "," /\ p = "end" /\ Goto(it + 1, "step?", <<Parsed("expr")>>)
  <2> DEFINE n == Parsed("expr")
  <2>1. ASSUME Good
        PROVE  /\ Proper(n) /\ n.kids = <<>> /\ n.from = C.mark /\ n.to = it - 1
               /\ IsExpression(n)
    <3>1. ~Defines(C)
      BY <1>3, <1>6 DEF Defines
    <3> QED
      BY <1>1, <2>1, <3>1, ParsedLeaf, ForPoints
  <2> HIDE DEF n
  <2>2. ASSUME NEW f, f.fn = "for", f.at = "step?", f.from = C.from,
               f.kids = Append(C.kids, n), Good
        PROVE  Shape(f, it + 1)
    <3>1. Len(C.kids) = 1 /\ toks[f.from] = "for" /\ ForStart(C, n.from) /\ C.from = f.from
      BY <1>3, <1>6, <2>1, <2>2 DEF Shape, ForShape
    <3>2. toks[(it + 1) - 1] = ","
      BY <1>4, <1>6 DEF Token
    <3>3. Len(f.kids) = 2 /\ f.kids[1] = C.kids[1] /\ f.kids[2] = n
      BY <1>3, <2>2, <3>1, AnotherKid
    <3> QED
      BY <1>4, <2>1, <2>2, <3>1, <3>2, <3>3, EndMade
  <2> QED
    BY <1>2, <1>4, <1>6, <2>1, <2>2, ForPoints, GoingWith DEF n
<1>7. CASE Reject(it)
  BY <1>3, <1>7, Ahead, Rejecting
<1> QED
  BY <1>3, <1>5, <1>6, <1>7 DEF ForComma

LEMMA ForStepStep ==
  ASSUME IInv, ForStep
  PROVE  IInv'
<1>1. At("for", "step?")
  BY DEF ForStep
<1>2. /\ Len0 \in Nat /\ it \in 1..Len0 /\ it \in Int /\ toks \in Inputs
      /\ (Good => Shape(C, it)) /\ C.at = "step?" /\ C.fn = "for" /\ IsSeq(C.kids)
  BY <1>1, Here, ForPoints DEF TypeInv
<1>3. Good => Len(C.kids) = 2 /\ ForEnd(C, it) /\ toks[C.from] = "for"
  BY <1>2 DEF Shape, ForShape
<1>4. CASE Token = ")" /\ Goto(it + 1, "body", <<None(it)>>)
  <2> DEFINE n == None(it)
  <2>1. Proper(n) /\ n.kids = <<>> /\ n.kind = "none" /\ n.from = it /\ n.to = it - 1
    BY <1>2, NoneProper
  <2> HIDE DEF n
  <2>2. it + 1 \in 1..(Len0 + 1) /\ n.to + 1 = it /\ n.to + 2 = it + 1
    BY <1>2, <2>1
  <2>3. Optional(n.to, ")", it + 1)
    BY <1>4, <2>2 DEF Token, Optional
  <2>4. ASSUME NEW f, f.fn = "for", f.at = "body", f.from = C.from,
               f.kids = Append(C.kids, n), Good
        PROVE  Shape(f, it + 1)
    <3>1. toks[f.from] = "for" /\ C.from = f.from /\ Len(C.kids) = 2 /\ ForEnd(C, n.from)
      BY <1>3, <2>1, <2>4
    <3> QED
      BY <1>2, <2>1, <2>3, <2>4, <3>1, HeadMade
  <2> QED
    BY <1>1, <1>4, <2>1, <2>2, <2>4, ForPoints, GoingWith DEF n
<1>5. CASE Evaluate(it, "scan", "step", <<>>)
  <2>1. ASSUME NEW f, f.fn = "for", f.at = "step", f.from = C.from, f.kids = C.kids, Good
        PROVE  Shape(f, it) /\ ~Defines(f)
    <3>1. ForEnd(f, it)
      BY <1>3, <2>1, SameForEnd
    <3> QED
      BY <1>3, <2>1, <3>1 DEF Shape, ForShape, Defines
  <2> QED
    BY <1>1, <1>2, <1>5, <2>1, ForPoints, AskingOn
<1> QED
  BY <1>4, <1>5 DEF ForStep

LEMMA EndForStep ==
  ASSUME IInv, EndFor
  PROVE  IInv'
<1> DEFINE n == Parsed("expr")
<1>1. Has("for", "step") /\ Goto(AfterParen, "body", <<n>>)
  BY DEF EndFor
<1>2. At("for", "step")
  BY <1>1 DEF Has
<1>3. /\ Len0 \in Nat /\ it \in 1..Len0 /\ it \in Int /\ toks \in Inputs
      /\ (Good => Shape(C, C.mark)) /\ C.at = "step" /\ C.fn = "for" /\ IsSeq(C.kids)
  BY <1>2, Here, ForPoints DEF TypeInv
<1>4. ASSUME Good
      PROVE  /\ Proper(n) /\ n.kids = <<>> /\ n.from = C.mark /\ n.to = it - 1
             /\ IsExpression(n) /\ Optional(n.to, ")", AfterParen)
  <2>1. ~Defines(C)
    BY <1>3 DEF Defines
  <2>2. /\ Proper(n) /\ n.kids = <<>> /\ n.from = C.mark /\ n.to = it - 1 /\ IsExpression(n)
    BY <1>1, <1>4, <2>1, ParsedLeaf, ForPoints
  <2> QED
    BY <1>3, <2>2, Behind
<1>5. AfterParen \in 1..(Len0 + 1)
  BY <1>3, Ahead DEF AfterParen
<1> HIDE DEF n
<1>6. ASSUME NEW f, f.fn = "for", f.at = "body", f.from = C.from,
             f.kids = Append(C.kids, n), Good
      PROVE  Shape(f, AfterParen)
  <2>1. toks[f.from] = "for" /\ C.from = f.from /\ Len(C.kids) = 2 /\ ForEnd(C, n.from)
    BY <1>3, <1>4, <1>6 DEF Shape, ForShape
  <2> QED
    BY <1>3, <1>4, <1>6, <2>1, HeadMade
<1> QED
  BY <1>1, <1>2, <1>4, <1>5, <1>6, ForPoints, GoingWith

LEMMA BeginReturnStep ==
  ASSUME IInv, BeginReturn
  PROVE  IInv'
<1>1. At("return", "begin")
  BY DEF BeginReturn
<1>2. /\ Len0 \in Nat /\ it \in 1..Len0 /\ it \in Int /\ toks \in Inputs /\ it = C.from
      /\ (Good => Shape(C, it)) /\ C.at = "begin" /\ C.fn = "return" /\ calls # <<>> /\ Idle
      /\ toks[it] = "return"
  BY <1>1, Here, OpeningIs DEF Waiting, TypeInv
<1>3. it + 1 \in 1..Len0 /\ it + 1 \in Int
  BY <1>2, Ahead
<1>4. Good => C.kids = <<>>
  BY <1>2 DEF Shape, LineShape
<1>5. ASSUME Semicolon(it + 1), Goto(it + 2, "done", <<None(it + 1)>>) PROVE IInv'
  <2> DEFINE n == None(it + 1)
  <2>1. /\ Proper(n) /\ n.kids = <<>> /\ n.kind = "none" /\ n.from = it + 1
        /\ n.to = (it + 1) - 1
    BY <1>3, NoneProper
  <2> HIDE DEF n
  <2>2. "done" \in Points("return") /\ "done" # "begin" /\ "done" \notin Waiting
    BY DEF Points, Waiting
  <2>3. it + 2 \in 1..(Len0 + 1) /\ (it + 2) - 1 = it + 1
    BY <1>2, <1>3
  <2>4. IsStatement(Node("return", C.from, it + 1, <<n>>))
    BY <1>2, <1>3, <1>5, <2>1, LineMade
  <2>5. ASSUME NEW f, f.fn = "return", f.at = "done", f.from = C.from,
               f.kids = Append(C.kids, n), Good
        PROVE  Shape(f, it + 2)
    <3>3. C.kids = <<>>
      BY <1>4, <2>5
    <3>1. f.kids = <<n>>
      BY <2>5, <3>3
    <3>2. IsStatement(Node("return", f.from, (it + 2) - 1, f.kids))
      BY <2>3, <2>4, <2>5, <3>1
    <3> QED
      BY <1>2, <2>5, <3>2 DEF Shape, LineShape
  <2> QED
    BY <1>1, <1>5, <2>1, <2>2, <2>3, <2>5, GoingWith DEF n
<1>6. CASE Evaluate(it + 1, "scan", "value", <<>>)
  <2>1. "value" \in Points("return") /\ "value" \in Waiting
    BY DEF Points, Waiting
  <2>2. ASSUME NEW f, f.fn = "return", f.at = "value", f.from = C.from, f.kids = C.kids, Good
        PROVE  Shape(f, it + 1) /\ ~Defines(f)
    BY <1>2, <1>4, <2>2 DEF Shape, LineShape, Defines
  <2> QED
    BY <1>1, <1>3, <1>6, <2>1, <2>2, AskingOn
<1> QED
  BY <1>5, <1>6 DEF BeginReturn, Semicolon

LEMMA ExpressionFailedStep ==
  ASSUME IInv, ExpressionFailed
  PROVE  IInv'
<1>1. calls # <<>> /\ Idle /\ Reject(it)
  BY DEF ExpressionFailed
<1>2. it \in 1..(Len0 + 1)
  BY <1>1, TopCall DEF IInv
<1> QED
  BY <1>1, <1>2, Rejecting

-----------------------------------------------------------------------------
(* A top-level statement is complete.                                      *)

LEMMA BodyEnds ==
  ASSUME NEW n, IsStatement(n), n.kind \in {"empty", "block"}
  PROVE  Complete(n.to)
<1>1. CASE n.kind = "block"
  BY <1>1, Zenon DEF IsStatement, IsLine, Complete
<1>2. CASE n.kind = "empty"
  BY <1>2, Zenon DEF IsStatement, IsLine, Complete
<1> QED
  BY <1>1, <1>2

LEMMA SemicolonEnds ==
  ASSUME NEW k, Semicolon(k)
  PROVE  Complete(k)
BY Zenon DEF Semicolon, Complete

LEMMA CompleteIs ==
  ASSUME NEW k, Complete(k)
  PROVE  toks[k] \notin {"export", "nomangle"}
BY Zenon DEF Complete

LEMMA ExportsBy ==
  ASSUME NEW n, NEW k, n.kind = k.kind, n.from = k.from
  PROVE  Exports(n) = Exports(k)
BY DEF Exports

(* Where the function that everything else is called by began.             *)
LEMMA Outermost ==
  ASSUME TypeInv, calls # <<>>, Len(calls) = 1, NEW to, NEW kids
  PROVE  Exports(Node(C.fn, C.from, to, kids)) = Start /\ Start \in Int
<1>1. C = calls[1] /\ C.from \in 1..Len0 /\ Len0 \in Nat
  BY TopCall, TokenFacts DEF CallOK, TypeInv
<1>2. C.from \in Int
  BY <1>1
<1> DEFINE n == Node(C.fn, C.from, to, kids)
           k == Node(C.fn, C.from, 0, <<>>)
<1>3. n.kind = k.kind /\ n.from = k.from /\ k.from = C.from
  BY DEF Node
<1>4. Start = Exports(k)
  BY <1>1 DEF Start
<1> HIDE DEF n, k
<1>5. Exports(n) = Exports(k)
  BY <1>3, ExportsBy
<1>6. Exports(k) \in Int
  BY <1>2, <1>3 DEF Exports
<1> QED
  BY <1>4, <1>5, <1>6 DEF n

LEMMA DoneTop ==
  ASSUME IInv, Done, Front(calls) = <<>>
  PROVE  IInv'
<1> DEFINE n == Node(C.fn, C.from, it - 1, C.kids)
<1>1. TypeInv /\ Idle /\ calls # <<>> /\ C.at = "done"
  BY DEF IInv, Done
<1>2. /\ calls' = <<>> /\ nodes' = Append(nodes, n)
      /\ toks' = toks /\ it' = it /\ error' = error /\ logged' = logged
      /\ result' = "parsing" /\ outcome' = outcome
  BY <1>1 DEF Done, shared, Idle
<1>3. /\ Len(calls) = 1 /\ CallOK(C) /\ IsSeq(calls) /\ DOMAIN calls = 1..1 /\ C = calls[1]
      /\ C.fn \in {"def", "global"}
  <2>1. /\ IsSeq(calls) /\ Len(calls) \in Nat /\ DOMAIN calls = 1..Len(calls)
        /\ C = calls[Len(calls)] /\ CallOK(C) /\ (C.fn \in {"def", "global"} <=> Len(calls) = 1)
    BY <1>1, TopCall
  <2>2. Len(<<>>) = Len(calls) - 1
    BY <1>1, <2>1, Shortened
  <2>4. Len(<<>>) = 0
    BY NothingIsSeq
  <2>5. \A l \in Nat : 0 = l - 1 => l = 1
    OBVIOUS
  <2>6. 0 = Len(calls) - 1
    BY <2>2, <2>4, Zenon
  <2>3. Len(calls) = 1
    BY <2>1, <2>5, <2>6
  <2> QED
    BY <2>1, <2>3
<1>4. C.fn = "def" /\ C.from \in 1..Len0 /\ IsSeq(C.kids)
  BY <1>1, <1>3 DEF CallOK, Points
<1>5. C.from \in Int /\ it \in Int
  <2>1. Len0 \in Nat /\ it \in 1..(Len0 + 1)
    BY <1>1, TopCall, TokenFacts DEF TypeInv
  <2> QED
    BY <1>4, <2>1
<1>6. Exports(n) = Start /\ Start \in Int
  BY <1>1, <1>3, Outermost
<1>7. /\ DOMAIN n = {"kind", "from", "to", "kids"} /\ n.kind = "def" /\ n.from = C.from
      /\ n.to = it - 1 /\ n.kids = C.kids /\ n = Node("def", C.from, it - 1, C.kids)
  BY <1>4 DEF Node
<1> HIDE DEF n
<1>8. ASSUME Good PROVE Whole'
  <2>1. IsFunction(n) /\ C.kids # <<>> /\ Whole
    <3>1. Shape(C, it)
      <4>1. C.at \notin Waiting
        BY <1>1 DEF Waiting
      <4> QED
        BY <1>1, <1>8, <4>1, OnTop DEF IInv, Whole
    <3> QED
      BY <1>1, <1>4, <1>7, <1>8, <3>1 DEF Shape, DefShape, IInv
  <2>2. TopNode(n)
    BY <1>4, <1>5, <1>7, <2>1 DEF TopNode
  <2> DEFINE body == Last(C.kids)
  <2>3. body.kind \in {"empty", "block"} /\ body.to = it - 1
    BY <1>7, <2>1 DEF IsFunction
  <2>4. body \in Range(C.kids)
    <3>1. Len(C.kids) \in DOMAIN C.kids
      BY <1>4, <2>1, SeqFacts
    <3> QED
      BY <3>1 DEF Last, Range
  <2> HIDE DEF body
  <2>5. Range(C.kids) \subseteq Made
    BY <1>1, OnTop
  <2>6. IsStatement(body)
    <3>1. PICK S : Lawful(S) /\ Made \subseteq S
      BY <2>1 DEF Whole, NodesInv
    <3>2. Proper(body)
      BY <2>4, <2>5, <3>1 DEF Lawful
    <3> QED
      BY <2>3, <3>2 DEF Proper
  <2>7. Complete(it - 1)
    BY <2>3, <2>6, BodyEnds
  <2>8. it' \in Int /\ n.to = it' - 1 /\ Complete(it' - 1)
    BY <1>2, <1>5, <1>7, <2>7
  <2>9. Range(n.kids) \subseteq Made
    BY <1>7, <2>5
  <2> QED
    BY <1>1, <1>2, <1>6, <2>1, <2>2, <2>8, <2>9, Topped
<1>9. TypeInv'
  BY <1>1, DoneTyped
<1>10. Finished'
  BY <1>2 DEF Finished
<1> QED
  BY <1>2, <1>8, <1>9, <1>10 DEF IInv, Good

LEMMA DoneStep ==
  ASSUME IInv, Done
  PROVE  IInv'
BY DoneTop, Returning

(* The end of a global variable.                                           *)
LEMMA EndGlobalStep ==
  ASSUME IInv, EndGlobal
  PROVE  IInv'
<1> DEFINE x == Parsed("let")
           n == Node("global", C.from, it, <<x>>)
<1>1. /\ Has("global", "value") /\ calls' = <<>> /\ toks' = toks /\ logged' = logged
      /\ result' = result /\ NoExpression
      /\ \/ Semicolon(it) /\ it' = it + 1 /\ nodes' = Append(nodes, n) /\ error' = error
         \/ nodes' = Append(nodes, Null) /\ error' = TRUE /\ it' = it
  BY DEF EndGlobal, Semicolon, Token
<1>2. At("global", "value")
  BY <1>1 DEF Has
<1>3. /\ Len0 \in Nat /\ it \in 1..Len0 /\ it \in Int /\ toks \in Inputs /\ TypeInv
      /\ (Good => Shape(C, C.mark)) /\ C.at = "value" /\ C.fn = "global" /\ calls # <<>> /\ Idle
      /\ IsSeq(C.kids) /\ C.from \in Int
  BY <1>2, Here DEF Waiting, TypeInv
<1>4. TypeInv'
  <2>3. IsSeq(nodes)
    BY <1>3 DEF TypeInv
  <2>4. IsSeq(Append(nodes, n)) /\ IsSeq(Append(nodes, Null))
    BY <2>3, Appended, Zenon
  <2>1. IsSeq(nodes') /\ error' \in BOOLEAN
    BY <1>1, <1>3, <2>4 DEF TypeInv
  <2>2. it' \in 1..(Len0 + 2)
    BY <1>1, <1>3
  <2> QED
    BY <1>1, <1>3, <2>1, <2>2, CallsEmptied, Resting DEF NoExpression, Idle, TypeInv
<1>5. Finished'
  BY <1>1, <1>3 DEF Finished, Idle
<1>6. Exports(n) = Start /\ Start \in Int
  BY <1>3, TopCall, Outermost
<1>7. /\ DOMAIN n = {"kind", "from", "to", "kids"} /\ n.kind = "global" /\ n.from = C.from
      /\ n.to = it /\ n.kids = <<x>>
  BY DEF Node
<1>8. ASSUME Good PROVE Proper(x) /\ x.kids = <<>> /\ x.from = C.mark /\ x.to = it - 1
                        /\ IsDefinition(x)
  <2>1. Defines(C)
    BY <1>3 DEF Defines
  <2> QED
    BY <1>1, <1>8, <2>1, ParsedLeaf DEF Waiting
<1> HIDE DEF n, x
<1>9. ASSUME Good, Semicolon(it), it' = it + 1, nodes' = Append(nodes, n) PROVE Whole'
  <2>1. C.mark = C.from
    BY <1>3, <1>9 DEF Shape, LineShape
  <2>2. Tile(<<x>>, C.from, it - 1)
    BY <1>8, <1>9, <2>1, OneTile
  <2>3. <<x>>[1] = x /\ IsSeq(<<x>>)
    <3>1. IsSeq(Append(<<>>, x))
      BY NothingIsSeq, Appended, Zenon
    <3>2. Append(<<>>, x) = <<x>> /\ <<x>>[1] = x
      OBVIOUS
    <3> QED
      BY <3>1, <3>2, Zenon
  <2>4. TopNode(n)
    BY <1>3, <1>7, <1>8, <1>9, <2>2, <2>3 DEF TopNode
  <2>5. it' \in Int /\ n.to = it' - 1 /\ it' - 1 = it
    BY <1>3, <1>7, <1>9
  <2>6. Complete(it' - 1)
    BY <1>9, <2>5, SemicolonEnds
  <2>7. \E y : n.kids = <<y>> /\ Proper(y) /\ y.kids = <<>>
    BY <1>7, <1>8, <1>9
  <2>8. Whole
    BY <1>9 DEF IInv
  <2> QED
    BY <1>1, <1>3, <1>6, <1>9, <2>4, <2>5, <2>6, <2>7, <2>8, Topped
<1> QED
  BY <1>1, <1>4, <1>5, <1>9 DEF IInv, Good

-----------------------------------------------------------------------------
(* The loop over the top-level statements.                                 *)

LEMMA Pushing ==
  ASSUME IInv, Idle, calls = <<>>, it \in Int, NEW kind \in {"empty", "import", "module", "use"},
         NEW k \in 1..(Len0 + 1), k \in Int, NEW to \in Int, to = k - 1,
         PushNode(k, Node(kind, it, to, <<>>)), Semicolon(to),
         TopNode(Node(kind, it, to, <<>>))
  PROVE  IInv'
<1> DEFINE n == Node(kind, it, to, <<>>)
<1>1. n.kind = kind /\ n.from = it /\ n.to = to /\ n.kids = <<>>
  BY DEF Node
<1>2. PushNode(k, n) /\ TopNode(n)
  OBVIOUS
<1> HIDE DEF n
<1>3. TypeInv'
  BY <1>2, PushTyped DEF IInv
<1>4. /\ toks' = toks /\ it' = k /\ calls' = <<>> /\ nodes' = Append(nodes, n)
      /\ error' = error /\ logged' = logged /\ result' = "parsing"
  BY <1>2 DEF PushNode, Idle
<1>5. Finished'
  BY <1>4 DEF Finished
<1>6. Start = it /\ Exports(n) = it
  BY <1>1 DEF Start, Exports
<1>7. it' \in Int /\ n.to = it' - 1
  BY <1>1, <1>4
<1>8. Complete(it' - 1)
  BY <1>1, <1>7, SemicolonEnds
<1>9. Range(n.kids) \subseteq Made
  BY <1>1, NoKids
<1>10. ASSUME Good PROVE Whole'
  BY <1>2, <1>4, <1>6, <1>7, <1>8, <1>9, <1>10, Topped DEF IInv
<1> QED
  BY <1>3, <1>4, <1>5, <1>10 DEF IInv, Good

LEMMA Skipping ==
  ASSUME IInv, Idle, calls = <<>>, NEW k \in 1..Len0, Skip(k)
  PROVE  IInv'
<1>1. TypeInv' /\ error'
  BY SkipTyped DEF IInv
<1> QED
  BY <1>1 DEF IInv, Good, Finished

LEMMA Logging ==
  ASSUME IInv, Idle, calls = <<>>, it' \in 1..(Len0 + 2), logged' = TRUE,
         UNCHANGED <<toks, calls, nodes, error, result>>, NoExpression
  PROVE  IInv'
<1>1. TypeInv'
  BY TopResting DEF IInv, TypeInv
<1>2. Finished'
  BY DEF Finished, Idle
<1> QED
  BY <1>1, <1>2 DEF IInv, Good

LEMMA AtTop ==
  ASSUME IInv, NEW t, TopLevel(t)
  PROVE  /\ Idle /\ calls = <<>> /\ toks[it] = t /\ TypeInv /\ toks \in Inputs
         /\ Len0 \in Nat /\ it \in 1..Len0 /\ it \in Int
         /\ t # "EOF" => it + 1 \in 1..Len0
<1>1. Idle /\ calls = <<>> /\ toks[it] = t /\ TypeInv /\ toks \in Inputs /\ it <= Len0
  BY DEF TopLevel, Token, IInv, TypeInv
<1>2. Len0 \in Nat /\ it \in 1..(Len0 + 2)
  BY <1>1, TokenFacts DEF TypeInv
<1>3. it \in 1..Len0
  BY <1>1, <1>2
<1> QED
  BY <1>1, <1>2, <1>3, Ahead

LEMMA EmptyStatementStep ==
  ASSUME IInv, EmptyStatement
  PROVE  IInv'
<1>1. TopLevel(Token) /\ Semicolon(it) /\ PushNode(it + 1, Node("empty", it, it, <<>>))
  BY DEF EmptyStatement, TopLevel, Token, Semicolon
<1>2. Idle /\ calls = <<>> /\ Len0 \in Nat /\ it \in 1..Len0 /\ it \in Int
  BY <1>1, AtTop
<1>3. TopNode(Node("empty", it, it, <<>>))
  BY <1>1, <1>2, EmptyProper
<1>4. it + 1 \in 1..(Len0 + 1) /\ it + 1 \in Int /\ it = (it + 1) - 1
  BY <1>2
<1> QED
  BY <1>1, <1>2, <1>3, <1>4, Pushing

LEMMA Named ==
  ASSUME NEW kind \in {"import", "module", "use"}, NEW from \in Int, NEW to \in Int,
         toks[from] = kind, Semicolon(to)
  PROVE  TopNode(Node(kind, from, to, <<>>))
BY NothingIsSeq DEF TopNode, Node

(* The greatest of some positions.                                         *)
LEMMA MaxIs ==
  ASSUME NEW n \in Nat, NEW T, T \subseteq 1..n, T # {}
  PROVE  Max(T) \in T
<1>1. PICK x \in T : \A y \in T : y <= x
  BY GreatestExists
<1>2. \A y \in T : x >= y
  BY <1>1
<1> QED
  BY <1>2 DEF Max

LEMMA MinIs ==
  ASSUME NEW T, T \subseteq Nat, T # {}
  PROVE  Min(T) \in T /\ \A y \in T : Min(T) <= y
<1>1. PICK x \in T : \A y \in T : x <= y
  BY LeastExists
<1> QED
  BY <1>1 DEF Min

LEMMA ImportStep ==
  ASSUME IInv, Import
  PROVE  IInv'
<1> DEFINE k == IF toks[it + 1] \in {"module", "package"} THEN it + 2 ELSE it + 1
           run == {e \in k..Len0 : \A j \in (k + 1)..e : toks[j] \in {"x", "."}}
           e == IF toks[k] = "x" THEN Max(run) ELSE k
<1>1. /\ TopLevel("import")
      /\ \/ /\ toks[k] \in {"x", "str"} /\ Semicolon(e + 1)
            /\ PushNode(e + 2, Node("import", it, e + 1, <<>>))
         \/ toks[k] \in {"x", "str"} /\ Skip(e)
         \/ /\ toks[k] \in {"x", "str"} /\ it' = e + 1 /\ logged' = TRUE
            /\ UNCHANGED <<toks, calls, nodes, error, result>> /\ NoExpression
         \/ Skip(k)
  BY Zenon DEF Import, Semicolon
<1>2. /\ Idle /\ calls = <<>> /\ toks[it] = "import" /\ toks \in Inputs
      /\ Len0 \in Nat /\ it \in 1..Len0 /\ it \in Int /\ it + 1 \in 1..Len0
  BY <1>1, AtTop
<1>3. toks[it + 1] \in {"module", "package"} => it + 2 \in 1..Len0
  <2>1. toks[it + 1] \in {"module", "package"} => it + 1 + 1 \in 1..Len0
    BY <1>2, Ahead
  <2> QED
    BY <1>2, <2>1
<1>4. k \in 1..Len0 /\ k \in Int
  BY <1>2, <1>3
<1> HIDE DEF k
<1>5. toks[k] \in {"x", "str"} => e \in 1..Len0 /\ toks[e] # "EOF"
  <2>1. run \subseteq 1..Len0 /\ k \in run
    BY <1>2, <1>4
  <2>2. Max(run) \in run
    BY <1>2, <2>1, MaxIs
  <2> DEFINE m == Max(run)
  <2>3. /\ m \in 1..Len0 /\ m \in k..Len0 /\ (\A j \in (k + 1)..m : toks[j] \in {"x", "."})
    BY <2>1, <2>2
  <2> HIDE DEF m
  <2>4. toks[k] = "x" => toks[m] \in {"x", "."}
    <3>1. m = k \/ m \in (k + 1)..m
      BY <1>2, <1>4, <2>3
    <3> QED
      BY <2>3, <3>1
  <2>5. e = IF toks[k] = "x" THEN m ELSE k
    BY DEF m
  <2> HIDE DEF e
  <2> QED
    BY <1>4, <2>3, <2>4, <2>5
<1> HIDE DEF e
<1>6. toks[k] \in {"x", "str"} =>
        /\ e \in 1..Len0 /\ e + 1 \in 1..Len0 /\ e + 1 \in Int /\ e + 2 \in 1..(Len0 + 1)
        /\ e + 2 \in Int /\ e + 1 = (e + 2) - 1 /\ e + 1 \in 1..(Len0 + 2)
  <2>1. SUFFICES ASSUME toks[k] \in {"x", "str"}
                 PROVE  /\ e \in 1..Len0 /\ e + 1 \in 1..Len0 /\ e + 1 \in Int
                        /\ e + 2 \in 1..(Len0 + 1)
                        /\ e + 2 \in Int /\ e + 1 = (e + 2) - 1 /\ e + 1 \in 1..(Len0 + 2)
    OBVIOUS
  <2>2. e \in 1..Len0 /\ e + 1 \in 1..Len0
    BY <1>2, <1>5, <2>1, Ahead
  <2> QED
    BY <1>2, <2>2
<1>7. ASSUME toks[k] \in {"x", "str"}, Semicolon(e + 1),
             PushNode(e + 2, Node("import", it, e + 1, <<>>))
      PROVE  IInv'
  <2>1. TopNode(Node("import", it, e + 1, <<>>))
    BY <1>2, <1>6, <1>7, Named
  <2> QED
    BY <1>2, <1>6, <1>7, <2>1, Pushing
<1>8. ASSUME toks[k] \in {"x", "str"}, Skip(e) PROVE IInv'
  BY <1>2, <1>6, <1>8, Skipping
<1>9. ASSUME toks[k] \in {"x", "str"}, it' = e + 1, logged' = TRUE,
             UNCHANGED <<toks, calls, nodes, error, result>>, NoExpression
      PROVE  IInv'
  BY <1>2, <1>6, <1>9, Logging
<1>10. CASE Skip(k)
  BY <1>2, <1>4, <1>10, Skipping
<1> QED
  BY <1>1, <1>7, <1>8, <1>9, <1>10

LEMMA ModuleStep ==
  ASSUME IInv, Module
  PROVE  IInv'
<1> DEFINE k == it + 1
           even(j) == (j - k) % 2 = 0
           ends == {j \in k..Len0 : toks[j] # IF even(j) THEN "x" ELSE "."}
           e == Min(ends)
           before == even(e) /\ e > k /\ toks[e] \in {"EOF", ";"}
<1>1. /\ TopLevel("module")
      /\ \/ Semicolon(e) /\ PushNode(e + 1, Node("module", it, e, <<>>))
         \/ Skip(IF before THEN e - 1 ELSE e)
  BY Zenon DEF Module, Semicolon
<1>2. /\ Idle /\ calls = <<>> /\ toks[it] = "module" /\ toks \in Inputs
      /\ Len0 \in Nat /\ it \in 1..Len0 /\ it \in Int /\ k \in 1..Len0
  <2>1. TopLevel("module")
    BY <1>1
  <2> HIDE DEF k, even, ends, e, before
  <2>2. /\ Idle /\ calls = <<>> /\ toks[it] = "module" /\ toks \in Inputs
        /\ Len0 \in Nat /\ it \in 1..Len0 /\ it \in Int /\ it + 1 \in 1..Len0
    BY <2>1, AtTop
  <2> QED
    BY <2>2 DEF k
<1>3. toks[Len0] = "EOF" /\ Len0 \in k..Len0
  BY <1>2, TokenFacts
<1>4. Len0 \in ends /\ ends \subseteq Nat
  BY <1>2, <1>3
<1>5. e \in ends
  <2> HIDE DEF ends
  <2> QED
    BY <1>4, MinIs
<1>6. e \in k..Len0
  BY <1>5
<1>7. before => e > k
  OBVIOUS
<1> HIDE DEF before, e, ends, even
<1>8. /\ e \in 1..Len0 /\ e + 1 \in 1..(Len0 + 1) /\ e + 1 \in Int /\ e \in Int
      /\ e = (e + 1) - 1
  BY <1>2, <1>6
<1>9. (IF before THEN e - 1 ELSE e) \in 1..Len0
  BY <1>2, <1>6, <1>7
<1>10. ASSUME Semicolon(e), PushNode(e + 1, Node("module", it, e, <<>>)) PROVE IInv'
  <2>1. TopNode(Node("module", it, e, <<>>))
    BY <1>2, <1>8, <1>10, Named
  <2> QED
    BY <1>2, <1>8, <1>10, <2>1, Pushing
<1>11. CASE Skip(IF before THEN e - 1 ELSE e)
  BY <1>2, <1>9, <1>11, Skipping
<1> QED
  BY <1>1, <1>10, <1>11

LEMMA Fourth ==
  ASSUME NEW a, NEW b, NEW c, NEW d
  PROVE  /\ <<a, b, c, d>>[1] = a /\ <<a, b, c, d>>[2] = b /\ <<a, b, c, d>>[3] = c
         /\ <<a, b, c, d>>[4] = d
OBVIOUS

LEMMA UseStep ==
  ASSUME IInv, Use
  PROVE  IInv'
<1> DEFINE pattern == <<"x", "=", "x", ";">>
           wrong == {j \in 1..4 : it + j > Len0 \/ toks[it + j] # pattern[j]}
<1>1. /\ TopLevel("use")
      /\ \/ wrong = {} /\ PushNode(it + 5, Node("use", it, it + 4, <<>>))
         \/ wrong # {} /\ Skip(it + Min(wrong))
  BY Zenon DEF Use
<1>2. /\ Idle /\ calls = <<>> /\ toks[it] = "use" /\ toks \in Inputs
      /\ Len0 \in Nat /\ it \in 1..Len0 /\ it \in Int /\ it + 1 \in 1..Len0
  <2> HIDE DEF wrong, pattern
  <2>1. TopLevel("use")
    BY <1>1
  <2> QED
    BY <2>1, AtTop
<1>3. pattern[1] = "x" /\ pattern[2] = "=" /\ pattern[3] = "x" /\ pattern[4] = ";"
  BY Fourth, Zenon
<1>4. \A j \in 1..3 : pattern[j] # "EOF"
  <2>1. \A j \in 1..3 : j = 1 \/ j = 2 \/ j = 3
    OBVIOUS
  <2> QED
    BY <1>3, <2>1, Zenon
<1>5. toks[it + 4] = pattern[4] => Semicolon(it + 4)
  BY <1>3, Zenon DEF Semicolon
<1> HIDE DEF pattern
<1>6. ASSUME wrong = {}, PushNode(it + 5, Node("use", it, it + 4, <<>>)) PROVE IInv'
  <2>1. 4 \in 1..4 /\ 4 \notin wrong
    BY <1>6
  <2>2. it + 4 <= Len0 /\ toks[it + 4] = pattern[4]
    BY <1>2, <2>1
  <2>3. Semicolon(it + 4)
    BY <1>5, <2>2
  <2>4. /\ it + 5 \in 1..(Len0 + 1) /\ it + 5 \in Int /\ it + 4 \in Int
        /\ it + 4 = (it + 5) - 1
    BY <1>2, <2>2
  <2>5. TopNode(Node("use", it, it + 4, <<>>))
    BY <1>2, <2>3, <2>4, Named
  <2> QED
    BY <1>2, <1>6, <2>3, <2>4, <2>5, Pushing
<1>7. ASSUME wrong # {}, Skip(it + Min(wrong)) PROVE IInv'
  <2>1. wrong \subseteq Nat
    OBVIOUS
  <2>2. Min(wrong) \in wrong /\ \A y \in wrong : Min(wrong) <= y
    BY <1>7, <2>1, MinIs
  <2> DEFINE m == Min(wrong)
  <2>3. m \in 1..4 /\ \A y \in wrong : m <= y
    BY <2>2
  <2> HIDE DEF m
  <2>4. it + m \in 1..Len0
    <3>1. CASE m = 1
      BY <1>2, <3>1
    <3>2. CASE m > 1
      <4>1. m - 1 \in 1..3 /\ m - 1 \in 1..4 /\ ~(m <= m - 1)
        BY <2>3, <3>2
      <4>2. m - 1 \notin wrong
        BY <2>3, <4>1
      <4>3. it + (m - 1) <= Len0 /\ toks[it + (m - 1)] = pattern[m - 1]
        BY <1>2, <4>1, <4>2
      <4>4. toks[it + (m - 1)] # "EOF"
        BY <1>4, <4>1, <4>3
      <4>5. it + (m - 1) \in 1..Len0
        BY <1>2, <4>1, <4>3
      <4>6. it + (m - 1) + 1 \in 1..Len0
        BY <1>2, <4>4, <4>5, Ahead
      <4> QED
        BY <1>2, <2>3, <4>6
    <3> QED
      BY <2>3, <3>1, <3>2
  <2>5. Skip(it + m)
    BY <1>7 DEF m
  <2> QED
    BY <1>2, <2>4, <2>5, Skipping
<1> QED
  BY <1>1, <1>6, <1>7

(* A definition begins: the function that parses it is called.             *)
LEMMA StartingDef ==
  ASSUME IInv, Idle, calls = <<>>, it \in 1..Len0, NEW k \in 1..Len0, toks[k] = "def",
         NEW export \in BOOLEAN, CallFrom(k, "def", export),
         Good => Exports(Node("def", k, 0, <<>>)) = it
  PROVE  IInv'
<1> DEFINE f == [Frame("def", export) EXCEPT !.from = k]
<1>1. TypeInv /\ it <= Len0
  <2>1. TypeInv /\ Len0 \in Nat
    BY TokenFacts DEF IInv, TypeInv
  <2> QED
    BY <2>1
<1>2. TypeInv' /\ calls' # <<>> /\ Len(calls') = 1 /\ C' = f /\ calls'[1] = f
  BY <1>1, CallFromTyped
<1>3. f.fn = "def" /\ f.at = "begin" /\ f.from = k /\ f.kids = <<>>
  BY DEF Frame
<1> HIDE DEF f
<1>4. /\ toks' = toks /\ it' = k /\ nodes' = nodes /\ error' = error /\ logged' = logged
      /\ result' = "parsing"
  BY DEF CallFrom, Idle
<1>5. Shape(f, k) /\ f.at \notin Waiting
  BY <1>3 DEF Shape, DefShape, Waiting
<1>6. EatenInv'
  BY <1>2, <1>5 DEF EatenInv, Waiting
<1>7. IsSeq(calls')
  BY <1>2 DEF TypeInv, CallsInv
<1>8. ASSUME Good PROVE Whole'
  BY <1>1, <1>2, <1>3, <1>4, <1>5, <1>6, <1>7, <1>8, Started DEF IInv
<1>9. Finished'
  BY <1>4 DEF Finished
<1> QED
  BY <1>2, <1>4, <1>8, <1>9 DEF IInv, Good

LEMMA StartingGlobal ==
  ASSUME IInv, Idle, calls = <<>>, it \in 1..Len0, NEW k \in 1..Len0, toks[k] = "let",
         NEW export \in BOOLEAN, DefineGlobal(k, export),
         Good => Exports(Node("global", k, 0, <<>>)) = it
  PROVE  IInv'
<1> DEFINE f == [Frame("global", export) EXCEPT !.from = k, !.mark = k, !.at = "value"]
<1>1. TypeInv
  BY DEF IInv
<1>2. TypeInv' /\ calls' # <<>> /\ Len(calls') = 1 /\ C' = f /\ calls'[1] = f
  BY <1>1, DefineTyped
<1>3. f.fn = "global" /\ f.at = "value" /\ f.from = k /\ f.mark = k /\ f.kids = <<>>
  BY DEF Frame
<1> HIDE DEF f
<1>4. /\ toks' = toks /\ Enter(k, "define") /\ nodes' = nodes /\ error' = error
      /\ logged' = logged /\ result' = "parsing"
  BY DEF DefineGlobal, Idle, Enter, Same
<1>5. Shape(f, k) /\ f.at \in Waiting /\ Defines(f)
  <2>1. k = k + 0
    <3>1. Len0 \in Nat
      BY TokenFacts DEF IInv, TypeInv
    <3> QED
      BY <3>1
  <2> QED
    BY <1>3, <2>1 DEF Shape, LineShape, Waiting, Defines
<1>6. EatenInv'
  BY <1>1, <1>2, <1>3, <1>4, <1>5, Beginning
<1>7. IsSeq(calls')
  BY <1>2 DEF TypeInv, CallsInv
<1>8. ASSUME Good PROVE Whole'
  BY <1>1, <1>2, <1>3, <1>4, <1>5, <1>6, <1>7, <1>8, Started DEF IInv
<1>9. Finished'
  BY <1>4 DEF Finished
<1> QED
  BY <1>2, <1>4, <1>8, <1>9 DEF IInv, Good

(* No "export" lies before a definition the loop comes to by itself.       *)
LEMMA Unexported ==
  ASSUME IInv, Good, Idle, calls = <<>>, it \in 1..Len0, NEW fn \in {"def", "global"}
  PROVE  Exports(Node(fn, it, 0, <<>>)) = it
<1> DEFINE n == Node(fn, it, 0, <<>>)
<1>1. n.kind = fn /\ n.from = it
  BY DEF Node
<1> HIDE DEF n
<1>2. it \in Nat /\ it > 0 /\ it - 1 \in Int
  <2>1. Len0 \in Nat
    BY TokenFacts DEF IInv, TypeInv
  <2> QED
    BY <2>1
<1>3. it > 1 => toks[it - 1] \notin {"export", "nomangle"}
  <2>1. it > 1 => Complete(it - 1)
    BY DEF IInv, Whole, TopInv
  <2> QED
    BY <2>1, CompleteIs
<1>4. it = 1 => ~(it - 1 > 0)
  OBVIOUS
<1>5. CASE it = 1
  BY <1>1, <1>4, <1>5 DEF Exports, n
<1>6. CASE it > 1
  BY <1>1, <1>2, <1>3, <1>6 DEF Exports, n
<1> QED
  BY <1>2, <1>5, <1>6

LEMMA DefStep ==
  ASSUME IInv, Def
  PROVE  IInv'
<1>1. TopLevel("def") /\ CallFrom(it, "def", FALSE)
  BY DEF Def
<1>2. Idle /\ calls = <<>> /\ toks[it] = "def" /\ it \in 1..Len0
  BY <1>1, AtTop
<1> QED
  BY <1>1, <1>2, Unexported, StartingDef

LEMMA GlobalStep ==
  ASSUME IInv, Global
  PROVE  IInv'
<1>1. TopLevel("let") /\ DefineGlobal(it, FALSE)
  BY DEF Global
<1>2. Idle /\ calls = <<>> /\ toks[it] = "let" /\ it \in 1..Len0
  BY <1>1, AtTop
<1> QED
  BY <1>1, <1>2, Unexported, StartingGlobal

LEMMA ExportStep ==
  ASSUME IInv, Export
  PROVE  IInv'
<1> DEFINE k == IF toks[it + 1] = "nomangle" THEN it + 2 ELSE it + 1
<1>1. /\ TopLevel("export")
      /\ \/ toks[k] = "let" /\ DefineGlobal(k, TRUE)
         \/ toks[k] = "def" /\ CallFrom(k, "def", TRUE)
         \/ /\ it' = k /\ logged' = TRUE
            /\ UNCHANGED <<toks, calls, nodes, error, result>> /\ NoExpression
  BY DEF Export
<1>2. /\ Idle /\ calls = <<>> /\ toks[it] = "export" /\ toks \in Inputs
      /\ Len0 \in Nat /\ it \in 1..Len0 /\ it \in Int /\ it + 1 \in 1..Len0
  <2> HIDE DEF k
  <2>1. TopLevel("export")
    BY <1>1
  <2> QED
    BY <2>1, AtTop
<1>3. toks[it + 1] = "nomangle" => it + 2 \in 1..Len0
  <2>1. toks[it + 1] = "nomangle" => it + 1 + 1 \in 1..Len0
    BY <1>2, Ahead
  <2> QED
    BY <1>2, <2>1
<1>4. k \in 1..Len0 /\ k \in 1..(Len0 + 2)
  BY <1>2, <1>3
<1>5. ASSUME NEW fn \in {"def", "global"} PROVE Exports(Node(fn, k, 0, <<>>)) = it
  <2> DEFINE n == Node(fn, k, 0, <<>>)
  <2>1. n.kind = fn /\ n.from = k
    BY DEF Node
  <2> HIDE DEF n
  <2>2. CASE toks[it + 1] = "nomangle"
    <3>1. k = it + 2 /\ k - 1 = it + 1 /\ (it + 1) - 1 = it /\ it + 1 > 0 /\ it > 0
      BY <1>2, <2>2
    <3> HIDE DEF k
    <3>2. toks[k - 1] = "nomangle" /\ k - 1 > 0 /\ (k - 1) - 1 = it
      BY <2>2, <3>1
    <3> QED
      BY <1>2, <2>1, <3>1, <3>2 DEF Exports, n
  <2>3. CASE toks[it + 1] # "nomangle"
    <3>1. k = it + 1 /\ k - 1 = it /\ it > 0
      BY <1>2, <2>3
    <3> HIDE DEF k
    <3>2. toks[k - 1] # "nomangle"
      BY <1>2, <3>1
    <3> QED
      BY <1>2, <2>1, <3>1, <3>2 DEF Exports, n
  <2> QED
    BY <2>2, <2>3
<1> HIDE DEF k
<1>6. CASE toks[k] = "let" /\ DefineGlobal(k, TRUE)
  BY <1>2, <1>4, <1>5, <1>6, StartingGlobal
<1>7. CASE toks[k] = "def" /\ CallFrom(k, "def", TRUE)
  BY <1>2, <1>4, <1>5, <1>7, StartingDef
<1>8. ASSUME it' = k, logged' = TRUE,
             UNCHANGED <<toks, calls, nodes, error, result>>, NoExpression
      PROVE  IInv'
  BY <1>2, <1>4, <1>8, Logging
<1> QED
  BY <1>1, <1>6, <1>7, <1>8

-----------------------------------------------------------------------------
(* Every step.                                                             *)

LEMMA InitInv ==
  ASSUME Init
  PROVE  IInv
<1>1. /\ toks \in Inputs /\ it = 1 /\ calls = <<>> /\ nodes = <<>> /\ error = FALSE
      /\ logged = FALSE /\ outcome = "null" /\ result = "parsing"
  BY DEF Init
<1>2. /\ DOMAIN <<>> = 1..0 /\ (\A i \in DOMAIN <<>> : FALSE) /\ IsSeq(<<>>) /\ Len(<<>>) = 0
      /\ \A i \in 1..0 : FALSE
  <2>1. DOMAIN <<>> = 1..0 /\ IsSeq(<<>>) /\ Len(<<>>) = 0
    BY NothingIsSeq, SeqFacts
  <2>2. \A i \in 1..0 : FALSE
    OBVIOUS
  <2> QED
    BY <2>1, <2>2, Zenon
<1>3. TypeInv
  <2>1. it \in 1..(Len0 + 2)
    <3>1. Len0 \in Nat
      BY <1>1, TokenFacts
    <3> QED
      BY <1>1, <3>1
  <2>2. CallsInv
    BY <1>1, <1>2, Zenon DEF CallsInv
  <2> QED
    BY <1>1, <1>2, <2>1, <2>2 DEF TypeInv, AtBegin, ExpressionInv
<1>4. ShapesInv
  BY <1>1, <1>2, Zenon DEF ShapesInv
<1>5. BodyInv
  <2>1. ~(0 > 1)
    OBVIOUS
  <2> QED
    BY <1>1, <1>2, <2>1, Zenon DEF BodyInv
<1>6. NodesInv
  <2>1. Made \subseteq {}
    BY <1>1, <1>2, Zenon DEF Made
  <2>2. Lawful({})
    BY DEF Lawful
  <2> QED
    BY <2>1, <2>2 DEF NodesInv
<1>7. TopInv
  <2>1. Claims = <<>>
    <3>1. Claims = [i \in DOMAIN nodes |-> [nodes[i] EXCEPT !.from = Exports(nodes[i])]]
      BY DEF Claims
    <3>2. DOMAIN nodes = {}
      BY <1>1, <1>2
    <3>3. Claims = [i \in {} |-> i]
      BY <3>1, <3>2
    <3>4. <<>> = [i \in {} |-> i]
      OBVIOUS
    <3> QED
      BY <3>3, <3>4
  <2>2. Start = 1 /\ 1 = (Start - 1) + 1
    BY <1>1 DEF Start
  <2>3. Tile(Claims, 1, Start - 1)
    BY <2>1, <2>2 DEF Tile
  <2>4. ~(it > 1)
    BY <1>1
  <2>5. \A i \in DOMAIN nodes : TopNode(nodes[i])
    BY <1>1, <1>2, Zenon
  <2> QED
    BY <2>3, <2>4, <2>5 DEF TopInv, Claims
<1>8. EatenInv
  BY <1>1 DEF EatenInv
<1> QED
  BY <1>1, <1>3, <1>4, <1>5, <1>6, <1>7, <1>8 DEF IInv, Whole, Finished

LEMMA NextInv ==
  ASSUME IInv, [Next]_vars
  PROVE  IInv'
<1>1. CASE Expression
  BY <1>1, ExpressionStep
<1>2. CASE ThrowAtEnd
  <2>1. UNCHANGED <<shared, calls, nodes, logged>> /\ result' \in {"thrown", "undefined"}
    BY <1>2 DEF ThrowAtEnd
  <2> QED
    BY <2>1, Ending
<1>3. CASE ReturnAtEof \/ ReturnAtForeign
  BY <1>3, ReturnStep
<1>4. CASE EmptyStatement \/ Import \/ Module \/ Use
  BY <1>4, EmptyStatementStep, ImportStep, ModuleStep, UseStep
<1>5. CASE Def \/ Global \/ Export \/ EndGlobal
  BY <1>5, DefStep, GlobalStep, ExportStep, EndGlobalStep
<1>6. CASE Heading \/ Parameter \/ Default \/ EndDefault \/ Separator \/ ResultType
  BY <1>6, HeadingStep, ParameterStep, DefaultStep, EndDefaultStep, SeparatorStep,
     ResultTypeStep
<1>7. CASE Body \/ OpenBlock \/ CloseBlock \/ Statement \/ EndSimple
  BY <1>7, BodyStep, OpenBlockStep, CloseBlockStep, StatementStep, EndSimpleStep
<1>8. CASE BeginCondition \/ EndCondition \/ Else
  BY <1>8, BeginConditionStep, EndConditionStep, ElseStep
<1>9. CASE BeginFor \/ ForCondition \/ ForComma \/ ForStep \/ EndFor \/ BeginReturn
  BY <1>9, BeginForStep, ForConditionStep, ForCommaStep, ForStepStep, EndForStep,
     BeginReturnStep
<1>10. CASE ExpressionFailed \/ Done
  BY <1>10, ExpressionFailedStep, DoneStep
<1>11. CASE LetAtEof \/ Lost
  <2>1. UNCHANGED <<shared, calls, nodes, logged>> /\ result' \in {"thrown", "undefined"}
    BY <1>11 DEF LetAtEof, Lost
  <2> QED
    BY <2>1, Ending
<1>12. CASE UNCHANGED vars
  <2>1. UNCHANGED <<shared, calls, nodes, logged>> /\ result' = result
    BY <1>12 DEF vars
  <2>2. UNCHANGED <<toks, it, frames, error, outcome, tree>>
    BY <2>1 DEF shared
  <2>3. TypeInv'
    <3>1. TypeInv /\ result' \in {"parsing", "returned", "thrown", "undefined"}
      BY <2>1 DEF IInv, TypeInv
    <3> QED
      BY <2>1, <3>1, EndedTyped
  <2>4. Good => Whole'
    BY <2>1, <2>2, Unmoved DEF IInv
  <2>5. Finished'
    BY <2>1, <2>2 DEF IInv, Finished, Len0
  <2> QED
    BY <2>1, <2>2, <2>3, <2>4, <2>5 DEF IInv, Good
<1>13. CASE Ended
  BY <1>12, <1>13 DEF Ended
<1> QED
  BY <1>1, <1>2, <1>3, <1>4, <1>5, <1>6, <1>7, <1>8, <1>9, <1>10, <1>11, <1>12, <1>13 DEF Next

LEMMA Invariant == Spec => []IInv
<1>1. Init => IInv
  BY InitInv
<1>2. IInv /\ [Next]_vars => IInv'
  BY NextInv
<1> QED
  BY <1>1, <1>2, PTL DEF Spec

-----------------------------------------------------------------------------
(* What follows.                                                           *)

LEMMA TypeFollows == IInv => TypeOK
<1> SUFFICES ASSUME IInv PROVE TypeOK
  OBVIOUS
<1>1. TypeInv
  BY DEF IInv
<1>2. ASSUME NEW i \in DOMAIN calls
      PROVE  /\ calls[i].fn \in {"def", "global", "block", "if", "while", "for", "return",
                                 "simple"}
             /\ calls[i].from \in 1..Len0
             /\ i > 1 => calls[i - 1].at \in {"loop", "then", "else", "body"}
  <2>1. DOMAIN calls = 1..Len(calls) /\ Len(calls) \in Nat
    BY <1>1, SeqFacts DEF TypeInv, CallsInv
  <2>2. CallOK(calls[i])
    BY <1>1, <2>1 DEF TypeInv, CallsInv
  <2>3. i > 1 => i - 1 \in 1..Len(calls) /\ i - 1 < Len(calls)
    BY <2>1
  <2>4. i > 1 => Called(calls[i - 1])
    BY <1>1, <2>3 DEF TypeInv, CallsInv
  <2> QED
    BY <2>2, <2>4 DEF CallOK, Called, Function
<1>3. calls = <<>> => outcome # "running"
  BY <1>1 DEF TypeInv, ExpressionInv
<1> QED
  BY <1>1, <1>2, <1>3 DEF TypeInv, TypeOK

(* The levels of the AST: there is a function Level defines, and below the *)
(* top its values are among the nodes made.                                *)
Below(S) == UNION {Range(n.kids) : n \in S}
Levels(w) == w = [d \in Nat |-> IF d = 0 THEN Range(nodes) ELSE Below(w[d - 1])]
Upto(r, n) == r = [i \in 0..n |-> IF i = 0 THEN Range(nodes) ELSE Below(r[i - 1])]

LEMMA LevelIs == Level = CHOOSE w : Levels(w)
BY DEF Level, Levels, Below

LEMMA UptoExists ==
  ASSUME NEW n \in Nat
  PROVE  \E r : Upto(r, n)
<1> DEFINE T == {m \in Nat : ~\E r : Upto(r, m)}
<1>1. SUFFICES ASSUME T # {} PROVE FALSE
  OBVIOUS
<1>2. PICK m \in T : \A k \in T : m <= k
  BY <1>1, LeastExists
<1>3. CASE m = 0
  <2> DEFINE r == [i \in 0..0 |-> Range(nodes)]
  <2>1. Upto(r, 0)
    BY DEF Upto
  <2> QED
    BY <1>3, <2>1
<1>4. CASE m > 0
  <2>1. m - 1 \in Nat /\ m - 1 \notin T
    BY <1>2, <1>4
  <2>2. PICK q : Upto(q, m - 1)
    BY <2>1
  <2> DEFINE r == [i \in 0..m |-> IF i = 0 THEN Range(nodes) ELSE Below(q[i - 1])]
  <2>3. \A i \in 0..(m - 1) : r[i] = q[i]
    BY <2>1, <2>2 DEF Upto
  <2>4. \A i \in 0..m : i # 0 => i - 1 \in 0..(m - 1)
    BY <2>1
  <2>5. \A i \in 0..m : i # 0 => r[i - 1] = q[i - 1]
    BY <2>3, <2>4
  <2>6. r = [i \in 0..m |-> IF i = 0 THEN Range(nodes) ELSE Below(r[i - 1])]
    <3>1. \A i \in 0..m : (IF i = 0 THEN Range(nodes) ELSE Below(q[i - 1]))
                            = IF i = 0 THEN Range(nodes) ELSE Below(r[i - 1])
      BY <2>5
    <3> QED
      BY <3>1, Zenon
  <2>7. Upto(r, m)
    BY <2>6 DEF Upto
  <2> QED
    BY <2>7
<1> QED
  BY <1>2, <1>3, <1>4

LEMMA UptoAgree ==
  ASSUME NEW n \in Nat, NEW m \in Nat, n <= m, NEW r, Upto(r, n), NEW q, Upto(q, m)
  PROVE  \A i \in 0..n : r[i] = q[i]
<1> DEFINE T == {i \in 0..n : r[i] # q[i]}
<1>1. SUFFICES ASSUME T # {} PROVE FALSE
  OBVIOUS
<1>2. T \subseteq Nat
  OBVIOUS
<1>3. PICK i \in T : \A k \in T : i <= k
  BY <1>1, <1>2, LeastExists
<1>4. CASE i = 0
  BY <1>3, <1>4 DEF Upto
<1>5. CASE i > 0
  <2>1. i - 1 \in 0..n /\ i - 1 \notin T
    BY <1>3, <1>5
  <2>2. r[i - 1] = q[i - 1]
    BY <2>1
  <2>3. i \in 0..n /\ i \in 0..m /\ i # 0
    BY <1>3, <1>5
  <2>4. r[i] = Below(r[i - 1]) /\ q[i] = Below(q[i - 1])
    BY <2>3 DEF Upto
  <2> QED
    BY <1>3, <2>2, <2>4
<1> QED
  BY <1>3, <1>4, <1>5

LEMMA LevelsExist == \E w : Levels(w)
<1> DEFINE R(n) == CHOOSE r : Upto(r, n)
           w == [n \in Nat |-> R(n)[n]]
<1>1. \A n \in Nat : Upto(R(n), n)
  BY UptoExists
<1> HIDE DEF R
<1>2. ASSUME NEW n \in Nat, n # 0 PROVE n - 1 \in Nat /\ R(n)[n] = Below(R(n - 1)[n - 1])
  <2>1. PICK k \in Nat : k = n - 1 /\ k <= n /\ k \in 0..k
    BY <1>2
  <2>2. R(k)[k] = R(n)[k]
    BY <1>1, <2>1, UptoAgree
  <2>3. R(n)[n] = Below(R(n)[n - 1])
    BY <1>1, <1>2 DEF Upto
  <2> QED
    BY <2>1, <2>2, <2>3
<1>3. \A n \in Nat : R(n)[n] = IF n = 0 THEN Range(nodes) ELSE Below(w[n - 1])
  <2>1. R(0)[0] = Range(nodes)
    BY <1>1 DEF Upto
  <2> QED
    BY <1>2, <2>1
<1>4. w = [n \in Nat |-> IF n = 0 THEN Range(nodes) ELSE Below(w[n - 1])]
  BY <1>3, Zenon
<1> QED
  BY <1>4 DEF Levels

LEMMA LevelsMade ==
  ASSUME IsSeq(nodes), NEW S, Lawful(S), Made \subseteq S
  PROVE  \A d \in Nat : d > 0 => Level[d] \subseteq S
<1>1. Levels(Level)
  BY LevelIs, LevelsExist
<1>2. /\ Level[0] = Range(nodes)
      /\ \A d \in Nat : d # 0 => Level[d] = Below(Level[d - 1])
  BY <1>1 DEF Levels
<1>3. Below(Range(nodes)) \subseteq S
  <2>1. \A n \in Range(nodes) : Range(n.kids) \subseteq Made
    BY MadeHas DEF Range
  <2> QED
    BY <2>1, Zenon DEF Below
<1>4. Below(S) \subseteq S
  BY Zenon DEF Below, Lawful
<1>5. \A X : X \subseteq S => Below(X) \subseteq S
  BY <1>4, Zenon DEF Below
<1> DEFINE T == {d \in Nat : d > 0 /\ ~(Level[d] \subseteq S)}
<1>6. ASSUME T # {} PROVE FALSE
  <2>1. PICK d \in T : \A k \in T : d <= k
    BY <1>6, LeastExists
  <2>2. PICK k \in Nat : k = d - 1 /\ k \notin T
    BY <2>1
  <2>3. Level[d] = Below(Level[k])
    BY <1>2, <2>1, <2>2
  <2>4. CASE k = 0
    BY <1>2, <1>3, <2>1, <2>3, <2>4
  <2>5. CASE k > 0
    BY <1>5, <2>1, <2>2, <2>3, <2>5
  <2> QED
    BY <2>2, <2>4, <2>5
<1> QED
  BY <1>6

LEMMA ProgramFollows == IInv => AcceptedIsProgram
<1> SUFFICES ASSUME IInv, Accepted, ~logged PROVE IsProgram
  BY DEF AcceptedIsProgram
<1>1. TypeInv /\ Whole /\ calls = <<>> /\ it = Len0
  BY DEF IInv, Finished, Good, Accepted
<1>2. \A i \in DOMAIN nodes : TopNode(nodes[i])
  BY <1>1 DEF Whole, TopInv
<1>3. \A i \in DOMAIN nodes :
        LET n == nodes[i]
        IN  \/ n.kind \in {"import", "module", "use"}
               /\ toks[n.from] = n.kind /\ toks[n.to] = ";"
            \/ n.kind = "empty" /\ IsLine(n)
            \/ n.kind = "def" /\ IsFunction(n)
            \/ n.kind = "global" /\ toks[n.to] = ";" /\ IsDefinition(n.kids[1])
                 /\ Tile(n.kids, n.from, n.to - 1)
  BY <1>2, Zenon DEF TopNode, Semicolon
<1>4. Tile([i \in DOMAIN nodes |-> [nodes[i] EXCEPT !.from = Exports(nodes[i])]], 1, Len0 - 1)
  BY <1>1 DEF Whole, TopInv, Start
<1>5. \A d \in 1..Len0 : \A n \in Level[d] :
        n.kind \in {"expr", "let", "none"} \/ IsStatement(n)
  <2>1. PICK S : Lawful(S) /\ Made \subseteq S
    BY <1>1 DEF Whole, NodesInv
  <2>2. \A d \in 1..Len0 : d \in Nat /\ d > 0
    BY <1>1, TokenFacts DEF TypeInv
  <2>3. \A d \in 1..Len0 : Level[d] \subseteq S
    BY <1>1, <2>1, <2>2, LevelsMade DEF TypeInv
  <2> QED
    BY <2>1, <2>3 DEF Lawful, Proper
<1> QED
  BY <1>3, <1>4, <1>5, Zenon DEF IsProgram

(* The variables keep to their kinds, and the functions under way call     *)
(* each other as Parser::run and the functions it calls do.                *)
THEOREM TypeCorrect == Spec => []TypeOK
BY Invariant, TypeFollows, PTL

(* Parser::run accepts programs only: whatever the tokens, if it returns   *)
(* and nothing was reported on the way, the nodes it made claim all of the *)
(* tokens, in order, and each is a statement of the language.              *)
THEOREM AcceptedProgramsAreWhole == Spec => []AcceptedIsProgram
BY Invariant, ProgramFollows, PTL

=============================================================================

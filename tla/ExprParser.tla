----------------------------- MODULE ExprParser -----------------------------
(***************************************************************************)
(* Parser::parseExpression: an operator-precedence parser with a stack of  *)
(* operators and a stack of operands, called again for every argument,     *)
(* every subscript and every initialiser.                                  *)
(*                                                                         *)
(* One step is one turn of its loop, or one reduction.  A call of          *)
(* parseExpression is a frame; the frames below the last one are the calls *)
(* that wait for it.  Tokens are classes: "x" any identifier, "1" any good *)
(* literal, "bad" a literal its parser refuses, "?" any token with no      *)
(* place in a program (among them the operators ^ and <-); operators have  *)
(* one representative per precedence.                                      *)
(***************************************************************************)
EXTENDS Integers, SequencesExt

CONSTANT Inputs  \* the token lists to parse

VARIABLES
  toks,     \* the token list
  it,       \* the cursor; Len(toks) + 1 is endTokens
  frames,   \* the active calls of parseExpression, the innermost last
  error,    \* has an error been reported (Parser::error)?
  outcome,  \* "running", or how the outermost call ended
  tree      \* the expression it returned, as a sequence of at most one node

vars == <<toks, it, frames, error, outcome, tree>>

-----------------------------------------------------------------------------
(* Operators.                                                              *)

BinaryPrecedence ==
  [t \in {".", "as", "*", "+", "-", "<", "==", "and", "or", "="} |->
     CASE t = "."          -> 90
       [] t = "as"         -> 80
       [] t = "*"          -> 70
       [] t \in {"+", "-"} -> 60
       [] t = "<"          -> 50
       [] t = "=="         -> 40
       [] t = "and"        -> 30
       [] t = "or"         -> 20
       [] t = "="          -> 10]

(* What no expression can hold, begin with or be followed by.              *)
Unknown ==
  {"?", "]", "}", ":", "->", "mut", "if", "else", "while", "for", "return",
   "def", "import", "module", "package", "export", "nomangle", "use"}

TokenClass ==
  DOMAIN BinaryPrecedence \cup Unknown \cup
    {"x", "1", "str", "bad", "not", "(", ")", "[", "{", ",", ";", "let", "EOF"}

ASSUME InputsAssumption ==  \* the lexer ends every list with EOF
  \A s \in Inputs :
    /\ s \in Seq(TokenClass) /\ s # <<>>
    /\ \A i \in DOMAIN s : s[i] = "EOF" <=> i = Len(s)

getBinOpPrecedence(t) ==
  IF t \in DOMAIN BinaryPrecedence THEN BinaryPrecedence[t] ELSE -1

isBinaryOperator(t) == getBinOpPrecedence(t) >= 10
isBinOpRightAssociative(t) == t = "="
isUnaryOperator(t) == t \in {"pos", "neg", "not"}

(* Mutant: operators of one precedence associate to the right.             *)
ReducesTighterOnly(t, u) == getBinOpPrecedence(t) < getBinOpPrecedence(u)

(* With t as the next operator, is the operator u on the stack applied     *)
(* before t is pushed?  A parenthesis and a prefix operator never are.     *)
Reduces(t, u) ==
  \/ getBinOpPrecedence(t) < getBinOpPrecedence(u)
  \/ ~isBinOpRightAssociative(t) /\ getBinOpPrecedence(t) = getBinOpPrecedence(u)

-----------------------------------------------------------------------------
(* Nodes and frames.                                                       *)

Node(op, at, kids) == [op |-> op, at |-> at, kids |-> kids]
Leaf(i)  == Node("leaf", i, <<>>)
Empty(i) == Node("empty", i, <<>>)

(* What the caller of parseExpression does with its result: an argument    *)
(* list and a subscript also hold the position of their bracket, a         *)
(* variable definition whether it states a type.                           *)
Frame(caller, begin, at, kids, typed) ==
  [caller |-> caller, begin |-> begin, at |-> at, kids |-> kids,
   typed |-> typed, ops |-> <<>>, opnds |-> <<>>, parens |-> 0,
   mode |-> "scan"]

F == Last(frames)
Top == Last(F.ops)
Token == toks[it]

Replace(f) == frames' = Append(Front(frames), f)
Call(f) == frames' = Append(frames, f)

(* A frame in the mode "define" is parseVariableDefinition called by a     *)
(* statement: it runs no loop, it returns what the definition returned.    *)

(* Give node n to the last frame.                                          *)
Deliver(fs, n) ==
  Append(Front(fs),
         [Last(fs) EXCEPT !.opnds = Append(@, n),
                          !.mode = IF @ = "define" THEN "final" ELSE @])

(* The frame gets no node: a loop takes the path of a token it does not    *)
(* know, which is only an error when an operator waits for an operand.     *)
Refuse(f) ==
  [f EXCEPT !.mode = IF @ # "define" /\ f.ops = <<>> THEN "final" ELSE "failed"]

Scanning ==
  /\ outcome = "running" /\ F.mode = "scan" /\ it <= Len(toks)

Advance(n) == it' = it + n
Push(op) == Replace([F EXCEPT !.ops = Append(@, [op |-> op, at |-> it])])
BreakLoop == Replace([F EXCEPT !.mode = "final"])
parserError == Replace([F EXCEPT !.mode = "failed"]) /\ error' = TRUE
Undefined ==
  outcome' = "undefined" /\ UNCHANGED <<toks, it, frames, error, tree>>

Fixed == UNCHANGED <<toks, outcome, tree>>

(* Apply the operator on top of its stack to the n operands on top of      *)
(* theirs, without looking whether they are there: that is undefined.      *)
Applied(n) ==
  LET k == Len(F.opnds) - n
  IN  [F EXCEPT !.ops = Front(@),
                !.opnds = Append(SubSeq(@, 1, k),
                                 Node(Top.op, Top.at, SubSeq(@, k + 1, k + n)))]

ReduceUnchecked ==
  IF Len(F.opnds) >= 2
  THEN Replace(Applied(2)) /\ UNCHANGED <<it, error>> /\ Fixed
  ELSE Undefined

Init ==
  /\ toks \in Inputs
  /\ it = 1
  /\ frames = <<Frame("statement", 1, 0, <<>>, FALSE)>>
  /\ error = FALSE
  /\ outcome = "running"
  /\ tree = <<>>

-----------------------------------------------------------------------------
(* The loop over the tokens.                                               *)

(* createOperator asserts that the token is below 700, and "(" is 800: the *)
(* builds modelled are those without assert().                             *)
OpenParen ==
  /\ Scanning /\ Token = "("
  /\ Replace([F EXCEPT !.ops = Append(@, [op |-> "(", at |-> it]),
                       !.parens = @ + 1])
  /\ Advance(1)
  /\ UNCHANGED error /\ Fixed

StopAtParen ==
  /\ Scanning /\ Token = ")" /\ F.parens = 0
  /\ BreakLoop
  /\ UNCHANGED <<it, error>> /\ Fixed

Closing == Scanning /\ Token = ")" /\ F.parens > 0

(* Between the parentheses every operator is applied to two operands.  The *)
(* count of parentheses is never above their number on the stack, so the   *)
(* stack does not run empty here ("Parenthesis mismatch in expression" is  *)
(* never reported): see ParensCounted.                                     *)
ReduceInParens ==
  /\ Closing /\ F.ops # <<>> /\ Top.op # "("
  /\ ReduceUnchecked

(* Mutant: the closed parenthesis stays counted.                           *)
CloseParenUncounted ==
  /\ Closing /\ F.ops # <<>> /\ Top.op = "("
  /\ Replace([F EXCEPT !.ops = Front(@)])
  /\ Advance(1)
  /\ UNCHANGED error /\ Fixed

CloseParen ==
  /\ Closing /\ F.ops # <<>> /\ Top.op = "("
  /\ Replace([F EXCEPT !.ops = Front(@), !.parens = @ - 1])
  /\ Advance(1)
  /\ UNCHANGED error /\ Fixed

(* + and - are signs at the start and after a binary operator.             *)
IsSign ==
  /\ Token \in {"+", "-"}
  /\ it # F.begin => isBinaryOperator(toks[it - 1])

PushSign ==
  /\ Scanning /\ IsSign
  /\ Push(IF Token = "+" THEN "pos" ELSE "neg")
  /\ Advance(1)
  /\ UNCHANGED error /\ Fixed

AtBinary == Scanning /\ isBinaryOperator(Token) /\ ~IsSign

ReduceBinary ==
  /\ AtBinary /\ F.ops # <<>> /\ Reduces(Token, Top.op)
  /\ ReduceUnchecked

(* Mutant: an operator is pushed over one that binds as tightly.           *)
PushBinaryAtOnce ==
  /\ AtBinary
  /\ Push(Token)
  /\ Advance(1)
  /\ UNCHANGED error /\ Fixed

PushBinary ==
  /\ AtBinary /\ (F.ops # <<>> => ~Reduces(Token, Top.op))
  /\ Push(Token)
  /\ Advance(1)
  /\ UNCHANGED error /\ Fixed

PushPrefix ==
  /\ Scanning /\ Token = "not"
  /\ Push(Token)
  /\ Advance(1)
  /\ UNCHANGED error /\ Fixed

Literal ==
  /\ Scanning /\ Token \in {"1", "str"}
  /\ frames' = Deliver(frames, Leaf(it))
  /\ Advance(1)
  /\ UNCHANGED error /\ Fixed

BadLiteral ==
  /\ Scanning /\ Token = "bad"
  /\ Replace(Refuse(F))
  /\ Advance(1)
  /\ error' = TRUE /\ Fixed

-----------------------------------------------------------------------------
(* Identifiers, and what may follow them.                                  *)

Variable ==
  /\ Scanning /\ Token = "x" /\ toks[it + 1] \notin {"(", "["}
  /\ frames' = Deliver(frames, Leaf(it))
  /\ Advance(1)
  /\ UNCHANGED error /\ Fixed

BeginSubscript ==
  /\ Scanning /\ Token = "x" /\ toks[it + 1] = "["
  /\ Call(Frame("subscript", it + 2, it + 1, <<Leaf(it)>>, FALSE))
  /\ Advance(2)
  /\ UNCHANGED error /\ Fixed

(* Mutant: one step too far.                                               *)
EmptyCallTooFar ==
  /\ Scanning /\ Token = "x" /\ toks[it + 1] = "(" /\ toks[it + 2] \in {")", "EOF"}
  /\ frames' = Deliver(frames, Node("call", it + 1, <<Leaf(it)>>))
  /\ Advance(4)
  /\ UNCHANGED error /\ Fixed

(* The argument list is empty when ")" follows, and as well at the end of  *)
(* the tokens: the loop over the arguments ends there and the step over    *)
(* the ")" passes EOF.                                                     *)
EmptyCall ==
  /\ Scanning /\ Token = "x" /\ toks[it + 1] = "(" /\ toks[it + 2] \in {")", "EOF"}
  /\ frames' = Deliver(frames, Node("call", it + 1, <<Leaf(it)>>))
  /\ Advance(3)
  /\ UNCHANGED error /\ Fixed

BeginCall ==
  /\ Scanning /\ Token = "x" /\ toks[it + 1] = "(" /\ toks[it + 2] \notin {")", "EOF"}
  /\ Call(Frame("argument", it + 2, it + 1, <<Leaf(it)>>, FALSE))
  /\ Advance(2)
  /\ UNCHANGED error /\ Fixed

(* parseVariableDefinition: let [mut] name [: type] [= initialiser].  It   *)
(* does not look at the token it takes for "let".                          *)
Let ==
  LET name == IF toks[it + 1] = "mut" THEN it + 2 ELSE it + 1
      typed == toks[name + 1] = ":"
      rest == IF typed THEN name + 3 ELSE name + 1
      wrong(at) == Replace(Refuse(F)) /\ it' = at /\ error' = TRUE
  IN  /\ \/ Scanning /\ Token = "let"
         \/ outcome = "running" /\ F.mode = "define" /\ it < Len(toks)
      /\ \/ toks[name] # "x" /\ wrong(name)
         \/ /\ toks[name] = "x" /\ typed /\ toks[name + 2] # "x"
            /\ wrong(name + 2)
         \/ /\ toks[name] = "x" /\ (typed => toks[name + 2] = "x")
            /\ \/ /\ toks[rest] = "="
                  /\ Call(Frame("let", rest + 1, it, <<>>, typed))
                  /\ it' = rest + 1
                  /\ UNCHANGED error
               \/ /\ toks[rest] # "=" /\ typed
                  /\ frames' = Deliver(frames, Node("let", it, <<Empty(rest)>>))
                  /\ it' = rest
                  /\ UNCHANGED error
               \/ toks[rest] # "=" /\ ~typed /\ wrong(rest)
      /\ Fixed

StopAtDelimiter ==
  /\ Scanning /\ Token \in {";", "{", "[", ","}
  /\ BreakLoop
  /\ UNCHANGED <<it, error>> /\ Fixed

(* Mutant: null without an error.                                          *)
SilentEof ==
  /\ Scanning /\ Token = "EOF"
  /\ Replace([F EXCEPT !.mode = "failed"])
  /\ UNCHANGED <<it, error>> /\ Fixed

UnexpectedEof ==
  /\ Scanning /\ Token = "EOF"
  /\ parserError
  /\ UNCHANGED it /\ Fixed

(* Mutant: the loop goes on without leaving the token.                     *)
UnrecognizedSkipped ==
  /\ Scanning /\ Token \in Unknown
  /\ IF F.ops = <<>> THEN UNCHANGED <<frames, error>> ELSE parserError
  /\ UNCHANGED it /\ Fixed

Unrecognized ==
  /\ Scanning /\ Token \in Unknown
  /\ IF F.ops = <<>> THEN BreakLoop /\ UNCHANGED error ELSE parserError
  /\ UNCHANGED it /\ Fixed

(* The loop's own condition, it != endTokens.                              *)
StopAtEnd ==
  /\ outcome = "running" /\ F.mode = "scan" /\ it > Len(toks)
  /\ BreakLoop
  /\ UNCHANGED <<it, error>> /\ Fixed

-----------------------------------------------------------------------------
(* After the loop: apply the operators that are left, then return.         *)

(* A missing operand is reported at the cursor, whose token must be there. *)
ReduceFinal ==
  LET n == IF isUnaryOperator(Top.op) THEN 1 ELSE 2
      missing == Len(F.opnds) < n
  IN  /\ outcome = "running" /\ F.mode = "final" /\ F.ops # <<>>
      /\ \/ ~missing /\ Replace(Applied(n)) /\ UNCHANGED <<it, error>> /\ Fixed
         \/ missing /\ it <= Len(toks) /\ parserError /\ UNCHANGED it /\ Fixed
         \/ missing /\ it > Len(toks) /\ Undefined

Returning == outcome = "running" /\ F.mode = "final" /\ F.ops = <<>>
Value == IF F.opnds = <<>> THEN Empty(F.begin) ELSE Last(F.opnds)

(* The caller reads the token after the expression, which is undefined     *)
(* when the cursor is past the last one.                                   *)
Lost ==
  /\ Returning /\ F.caller \in {"subscript", "argument"} /\ it > Len(toks)
  /\ Undefined

ReturnStatement ==
  /\ Returning /\ F.caller = "statement"
  /\ outcome' = "parsed"
  /\ tree' = <<Value>>
  /\ frames' = <<>>
  /\ UNCHANGED <<toks, it, error>>

ReturnSubscript ==
  /\ Returning /\ F.caller = "subscript" /\ it <= Len(toks)
  /\ IF Token = "]"
     THEN /\ frames' = Deliver(Front(frames), Node("[]", F.at, Append(F.kids, Value)))
          /\ Advance(1) /\ UNCHANGED error
     ELSE parserError /\ UNCHANGED it
  /\ Fixed

ReturnArgument ==
  LET kids == Append(F.kids, Value)
      end(n) == /\ frames' = Deliver(Front(frames), Node("call", F.at, kids))
                /\ Advance(n) /\ UNCHANGED error
  IN  /\ Returning /\ F.caller = "argument" /\ it <= Len(toks)
      /\ \/ Token = ")" /\ end(1)
         \/ Token = "," /\ toks[it + 1] = "EOF" /\ end(2)
         \/ /\ Token = "," /\ toks[it + 1] # "EOF"
            /\ Replace(Frame("argument", it + 1, F.at, kids, FALSE))
            /\ Advance(1) /\ UNCHANGED error
         \/ Token \notin {")", ","} /\ parserError /\ UNCHANGED it
      /\ Fixed

ReturnInitialiser ==
  /\ Returning /\ F.caller = "let"
  /\ IF ~F.typed /\ Value.op = "empty"
     THEN parserError
     ELSE /\ frames' = Deliver(Front(frames), Node("let", F.at, <<Value>>))
          /\ UNCHANGED error
  /\ UNCHANGED it /\ Fixed

(* A null result is handed down until a variable definition makes it look  *)
(* like an unknown token, or to the statement parser.                      *)
ReturnNull ==
  /\ outcome = "running" /\ F.mode = "failed"
  /\ IF F.caller = "statement"
     THEN outcome' = "null" /\ frames' = <<>> /\ UNCHANGED error
     ELSE LET below == Front(frames)
              f == Last(below)
          IN  /\ IF F.caller = "let"
                 THEN /\ frames' = Append(Front(below), Refuse(f))
                      /\ error' = (error \/ f.ops # <<>>)
                 ELSE /\ frames' = Append(Front(below), [f EXCEPT !.mode = "failed"])
                      /\ UNCHANGED error
              /\ UNCHANGED outcome
  /\ UNCHANGED <<toks, it, tree>>

Ended == outcome # "running" /\ UNCHANGED vars

-----------------------------------------------------------------------------
Step ==
  \/ OpenParen \/ StopAtParen \/ ReduceInParens \/ CloseParen
  \/ PushSign \/ ReduceBinary \/ PushBinary \/ PushPrefix
  \/ Literal \/ BadLiteral \/ Variable
  \/ BeginSubscript \/ EmptyCall \/ BeginCall \/ Let
  \/ StopAtDelimiter \/ UnexpectedEof \/ Unrecognized \/ StopAtEnd
  \/ ReduceFinal \/ Lost
  \/ ReturnStatement \/ ReturnSubscript \/ ReturnArgument \/ ReturnInitialiser
  \/ ReturnNull

Next == Step \/ Ended

Spec == Init /\ [][Next]_vars

(* A single thread that is never interrupted.                              *)
FairSpec == Spec /\ WF_vars(Next)

-----------------------------------------------------------------------------
(* Properties.                                                             *)

Outcome == {"running", "parsed", "null", "undefined"}

StackSymbol == DOMAIN BinaryPrecedence \cup {"pos", "neg", "not", "("}

(* Every variable holds a value of its kind.                               *)
TypeOK ==
  /\ toks \in Seq(TokenClass)
  /\ it \in 1..(Len(toks) + 1)
  /\ \A k \in DOMAIN frames :
       /\ frames[k].caller \in {"statement", "argument", "subscript", "let"}
       /\ frames[k].mode \in {"scan", "define", "final", "failed"}
       /\ frames[k].begin \in 1..Len(toks)
       /\ frames[k].parens \in Nat
       /\ \A j \in DOMAIN frames[k].ops :
            /\ frames[k].ops[j].op \in StackSymbol
            /\ frames[k].ops[j].at \in 1..Len(toks)
  /\ error \in BOOLEAN
  /\ outcome \in Outcome
  /\ outcome \in {"parsed", "null"} <=> frames = <<>>
  /\ outcome = "parsed" <=> tree # <<>>

(* In every active call parenCount is the number of "(" on its operator    *)
(* stack, through arguments, subscripts and initialisers: a ")" closes the *)
(* call's own parenthesis or ends the call, never somebody else's.         *)
ParensCounted ==
  \A k \in DOMAIN frames :
    frames[k].mode = "scan" =>
      frames[k].parens =
        Cardinality({j \in DOMAIN frames[k].ops : frames[k].ops[j].op = "("})

(* Between parentheses and prefix operators the stack is sorted by         *)
(* precedence, strictly unless the operators are assignments: the turn     *)
(* that pushes an operator has first applied all that bind as tightly.     *)
StackSorted ==
  \A k \in DOMAIN frames : \A j \in 1..(Len(frames[k].ops) - 1) :
    LET u == frames[k].ops[j].op
        v == frames[k].ops[j + 1].op
    IN  isBinaryOperator(u) /\ isBinaryOperator(v) => ~Reduces(v, u)

(* A null expression is never silent: Frontend and the parser's callers    *)
(* look at getError() and not at what was returned.                        *)
NullMeansError == outcome = "null" => error

(* parseExpression returns, whatever the tokens: every turn of the loop    *)
(* consumes a token, applies an operator or leaves it.                     *)
Termination == <>(outcome # "running")

(* "Binary operators require 2 operands": an operator is never applied to  *)
(* operands that are not there, it is reported.                            *)
OperandsPresent == outcome # "undefined"
=============================================================================

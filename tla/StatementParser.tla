--------------------------- MODULE StatementParser ---------------------------
(***************************************************************************)
(* Parser::run: the loop over top-level statements, the functions that     *)
(* parse each kind of statement, and what the handlers do when one of them *)
(* fails.  Expressions are parsed by ExprParser, step by step.             *)
(*                                                                         *)
(* A function that is under way has a frame in "calls".  Inside a function *)
(* definition a null pointer is handed from caller to caller without any   *)
(* other effect, so a failure empties "calls" at once; the handler then    *)
(* skips one token and the loop goes on with the next.                     *)
(***************************************************************************)
EXTENDS Integers, SequencesExt

CONSTANT Inputs  \* the token lists to parse

VARIABLES
  toks, it, frames, error, outcome, tree,  \* see ExprParser
  calls,   \* the parse functions under way, the innermost last
  nodes,   \* the AST's top-level nodes
  logged,  \* was an error logged without Parser::error being set?
  result   \* "parsing", or how Parser::run ended

E == INSTANCE ExprParser

ASSUME InputsAssumption ==  \* the lexer ends every list with EOF
  \A s \in Inputs :
    /\ s \in Seq(E!TokenClass) /\ s # <<>>
    /\ \A i \in DOMAIN s : s[i] = "EOF" <=> i = Len(s)

shared == <<toks, it, frames, error, outcome, tree>>
vars == <<shared, calls, nodes, logged, result>>

-----------------------------------------------------------------------------
(* Nodes know the tokens they were made of, from..to.                      *)
Node(kind, from, to, kids) ==
  [kind |-> kind, from |-> from, to |-> to, kids |-> kids]
None(at) == Node("none", at, at - 1, <<>>)
Null == Node("null", 0, 0, <<>>)

(* fn is the function, at the point it has reached, mark where the         *)
(* expression it waits for began.                                          *)
Frame(fn, export) ==
  [fn |-> fn, at |-> "begin", from |-> it, mark |-> it, kids |-> <<>>,
   export |-> export]

C == Last(calls)
Token == toks[it]
Len0 == Len(toks)

Idle == result = "parsing" /\ outcome # "running"
At(fn, p) == Idle /\ calls # <<>> /\ C.fn = fn /\ C.at = p /\ it <= Len0

(* The points at which a function waits for an expression.                 *)
Waiting == {"cond", "init", "end", "step", "value"}
Has(fn, p) == At(fn, p) /\ outcome = "parsed"

(* The node of the expression that ends before the cursor.                 *)
Parsed(kind) == Node(kind, C.mark, it - 1, <<>>)

Same == UNCHANGED <<toks, nodes, logged, result>>
NoExpression == UNCHANGED <<frames, outcome, tree>>

Replace(f) == calls' = Append(Front(calls), f)

(* Go to point p of the function with the cursor at k.                     *)
Goto(k, p, kids) ==
  /\ it' = k
  /\ Replace([C EXCEPT !.at = p, !.kids = @ \o kids])
  /\ UNCHANGED error /\ NoExpression /\ Same

Enter(k, mode) ==
  /\ it' = k
  /\ frames' = <<[E!Frame("statement", k, 0, <<>>, FALSE) EXCEPT !.mode = mode]>>
  /\ outcome' = "running"
  /\ tree' = <<>>
  /\ UNCHANGED error

(* Call parseExpression ("scan") or parseVariableDefinition ("define")     *)
(* with the cursor at k, and go on at point p.                             *)
Evaluate(k, mode, p, kids) ==
  /\ Enter(k, mode)
  /\ Replace([C EXCEPT !.at = p, !.mark = k, !.kids = @ \o kids])
  /\ Same

(* The function fails with the cursor at k.  handleDef and                 *)
(* handleGlobalVariable skip a token, handleExport does not.               *)
Unwind(k) ==
  /\ it' = IF calls[1].export THEN k ELSE k + 1
  /\ calls' = <<>>

Reject(k) ==
  /\ error' = TRUE
  /\ Unwind(k)
  /\ NoExpression /\ Same

(* What a function does next with a statement it asked for.                *)
Received(f, n) ==
  [f EXCEPT !.kids = Append(@, n),
            !.at = IF f.fn = "block" THEN "loop"
                   ELSE IF f.at = "then" THEN "else?" ELSE "done"]

Init ==
  /\ toks \in Inputs
  /\ it = 1
  /\ frames = <<>> /\ tree = <<>> /\ outcome = "null"
  /\ error = FALSE
  /\ calls = <<>> /\ nodes = <<>>
  /\ logged = FALSE
  /\ result = "parsing"

Expression ==
  /\ result = "parsing" /\ E!Step
  /\ UNCHANGED <<calls, nodes, logged, result>>

-----------------------------------------------------------------------------
(* The loop over top-level statements.                                     *)

TopLevel(t) == Idle /\ calls = <<>> /\ it <= Len0 /\ Token = t

(* Push node n, whose last token is at k - 1.                              *)
PushNode(k, n) ==
  /\ it' = k
  /\ nodes' = Append(nodes, n)
  /\ UNCHANGED <<toks, calls, error, logged, result>> /\ NoExpression

(* A statement of one function call fails at k: the handler skips a token. *)
Skip(k) ==
  /\ it' = k + 1
  /\ error' = TRUE
  /\ UNCHANGED <<calls>> /\ NoExpression /\ Same

(* "EOF not in the end of the token list".                                 *)
ThrowAtEnd ==
  /\ Idle /\ calls = <<>> /\ it = Len0 + 1
  /\ result' = "thrown"
  /\ UNCHANGED <<shared, calls, nodes, logged>>

(* Once the loop is left the parent links are set, in every node of the    *)
(* AST, whether there was an error or not.                                 *)
Return ==
  /\ result' = IF Null \in Range(nodes) THEN "undefined" ELSE "returned"
  /\ UNCHANGED <<toks, it, calls, nodes, logged>> /\ NoExpression

ReturnAtEof == TopLevel("EOF") /\ Return /\ UNCHANGED error

Starters == {";", "import", "module", "def", "let", "export", "use"}

ReturnAtForeign ==
  /\ Idle /\ calls = <<>> /\ it <= Len0 /\ Token \notin Starters \cup {"EOF"}
  /\ Return
  /\ error' = TRUE

EmptyStatement ==
  /\ TopLevel(";")
  /\ PushNode(it + 1, Node("empty", it, it, <<>>))

(* import [module | package] name.of.it ; or import "path" ;  A name that  *)
(* goes on with something else is only logged.                             *)
Import ==
  LET k == IF toks[it + 1] \in {"module", "package"} THEN it + 2 ELSE it + 1
      run == {e \in k..Len0 : \A j \in (k + 1)..e : toks[j] \in {"x", "."}}
      e == IF toks[k] = "x" THEN Max(run) ELSE k
  IN  /\ TopLevel("import")
      /\ \/ /\ toks[k] \in {"x", "str"} /\ toks[e + 1] = ";"
            /\ PushNode(e + 2, Node("import", it, e + 1, <<>>))
         \/ /\ toks[k] \in {"x", "str"} /\ toks[e + 1] # ";"
            /\ IF toks[k] = "str" \/ toks[e + 1] = "EOF" THEN Skip(e)
               ELSE /\ it' = e + 1
                    /\ logged' = TRUE
                    /\ UNCHANGED <<toks, calls, nodes, error, result>>
                    /\ NoExpression
         \/ toks[k] \notin {"x", "str"} /\ Skip(k)

(* module name.of.it ;                                                     *)
Module ==
  LET k == it + 1
      even(j) == (j - k) % 2 = 0
      e == Min({j \in k..Len0 : toks[j] # IF even(j) THEN "x" ELSE "."})
  IN  /\ TopLevel("module")
      /\ IF toks[e] = ";" /\ ~even(e)
         THEN PushNode(e + 1, Node("module", it, e, <<>>))
         ELSE Skip(IF even(e) /\ e > k /\ toks[e] \in {"EOF", ";"}
                   THEN e - 1 ELSE e)

(* use alias = aliasee ;                                                   *)
Use ==
  LET pattern == <<"x", "=", "x", ";">>
      wrong == {j \in 1..4 : it + j > Len0 \/ toks[it + j] # pattern[j]}
  IN  /\ TopLevel("use")
      /\ IF wrong = {}
         THEN PushNode(it + 5, Node("use", it, it + 4, <<>>))
         ELSE Skip(it + Min(wrong))

CallFrom(k, fn, export) ==
  /\ it' = k
  /\ calls' = <<[Frame(fn, export) EXCEPT !.from = k]>>
  /\ UNCHANGED <<toks, nodes, logged, result, error>> /\ NoExpression

DefineGlobal(k, export) ==
  /\ Enter(k, "define")
  /\ calls' = <<[Frame("global", export) EXCEPT !.from = k, !.mark = k, !.at = "value"]>>
  /\ Same

Def == TopLevel("def") /\ CallFrom(it, "def", FALSE)
Global == TopLevel("let") /\ DefineGlobal(it, FALSE)

(* Mutant: the token "export" is only skipped before a definition.         *)
ExportUnskipped ==
  LET k == IF toks[it + 1] = "nomangle" THEN it + 2 ELSE it + 1
  IN  /\ TopLevel("export")
      /\ \/ toks[k] = "let" /\ DefineGlobal(k, TRUE)
         \/ toks[k] = "def" /\ CallFrom(k, "def", TRUE)
         \/ /\ toks[k] \notin {"let", "def"}
            /\ logged' = TRUE
            /\ UNCHANGED <<it, toks, calls, nodes, error, result>> /\ NoExpression

(* What follows "export" is parsed here when it is a definition; anything  *)
(* else is logged and left to the loop.                                    *)
Export ==
  LET k == IF toks[it + 1] = "nomangle" THEN it + 2 ELSE it + 1
  IN  /\ TopLevel("export")
      /\ \/ toks[k] = "let" /\ DefineGlobal(k, TRUE)
         \/ toks[k] = "def" /\ CallFrom(k, "def", TRUE)
         \/ /\ toks[k] \notin {"let", "def"}
            /\ it' = k
            /\ logged' = TRUE
            /\ UNCHANGED <<toks, calls, nodes, error, result>> /\ NoExpression

(* A global variable without its semicolon becomes a null node.            *)
EndGlobal ==
  /\ Has("global", "value")
  /\ calls' = <<>>
  /\ \/ /\ Token = ";"
        /\ it' = it + 1
        /\ nodes' = Append(nodes, Node("global", C.from, it, <<Parsed("let")>>))
        /\ UNCHANGED error
     \/ /\ Token # ";"
        /\ nodes' = Append(nodes, Null)
        /\ error' = TRUE
        /\ UNCHANGED it
  /\ UNCHANGED <<toks, logged, result>> /\ NoExpression

-----------------------------------------------------------------------------
(* Function definitions: def name ( parameters ) [ -> type ] body          *)

Heading ==
  LET pattern == <<"x", "(">>
      wrong == {j \in 1..2 : it + j > Len0 \/ toks[it + j] # pattern[j]}
  IN  /\ At("def", "begin")
      /\ IF wrong = {} THEN Goto(it + 3, "params", <<>>) ELSE Reject(it + Min(wrong))

(* A parameter's type may be any token, the end of the list included.      *)
Parameter ==
  /\ At("def", "params")
  /\ \/ Token = ")" /\ Goto(it + 1, "result", <<>>)
     \/ /\ Token = "x" /\ toks[it + 1] = ":"
        /\ Goto(it + 3, "default", <<>>)
     \/ Token = "x" /\ toks[it + 1] # ":" /\ Reject(it + 1)
     \/ Token \notin {")", "x"} /\ Reject(it)

Default ==
  /\ At("def", "default")
  /\ IF Token = "=" THEN Evaluate(it + 1, "scan", "init", <<>>)
     ELSE Goto(it, "separator", <<>>)

EndDefault ==
  /\ Has("def", "init")
  /\ Goto(it, "separator", <<Parsed("expr")>>)

Separator ==
  /\ At("def", "separator")
  /\ \/ Token = "," /\ Goto(it + 1, "params", <<>>)
     \/ Token = ")" /\ Goto(it + 1, "result", <<>>)
     \/ Token \notin {",", ")"} /\ Reject(it)

ResultType ==
  /\ At("def", "result")
  /\ \/ Token # "->" /\ Goto(it, "body?", <<>>)
     \/ Token = "->" /\ toks[it + 1] = "x" /\ Goto(it + 2, "body?", <<>>)
     \/ Token = "->" /\ toks[it + 1] # "x" /\ Reject(it + 1)

-----------------------------------------------------------------------------
(* Statements inside a function.                                           *)

(* Mutant: the caller stays where it is, and would parse the body again.   *)
CallAgain(fn, p) ==
  /\ calls' = Append(calls, Frame(fn, FALSE))
  /\ UNCHANGED <<it, error>> /\ NoExpression /\ Same

(* parseBlockStatement, parseIfStatement, ... with the cursor on the first *)
(* token of the statement; the caller goes on at point p.                  *)
Call(fn, p) ==
  /\ calls' = Append(Append(Front(calls), [C EXCEPT !.at = p]), Frame(fn, FALSE))
  /\ UNCHANGED <<it, error>> /\ NoExpression /\ Same

Body ==
  /\ At("def", "body?")
  /\ \/ Token = ";" /\ Goto(it + 1, "done", <<Node("empty", it, it, <<>>)>>)
     \/ Token = "{" /\ Call("block", "body")
     \/ Token \notin {";", "{"} /\ Reject(it)

OpenBlock == At("block", "begin") /\ Goto(it + 1, "loop", <<>>)

(* Mutant: the end of the tokens closes every block.                       *)
CloseAtEof ==
  /\ At("block", "loop") /\ Token \in {"}", "EOF"}
  /\ Goto(IF Token = "}" THEN it + 1 ELSE it, "done", <<>>)

CloseBlock ==
  /\ At("block", "loop")
  /\ \/ Token = "}" /\ Goto(it + 1, "done", <<>>)
     \/ Token = "EOF" /\ Reject(it)

(* parseStatement is called by blocks, conditionals and loops.             *)
StatementDue ==
  /\ Idle /\ calls # <<>> /\ it <= Len0
  /\ \/ C.at \in {"then", "else", "body"} /\ C.fn # "def"
     \/ C.fn = "block" /\ C.at = "loop" /\ Token \notin {"}", "EOF"}

Compound == [t \in {"if", "while", "for", "return", "{"} |-> IF t = "{" THEN "block" ELSE t]

Statement ==
  /\ StatementDue
  /\ \/ Token \in DOMAIN Compound /\ Call(Compound[Token], C.at)
     \/ /\ Token \in {"let", "x"}
        /\ Enter(it, IF Token = "let" THEN "define" ELSE "scan")
        /\ calls' = Append(calls, [Frame("simple", FALSE) EXCEPT !.at = "value"])
        /\ Same
     \/ /\ Token = ";"
        /\ it' = it + 1
        /\ Replace(Received(C, Node("empty", it, it, <<>>)))
        /\ UNCHANGED error /\ NoExpression /\ Same
     \/ Token \notin DOMAIN Compound \cup {"let", "x", ";"} /\ Reject(it)

(* createExprStmt and the end of parseReturnStatement: the semicolon.      *)
EndSimple ==
  /\ Has("simple", "value") \/ Has("return", "value")
  /\ IF Token = ";" THEN Goto(it + 1, "done", <<Parsed("expr")>>) ELSE Reject(it)

(* if and while: the parentheses are optional, each for itself.            *)
BeginCondition ==
  LET k == IF toks[it + 1] = "(" THEN it + 2 ELSE it + 1
  IN  /\ At("if", "begin") \/ At("while", "begin")
      /\ IF toks[k] \in {")", ";", "{"} THEN Reject(k)
         ELSE Evaluate(k, "scan", "cond", <<>>)

AfterParen == IF Token = ")" THEN it + 1 ELSE it

EndCondition ==
  /\ Has("if", "cond") \/ Has("while", "cond")
  /\ Goto(AfterParen, IF C.fn = "if" THEN "then" ELSE "body", <<Parsed("expr")>>)

(* Mutant: else is left to somebody else.                                  *)
ElseForgotten ==
  /\ At("if", "else?")
  /\ Goto(it, "done", <<None(it)>>)

Else ==
  /\ At("if", "else?")
  /\ IF Token = "else" THEN Goto(it + 1, "else", <<>>)
     ELSE Goto(it, "done", <<None(it)>>)

(* for: a definition and two expressions, each of which may be missing,    *)
(* with commas between them.                                               *)
BeginFor ==
  LET k == IF toks[it + 1] = "(" THEN it + 2 ELSE it + 1
  IN  /\ At("for", "begin")
      /\ \/ toks[k] \in {")", "{", ";"} /\ Reject(k + 1)
         \/ toks[k] = "," /\ Goto(k + 1, "end?", <<None(k)>>)
         \/ toks[k] \notin {")", "{", ";", ","} /\ Evaluate(k, "define", "init", <<>>)

ForCondition ==
  /\ At("for", "end?")
  /\ IF Token = "," THEN Goto(it + 1, "step?", <<None(it)>>)
     ELSE Evaluate(it, "scan", "end", <<>>)

ForComma ==
  /\ Has("for", "init") \/ Has("for", "end")
  /\ IF Token = ","
     THEN IF C.at = "init" THEN Goto(it + 1, "end?", <<Parsed("let")>>)
          ELSE Goto(it + 1, "step?", <<Parsed("expr")>>)
     ELSE Reject(it)

ForStep ==
  /\ At("for", "step?")
  /\ IF Token = ")" THEN Goto(it + 1, "body", <<None(it)>>)
     ELSE Evaluate(it, "scan", "step", <<>>)

EndFor ==
  /\ Has("for", "step")
  /\ Goto(AfterParen, "body", <<Parsed("expr")>>)

BeginReturn ==
  /\ At("return", "begin")
  /\ IF toks[it + 1] = ";" THEN Goto(it + 2, "done", <<None(it + 1)>>)
     ELSE Evaluate(it + 1, "scan", "value", <<>>)

-----------------------------------------------------------------------------
(* Results.                                                                *)

ExpressionFailed ==
  /\ Idle /\ calls # <<>> /\ C.at \in Waiting /\ outcome = "null"
  /\ Reject(it)

(* A function returns its node to its caller, or to the handler.           *)
Done ==
  LET n == Node(C.fn, C.from, it - 1, C.kids)
      below == Front(calls)
  IN  /\ Idle /\ calls # <<>> /\ C.at = "done"
      /\ IF below = <<>>
         THEN calls' = <<>> /\ nodes' = Append(nodes, n)
         ELSE /\ calls' = Append(Front(below), Received(Last(below), n))
              /\ UNCHANGED nodes
      /\ UNCHANGED <<shared, logged, result>>

(* Reading past the last token, or what an expression left undefined.      *)
Lost ==
  /\ result = "parsing"
  /\ \/ outcome = "undefined"
     \/ /\ outcome # "running" /\ calls # <<>> /\ it > Len0
        /\ C.at # "done" /\ (C.at \in Waiting => outcome = "parsed")
  /\ result' = "undefined"
  /\ UNCHANGED <<shared, calls, nodes, logged>>

(* The definition after "for" is parsed without a look at its first token: *)
(* at EOF it goes on past the last token.                                  *)
LetAtEof ==
  /\ result = "parsing" /\ outcome = "running"
  /\ E!F.mode = "define" /\ it >= Len0
  /\ result' = "undefined"
  /\ UNCHANGED <<shared, calls, nodes, logged>>

Ended == result # "parsing" /\ UNCHANGED vars

Next ==
  \/ Expression \/ ThrowAtEnd \/ ReturnAtEof \/ ReturnAtForeign
  \/ EmptyStatement \/ Import \/ Module \/ Use \/ Def \/ Global \/ Export
  \/ EndGlobal
  \/ Heading \/ Parameter \/ Default \/ EndDefault \/ Separator \/ ResultType
  \/ Body \/ OpenBlock \/ CloseBlock \/ Statement \/ EndSimple
  \/ BeginCondition \/ EndCondition \/ Else
  \/ BeginFor \/ ForCondition \/ ForComma \/ ForStep \/ EndFor \/ BeginReturn
  \/ ExpressionFailed \/ Done \/ LetAtEof \/ Lost \/ Ended

Spec == Init /\ [][Next]_vars

(* A single thread that is never interrupted.                              *)
FairSpec == Spec /\ WF_vars(Next)

-----------------------------------------------------------------------------
(* Properties.                                                             *)

(* Every variable holds a value of its kind.                               *)
TypeOK ==
  /\ it \in 1..(Len0 + 2)
  /\ error \in BOOLEAN /\ logged \in BOOLEAN
  /\ outcome \in {"running", "parsed", "null", "undefined"}
  /\ result \in {"parsing", "returned", "thrown", "undefined"}
  /\ \A i \in DOMAIN calls :
       /\ calls[i].fn \in {"def", "global", "block", "if", "while", "for", "return", "simple"}
       /\ calls[i].from \in 1..Len0
       /\ i > 1 => calls[i - 1].at \in {"loop", "then", "else", "body"}
  /\ calls = <<>> => outcome # "running"

(* Parser::run comes to an end whatever the tokens: every turn of the loop *)
(* and every function it calls consumes a token, also after an error.      *)
Termination == <>(result # "parsing")

(* "This should not be possible, EOF should be reached first": the loop    *)
(* ends at EOF, or at a token it does not know, not past the list.         *)
EofIsReached == result # "thrown"
=============================================================================

--------------------------- MODULE StatementGrammar ---------------------------
(***************************************************************************)
(* What a program is: a grammar of statements, stated as a condition on    *)
(* the tree and the tokens its nodes claim.  It knows nothing of cursors   *)
(* and recovery; the parser is checked against it.                         *)
(***************************************************************************)
EXTENDS StatementParser

CONSTANT Correct  \* token lists the parser's comments and the guide allow

(* Tokens no expression contains.                                          *)
Foreign == (E!Unknown \ {"]", ":", "mut"}) \cup {";", "{"}

(* The nodes claim the tokens lo..hi, one after the other.                 *)
Tile(ns, lo, hi) ==
  IF ns = <<>> THEN lo = hi + 1
  ELSE /\ ns[1].from = lo /\ Last(ns).to = hi
       /\ \A i \in 1..(Len(ns) - 1) : ns[i + 1].from = ns[i].to + 1

(* A condition may be missing before a token it cannot begin with ("if"   *)
(* ( [expression] ) statement); the parser then only warns.                *)
IsExpression(n) ==
  /\ n.kind = "expr"
  /\ \A i \in n.from..n.to : toks[i] \notin Foreign

(* A definition; its first token is taken for "let" unseen.                *)
IsDefinition(n) ==
  /\ n.kind \in {"let", "expr"} /\ n.from < n.to /\ toks[n.from + 1] \in {"x", "mut"}
  /\ \A i \in (n.from + 1)..n.to : toks[i] \notin Foreign

(* After position i there may be the token t, which belongs to nobody.     *)
Optional(i, t, j) == j = i + 1 \/ (toks[i + 1] = t /\ j = i + 2)

IsLine(n) ==
  \/ n.kind = "empty" /\ n.from = n.to /\ toks[n.from] = ";"
  \/ /\ n.kind = "simple" /\ toks[n.to] = ";"
     /\ Tile(n.kids, n.from, n.to - 1) /\ Len(n.kids) = 1
     /\ IF toks[n.from] = "let" THEN IsDefinition(n.kids[1])
        ELSE IsExpression(n.kids[1])
  \/ /\ n.kind = "return" /\ toks[n.from] = "return" /\ toks[n.to] = ";"
     /\ Tile(n.kids, n.from + 1, n.to - 1) /\ Len(n.kids) = 1
     /\ n.kids[1].kind = "none" \/ IsExpression(n.kids[1])

StatementKind == {"empty", "simple", "return", "block", "if", "while", "for"}
IsBody(n) == n.kind \in StatementKind

(* What a node is to its kids; the kids are looked at one level below. An  *)
(* else belongs to the innermost if that has none.                         *)
IsStatement(n) ==
  \/ IsLine(n)
  \/ /\ n.kind = "block" /\ toks[n.from] = "{" /\ toks[n.to] = "}"
     /\ Tile(n.kids, n.from + 1, n.to - 1)
     /\ \A i \in DOMAIN n.kids : IsBody(n.kids[i])
  \/ /\ n.kind \in {"if", "while"} /\ toks[n.from] = n.kind
     /\ Len(n.kids) = IF n.kind = "if" THEN 3 ELSE 2
     /\ Optional(n.from, "(", n.kids[1].from) /\ IsExpression(n.kids[1])
     /\ Optional(n.kids[1].to, ")", n.kids[2].from) /\ IsBody(n.kids[2])
     /\ \/ n.to = n.kids[2].to /\ (n.kind = "if" => n.kids[3].kind = "none"
                                                   /\ toks[n.to + 1] # "else")
        \/ /\ n.kind = "if" /\ toks[n.kids[2].to + 1] = "else"
           /\ Tile(<<n.kids[3]>>, n.kids[2].to + 2, n.to) /\ IsBody(n.kids[3])
  \/ /\ n.kind = "for" /\ toks[n.from] = "for" /\ Len(n.kids) = 4
     /\ Optional(n.from, "(", n.kids[1].from)
     /\ n.kids[1].kind = "none" \/ IsDefinition(n.kids[1])
     /\ toks[n.kids[1].to + 1] = "," /\ n.kids[2].from = n.kids[1].to + 2
     /\ n.kids[2].kind = "none" \/ IsExpression(n.kids[2])
     /\ toks[n.kids[2].to + 1] = "," /\ n.kids[3].from = n.kids[2].to + 2
     /\ n.kids[3].kind = "none" \/ IsExpression(n.kids[3])
     /\ Optional(n.kids[3].to, ")", n.kids[4].from)
     /\ n.kids[4].to = n.to /\ IsBody(n.kids[4])

(* def name ( parameters ) [ -> type ] body, with the default values of    *)
(* the parameters before the body in the node.                             *)
IsFunction(n) ==
  LET body == Last(n.kids)
      defaults == Front(n.kids)
  IN  /\ n.kind = "def" /\ toks[n.from] = "def" /\ toks[n.from + 2] = "("
      /\ \A i \in DOMAIN defaults :
           /\ defaults[i].kind = "expr" /\ toks[defaults[i].from - 1] = "="
           /\ toks[defaults[i].to + 1] \in {",", ")"}
      /\ toks[body.from - 1] = ")" \/ (toks[body.from - 2] = "->" /\ toks[body.from - 1] = "x")
      /\ body.to = n.to
      /\ body.kind \in {"empty", "block"}

(* Where a top-level node's tokens begin, with an "export" before it.      *)
Exports(n) ==
  LET i == n.from - 1
      j == IF i > 0 /\ toks[i] = "nomangle" THEN i - 1 ELSE i
  IN  IF n.kind \in {"def", "global"} /\ j > 0 /\ toks[j] = "export" THEN j ELSE n.from

(* The nodes of the AST, level by level.                                   *)
Level[d \in Nat] ==
  IF d = 0 THEN Range(nodes) ELSE UNION {Range(n.kids) : n \in Level[d - 1]}

(* Each level down leaves out a token, so there are fewer than tokens.     *)
IsProgram ==
  /\ \A i \in DOMAIN nodes :
       LET n == nodes[i]
       IN  \/ n.kind \in {"import", "module", "use"}
              /\ toks[n.from] = n.kind /\ toks[n.to] = ";"
           \/ n.kind = "empty" /\ IsLine(n)
           \/ n.kind = "def" /\ IsFunction(n)
           \/ n.kind = "global" /\ toks[n.to] = ";" /\ IsDefinition(n.kids[1])
                /\ Tile(n.kids, n.from, n.to - 1)
  /\ Tile([i \in DOMAIN nodes |-> [nodes[i] EXCEPT !.from = Exports(nodes[i])]],
          1, Len0 - 1)
  /\ \A d \in 1..Len0 : \A n \in Level[d] :
       n.kind \in {"expr", "let", "none"} \/ IsStatement(n)

Accepted == result = "returned" /\ ~error

(* What is accepted without a message is a program, token by token: no     *)
(* recovery has dropped a token, blocks and parentheses close what they    *)
(* opened, and an else belongs to the innermost if (Frontend::runParser    *)
(* looks at getError() only).                                              *)
AcceptedIsProgram == Accepted /\ ~logged => IsProgram

(* What the comments on the syntax of the statements allow and the code    *)
(* refuses.  "let [ qualifiers ] name [ : type ] [ = init-expression ]":   *)
(* one of the two must be there.                                           *)
BareDefinition ==
  \E i \in 2..(Len0 - 1) :
    toks[i - 1] \in {"let", "mut"} /\ toks[i] = "x" /\ toks[i + 1] = ";"

(* "if" ( [expression] ) statement, and the same with "while": the         *)
(* expression must be there where ")" or "{" follows.                      *)
ConditionMissing ==
  \E i \in 1..(Len0 - 2) :
    /\ toks[i] \in {"if", "while"}
    /\ toks[i + 1] = "{" \/ (toks[i + 1] = "(" /\ toks[i + 2] = ")")

(* "for" () statement: no, the two commas must be there, ...               *)
HeadMissing ==
  \E i \in 1..(Len0 - 2) :
    toks[i] = "for" /\ toks[i + 1] = "(" /\ toks[i + 2] = ")"

(* "for" ( [expression] ; [expression] ; [expression] ) statement: ... and *)
(* they must be commas.                                                    *)
HeadOfSemicolons ==
  \E i \in 1..Len0 : \E j \in (i + 2)..Len0 :
    /\ toks[i] = "for" /\ toks[i + 1] = "(" /\ toks[j] = ";"
    /\ \A k \in (i + 2)..(j - 1) : toks[k] \notin {",", ")"}

(* "var c = true;", "var f: char;": the guide's "var" is a name like any   *)
(* other, and no statement at the top level; before "x :" none at all.     *)
VarDefinition ==
  \E i \in 1..(Len0 - 2) :
    /\ i = 1 \/ toks[i - 1] \in {";", "{", "}"}
    /\ toks[i] = "x" /\ toks[i + 1] = "x"
    /\ toks[i + 2] = ":" \/ \A k \in 1..i : toks[k] # "{"

Refused ==
  \/ BareDefinition \/ ConditionMissing \/ HeadMissing \/ HeadOfSemicolons
  \/ VarDefinition

(* "Import statement syntax", "If statement syntax", "Variable definition  *)
(* syntax", ...: of the programs those comments and the guide allow, the   *)
(* ones that are accepted without a message are those that hold none of    *)
(* the forms above (Parser::parseImportStatement ... createExprStmt).      *)
CorrectIsAccepted ==
  result # "parsing" => (toks \in Correct => (Accepted /\ ~logged <=> ~Refused))
=============================================================================

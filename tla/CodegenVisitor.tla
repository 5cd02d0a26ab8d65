--------------------------- MODULE CodegenVisitor ---------------------------
(***************************************************************************)
(* codegen::CodegenVisitor: one walk over the tree that keeps a stack of   *)
(* scopes and an insertion point, and leaves basic blocks.  A visit of a   *)
(* statement is interleaved with the visits of its kids, which move the    *)
(* insertion point, open and close scopes and declare names meanwhile.     *)
(*                                                                         *)
(* Types are left out: any node that has one may be refused (Refuse).      *)
(* Expressions are single reads, constants and calls: no operation creates *)
(* a block, so how they nest does not matter here.                         *)
(***************************************************************************)
EXTENDS SourceProgram

CONSTANT Programs  \* trees to generate code for

(* What the parser hands over: the kids a node has by its kind, of the     *)
(* types that the AST gives them (a body, a condition), functions and      *)
(* global variables at the top and nowhere else, and a path that leads     *)
(* through a node's ancestors, kid by kid.  A definition inside of the     *)
(* initialiser of another one is left out.                                 *)
Expressions == {"expr", "call"}
Leaves == Expressions \cup {"param", "empty"}
Values == Expressions \cup {"let", "empty"}
KidsOf(t, p) ==
  CASE t[p].kind = "def" -> t[p].kids >= 1
    [] t[p].kind = "if" -> t[p].kids = 3
    [] t[p].kind = "while" -> t[p].kids = 2
    [] t[p].kind = "for" -> t[p].kids = 4
    [] t[p].kind \in {"let", "return", "global"} -> t[p].kids <= 1
    [] t[p].kind \in Leaves -> t[p].kids = 0
    [] OTHER -> TRUE
KidOf(t, p, i) ==
  LET kind == t[Child(p, i)].kind
  IN /\ t[p].kind \in {"let", "return", "global"} => kind \in Expressions
     /\ t[p].kind = "decl" => kind = "param"
     /\ t[p].kind = "def" => kind = IF i = t[p].kids THEN "block" ELSE "param"
     /\ t[p].kind \in {"if", "while"} /\ i = 1 => kind \in Values
     /\ t[p].kind = "for" /\ i # 3 => kind \in Values
     /\ kind = "param" => t[p].kind \in {"def", "decl"}

AtTop == {"def", "decl", "global"}
Parsed(t) ==
  /\ Root \in DOMAIN t /\ t[Root].kind = "root"
  /\ \A p \in DOMAIN t :
       /\ p \in Seq(Nat) /\ t[p].kids \in Nat /\ KidsOf(t, p)
       /\ \A i \in 1..t[p].kids :
            /\ Child(p, i) \in DOMAIN t /\ KidOf(t, p, i)
            /\ t[Child(p, i)].kind # "root"
            /\ t[Child(p, i)].kind \in AtTop <=> p = Root
       /\ \A i \in 1..Len(p) : LET q == SubSeq(p, 1, i - 1)
                               IN q \in DOMAIN t /\ p[i] \in 1..t[q].kids

ASSUME ProgramsAssumption == \A t \in Programs : Parsed(t)

VARIABLES
  visits,   \* visit functions under way: node, kids visited, saved blocks
  scopes,   \* SymbolTable::list: name -> path of the declaration
  code,     \* basic blocks: the function a block is in, its instructions
  cur,      \* the block at the builder's insertion point
  refused,  \* a type error ended the walk
  result    \* "running", "generated", "rejected" or "undefined"

vars == <<tree, visits, scopes, code, cur, refused, result>>

Visit(p) == [at |-> p, pt |-> 0, bb |-> <<>>]
NoSymbols == <<>>
Detached == Root  \* a block that is not in any function yet

Instr(op, at, to, site) == [op |-> op, at |-> at, to |-> to, site |-> site]
Br(b) == Instr("br", Root, <<b>>, NoSite)
CondBr(t, f) == Instr("condbr", Root, <<t, f>>, NoSite)
Terminators == {"br", "condbr", "ret", "end", "unreachable"}

Init ==
  /\ tree \in Programs
  /\ visits = <<Visit(Root)>>
  /\ scopes = <<NoSymbols>>
  /\ code = <<>> /\ cur = 0
  /\ refused = FALSE /\ result = "running"

-----------------------------------------------------------------------------
(* Symbols.                                                                *)

(* SymbolTable::find: from the innermost scope outwards.                   *)
FindIn(n, wanted) ==
  LET having == {i \in DOMAIN scopes : n \in DOMAIN scopes[i] /\ scopes[i][n] \in wanted}
  IN IF having = {} THEN NoSite
     ELSE scopes[CHOOSE i \in having : \A j \in having : j <= i][n]

find(n) == FindIn(n, Paths)
findFunction(n) == FindIn(n, {p \in Paths : IsFunction(p)})

(* getTop().insert(): a name that is there keeps its symbol.               *)
InsertOverwriting(ss, n, p) ==  \* Mutant of Insert
  LET top == Last(ss)
  IN Append(Front(ss), [m \in DOMAIN top \cup {n} |-> IF m = n THEN p ELSE top[m]])
Insert(ss, n, p) ==
  LET top == Last(ss)
  IN Append(Front(ss), [m \in DOMAIN top \cup {n} |->
                          IF m \in DOMAIN top THEN top[m] ELSE p])

Push == scopes' = Append(scopes, NoSymbols)
Pop == scopes' = Front(scopes)

-----------------------------------------------------------------------------
(* Blocks and instructions.  A new block gets the next number.             *)

New(c, f) == Append(c, [fn |-> f, ins |-> <<>>])
Emit(c, b, i) == [c EXCEPT ![b].ins = Append(@, i)]
Attach(c, b, f) == [c EXCEPT ![b].fn = f]
Func == code[cur].fn

(* The walk.                                                               *)
Top == Last(visits)
At == Top.at
Visiting(kind, pt) == result = "running" /\ Kind(At) = kind /\ Top.pt = pt
Enter(i, bb) ==
  visits' = Append([visits EXCEPT ![Len(visits)].bb = bb], Visit(Child(At, i)))
Return ==
  visits' = [Front(visits) EXCEPT ![Len(visits) - 1].pt = @ + 1]
Walking == UNCHANGED <<tree, refused, result>>

(* Null is handed up to codegen(); visitor and module are dropped.         *)
GiveUp(r) ==
  /\ result' = r
  /\ visits' = <<>> /\ scopes' = <<>> /\ code' = <<>> /\ cur' = 0
  /\ UNCHANGED tree

-----------------------------------------------------------------------------
(* Top level.                                                              *)

TopLevel ==
  /\ result = "running" /\ At = Root /\ Top.pt < Kids(Root)
  /\ Enter(Top.pt + 1, <<>>)
  /\ UNCHANGED <<scopes, code, cur>> /\ Walking

HasConstant(p) ==
  Kids(p) = 1 /\ Kind(Child(p, 1)) = "expr" /\ Name(Child(p, 1)) = NoName

DefineGlobal ==
  /\ Visiting("global", 0)
  /\ HasConstant(At) /\ find(Name(At)) = NoSite
  /\ scopes' = Insert(scopes, Name(At), At)
  /\ Return /\ UNCHANGED <<code, cur>> /\ Walking

(* declareFunction: an earlier function of the name is taken as it is, if  *)
(* the types match.  A variable of the name keeps its symbol and the new   *)
(* one, destroyed by the failed insertion, is used (Misuse).               *)
Declarable ==
  LET f == findFunction(Name(At))
  IN IF f = NoSite THEN find(Name(At)) = NoSite ELSE Signature(f) = Signature(At)
Declared == LET f == findFunction(Name(At)) IN IF f = NoSite THEN At ELSE f

Declare ==
  /\ Visiting("decl", 0) /\ Declarable
  /\ scopes' = Insert(scopes, Name(At), At)
  /\ Return /\ UNCHANGED <<code, cur>> /\ Walking

BeginFunction ==
  /\ Visiting("def", 0) /\ Declarable
  /\ scopes' = Append(Insert(scopes, Name(At), At), NoSymbols)
  /\ code' = New(code, Declared) /\ cur' = Len(code) + 1
  /\ Enter(1, <<>>) /\ Walking

Parameter ==
  /\ Visiting("param", 0)
  /\ scopes' = Insert(scopes, Name(At), At)
  /\ code' = Emit(code, cur, Instr("store", At, <<>>, NoSite))
  /\ Return /\ UNCHANGED cur /\ Walking

NextOfFunction ==
  /\ result = "running" /\ Kind(At) = "def" /\ Top.pt \in 1..(Kids(At) - 1)
  /\ Enter(Top.pt + 1, <<>>)
  /\ UNCHANGED <<scopes, code, cur>> /\ Walking

EndsInReturn(body) ==
  Kids(body) # 0 /\ Kind(Child(body, Kids(body))) = "return"

EndFunction ==
  /\ Visiting("def", Kids(At))
  /\ code' = IF tree[At].type = "void" /\ ~EndsInReturn(Child(At, Kids(At)))
             THEN Emit(code, cur, Instr("end", At, <<>>, NoSite)) ELSE code
  /\ Pop /\ Return /\ UNCHANGED cur /\ Walking

-----------------------------------------------------------------------------
(* Expressions and simple statements.                                      *)

Evaluate ==
  /\ Visiting("expr", 0)
  /\ Name(At) # NoName => find(Name(At)) # NoSite /\ IsVariable(find(Name(At)))
  /\ code' = Emit(code, cur, Instr("eval", At, <<>>, find(Name(At))))
  /\ Return /\ UNCHANGED <<scopes, cur>> /\ Walking

Call ==
  /\ Visiting("call", 0)
  /\ find(Name(At)) # NoSite /\ IsFunction(find(Name(At)))
  /\ code' = Emit(code, cur, Instr("eval", At, <<>>, find(Name(At))))
  /\ Return /\ UNCHANGED <<scopes, cur>> /\ Walking

Empty ==
  /\ Visiting("empty", 0)
  /\ Return /\ UNCHANGED <<scopes, code, cur>> /\ Walking

Operand ==
  /\ result = "running" /\ Kind(At) \in {"let", "return"} /\ Top.pt < Kids(At)
  /\ Enter(1, <<>>)
  /\ UNCHANGED <<scopes, code, cur>> /\ Walking

DefineVariable ==
  /\ Visiting("let", Kids(At))
  /\ find(Name(At)) = NoSite
  /\ scopes' = Insert(scopes, Name(At), At)
  /\ code' = Emit(code, cur, Instr("store", At, <<>>, NoSite))
  /\ Return /\ UNCHANGED cur /\ Walking

ReturnStatement ==
  /\ Visiting("return", Kids(At))
  /\ code' = Emit(code, cur, Instr("ret", At, <<>>, NoSite))
  /\ Return /\ UNCHANGED <<scopes, cur>> /\ Walking

(* A block without statements opens its scope and closes it again.         *)
NextOfBlock ==
  /\ result = "running" /\ Kind(At) = "block" /\ Top.pt < Kids(At)
  /\ IF Top.pt = 0 THEN Push ELSE UNCHANGED scopes
  /\ Enter(Top.pt + 1, <<>>)
  /\ UNCHANGED <<code, cur>> /\ Walking

EndBlock ==
  /\ Visiting("block", Kids(At))
  /\ IF Kids(At) = 0 THEN UNCHANGED scopes ELSE Pop
  /\ Return /\ UNCHANGED <<code, cur>> /\ Walking

-----------------------------------------------------------------------------
(* Control flow.                                                           *)

BeginIf ==
  /\ Visiting("if", 0)
  /\ Push /\ Enter(1, <<>>) /\ UNCHANGED <<code, cur>> /\ Walking

(* Three blocks; only the first is put into the function already.          *)
AfterConditionTwoBlocks ==  \* Mutant of AfterCondition
  LET thenBB == Len(code) + 1  elseBB == Len(code) + 2  mergeBB == Len(code) + 3
  IN /\ Visiting("if", 1)
     /\ code' = Emit(IF HasElse(At) THEN New(New(New(code, Func), Detached), Detached)
                     ELSE New(New(code, Func), Detached), cur,
                     CondBr(thenBB, IF HasElse(At) THEN elseBB ELSE mergeBB))
     /\ cur' = thenBB /\ Enter(2, <<elseBB, mergeBB>>)
     /\ UNCHANGED scopes /\ Walking
AfterCondition ==
  LET thenBB == Len(code) + 1  elseBB == Len(code) + 2  mergeBB == Len(code) + 3
  IN /\ Visiting("if", 1)
     /\ code' = Emit(New(New(New(code, Func), Detached), Detached), cur,
                     CondBr(thenBB, IF HasElse(At) THEN elseBB ELSE mergeBB))
     /\ cur' = thenBB /\ Enter(2, <<elseBB, mergeBB>>)
     /\ UNCHANGED scopes /\ Walking

MergeUnpopped(mergeBB) ==  \* Mutant of Merge
  /\ code' = Attach(Emit(code, cur, Br(mergeBB)), mergeBB, Func)
  /\ cur' = mergeBB /\ Return /\ UNCHANGED scopes /\ Walking
Merge(mergeBB) ==
  /\ code' = Attach(Emit(code, cur, Br(mergeBB)), mergeBB, Func)
  /\ cur' = mergeBB /\ Pop /\ Return /\ Walking

AfterThen ==
  LET elseBB == Top.bb[1]  mergeBB == Top.bb[2]
  IN /\ Visiting("if", 2)
     /\ \/ /\ HasElse(At)
           /\ code' = Attach(Emit(code, cur, Br(mergeBB)), elseBB, Func)
           /\ cur' = elseBB /\ Enter(3, Top.bb)
           /\ UNCHANGED scopes /\ Walking
        \/ ~HasElse(At) /\ Merge(mergeBB)

AfterElse == Visiting("if", 3) /\ Merge(Top.bb[2])

BeginWhile ==
  LET condBB == Len(code) + 1
  IN /\ Visiting("while", 0)
     /\ code' = New(Emit(code, cur, Br(condBB)), Func)
     /\ cur' = condBB /\ Enter(1, <<condBB>>) /\ Push /\ Walking

WhileBody ==
  LET bodyBB == Len(code) + 1
  IN /\ Visiting("while", 1)
     /\ code' = New(code, Func)
     /\ cur' = bodyBB /\ Enter(2, Append(Top.bb, bodyBB))
     /\ UNCHANGED scopes /\ Walking

EndWhileUnpopped ==  \* Mutant of EndWhile
  LET condBB == Top.bb[1]  bodyBB == Top.bb[2]  endBB == Len(code) + 1
      ended == Emit(New(code, Func), condBB, CondBr(bodyBB, endBB))
  IN /\ Visiting("while", 2)
     /\ code' = Emit(ended, cur, Br(condBB))
     /\ cur' = endBB /\ Return /\ UNCHANGED scopes /\ Walking
EndWhile ==
  LET condBB == Top.bb[1]  bodyBB == Top.bb[2]  endBB == Len(code) + 1
      ended == Emit(New(code, Func), condBB, CondBr(bodyBB, endBB))
  IN /\ Visiting("while", 2)
     /\ code' = Emit(ended, cur, Br(condBB))
     /\ cur' = endBB /\ Pop /\ Return /\ Walking

BeginFor ==
  LET initBB == Len(code) + 1
  IN /\ Visiting("for", 0)
     /\ code' = New(Emit(code, cur, Br(initBB)), Func)
     /\ cur' = initBB /\ Enter(1, <<initBB>>) /\ Push /\ Walking

(* Condition and body: a new block each, no branch yet.                    *)
NextOfFor ==
  \E i \in {1, 2} :
     /\ Visiting("for", i)
     /\ code' = New(code, Func) /\ cur' = Len(code) + 1
     /\ Enter(i + 1, Append(Top.bb, Len(code) + 1))
     /\ UNCHANGED scopes /\ Walking

(* The block the body ended in is saved, then comes the step's own.        *)
ForStep ==
  /\ Visiting("for", 3)
  /\ code' = New(code, Func) /\ cur' = Len(code) + 1
  /\ Enter(4, Top.bb \o <<cur, Len(code) + 1>>)
  /\ UNCHANGED scopes /\ Walking

EndForAtBody ==  \* Mutant of EndFor
  LET initBB == Top.bb[1]  condBB == Top.bb[2]  bodyBB == Top.bb[3]
      bodyEnd == Top.bb[4]  stepBB == Top.bb[5]  endBB == Len(code) + 1
      entered == Emit(New(code, Func), initBB, Br(condBB))
      tested == Emit(entered, condBB, CondBr(bodyBB, endBB))
      stepped == Emit(tested, bodyBB, Br(stepBB))
  IN /\ Visiting("for", 4)
     /\ code' = Emit(stepped, stepBB, Br(condBB))
     /\ cur' = endBB /\ Pop /\ Return /\ Walking
EndFor ==
  LET initBB == Top.bb[1]  condBB == Top.bb[2]  bodyBB == Top.bb[3]
      bodyEnd == Top.bb[4]  stepBB == Top.bb[5]  endBB == Len(code) + 1
      entered == Emit(New(code, Func), initBB, Br(condBB))
      tested == Emit(entered, condBB, CondBr(bodyBB, endBB))
      stepped == Emit(tested, bodyEnd, Br(stepBB))
  IN /\ Visiting("for", 4)
     /\ code' = Emit(stepped, stepBB, Br(condBB))
     /\ cur' = endBB /\ Pop /\ Return /\ Walking

-----------------------------------------------------------------------------
(* The end.                                                                *)

(* Everything after a block's first terminator goes; a block without one   *)
(* ends in "unreachable".                                                  *)
StrippedAtLast(ins) ==  \* Mutant of Stripped
  LET ends == {i \in DOMAIN ins : ins[i].op \in Terminators}
  IN IF ends = {} THEN Append(ins, Instr("unreachable", Root, <<>>, NoSite))
     ELSE SubSeq(ins, 1, CHOOSE i \in ends : \A j \in ends : j <= i)
Stripped(ins) ==
  LET ends == {i \in DOMAIN ins : ins[i].op \in Terminators}
  IN IF ends = {} THEN Append(ins, Instr("unreachable", Root, <<>>, NoSite))
     ELSE SubSeq(ins, 1, CHOOSE i \in ends : \A j \in ends : i <= j)

Finish ==
  /\ result = "running" /\ At = Root /\ Top.pt = Kids(Root)
  /\ code' = [b \in DOMAIN code |->
                IF code[b].fn = Detached THEN code[b]
                ELSE [code[b] EXCEPT !.ins = Stripped(@)]]
  /\ result' = "generated"
  /\ visits' = <<>> /\ scopes' = <<>> /\ cur' = 0
  /\ UNCHANGED <<tree, refused>>

(* A function's name where a variable is loaded; the initialiser of a      *)
(* global is visited before anything else is looked at.                    *)
LoadsFunction(p) ==
  Name(p) # NoName /\ find(Name(p)) # NoSite /\ ~IsVariable(find(Name(p)))
InitialiserLoads ==
  Kids(At) = 1 /\ Kind(Child(At, 1)) = "expr" /\ LoadsFunction(Child(At, 1))

(* Errors with names: undefined, defined already, not a function, another  *)
(* signature, a global without a constant.                                 *)
Diagnose ==
  /\ result = "running"
  /\ \/ Visiting("expr", 0) /\ Name(At) # NoName /\ find(Name(At)) = NoSite
     \/ /\ Visiting("call", 0)
        /\ find(Name(At)) # NoSite => ~IsFunction(find(Name(At)))
     \/ Visiting("let", Kids(At)) /\ find(Name(At)) # NoSite
     \/ /\ Visiting("global", 0) /\ ~InitialiserLoads
        /\ find(Name(At)) # NoSite \/ ~HasConstant(At)
     \/ /\ IsFunction(At) /\ Top.pt = 0 /\ findFunction(Name(At)) # NoSite
        /\ Signature(findFunction(Name(At))) # Signature(At)
  /\ GiveUp("rejected") /\ UNCHANGED refused

(* A type that does not fit, wherever one is looked at.                    *)
TypeChecked ==
  CASE Kind(At) \in {"expr", "call", "global", "param", "def", "decl"} -> Top.pt = 0
    [] Kind(At) = "let" -> Top.pt = Kids(At)
    [] Kind(At) \in {"return", "if", "while"} -> Top.pt = 1
    [] Kind(At) = "for" -> Top.pt = 2
    [] OTHER -> FALSE

Refuse ==
  /\ result = "running" /\ TypeChecked
  /\ refused' = TRUE /\ GiveUp("rejected")

(* A function is loaded like a variable, or its symbol is used after the   *)
(* failed insertion destroyed it.                                          *)
Misuse ==
  /\ result = "running"
  /\ \/ Visiting("expr", 0) /\ LoadsFunction(At)
     \/ Visiting("global", 0) /\ InitialiserLoads
     \/ /\ IsFunction(At) /\ Top.pt = 0
        /\ findFunction(Name(At)) = NoSite /\ find(Name(At)) # NoSite
  /\ GiveUp("undefined") /\ UNCHANGED refused

Ended == result # "running" /\ UNCHANGED vars

Next ==
  \/ TopLevel \/ DefineGlobal \/ Declare
  \/ BeginFunction \/ Parameter \/ NextOfFunction \/ EndFunction
  \/ Evaluate \/ Call \/ Empty \/ Operand \/ DefineVariable \/ ReturnStatement
  \/ NextOfBlock \/ EndBlock
  \/ BeginIf \/ AfterCondition \/ AfterThen \/ AfterElse
  \/ BeginWhile \/ WhileBody \/ EndWhile
  \/ BeginFor \/ NextOfFor \/ ForStep \/ EndFor
  \/ Finish \/ Diagnose \/ Refuse \/ Misuse \/ Ended

Spec == Init /\ [][Next]_vars
=============================================================================

------------------------- MODULE ExpressionVisitor -------------------------
(***************************************************************************)
(* The part of codegen::CodegenVisitor that deals in types: expressions,   *)
(* and what statements do with their values.  CodegenVisitor.tla has the   *)
(* blocks and scopes around it; here a program is the straight line of     *)
(* visits in one function, each node after the nodes it visits first:      *)
(*   literal           of a type, with its value                           *)
(*   variable          read by name                                        *)
(*   unary, binary     with an operator; the one or two values before it   *)
(*   assign            with an operator; the lhs, then the rhs             *)
(*   as                a cast of the value before it, to "name"            *)
(*   callee ... call   the name before the "(", the arguments, the ")"     *)
(*   let               a variable, with or without type and initialiser    *)
(*   use               a type alias, of the type "type"                    *)
(*   condition         what an if, a while or a for does with its value    *)
(*   return            with a value or without                             *)
(*   statement         the end of an expression statement                  *)
(* No operation makes a block, "and" and "or" included, so instructions    *)
(* run in the order they are made, and "memory" follows them.              *)
(***************************************************************************)
EXTENDS Types, Naturals, Sequences

CONSTANTS
  Programs,
  GivenTypes,      \* the type table at the beginning: name -> type
  GivenVariables,  \* variables declared before: name -> type's name, mutability
  Functions,       \* functions declared before: name -> params, ret
  Returns,         \* the name of the function's return type
  NoName

ASSUME TypesAssumption ==
  /\ BuiltIn \subseteq DOMAIN GivenTypes
  /\ \A n \in BuiltIn : GivenTypes[n] = Basic(n)
  /\ \A n \in DOMAIN GivenTypes : \E b \in BuiltIn : GivenTypes[n] = AliasType(n, Basic(b))
  /\ "function" \notin DOMAIN GivenTypes
  /\ Returns \in DOMAIN GivenTypes
ASSUME NamesAssumption ==
  /\ \A v \in DOMAIN GivenVariables :
       /\ GivenVariables[v].type \in DOMAIN GivenTypes
       /\ GivenTypes[GivenVariables[v].type].kind # "void"
       /\ GivenVariables[v].mut \in BOOLEAN
  /\ DOMAIN GivenVariables \cap (DOMAIN Functions \cup DOMAIN GivenTypes) = {}
  /\ NoName \notin DOMAIN GivenVariables \cup DOMAIN GivenTypes \cup DOMAIN Functions
ASSUME FunctionsAssumption ==
  \A f \in DOMAIN Functions :
    /\ Functions[f].ret \in DOMAIN GivenTypes
    /\ Functions[f].params \in Seq({n \in DOMAIN GivenTypes : GivenTypes[n].kind # "void"})

VARIABLES
  program, at,  \* the visits to make, and the next one
  types,        \* TypeTable::list
  symbols,      \* the symbols of variables and functions
  memory,       \* what each variable holds once the code so far has run
  stack,        \* the values of operands visited already
  result        \* "visiting", "generated", "rejected" or "undefined"

vars == <<program, at, types, symbols, memory, stack, result>>

(* TypedValue: "from" is the variable a LoadInst reads (NoName: it is none) *)
(* and "term" what the value is when the code runs.                        *)
TypedValue(type, cat, mut, from, term) ==
  [type |-> type, cat |-> cat, mut |-> mut, from |-> from, term |-> term]
RValue(type, mut, term) == TypedValue(type, "RVALUE", mut, NoName, term)

Symbol(type, mut) == [type |-> type, mut |-> mut]

Init ==
  /\ program \in Programs /\ at = 1
  /\ types = GivenTypes
  /\ symbols = [n \in DOMAIN GivenVariables \cup DOMAIN Functions |->
                  IF n \in DOMAIN Functions THEN Symbol(FunctionType, FALSE)
                  ELSE Symbol(GivenTypes[GivenVariables[n].type], GivenVariables[n].mut)]
  /\ memory = [v \in DOMAIN GivenVariables |-> <<"before", v>>]
  /\ stack = <<>>
  /\ result = "visiting"

-----------------------------------------------------------------------------
(* The walk.                                                               *)

Node == program[at]
Visiting(is) == result = "visiting" /\ at <= Len(program) /\ Node.is = is
Found(n, table) == n \in DOMAIN table

(* The values of the last n operands, and the stack below them.            *)
Operand(n, i) == stack[Len(stack) - n + i]
Below(n) == SubSeq(stack, 1, Len(stack) - n)

GoOn(s) == stack' = s /\ at' = at + 1 /\ UNCHANGED <<program, result>>
Keep == UNCHANGED <<types, symbols, memory>>

(* A visit that replaces its n operands by a value v and changes nothing.  *)
Give(n, v) == GoOn(Append(Below(n), v)) /\ Keep

(* An error gives a null pointer, which every visit hands up.              *)
End(r) == result' = r /\ stack' = <<>> /\ UNCHANGED <<program, at>> /\ Keep
Reject == End("rejected")
Undefined == End("undefined")

-----------------------------------------------------------------------------
(* Leaves.                                                                 *)

(* A string or cstring is an immutable lvalue that is not loaded.          *)
Constant(t, term) ==
  TypedValue(t, IF IsText(t) THEN "LVALUE" ELSE "RVALUE", ~IsText(t), NoName, term)

Literal ==
  /\ Visiting("literal")
  /\ Give(0, Constant(types[Node.type], <<"literal", Node.value>>))

(* A function has no value to load.                                        *)
VariableRef ==
  /\ Visiting("variable")
  /\ IF ~Found(Node.name, symbols) THEN Reject
     ELSE IF Found(Node.name, Functions) THEN Undefined
     ELSE Give(0, TypedValue(symbols[Node.name].type, "LVALUE", symbols[Node.name].mut,
                             Node.name, memory[Node.name]))

(* A call of a type with one argument is a cast; the name is not visited.  *)
IsConstructor == Node.args = 1 /\ Found(Node.name, types)

Callee ==
  /\ Visiting("callee")
  /\ IF IsConstructor THEN GoOn(stack) /\ Keep
     ELSE IF ~Found(Node.name, symbols) THEN Reject
     ELSE Give(0, TypedValue(symbols[Node.name].type, "LVALUE", symbols[Node.name].mut,
                             NoName, <<"address", Node.name>>))

-----------------------------------------------------------------------------
(* Casts.                                                                  *)

CastTerm(t, v) == <<"as", t.base, v.term>>
Cast(v, to) ==
  IF to.kind \in cast[v.type.kind].null THEN Undefined
  ELSE IF to.kind \in cast[v.type.kind].to
    THEN Give(1, RValue(to, v.mut, CastTerm(to, v)))
  ELSE Reject

As ==
  /\ Visiting("as")
  /\ IF Found(Node.name, types) THEN Cast(Operand(1, 1), types[Node.name]) ELSE Reject

-----------------------------------------------------------------------------
(* Operators.                                                              *)

OperationsOf(v) == getOperations[v.type.kind]

(* Unary plus casts to a type "int", of which there is none unless the     *)
(* program makes one with "use".                                           *)
Unary ==
  /\ Visiting("unary")
  /\ LET v == Operand(1, 1)
     IN IF Node.op \notin OperationsOf(v).unary THEN Reject
        ELSE IF Node.op # "+" THEN Give(1, RValue(v.type, v.mut, <<Node.op, v.term>>))
        ELSE IF Found("int", types) THEN Cast(v, types["int"])
        ELSE Undefined

HasBinaryUntyped(op, l, r) == op \in OperationsOf(l).binary  \* Mutant of HasBinary
HasBinary(op, l, r) == op \in OperationsOf(l).binary /\ equal(l.type, r.type)

BinaryType(op, l) == IF op \in Arithmetic THEN l.type ELSE types["bool"]

BinarySwapped(op, l, r) ==  \* Mutant of BinaryValue
  RValue(BinaryType(op, l), l.mut, <<op, r.term, l.term>>)
BinaryValue(op, l, r) == RValue(BinaryType(op, l), l.mut, <<op, l.term, r.term>>)

Binary ==
  /\ Visiting("binary")
  /\ LET l == Operand(2, 1)
         r == Operand(2, 2)
     IN IF HasBinary(Node.op, l, r) THEN Give(2, BinaryValue(Node.op, l, r)) ELSE Reject

Assignable(l) == l.cat = "LVALUE" /\ l.mut

(* The value to store; a compound assignment needs the binary operation.   *)
AssignedValue(op, l, r) ==
  IF op \in Compound THEN BinaryValue(OfCompound[op], l, r) ELSE r

CanAssign(op, l, r) ==
  /\ op \in OperationsOf(l).assign
  /\ Assignable(l)
  /\ op \in Compound => HasBinary(OfCompound[op], l, r)
  /\ OperationsOf(l).typed => equal(AssignedValue(op, l, r).type, l.type)

(* The store goes where the left-hand side was loaded from.  What is given *)
(* is the left-hand side, with the value loaded before the store.          *)
Assignment ==
  /\ Visiting("assign")
  /\ LET l == Operand(2, 1)
         r == Operand(2, 2)
     IN IF ~CanAssign(Node.op, l, r) THEN Reject
        ELSE /\ GoOn(Append(Below(2), l))
             /\ memory' = [memory EXCEPT ![l.from] = AssignedValue(Node.op, l, r).term]
             /\ UNCHANGED <<types, symbols>>

(* FunctionTypeOperation: a call of a void function is given a name, which *)
(* a value of type void must not have.                                     *)
Fits(f, n) ==
  /\ Len(Functions[f].params) = n
  /\ \A i \in 1..n : isSameOrImplicitlyCastable(Operand(n, i).type,
                                               types[Functions[f].params[i]])

Call ==
  /\ Visiting("call")
  /\ IF IsConstructor THEN Cast(Operand(1, 1), types[Node.name])
     ELSE LET n == Node.args
          IN IF "()" \notin OperationsOf(Operand(n + 1, 1)).arbitrary THEN Reject
             ELSE IF ~Fits(Node.name, n) THEN Reject
             ELSE IF types[Functions[Node.name].ret].kind = "void" THEN Undefined
             ELSE Give(n + 1, RValue(types[Functions[Node.name].ret], FALSE,
                              <<"call", Node.name, [i \in 1..n |-> Operand(n, i).term]>>))

-----------------------------------------------------------------------------
(* Statements.                                                             *)

IsNewAliasOfAny == Found(Node.type, types)  \* Mutant of IsNewAlias
IsNewAlias == Found(Node.type, types) /\ ~Found(Node.name, types)

Alias ==
  /\ Visiting("use")
  /\ IF IsNewAlias
     THEN /\ types' = [n \in DOMAIN types \cup {Node.name} |->
                         IF n = Node.name THEN AliasType(n, types[Node.type]) ELSE types[n]]
          /\ GoOn(stack) /\ UNCHANGED <<symbols, memory>>
     ELSE Reject

(* inferVariableDefType looks the type up by name (a type it does not find *)
(* is not noticed), and asks it for a zero when there is no initialiser.   *)
Stated == Node.type # NoName
TypeOfVariable == IF Stated THEN types[Node.type] ELSE Operand(1, 1).type
zeroInit(t) == Constant(Underlying(t), <<"zero">>)
Initialiser == IF Node.init THEN Operand(1, 1) ELSE zeroInit(TypeOfVariable)

Definable == isSized(TypeOfVariable) /\ ~Found(Node.name, types)
Initialisable ==
  isSameOrImplicitlyCastable(Initialiser.type, TypeOfVariable) /\ ~Found(Node.name, symbols)

VariableDefinition ==
  /\ Visiting("let")
  /\ IF Stated /\ ~Found(Node.type, types) THEN Undefined
     ELSE IF ~Definable THEN Reject
     ELSE IF ~Node.init /\ HasNoZero(TypeOfVariable) THEN Undefined
     ELSE IF ~Initialisable THEN Reject
     ELSE /\ symbols' = [n \in DOMAIN symbols \cup {Node.name} |->
                           IF n = Node.name THEN Symbol(TypeOfVariable, Node.mut)
                           ELSE symbols[n]]
          /\ memory' = [n \in DOMAIN memory \cup {Node.name} |->
                          IF n = Node.name THEN Initialiser.term ELSE memory[n]]
          /\ GoOn(<<>>) /\ UNCHANGED types

Condition ==
  /\ Visiting("condition")
  /\ IF implicitCast(Operand(1, 1).type, types["bool"]) THEN GoOn(<<>>) /\ Keep ELSE Reject

(* A return without a value is not compared with the return type.          *)
Return ==
  /\ Visiting("return")
  /\ IF Node.init => isSameOrImplicitlyCastable(Operand(1, 1).type, types[Returns])
     THEN GoOn(<<>>) /\ Keep ELSE Reject

Statement == Visiting("statement") /\ GoOn(<<>>) /\ Keep

Finish ==
  /\ result = "visiting" /\ at > Len(program)
  /\ result' = "generated"
  /\ UNCHANGED <<program, at, types, symbols, memory, stack>>

Next ==
  \/ Literal \/ VariableRef \/ Callee \/ As \/ Unary \/ Binary \/ Assignment \/ Call
  \/ Alias \/ VariableDefinition \/ Condition \/ Return \/ Statement \/ Finish

Spec == Init /\ [][Next]_vars

-----------------------------------------------------------------------------
(* A value loaded from a variable has the variable's type and is as        *)
(* mutable as it, whatever became of the program since; what a store may   *)
(* go to is such a value, as the assignment operations assert.             *)
IsValue(v) ==
  /\ v.cat \in {"LVALUE", "RVALUE"} /\ v.mut \in BOOLEAN
  /\ \/ v.type = FunctionType
     \/ v.type.name \in DOMAIN types /\ v.type = types[v.type.name]
  /\ v.from # NoName => /\ v.from \in DOMAIN memory
                        /\ v.cat = "LVALUE"
                        /\ symbols[v.from] = Symbol(v.type, v.mut)
  /\ Assignable(v) => v.from # NoName \/ v.term[1] = "address"

TypeOK ==
  /\ at \in 1..(Len(program) + 1)
  /\ \A n \in DOMAIN types : types[n].name = n /\ types[n].kind \in Kind
  /\ \A n \in DOMAIN symbols : symbols[n].mut \in BOOLEAN
  /\ DOMAIN memory \subseteq DOMAIN symbols
  /\ \A i \in DOMAIN stack : IsValue(stack[i])
  /\ result \in {"visiting", "generated", "rejected", "undefined"}
=============================================================================

----------------------------- MODULE TypeRules -----------------------------
(***************************************************************************)
(* What quick-guide.md says of types, casts and operations, read off the   *)
(* nodes of a program alone: no type objects, no values of LLVM.  Where    *)
(* the code is known to do otherwise the guide's rule stands in Rule and   *)
(* the deviation in Lenient (the code goes on with what the guide forbids) *)
(* or Withheld (it refuses, or crashes on, what the guide allows).         *)
(***************************************************************************)
EXTENDS ExpressionVisitor, SequencesExt

Numeric == Integral \cup FP
Castable == Numeric \cup {"byte"}

(* A value: the name of its type, the variable it is read from, its term.  *)
Value(type, var, term) == [type |-> type, var |-> var, term |-> term]
Rv(type, term) == Value(type, NoName, term)

(* The reading of the nodes so far.                                        *)
Start == [stack |-> <<>>, memory |-> [v \in DOMAIN GivenVariables |-> <<"before", v>>],
          scope |-> GivenVariables,
          base |-> [n \in DOMAIN GivenTypes |-> GivenTypes[n].base],
          obeys |-> TRUE, excused |-> TRUE, withheld |-> FALSE]

Nth(s, n, i) == s.stack[Len(s.stack) - n + i]
BaseOf(s, v) == s.base[v.type]
Constructs(s, n) == n.args = 1 /\ n.name \in DOMAIN s.base
Mutable(s, v) == v.var # NoName /\ s.scope[v.var].mut
IntName(s) == IF "int" \in DOMAIN s.base THEN "int" ELSE "i32"
Arguments(s, n) == [i \in 1..n.args |-> Nth(s, n.args, i)]

(* An alias may stand for the type it is made from, never the other way.   *)
AliasOf(s, v, to) == s.base[v.type] = to

-----------------------------------------------------------------------------
Rule(s, n) ==
  CASE n.is = "variable" -> n.name \in DOMAIN s.scope
    [] n.is = "callee" -> Constructs(s, n) \/ n.name \in DOMAIN Functions \cup DOMAIN s.scope
    [] n.is = "as" -> /\ n.name \in DOMAIN s.base
                      /\ BaseOf(s, Nth(s, 1, 1)) \in Castable /\ s.base[n.name] \in Castable
    [] n.is = "call" /\ Constructs(s, n) ->
         BaseOf(s, Nth(s, 1, 1)) \in Castable /\ s.base[n.name] \in Castable
    [] n.is = "call" /\ ~Constructs(s, n) ->
         /\ n.name \in DOMAIN Functions
         /\ [i \in 1..n.args |-> Arguments(s, n)[i].type] = Functions[n.name].params
    [] n.is = "unary" ->
         BaseOf(s, Nth(s, 1, 1)) \in (CASE n.op = "+" -> Integral [] n.op = "-" -> Numeric
                                        [] n.op = "not" -> {"bool"})
    [] n.is = "binary" ->
         /\ Nth(s, 2, 1).type = Nth(s, 2, 2).type
         /\ n.op \in Arithmetic => BaseOf(s, Nth(s, 2, 1)) \in Numeric
         /\ n.op \in Logical => BaseOf(s, Nth(s, 2, 1)) = "bool"
    [] n.is = "assign" ->
         /\ Mutable(s, Nth(s, 2, 1))
         /\ Nth(s, 2, 1).type = Nth(s, 2, 2).type
         /\ n.op \in Compound => BaseOf(s, Nth(s, 2, 1)) \in Numeric
    [] n.is = "use" -> n.type \in DOMAIN s.base /\ n.name \notin DOMAIN s.base
    [] n.is = "let" ->
         /\ n.type # NoName => n.type \in DOMAIN s.base /\ s.base[n.type] # "void"
         /\ n.name \notin DOMAIN s.base \cup DOMAIN s.scope \cup DOMAIN Functions
         /\ n.init /\ n.type # NoName => Nth(s, 1, 1).type = n.type
    [] n.is = "condition" -> BaseOf(s, Nth(s, 1, 1)) = "bool"
    [] n.is = "return" -> IF n.init THEN Nth(s, 1, 1).type = Returns ELSE Returns = "void"
    [] OTHER -> TRUE

(* Casts that compare with a null pointer or need a type "float".          *)
NullCast(s, v, to) ==
  \/ BaseOf(s, v) \in Integral \cup {"byte"} /\ to = "bool"
  \/ BaseOf(s, v) = "bool" /\ to \in Castable

Lenient(s, n) ==
  CASE n.is = "variable" -> n.name \in DOMAIN Functions
    [] n.is = "as" -> n.name \in DOMAIN s.base /\ NullCast(s, Nth(s, 1, 1), s.base[n.name])
    [] n.is = "call" /\ Constructs(s, n) -> NullCast(s, Nth(s, 1, 1), s.base[n.name])
    [] n.is = "call" /\ ~Constructs(s, n) ->
         /\ n.name \in DOMAIN Functions
         /\ n.args = Len(Functions[n.name].params)
         /\ \A i \in 1..n.args : LET p == Functions[n.name].params[i]
                                     a == Arguments(s, n)[i]
                                 IN a.type = p \/ AliasOf(s, a, p)
    [] n.is = "unary" -> \/ n.op = "not" /\ BaseOf(s, Nth(s, 1, 1)) \in Integral
                         \/ n.op = "+" /\ BaseOf(s, Nth(s, 1, 1)) \in FP
    [] n.is = "assign" -> /\ n.op = "=" /\ Mutable(s, Nth(s, 2, 1))
                          /\ BaseOf(s, Nth(s, 2, 1)) \in FP \cup {"bool", "string", "cstring"}
    [] n.is = "let" ->
         \/ n.type # NoName /\ n.type \notin DOMAIN s.base
         \/ /\ ~n.init /\ n.type # "void" /\ s.base[n.type] = "void"
            /\ n.name \notin DOMAIN s.base
         \/ /\ n.init /\ n.type # NoName /\ AliasOf(s, Nth(s, 1, 1), n.type)
            /\ n.name \notin DOMAIN s.base \cup DOMAIN s.scope \cup DOMAIN Functions
    [] n.is = "return" -> n.init => AliasOf(s, Nth(s, 1, 1), Returns)
    [] OTHER -> FALSE

UnknownCast(s, v, to) ==
  \/ BaseOf(s, v) \in FP /\ to \in FP
  \/ BaseOf(s, v) = "byte" /\ to \in FP \cup {"byte"}

Withheld(s, n) ==
  CASE n.is = "as" -> n.name \in DOMAIN s.base /\ UnknownCast(s, Nth(s, 1, 1), s.base[n.name])
    [] n.is = "call" /\ Constructs(s, n) -> UnknownCast(s, Nth(s, 1, 1), s.base[n.name])
    [] n.is = "call" /\ ~Constructs(s, n) ->
         n.name \in DOMAIN Functions /\ s.base[Functions[n.name].ret] = "void"
    [] n.is = "unary" ->
         n.op = "+" /\ ("int" \notin DOMAIN s.base \/ s.base["int"] \notin Castable)
    [] n.is = "binary" -> \/ /\ n.op \in Comparison \ Equality
                             /\ BaseOf(s, Nth(s, 2, 1)) \notin Numeric
                          \/ /\ n.op \in Equality
                             /\ BaseOf(s, Nth(s, 2, 1)) \in {"byte", "string", "cstring"}
    [] n.is = "assign" -> BaseOf(s, Nth(s, 2, 1)) = "byte"
    [] n.is = "let" -> ~n.init /\ n.type \in DOMAIN s.base /\ s.base[n.type] # n.type
    [] OTHER -> FALSE

-----------------------------------------------------------------------------
(* What a node gives and does.                                             *)

Push(s, k, v) == [s EXCEPT !.stack = Append(SubSeq(@, 1, Len(@) - k), v)]
Extended(f, x, y) == [z \in DOMAIN f \cup {x} |-> IF z = x THEN y ELSE f[z]]

ResultOf(op, v) == IF op \in Arithmetic THEN v.type ELSE "bool"

Stored(n, l, r) ==
  IF n.op = "=" THEN r.term ELSE <<OfCompound[n.op], l.term, r.term>>

Defined(s, n) ==
  LET type == IF n.type = NoName THEN Nth(s, 1, 1).type ELSE n.type
  IN [s EXCEPT !.stack = <<>>,
               !.scope = Extended(@, n.name, [type |-> type, mut |-> n.mut]),
               !.memory = Extended(@, n.name,
                                   IF n.init THEN Nth(s, 1, 1).term ELSE <<"zero">>)]

After(s, n) ==
  CASE n.is = "literal" -> Push(s, 0, Rv(n.type, <<"literal", n.value>>))
    [] n.is = "variable" ->   \* a function that is read has no value
         Push(s, 0, IF n.name \in DOMAIN s.scope
                    THEN Value(s.scope[n.name].type, n.name, s.memory[n.name])
                    ELSE Rv("void", <<"none">>))
    [] n.is = "callee" /\ Constructs(s, n) -> s
    [] n.is = "callee" /\ ~Constructs(s, n) ->
         Push(s, 0, Rv(IF n.name \in DOMAIN Functions THEN "function" ELSE s.scope[n.name].type,
                       <<"address", n.name>>))
    [] n.is \in {"as", "call"} /\ (n.is = "call" => Constructs(s, n)) ->
         Push(s, 1, Rv(n.name, <<"as", s.base[n.name], Nth(s, 1, 1).term>>))
    [] n.is = "call" /\ ~Constructs(s, n) ->
         Push(s, n.args + 1,
              Rv(Functions[n.name].ret,
                 <<"call", n.name, [i \in 1..n.args |-> Arguments(s, n)[i].term]>>))
    [] n.is = "unary" /\ n.op = "+" ->
         Push(s, 1, Rv(IntName(s), <<"as", s.base[IntName(s)], Nth(s, 1, 1).term>>))
    [] n.is = "unary" /\ n.op # "+" ->
         Push(s, 1, Rv(Nth(s, 1, 1).type, <<n.op, Nth(s, 1, 1).term>>))
    [] n.is = "binary" ->
         Push(s, 2, Rv(ResultOf(n.op, Nth(s, 2, 1)),
                       <<n.op, Nth(s, 2, 1).term, Nth(s, 2, 2).term>>))
    [] n.is = "assign" ->
         LET l == Nth(s, 2, 1)
             t == Stored(n, l, Nth(s, 2, 2))
         IN Push([s EXCEPT !.memory[l.var] = t], 2, Value(l.type, l.var, t))
    [] n.is = "use" -> [s EXCEPT !.base = Extended(@, n.name, @[n.type])]
    [] n.is = "let" -> Defined(s, n)
    [] OTHER -> [s EXCEPT !.stack = <<>>]

(* Once a rule is broken and not excused, nothing after it has a meaning.  *)
Judge(t, s, n) ==
  [t EXCEPT !.obeys = @ /\ Rule(s, n), !.excused = Rule(s, n) \/ Lenient(s, n),
            !.withheld = @ \/ Withheld(s, n)]

Read(s, n) ==
  IF ~s.excused THEN s
  ELSE Judge(IF Rule(s, n) \/ Lenient(s, n) THEN After(s, n) ELSE s, s, n)

Readings(p) ==
  LET reading[k \in 0..Len(p)] == IF k = 0 THEN Start ELSE Read(reading[k - 1], p[k])
  IN reading
Reading(k) == Readings(program)[k]
Visited == Reading(IF at <= Len(program) THEN at ELSE Len(program))

-----------------------------------------------------------------------------
(* Programs: trees in post-order, as the parser makes them.  Every node    *)
(* finds the operands it asks for, and a name before a "(" is the operand  *)
(* of its call and of nothing else.                                        *)
Named(n) == n # NoName /\ n # "function"

NodeOK(n) ==
  CASE n.is = "literal" -> n.type \in BuiltIn \ {"void"}
    [] n.is \in {"variable", "as"} -> n.name # NoName
    [] n.is \in {"callee", "call"} -> n.name # NoName /\ n.args \in Nat
    [] n.is = "unary" -> n.op \in {"+", "-", "not"}
    [] n.is = "binary" -> n.op \in Arithmetic \cup Comparison \cup Logical
    [] n.is = "assign" -> n.op \in Compound \cup {"="}
    [] n.is = "use" -> Named(n.name) /\ n.type # NoName
    [] n.is = "let" -> /\ Named(n.name) /\ n.init \in BOOLEAN /\ n.mut \in BOOLEAN
                       /\ n.init \/ n.type # NoName
    [] n.is = "return" -> n.init \in BOOLEAN
    [] OTHER -> n.is \in {"condition", "statement"}

Arity(s, n) ==
  CASE n.is \in {"unary", "as", "condition"} -> 1
    [] n.is \in {"binary", "assign"} -> 2
    [] n.is \in {"let", "return"} -> IF n.init THEN 1 ELSE 0
    [] n.is = "call" -> IF Constructs(s, n) THEN 1 ELSE n.args + 1
    [] OTHER -> 0

IsCallee(v) == v.term[1] = "address"
OperandsOK(s, n) ==
  /\ Arity(s, n) <= Len(s.stack)
  /\ \A i \in 1..Arity(s, n) :
       LET v == Nth(s, Arity(s, n), i)
       IN IF n.is = "call" /\ ~Constructs(s, n) /\ i = 1
          THEN v.term = <<"address", n.name>>
          ELSE ~IsCallee(v)

Parsed(p) ==
  /\ p \in Seq({p[k] : k \in DOMAIN p})
  /\ p # <<>> => p[Len(p)].is \in {"let", "use", "condition", "return", "statement"}
  /\ \A k \in 1..Len(p) :
       /\ NodeOK(p[k])
       /\ Readings(p)[k - 1].excused => OperandsOK(Readings(p)[k - 1], p[k])

ASSUME ProgramsAssumption == \A p \in Programs : Parsed(p)

-----------------------------------------------------------------------------
(* Properties.                                                             *)

(* "No implicit conversions between any of the types are allowed", and the *)
(* rest of the guide: what it forbids ends in an error, never in code and  *)
(* never in undefined behaviour of the compiler, but for the deviations of *)
(* Lenient.                                                                *)
ForbiddenIsRejected ==
  result \in {"generated", "undefined"} => Visited.excused

(* What the guide allows is accepted, but for the deviations of Withheld.  *)
AllowedIsGenerated ==
  result \in {"rejected", "undefined"} =>
    ~Visited.obeys \/ Visited.withheld

(* The value of an assignment is used.                                     *)
Chained ==
  \E k \in 1..(Len(program) - 1) :
    program[k].is = "assign" /\ program[k + 1].is # "statement"

(* The code computes what the program says: every operand has the type and *)
(* the value it has on paper, and every variable holds, after every step,  *)
(* what was last assigned to it.  The value of an assignment used as an    *)
(* operand is left out: the code gives the one from before the assignment. *)
RunsAsWritten ==
  result \in {"visiting", "generated"} /\ ~Chained =>
    LET s == Reading(at - 1)
    IN s.excused =>
       /\ memory = s.memory
       /\ Len(stack) = Len(s.stack)
       /\ \A i \in DOMAIN stack :
            Node.is # "statement" =>
            stack[i].type.name = s.stack[i].type /\ stack[i].term = s.stack[i].term
=============================================================================

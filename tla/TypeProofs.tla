----------------------------- MODULE TypeProofs -----------------------------
(***************************************************************************)
(* Proofs about types: for every program the parser can make and every     *)
(* type, variable and function declared before it, the code generator      *)
(* follows the guide's rules, but for the deviations TypeRules names.      *)
(*                                                                         *)
(* The visits and the reading of the nodes go hand in hand.  IInv relates  *)
(* them: the same types, variables and operands on both sides while the    *)
(* visits go on, and a node that is to blame once they have stopped.       *)
(***************************************************************************)
EXTENDS TypeRules, StackFacts, TLAPS

-----------------------------------------------------------------------------
(* The invariant.                                                          *)

Fields == {"stack", "memory", "scope", "base", "obeys", "excused", "withheld"}
Shape(s) == DOMAIN s = Fields

TypesOK(ty, base) ==
  /\ DOMAIN ty = DOMAIN base
  /\ BuiltIn \cup DOMAIN GivenTypes \subseteq DOMAIN base
  /\ \A b \in BuiltIn : base[b] = b
  /\ \A n \in DOMAIN GivenTypes : base[n] = GivenTypes[n].base
  /\ "function" \notin DOMAIN base /\ NoName \notin DOMAIN base
  /\ \A n \in DOMAIN base : base[n] \in BuiltIn /\ ty[n] = AliasType(n, Basic(base[n]))
TypesInv(s) == TypesOK(types, s.base)

ScopeOK(ty, sy, me, base, scope, mem) ==
  /\ DOMAIN sy = DOMAIN scope \cup DOMAIN Functions
  /\ DOMAIN scope \cap DOMAIN Functions = {}
  /\ DOMAIN me = DOMAIN scope /\ DOMAIN mem = DOMAIN scope
  /\ NoName \notin DOMAIN scope
  /\ \A f \in DOMAIN Functions : sy[f] = Symbol(FunctionType, FALSE)
  /\ \A v \in DOMAIN scope :
       /\ scope[v].type \in DOMAIN base /\ base[scope[v].type] # "void"
       /\ scope[v].mut \in BOOLEAN
       /\ sy[v] = Symbol(ty[scope[v].type], scope[v].mut)
       /\ mem[v][1] # "address"
ScopeInv(s) == ScopeOK(types, symbols, memory, s.base, s.scope, s.memory)

(* A name before a "(", and any other operand.                             *)
SameCallee(v, w) ==
  \E name \in DOMAIN symbols :
    /\ w.term = <<"address", name>>
    /\ v = TypedValue(symbols[name].type, "LVALUE", symbols[name].mut, NoName, w.term)
    /\ w.type = symbols[name].type.name

SameValue(s, v, w) ==
  /\ w.type \in DOMAIN s.base /\ s.base[w.type] # "void" /\ v.type = types[w.type]
  /\ v.cat \in {"LVALUE", "RVALUE"} /\ v.mut \in BOOLEAN
  /\ v.from = w.var
  /\ v.from = NoName => ~Assignable(v)
  /\ v.from # NoName => /\ v.from \in DOMAIN s.scope
                        /\ v.cat = "LVALUE" /\ v.mut = s.scope[v.from].mut
                        /\ w.type = s.scope[v.from].type

Same(s, v, w) == IF IsCallee(w) THEN SameCallee(v, w) ELSE SameValue(s, v, w)

Agree(s) ==
  /\ IsSeq(stack) /\ IsSeq(s.stack) /\ Len(stack) = Len(s.stack)
  /\ \A i \in 1..Len(stack) : Same(s, stack[i], s.stack[i])

(* Only the operand an assignment has just given may be out of date.       *)
Terms(s) ==
  /\ memory = s.memory
  /\ \A i \in 1..Len(stack) :
       \/ stack[i].term = s.stack[i].term
       \/ i = Len(stack) /\ at > 1 /\ program[at - 1].is = "assign"

Tables(s) == Shape(s) /\ s.excused /\ TypesInv(s) /\ ScopeInv(s)
Operands(s) == Agree(s) /\ (Chained \/ Terms(s))

Stopped == result \in {"rejected", "undefined"}
Blamed(s) == ~s.obeys \/ s.withheld

IInv ==
  /\ program \in Programs /\ at \in 1..(Len(program) + 1)
  /\ result \in {"visiting", "generated", "rejected", "undefined"}
  /\ Tables(Reading(at - 1))
  /\ ~Stopped => Operands(Reading(at - 1))
  /\ result = "generated" => at = Len(program) + 1
  /\ Stopped => stack = <<>> /\ at <= Len(program) /\ Blamed(Reading(at))
  /\ result = "undefined" => Reading(at).excused

-----------------------------------------------------------------------------
(* The reading of a program, node by node.                                 *)

Unfolds(r, p, n) == r = [k \in 0..n |-> IF k = 0 THEN Start ELSE Read(r[k - 1], p[k])]

LEMMA Unfolding ==
  ASSUME NEW p, NEW n \in Nat
  PROVE  \E r : Unfolds(r, p, n)
<1> DEFINE T == {m \in Nat : ~\E r : Unfolds(r, p, m)}
<1>1. SUFFICES ASSUME T # {} PROVE FALSE
  OBVIOUS
<1>2. PICK m \in T : \A l \in T : m <= l
  BY <1>1, LeastExists
<1>3. CASE m = 0
  <2> DEFINE r == [k \in 0..0 |-> Start]
  <2>1. Unfolds(r, p, 0)
    BY DEF Unfolds
  <2> QED
    BY <1>3, <2>1
<1>4. CASE m > 0
  <2>1. m - 1 \in Nat /\ m - 1 \notin T
    BY <1>2, <1>4
  <2>2. PICK q : Unfolds(q, p, m - 1)
    BY <2>1
  <2> DEFINE r == [k \in 0..m |-> IF k = 0 THEN Start ELSE Read(q[k - 1], p[k])]
  <2>3. \A k \in 0..(m - 1) : r[k] = q[k]
    BY <2>1, <2>2 DEF Unfolds
  <2>4. \A k \in 0..m : k # 0 => k - 1 \in 0..(m - 1)
    BY <2>1
  <2>5. \A k \in 0..m : k # 0 => r[k - 1] = q[k - 1]
    BY <2>3, <2>4
  <2>6. r = [k \in 0..m |-> IF k = 0 THEN Start ELSE Read(r[k - 1], p[k])]
    <3>1. \A k \in 0..m : (IF k = 0 THEN Start ELSE Read(q[k - 1], p[k]))
                            = IF k = 0 THEN Start ELSE Read(r[k - 1], p[k])
      BY <2>5
    <3> QED
      BY <3>1, Zenon
  <2>7. Unfolds(r, p, m)
    BY <2>6 DEF Unfolds
  <2> QED
    BY <2>7
<1> QED
  BY <1>2, <1>3, <1>4

LEMMA ReadingSteps ==
  ASSUME NEW p, Len(p) \in Nat
  PROVE  /\ Readings(p)[0] = Start
         /\ \A k \in 1..Len(p) : Readings(p)[k] = Read(Readings(p)[k - 1], p[k])
<1>1. PICK r : Unfolds(r, p, Len(p))
  BY Unfolding
<1>2. Readings(p) = CHOOSE f : Unfolds(f, p, Len(p))
  BY DEF Readings, Unfolds
<1>3. Unfolds(Readings(p), p, Len(p))
  BY <1>1, <1>2
<1> QED
  BY <1>3 DEF Unfolds

(* What judging a node leaves alone.                                       *)
LEMMA Judged ==
  ASSUME NEW t, NEW s, NEW n, Shape(t)
  PROVE  /\ Shape(Judge(t, s, n))
         /\ Judge(t, s, n).stack = t.stack /\ Judge(t, s, n).memory = t.memory
         /\ Judge(t, s, n).scope = t.scope /\ Judge(t, s, n).base = t.base
         /\ Judge(t, s, n).obeys = (t.obeys /\ Rule(s, n))
         /\ Judge(t, s, n).excused = (Rule(s, n) \/ Lenient(s, n))
         /\ Judge(t, s, n).withheld = (t.withheld \/ Withheld(s, n))
BY DEF Judge, Shape, Fields

(* What a node does leaves alone what was found out so far.                *)
LEMMA AfterKeeps ==
  ASSUME NEW s, NEW n, Shape(s)
  PROVE  /\ Shape(After(s, n))
         /\ After(s, n).obeys = s.obeys /\ After(s, n).withheld = s.withheld
BY DEF After, Push, Defined, Shape, Fields

(* A node that is read: blamed, or carried out.                            *)
LEMMA ReadFacts ==
  ASSUME NEW s, NEW n, Shape(s), s.excused
  PROVE  /\ Read(s, n).excused = (Rule(s, n) \/ Lenient(s, n))
         /\ ~Rule(s, n) \/ Withheld(s, n) => Blamed(Read(s, n))
         /\ Rule(s, n) \/ Lenient(s, n) =>
              /\ Shape(Read(s, n))
              /\ Read(s, n).stack = After(s, n).stack /\ Read(s, n).memory = After(s, n).memory
              /\ Read(s, n).scope = After(s, n).scope /\ Read(s, n).base = After(s, n).base
<1> DEFINE t == IF Rule(s, n) \/ Lenient(s, n) THEN After(s, n) ELSE s
<1>1. Shape(t) /\ t.obeys = s.obeys /\ t.withheld = s.withheld
  BY AfterKeeps
<1>2. Read(s, n) = Judge(t, s, n)
  BY DEF Read
<1> HIDE DEF t
<1>3. /\ Shape(Read(s, n)) /\ Read(s, n).stack = t.stack /\ Read(s, n).memory = t.memory
      /\ Read(s, n).scope = t.scope /\ Read(s, n).base = t.base
      /\ Read(s, n).obeys = (t.obeys /\ Rule(s, n))
      /\ Read(s, n).excused = (Rule(s, n) \/ Lenient(s, n))
      /\ Read(s, n).withheld = (t.withheld \/ Withheld(s, n))
  BY <1>1, <1>2, Judged
<1>4. ~Rule(s, n) \/ Withheld(s, n) => Blamed(Read(s, n))
  BY <1>3 DEF Blamed
<1> QED
  BY <1>3, <1>4 DEF t

-----------------------------------------------------------------------------
(* A visit.  Facing(s, n): s is the reading so far and n the node to come. *)

Facing(s, n) ==
  /\ s = Reading(at - 1) /\ n = Node
  /\ at \in 1..Len(program) /\ Len(program) \in Nat
  /\ Tables(s) /\ Operands(s)
  /\ NodeOK(n) /\ OperandsOK(s, n)

LEMMA ProgramFacts ==
  ASSUME program \in Programs
  PROVE  /\ Len(program) \in Nat
         /\ program # <<>> => /\ Len(program) > 0
                              /\ program[Len(program)].is # "assign"
         /\ program = <<>> => Len(program) = 0
         /\ \A k \in 1..Len(program) :
              /\ NodeOK(program[k])
              /\ Reading(k - 1).excused => OperandsOK(Reading(k - 1), program[k])
<1>1. Parsed(program)
  BY ProgramsAssumption
<1>2. IsSeq(program)
  BY <1>1 DEF Parsed, IsSeq
<1> QED
  BY <1>1, <1>2, SeqFacts, NothingIsSeq DEF Parsed, Reading

LEMMA Visit ==
  ASSUME IInv, NEW is, Visiting(is)
  PROVE  ~Stopped /\ \E s, n : Facing(s, n) /\ n = Node /\ n.is = is
<1>1. Len(program) \in Nat /\ at \in 1..Len(program) /\ ~Stopped /\ Node.is = is
  BY ProgramFacts DEF IInv, Visiting, Stopped
<1>2. NodeOK(Node) /\ OperandsOK(Reading(at - 1), Node)
  BY <1>1, ProgramFacts DEF IInv, Node, Tables
<1> QED
  BY <1>1, <1>2 DEF IInv, Facing

(* The three ways a visit may end.                                         *)
Went(s, n) ==
  /\ Rule(s, n) \/ Lenient(s, n)
  /\ at' = at + 1 /\ UNCHANGED <<program, result>>

LEMMA Going ==
  ASSUME IInv, ~Stopped, NEW s, NEW n, Facing(s, n), Went(s, n), NEW t, t = After(s, n),
         TypesInv(t)', ScopeInv(t)', Agree(t)', (Chained \/ Terms(t))'
  PROVE  IInv'
<1> DEFINE u == Read(s, n)
<1>1. /\ Shape(u) /\ u.excused /\ u.stack = t.stack /\ u.memory = t.memory
      /\ u.scope = t.scope /\ u.base = t.base
  BY ReadFacts DEF Facing, Tables, Went
<1>2. u = Reading(at)
  BY ReadingSteps DEF Facing, Reading, Node
<1> HIDE DEF u
<1>3. at' - 1 = at /\ at' \in 1..(Len(program) + 1) /\ program' = program
  BY DEF Facing, Went
<1>4. Reading(at - 1)' = u
  BY <1>2, <1>3 DEF Reading
<1>5. TypesInv(u)' /\ ScopeInv(u)'
  <2>1. TypesInv(u)'
    BY <1>1 DEF TypesInv
  <2>2. ScopeInv(u)'
    BY <1>1 DEF ScopeInv
  <2> QED
    BY <2>1, <2>2
<1>6. Agree(u)'
  BY <1>1 DEF Agree, Same, SameCallee, SameValue
<1>7. Terms(t)' => Terms(u)'
  BY <1>1 DEF Terms
<1>8. result' = result /\ result = "visiting"
  BY DEF Went, IInv, Stopped, Facing
<1> QED
  BY <1>1, <1>3, <1>4, <1>5, <1>6, <1>7, <1>8 DEF IInv, Tables, Operands, Stopped

LEMMA Ending ==
  ASSUME IInv, ~Stopped, NEW s, NEW n, Facing(s, n),
         \/ Reject /\ (~Rule(s, n) \/ Withheld(s, n))
         \/ Undefined /\ (Rule(s, n) \/ Lenient(s, n)) /\ (~Rule(s, n) \/ Withheld(s, n))
  PROVE  IInv'
<1> DEFINE u == Read(s, n)
<1>1. Blamed(u) /\ u.excused = (Rule(s, n) \/ Lenient(s, n))
  BY ReadFacts DEF Facing, Tables
<1>2. u = Reading(at)
  BY ReadingSteps DEF Facing, Reading, Node
<1> HIDE DEF u
<1>3. UNCHANGED <<program, at, types, symbols, memory>> /\ stack' = <<>>
  BY DEF Reject, Undefined, End, Keep
<1>4. Reading(at)' = Reading(at) /\ Reading(at - 1)' = Reading(at - 1)
  BY <1>3 DEF Reading
<1>5. Tables(Reading(at - 1))'
  BY <1>3, <1>4 DEF IInv, Tables, TypesInv, ScopeInv
<1>6. Blamed(Reading(at))'
  BY <1>1, <1>2, <1>4 DEF Blamed
<1>7. Stopped' /\ (result' = "undefined" => Reading(at)'.excused)
  BY <1>1, <1>2, <1>4 DEF Reject, Undefined, End, Stopped
<1>8. program' \in Programs /\ at' \in 1..(Len(program') + 1) /\ at' <= Len(program')
  BY <1>3 DEF IInv, Facing
<1> QED
  BY <1>3, <1>5, <1>6, <1>7, <1>8 DEF IInv, Stopped

-----------------------------------------------------------------------------
(* Operands.                                                               *)

LEMMA Cut ==
  ASSUME NEW s, IsSeq(s), NEW k \in 0..Len(s)
  PROVE  LET c == SubSeq(s, 1, Len(s) - k)
         IN /\ IsSeq(c) /\ Len(c) = Len(s) - k
            /\ \A i \in 1..(Len(s) - k) : c[i] = s[i]
<1> DEFINE T == {s[j] : j \in DOMAIN s}
           m == Len(s) - k
<1>1. /\ \A j \in 1..Len(s) : s[j] \in T
      /\ Len(s) \in Nat
  BY SeqFacts
<1> HIDE DEF T
<1>2. m \in Nat /\ \A j \in 1..m : s[j] \in T
  BY <1>1
<1> HIDE DEF m
<1>3. /\ SubSeq(s, 1, m) \in Seq(T)
      /\ Len(SubSeq(s, 1, m)) = IF 1 <= m THEN m - 1 + 1 ELSE 0
      /\ \A j \in 1..(m - 1 + 1) : SubSeq(s, 1, m)[j] = s[1 + j - 1]
  BY <1>2, SubSeqProperties
<1>4. m - 1 + 1 = m /\ \A j \in 1..m : 1 + j - 1 = j
  BY <1>2
<1>5. Len(SubSeq(s, 1, m)) = m /\ \A j \in 1..m : SubSeq(s, 1, m)[j] = s[j]
  BY <1>2, <1>3, <1>4
<1>6. IsSeq(SubSeq(s, 1, m))
  BY <1>3, SeqIsSeq
<1> QED
  BY <1>5, <1>6 DEF m

LEMMA Pushed ==
  ASSUME NEW s, IsSeq(s), NEW k \in 0..Len(s), NEW e
  PROVE  LET a == Append(SubSeq(s, 1, Len(s) - k), e)
         IN /\ IsSeq(a) /\ Len(a) = Len(s) - k + 1
            /\ \A i \in 1..Len(a) : \/ i \in 1..(Len(s) - k) /\ a[i] = s[i]
                                    \/ i = Len(a) /\ a[i] = e
<1> DEFINE c == SubSeq(s, 1, Len(s) - k)
<1>1. /\ IsSeq(c) /\ Len(c) = Len(s) - k
      /\ \A i \in 1..(Len(s) - k) : c[i] = s[i]
  BY Cut
<1> HIDE DEF c
<1>2. Len(s) \in Nat /\ Len(s) - k \in Nat
  BY SeqFacts
<1>3. /\ IsSeq(Append(c, e)) /\ Len(Append(c, e)) = Len(c) + 1
      /\ \A i \in 1..Len(c) : Append(c, e)[i] = c[i]
      /\ Append(c, e)[Len(c) + 1] = e
  BY <1>1, Appended
<1>4. \A i \in 1..(Len(c) + 1) : i \in 1..Len(c) \/ i = Len(c) + 1
  BY <1>1, <1>2
<1> QED
  BY <1>1, <1>3, <1>4 DEF c

LEMMA StackFact ==
  ASSUME NEW s, NEW n, Facing(s, n)
  PROVE  /\ IsSeq(stack) /\ IsSeq(s.stack) /\ Len(stack) = Len(s.stack) /\ Len(stack) \in Nat
         /\ \A i \in 1..Len(stack) : Same(s, stack[i], s.stack[i])
BY SeqFacts DEF Facing, Operands, Agree

(* Terms are out of date only at a node that does not look at them.        *)
LEMMA Current ==
  ASSUME NEW s, NEW n, Facing(s, n), ~Chained, n.is # "statement"
  PROVE  /\ memory = s.memory
         /\ \A i \in 1..Len(stack) : stack[i].term = s.stack[i].term
<1>1. ~(at > 1 /\ program[at - 1].is = "assign")
  <2>1. SUFFICES ASSUME at > 1, program[at - 1].is = "assign" PROVE FALSE
    OBVIOUS
  <2>2. at - 1 \in 1..(Len(program) - 1) /\ (at - 1) + 1 = at
    BY <2>1 DEF Facing
  <2>3. program[(at - 1) + 1].is # "statement"
    BY <2>2 DEF Facing, Node
  <2> QED
    BY <2>1, <2>2, <2>3 DEF Chained
<1> QED
  BY <1>1 DEF Facing, Operands, Terms

LEMMA OperandFacts ==
  ASSUME NEW s, NEW n, Facing(s, n), NEW m, m = Arity(s, n), m \in Nat
  PROVE  /\ m \in 0..Len(stack) /\ m \in 0..Len(s.stack)
         /\ \A i \in 1..m :
              /\ Same(s, Operand(m, i), Nth(s, m, i))
              /\ ~(n.is = "call" /\ ~Constructs(s, n) /\ i = 1) => ~IsCallee(Nth(s, m, i))
              /\ n.is # "statement" => Chained \/ Operand(m, i).term = Nth(s, m, i).term
<1>1. m \in 0..Len(stack) /\ Len(stack) = Len(s.stack) /\ Len(stack) \in Nat
  BY StackFact DEF Facing, OperandsOK
<1> SUFFICES ASSUME NEW i \in 1..m
             PROVE  /\ Same(s, Operand(m, i), Nth(s, m, i))
                    /\ ~(n.is = "call" /\ ~Constructs(s, n) /\ i = 1) => ~IsCallee(Nth(s, m, i))
                    /\ n.is # "statement" => Chained \/ Operand(m, i).term = Nth(s, m, i).term
  BY <1>1
<1>2. Len(stack) - m + i \in 1..Len(stack)
  BY <1>1
<1>3. Same(s, Operand(m, i), Nth(s, m, i))
  BY <1>1, <1>2, StackFact DEF Operand, Nth
<1>4. ~(n.is = "call" /\ ~Constructs(s, n) /\ i = 1) => ~IsCallee(Nth(s, m, i))
  BY DEF Facing, OperandsOK
<1>5. n.is # "statement" => Chained \/ Operand(m, i).term = Nth(s, m, i).term
  BY <1>1, <1>2, Current DEF Operand, Nth
<1> QED
  BY <1>3, <1>4, <1>5

(* Two stacks of which v and w are the tops, on what there was before.     *)
Topped(x, y, s, v, w) ==
  /\ IsSeq(x) /\ IsSeq(y) /\ Len(x) = Len(y)
  /\ \A i \in 1..Len(x) :
       \/ i \in 1..Len(stack) /\ x[i] = stack[i] /\ y[i] = s.stack[i]
       \/ i = Len(x) /\ x[i] = v /\ y[i] = w

LEMMA BothPushed ==
  ASSUME NEW s, NEW n, Facing(s, n), NEW k \in 0..Len(s.stack), NEW v, NEW w
  PROVE  Topped(Append(SubSeq(stack, 1, Len(stack) - k), v),
                Append(SubSeq(s.stack, 1, Len(s.stack) - k), w), s, v, w)
<1> DEFINE x == Append(SubSeq(stack, 1, Len(stack) - k), v)
           y == Append(SubSeq(s.stack, 1, Len(s.stack) - k), w)
<1>1. /\ IsSeq(stack) /\ IsSeq(s.stack) /\ Len(stack) = Len(s.stack) /\ Len(stack) \in Nat
      /\ k \in 0..Len(stack)
  BY StackFact
<1>2. /\ IsSeq(x) /\ Len(x) = Len(stack) - k + 1
      /\ \A i \in 1..Len(x) : \/ i \in 1..(Len(stack) - k) /\ x[i] = stack[i]
                              \/ i = Len(x) /\ x[i] = v
  BY <1>1, Pushed
<1>3. /\ IsSeq(y) /\ Len(y) = Len(s.stack) - k + 1
      /\ \A i \in 1..Len(y) : \/ i \in 1..(Len(s.stack) - k) /\ y[i] = s.stack[i]
                              \/ i = Len(y) /\ y[i] = w
  BY <1>1, Pushed
<1>4. \A i \in 1..(Len(stack) - k) : i # Len(stack) - k + 1 /\ i \in 1..Len(stack)
  BY <1>1
<1> HIDE DEF x, y
<1>5. Topped(x, y, s, v, w)
  BY <1>1, <1>2, <1>3, <1>4 DEF Topped
<1> QED
  BY <1>5 DEF x, y

(* A visit that gives a value, and leaves the types and variables alone.   *)
LEMMA Giving ==
  ASSUME IInv, ~Stopped, NEW s, NEW n, Facing(s, n), n.is # "statement",
         Rule(s, n) \/ Lenient(s, n),
         NEW k \in 0..Len(s.stack), NEW v, NEW w, Same(s, v, w), Chained \/ v.term = w.term,
         Give(k, v), After(s, n) = Push(s, k, w)
  PROVE  IInv'
<1> DEFINE t == Push(s, k, w)
<1>1. /\ t.stack = Append(SubSeq(s.stack, 1, Len(s.stack) - k), w)
      /\ t.memory = s.memory /\ t.scope = s.scope /\ t.base = s.base
  BY DEF Push, Facing, Tables, Shape, Fields
<1>2. t = After(s, n)
  OBVIOUS
<1> HIDE DEF t
<1>3. /\ stack' = Append(SubSeq(stack, 1, Len(stack) - k), v)
      /\ at' = at + 1 /\ UNCHANGED <<program, result, types, symbols, memory>>
  BY DEF Give, GoOn, Keep, Below
<1>4. Went(s, n)
  BY <1>3 DEF Went
<1>5. \A i \in 1..Len(stack) : Same(s, stack[i], s.stack[i])
  BY StackFact
<1>6. /\ IsSeq(stack') /\ IsSeq(t.stack) /\ Len(stack') = Len(t.stack)
      /\ \A i \in 1..Len(stack') :
           \/ i \in 1..Len(stack) /\ stack'[i] = stack[i] /\ t.stack[i] = s.stack[i]
           \/ i = Len(stack') /\ stack'[i] = v /\ t.stack[i] = w
  <2>1. Topped(stack', t.stack, s, v, w)
    BY <1>1, <1>3, BothPushed
  <2> QED
    BY <2>1 DEF Topped
<1>7. TypesInv(t)'
  BY <1>1, <1>3 DEF TypesInv, Facing, Tables
<1>8. ScopeInv(t)'
  <2>1. ScopeInv(s)
    BY DEF Facing, Tables
  <2>2. ScopeInv(s)'
    BY <1>3, <2>1 DEF ScopeInv
  <2> QED
    BY <1>1, <2>2 DEF ScopeInv
<1>9. \A x, y : Same(s, x, y) => Same(t, x, y)'
  BY <1>1, <1>3 DEF Same, SameCallee, SameValue
<1>10. Agree(t)'
  <2>1. \A i \in 1..Len(stack') : Same(s, stack'[i], t.stack[i])
    BY <1>5, <1>6
  <2>2. \A i \in 1..Len(stack') : Same(t, stack[i], t.stack[i])'
    BY <2>1, <1>9
  <2> QED
    BY <1>6, <2>2 DEF Agree
<1>11. (Chained \/ Terms(t))'
  <2>1. SUFFICES ASSUME ~Chained PROVE Terms(t)'
    BY <1>3 DEF Chained
  <2>2. /\ memory = s.memory
        /\ \A i \in 1..Len(stack) : stack[i].term = s.stack[i].term
    BY <2>1, Current
  <2>3. memory' = t.memory
    BY <1>1, <1>3, <2>2
  <2>4. \A i \in 1..Len(stack') : stack'[i].term = t.stack[i].term
    BY <1>6, <2>1, <2>2
  <2> QED
    BY <2>3, <2>4 DEF Terms
<1> QED
  BY <1>2, <1>4, <1>7, <1>8, <1>10, <1>11, Going

-----------------------------------------------------------------------------
(* Types, casts and operations.                                            *)

LEMMA NameAndKind ==
  ASSUME NEW s, TypesInv(s), NEW a \in DOMAIN s.base
  PROVE  /\ types[a].name = a /\ types[a].kind = s.base[a] /\ types[a].base = s.base[a]
         /\ Underlying(types[a]).name = s.base[a] /\ Underlying(types[a]).kind = s.base[a]
         /\ s.base[a] \in BuiltIn /\ s.base[a] \in DOMAIN s.base
         /\ s.base[s.base[a]] = s.base[a] /\ a \in DOMAIN types
<1>1. types[a] = AliasType(a, Basic(s.base[a]))
  BY DEF TypesInv, TypesOK
<1>2. /\ s.base[a] \in BuiltIn /\ s.base[a] \in DOMAIN s.base
      /\ s.base[s.base[a]] = s.base[a] /\ a \in DOMAIN types
  BY DEF TypesInv, TypesOK
<1> QED
  BY <1>1, <1>2 DEF AliasType, Basic, Underlying

LEMMA TypeFacts ==
  ASSUME NEW s, TypesInv(s), NEW a \in DOMAIN s.base
  PROVE  /\ types[a].name = a /\ types[a].kind = s.base[a] /\ types[a].base = s.base[a]
         /\ s.base[a] \in BuiltIn /\ s.base[a] \in DOMAIN s.base /\ a \in DOMAIN types
         /\ \A b \in DOMAIN s.base : /\ equal(types[a], types[b]) <=> a = b
                                     /\ implicitCast(types[a], types[b]) <=> s.base[a] = b
BY NameAndKind DEF equal, implicitCast

LEMMA ValueFacts ==
  ASSUME NEW s, TypesInv(s), NEW v, NEW w, SameValue(s, v, w)
  PROVE  /\ w.type \in DOMAIN s.base /\ v.type = types[w.type] /\ v.type.kind = BaseOf(s, w)
         /\ BaseOf(s, w) \in BuiltIn \ {"void"} /\ v.mut \in BOOLEAN
         /\ Assignable(v) <=> Mutable(s, w)
         /\ Mutable(s, w) => w.var # NoName /\ w.var \in DOMAIN s.scope
BY TypeFacts DEF SameValue, Assignable, Mutable, BaseOf

(* The class of types a kind is, and what the virtual functions give it.   *)
LEMMA Classes ==
  ASSUME NEW a, NEW b, NEW c, NEW d
  PROVE  /\ \A k \in Integral : Class(a, b, c, d)[k] = a
         /\ \A k \in FP : Class(a, b, c, d)[k] = b
         /\ \A k \in Character : Class(a, b, c, d)[k] = c
         /\ \A k \in {"void", "bool", "byte", "string", "cstring", "function"} :
              Class(a, b, c, d)[k] = d[k]
<1>1. /\ Integral \subseteq Kind /\ FP \subseteq Kind /\ Character \subseteq Kind
      /\ {"void", "bool", "byte", "string", "cstring", "function"} \subseteq Kind
      /\ \A k \in FP : k \notin Integral
      /\ \A k \in Character : k \notin Integral \cup FP
      /\ \A k \in {"void", "bool", "byte", "string", "cstring", "function"} :
           k \notin Integral \cup FP \cup Character
  BY DEF Kind, BuiltIn, Integral, FP, Character
<1> QED
  BY <1>1 DEF Class

LEMMA CastTables ==
  ASSUME NEW k \in BuiltIn
  PROVE  /\ cast[k].to = IF k \in Integral THEN Integral \cup FP \cup {"byte"}
                         ELSE IF k \in FP THEN Integral \cup {"byte"}
                         ELSE IF k = "byte" THEN Integral ELSE {}
         /\ cast[k].null = IF k \in Integral \cup {"byte"} THEN {"bool"}
                           ELSE IF k = "bool" THEN Integral \cup FP \cup {"byte"} ELSE {}
<1>1. /\ \A x \in Integral : cast[x] = IntegralCasts
      /\ \A x \in FP : cast[x] = FPCasts
      /\ \A x \in Character : cast[x] = CharacterCasts
      /\ cast["void"] = VoidCasts /\ cast["bool"] = BoolCasts /\ cast["byte"] = ByteCasts
      /\ cast["string"] = StringCasts /\ cast["cstring"] = CStringCasts
  BY Classes DEF cast
<1>2. k \in Integral \cup FP \cup Character \cup {"void", "bool", "byte", "string", "cstring"}
  BY DEF BuiltIn
<1> QED
  BY <1>1, <1>2 DEF Casts, VoidCasts, IntegralCasts, BoolCasts, CharacterCasts, ByteCasts,
                    FPCasts, StringCasts, CStringCasts, Integral, FP, Character

LEMMA OperationTables ==
  ASSUME NEW k \in BuiltIn
  PROVE  /\ getOperations[k].unary = IF k \in Integral THEN {"+", "-", "not"}
                                     ELSE IF k \in FP THEN {"+", "-"}
                                     ELSE IF k = "bool" THEN {"not"} ELSE {}
         /\ getOperations[k].binary = IF k \in Numeric THEN Arithmetic \cup Comparison
                                      ELSE IF k \in Character THEN Equality
                                      ELSE IF k = "bool" THEN Equality \cup Logical ELSE {}
         /\ getOperations[k].assign = IF k \in Numeric THEN Compound \cup {"="}
                                      ELSE IF k \in {"void", "byte"} THEN {} ELSE {"="}
         /\ (getOperations[k].typed <=> k \notin FP \cup {"bool", "string", "cstring"})
         /\ getOperations[k].arbitrary = {}
<1>1. /\ \A x \in Integral : getOperations[x] = IntegralTypeOperation
      /\ \A x \in FP : getOperations[x] = FPTypeOperation
      /\ \A x \in Character : getOperations[x] = CharacterTypeOperation
      /\ getOperations["void"] = VoidTypeOperation /\ getOperations["bool"] = BoolTypeOperation
      /\ getOperations["byte"] = ByteTypeOperation
      /\ getOperations["string"] = StringTypeOperation
      /\ getOperations["cstring"] = CStringTypeOperation
  BY Classes DEF getOperations
<1>2. k \in Integral \cup FP \cup Character \cup {"void", "bool", "byte", "string", "cstring"}
  BY DEF BuiltIn
<1>3. CASE k \in Integral
  <2>1. k \in Numeric /\ k \notin FP \cup {"void", "bool", "byte", "string", "cstring"}
    BY <1>3 DEF Numeric, Integral, FP
  <2>2. getOperations[k] = IntegralTypeOperation
    BY <1>1, <1>3
  <2> QED
    BY <1>3, <2>1, <2>2 DEF IntegralTypeOperation, Operations
<1>4. CASE k \in FP
  <2>1. k \in Numeric /\ k \notin Integral /\ k \notin {"void", "byte"}
    BY <1>4 DEF Numeric, Integral, FP
  <2>2. getOperations[k] = FPTypeOperation
    BY <1>1, <1>4
  <2> QED
    BY <1>4, <2>1, <2>2 DEF FPTypeOperation, Operations
<1>5. CASE k \in Character
  <2>1. /\ k \notin Numeric /\ k \notin Integral /\ k \notin FP
        /\ k \notin {"void", "bool", "byte", "string", "cstring"}
    BY <1>5 DEF Numeric, Integral, FP, Character
  <2>2. getOperations[k] = CharacterTypeOperation
    BY <1>1, <1>5
  <2> QED
    BY <1>5, <2>1, <2>2 DEF CharacterTypeOperation, Operations
<1>6. CASE k \in {"void", "bool", "byte", "string", "cstring"}
  <2>1. k \notin Numeric /\ k \notin Integral /\ k \notin FP /\ k \notin Character
    BY <1>6 DEF Numeric, Integral, FP, Character
  <2>2. CASE k = "bool"
    <3>1. getOperations[k] = BoolTypeOperation
      BY <1>1, <2>2
    <3> QED
      BY <2>1, <2>2, <3>1 DEF BoolTypeOperation, Operations
  <2>3. CASE k \in {"string", "cstring"}
    <3>1. getOperations[k] \in {StringTypeOperation, CStringTypeOperation}
      BY <1>1, <2>3
    <3> QED
      BY <2>1, <2>3, <3>1 DEF StringTypeOperation, CStringTypeOperation, Operations
  <2>4. CASE k \in {"void", "byte"}
    <3>1. getOperations[k] \in {VoidTypeOperation, ByteTypeOperation}
      BY <1>1, <2>4
    <3> QED
      BY <2>1, <2>4, <3>1 DEF VoidTypeOperation, ByteTypeOperation, Operations
  <2> QED
    BY <1>6, <2>2, <2>3, <2>4
<1> QED
  BY <1>2, <1>3, <1>4, <1>5, <1>6

LEMMA FunctionOperations == getOperations["function"].arbitrary = {"()"}
BY Classes DEF getOperations, Operations, FunctionTypeOperation

(* A cast, of whatever node: v to the type "to".                           *)
LEMMA Casting ==
  ASSUME IInv, ~Stopped, NEW s, NEW n, Facing(s, n), n.is # "statement",
         1 \in 0..Len(s.stack),
         NEW v, NEW w, SameValue(s, v, w), Chained \/ v.term = w.term,
         NEW to \in DOMAIN s.base, Cast(v, types[to]),
         (BaseOf(s, w) \in Castable /\ s.base[to] \in Castable) \/ NullCast(s, w, s.base[to])
           => Rule(s, n) \/ Lenient(s, n),
         Rule(s, n) =>
           \/ BaseOf(s, w) \in Castable /\ s.base[to] \in Castable
           \/ Withheld(s, n),
         NullCast(s, w, s.base[to]) \/ UnknownCast(s, w, s.base[to]) =>
           ~Rule(s, n) \/ Withheld(s, n),
         After(s, n) = Push(s, 1, Rv(to, <<"as", s.base[to], w.term>>))
  PROVE  IInv'
<1> DEFINE b == BaseOf(s, w)
           u == Rv(to, <<"as", s.base[to], w.term>>)
           x == RValue(types[to], v.mut, CastTerm(types[to], v))
<1>1. TypesInv(s)
  BY DEF Facing, Tables
<1>2. /\ types[to].kind = s.base[to] /\ types[to].base = s.base[to]
      /\ s.base[to] \in BuiltIn /\ v.type.kind = b /\ b \in BuiltIn /\ v.mut \in BOOLEAN
  BY <1>1, TypeFacts, ValueFacts
<1>3. /\ b \in BuiltIn /\ s.base[to] \in BuiltIn
      /\ s.base[to] \in cast[b].null => NullCast(s, w, s.base[to])
      /\ s.base[to] \in cast[b].to => b \in Castable /\ s.base[to] \in Castable \ {"void"}
      /\ \/ s.base[to] \in cast[b].null \cup cast[b].to
         \/ ~(b \in Castable /\ s.base[to] \in Castable)
         \/ UnknownCast(s, w, s.base[to])
         \/ NullCast(s, w, s.base[to])
  BY <1>2, CastTables DEF NullCast, UnknownCast, Castable, Numeric, BuiltIn, Integral, FP
<1>4. CASE s.base[to] \in cast[b].null
  <2>1. Undefined
    BY <1>2, <1>4 DEF Cast
  <2> QED
    BY <1>3, <1>4, <2>1, Ending
<1>5. CASE s.base[to] \notin cast[b].null /\ s.base[to] \in cast[b].to
  <2>1. Give(1, x)
    BY <1>2, <1>5 DEF Cast
  <2>2. Same(s, x, u)
    <3>1. ~IsCallee(u)
      BY DEF IsCallee, Rv, Value
    <3>2. SameValue(s, x, u)
      BY <1>2, <1>3, <1>5 DEF SameValue, RValue, TypedValue, Rv, Value, Assignable
    <3> QED
      BY <3>1, <3>2 DEF Same
  <2>3. Chained \/ x.term = u.term
    BY <1>2 DEF RValue, TypedValue, CastTerm, Rv, Value
  <2>4. Rule(s, n) \/ Lenient(s, n)
    BY <1>3, <1>5
  <2> QED
    BY <2>1, <2>2, <2>3, <2>4, Giving
<1>6. CASE s.base[to] \notin cast[b].null \cup cast[b].to
  <2>1. Reject
    BY <1>2, <1>6 DEF Cast
  <2> QED
    BY <1>3, <1>6, <2>1, Ending
<1> QED
  BY <1>4, <1>5, <1>6

-----------------------------------------------------------------------------
(* Each visit.                                                             *)

LEMMA LiteralStep ==
  ASSUME IInv, Literal
  PROVE  IInv'
<1>1. Visiting("literal") /\ ~Stopped
  BY Visit DEF Literal
<1>2. PICK s, n : Facing(s, n) /\ n = Node /\ n.is = "literal"
  BY <1>1, Visit
<1> DEFINE v == Constant(types[n.type], <<"literal", n.value>>)
           w == Rv(n.type, <<"literal", n.value>>)
<1>3. Give(0, v)
  BY <1>2 DEF Literal
<1>4. n.type \in BuiltIn \ {"void"} /\ TypesInv(s)
  BY <1>2 DEF Facing, Tables, NodeOK
<1>5. Same(s, v, w)
  <2>1. ~IsCallee(w)
    BY DEF IsCallee, Rv, Value
  <2>2. n.type \in DOMAIN s.base /\ s.base[n.type] = n.type
    BY <1>4 DEF TypesInv, TypesOK
  <2>3. SameValue(s, v, w)
    BY <1>4, <2>2 DEF SameValue, Constant, TypedValue, Rv, Value, Assignable
  <2> QED
    BY <2>1, <2>3 DEF Same
<1>6. v.term = w.term
  BY DEF Constant, TypedValue, Rv, Value
<1>7. Rule(s, n)
  BY <1>2 DEF Rule
<1>8. After(s, n) = Push(s, 0, w)
  BY <1>2 DEF After
<1>9. 0 \in 0..Len(s.stack)
  BY <1>2, StackFact
<1> QED
  BY <1>1, <1>2, <1>3, <1>5, <1>6, <1>7, <1>8, <1>9, Giving

LEMMA VariableStep ==
  ASSUME IInv, VariableRef
  PROVE  IInv'
<1>1. Visiting("variable") /\ ~Stopped
  BY Visit DEF VariableRef
<1>2. PICK s, n : Facing(s, n) /\ n = Node /\ n.is = "variable"
  BY <1>1, Visit
<1>3. /\ Rule(s, n) <=> n.name \in DOMAIN s.scope
      /\ Lenient(s, n) <=> n.name \in DOMAIN Functions
  BY <1>2 DEF Rule, Lenient
<1>4. ScopeInv(s) /\ TypesInv(s)
  BY <1>2 DEF Facing, Tables
<1>5. CASE n.name \in DOMAIN s.scope
  <2> DEFINE v == TypedValue(symbols[n.name].type, "LVALUE", symbols[n.name].mut, n.name,
                             memory[n.name])
             w == Value(s.scope[n.name].type, n.name, s.memory[n.name])
  <2>1. Give(0, v)
    BY <1>2, <1>4, <1>5 DEF VariableRef, Found, ScopeInv, ScopeOK
  <2>2. Same(s, v, w)
    <3>1. ~IsCallee(w)
      BY <1>4, <1>5 DEF IsCallee, Value, ScopeInv, ScopeOK
    <3>2. /\ symbols[n.name].type = types[s.scope[n.name].type]
          /\ symbols[n.name].mut = s.scope[n.name].mut
      <4>1. symbols[n.name] = Symbol(types[s.scope[n.name].type], s.scope[n.name].mut)
        BY <1>4, <1>5 DEF ScopeInv, ScopeOK
      <4> QED
        BY <4>1 DEF Symbol
    <3>3. SameValue(s, v, w)
      BY <1>4, <1>5, <3>2 DEF SameValue, TypedValue, Value, ScopeInv, ScopeOK, Assignable
    <3> QED
      BY <3>1, <3>3 DEF Same
  <2>3. Chained \/ v.term = w.term
    BY <1>2, Current DEF TypedValue, Value
  <2>4. After(s, n) = Push(s, 0, w)
    BY <1>2, <1>5 DEF After
  <2>5. 0 \in 0..Len(s.stack)
    BY <1>2, StackFact
  <2> QED
    BY <1>1, <1>2, <1>3, <1>5, <2>1, <2>2, <2>3, <2>4, <2>5, Giving
<1>6. CASE n.name \notin DOMAIN s.scope
  <2>1. \/ Reject /\ n.name \notin DOMAIN Functions
        \/ Undefined /\ n.name \in DOMAIN Functions
    BY <1>2, <1>4, <1>6 DEF VariableRef, Found, ScopeInv, ScopeOK
  <2> QED
    BY <1>1, <1>2, <1>3, <1>6, <2>1, Ending
<1> QED
  BY <1>5, <1>6

LEMMA CalleeStep ==
  ASSUME IInv, Callee
  PROVE  IInv'
<1>1. Visiting("callee") /\ ~Stopped
  BY Visit DEF Callee
<1>2. PICK s, n : Facing(s, n) /\ n = Node /\ n.is = "callee"
  BY <1>1, Visit
<1>3. Rule(s, n) <=> Constructs(s, n) \/ n.name \in DOMAIN Functions \cup DOMAIN s.scope
  BY <1>2 DEF Rule
<1>4. ScopeInv(s) /\ TypesInv(s)
  BY <1>2 DEF Facing, Tables
<1>5. IsConstructor <=> Constructs(s, n)
  BY <1>2, <1>4 DEF IsConstructor, Constructs, Found, TypesInv, TypesOK
<1>6. CASE Constructs(s, n)
  <2>1. GoOn(stack) /\ Keep
    BY <1>5, <1>6 DEF Callee
  <2>2. After(s, n) = s
    BY <1>2, <1>6 DEF After
  <2>3. UNCHANGED <<types, symbols, memory, stack>> /\ at' = at + 1 /\ UNCHANGED <<program, result>>
    BY <2>1 DEF GoOn, Keep
  <2>4. TypesInv(s)' /\ ScopeInv(s)'
    BY <1>4, <2>3 DEF TypesInv, ScopeInv
  <2>5. Agree(s)'
    BY <1>2, <2>3 DEF Facing, Operands, Agree, Same, SameCallee, SameValue
  <2>6. (Chained \/ Terms(s))'
    <3>1. Chained \/ (memory = s.memory /\ \A i \in 1..Len(stack) : stack[i].term = s.stack[i].term)
      BY <1>2, Current
    <3>2. Chained' <=> Chained
      BY <2>3 DEF Chained
    <3> QED
      BY <2>3, <3>1, <3>2 DEF Terms
  <2>7. Went(s, n)
    BY <1>3, <1>6, <2>3 DEF Went
  <2> QED
    BY <1>1, <1>2, <2>2, <2>4, <2>5, <2>6, <2>7, Going
<1>7. CASE ~Constructs(s, n) /\ n.name \in DOMAIN symbols
  <2> DEFINE v == TypedValue(symbols[n.name].type, "LVALUE", symbols[n.name].mut, NoName,
                             <<"address", n.name>>)
             w == Rv(IF n.name \in DOMAIN Functions THEN "function" ELSE s.scope[n.name].type,
                     <<"address", n.name>>)
  <2>1. Give(0, v)
    BY <1>2, <1>5, <1>7 DEF Callee, Found
  <2>2. Same(s, v, w)
    <3>1. IsCallee(w) /\ w.term = <<"address", n.name>>
      BY DEF IsCallee, Rv, Value
    <3>2. w.type = symbols[n.name].type.name
      <4>1. CASE n.name \in DOMAIN Functions
        BY <1>4, <4>1 DEF ScopeInv, ScopeOK, Symbol, FunctionType, Basic, Rv, Value
      <4>2. CASE n.name \notin DOMAIN Functions
        <5>1. /\ n.name \in DOMAIN s.scope /\ s.scope[n.name].type \in DOMAIN s.base
              /\ symbols[n.name].type = types[s.scope[n.name].type]
          <6>1. /\ n.name \in DOMAIN s.scope /\ s.scope[n.name].type \in DOMAIN s.base
                /\ symbols[n.name] = Symbol(types[s.scope[n.name].type], s.scope[n.name].mut)
            BY <1>4, <1>7, <4>2 DEF ScopeInv, ScopeOK
          <6> QED
            BY <6>1 DEF Symbol
        <5> QED
          BY <1>4, <4>2, <5>1, NameAndKind DEF Rv, Value
      <4> QED
        BY <4>1, <4>2
    <3>3. SameCallee(v, w)
      BY <1>7, <3>1, <3>2 DEF SameCallee
    <3> QED
      BY <3>1, <3>3 DEF Same
  <2>3. v.term = w.term
    BY DEF TypedValue, Rv, Value
  <2>4. After(s, n) = Push(s, 0, w)
    BY <1>2, <1>7 DEF After
  <2>5. 0 \in 0..Len(s.stack)
    BY <1>2, StackFact
  <2>6. Rule(s, n)
    BY <1>3, <1>4, <1>7 DEF ScopeInv, ScopeOK
  <2> QED
    BY <1>1, <1>2, <2>1, <2>2, <2>3, <2>4, <2>5, <2>6, Giving
<1>8. CASE ~Constructs(s, n) /\ n.name \notin DOMAIN symbols
  <2>1. Reject
    BY <1>2, <1>5, <1>8 DEF Callee, Found
  <2>2. ~Rule(s, n)
    BY <1>3, <1>4, <1>8 DEF ScopeInv, ScopeOK
  <2> QED
    BY <1>1, <1>2, <2>1, <2>2, Ending
<1> QED
  BY <1>6, <1>7, <1>8

(* Operands that are values.                                               *)
LEMMA ValueOperands ==
  ASSUME NEW s, NEW n, Facing(s, n), NEW m \in {1, 2}, m = Arity(s, n), n.is # "statement",
         ~(n.is = "call" /\ ~Constructs(s, n))
  PROVE  /\ m \in 0..Len(s.stack)
         /\ \A i \in 1..m : /\ SameValue(s, Operand(m, i), Nth(s, m, i))
                            /\ ~IsCallee(Nth(s, m, i))
                            /\ Chained \/ Operand(m, i).term = Nth(s, m, i).term
<1>1. m \in Nat
  OBVIOUS
<1> QED
  BY <1>1, OperandFacts DEF Same

LEMMA AsStep ==
  ASSUME IInv, As
  PROVE  IInv'
<1>1. Visiting("as") /\ ~Stopped
  BY Visit DEF As
<1>2. PICK s, n : Facing(s, n) /\ n = Node /\ n.is = "as"
  BY <1>1, Visit
<1> DEFINE v == Operand(1, 1)
           w == Nth(s, 1, 1)
<1>3. TypesInv(s)
  BY <1>2 DEF Facing, Tables
<1>4. SameValue(s, v, w) /\ (Chained \/ v.term = w.term) /\ 1 \in 0..Len(s.stack)
  <2>1. Arity(s, n) = 1
    BY <1>2 DEF Arity
  <2> QED
    BY <1>2, <2>1, ValueOperands
<1>5. /\ Rule(s, n) <=> /\ n.name \in DOMAIN s.base
                        /\ BaseOf(s, w) \in Castable /\ s.base[n.name] \in Castable
      /\ Lenient(s, n) <=> n.name \in DOMAIN s.base /\ NullCast(s, w, s.base[n.name])
      /\ Withheld(s, n) <=> n.name \in DOMAIN s.base /\ UnknownCast(s, w, s.base[n.name])
  BY <1>2 DEF Rule, Lenient, Withheld
<1>6. After(s, n) = Push(s, 1, Rv(n.name, <<"as", s.base[n.name], w.term>>))
  BY <1>2 DEF After
<1> HIDE DEF v, w
<1>7. CASE n.name \in DOMAIN s.base
  <2>1. Cast(v, types[n.name])
    BY <1>2, <1>3, <1>7 DEF As, Found, TypesInv, TypesOK, v
  <2>2. NullCast(s, w, s.base[n.name]) =>
          ~(BaseOf(s, w) \in Castable /\ s.base[n.name] \in Castable)
    BY DEF NullCast, Castable, Numeric, Integral, FP
  <2> QED
    BY <1>1, <1>2, <1>4, <1>5, <1>6, <1>7, <2>1, <2>2, Casting
<1>8. CASE n.name \notin DOMAIN s.base
  <2>1. Reject
    BY <1>2, <1>3, <1>8 DEF As, Found, TypesInv, TypesOK
  <2> QED
    BY <1>1, <1>2, <1>5, <1>8, <2>1, Ending
<1> QED
  BY <1>7, <1>8

LEMMA UnaryStep ==
  ASSUME IInv, Unary
  PROVE  IInv'
<1>1. Visiting("unary") /\ ~Stopped
  BY Visit DEF Unary
<1>2. PICK s, n : Facing(s, n) /\ n = Node /\ n.is = "unary"
  BY <1>1, Visit
<1> DEFINE v == Operand(1, 1)
           w == Nth(s, 1, 1)
           b == BaseOf(s, w)
<1>3. TypesInv(s) /\ n.op \in {"+", "-", "not"}
  BY <1>2 DEF Facing, Tables, NodeOK
<1>4. SameValue(s, v, w) /\ (Chained \/ v.term = w.term) /\ 1 \in 0..Len(s.stack)
  <2>1. Arity(s, n) = 1
    BY <1>2 DEF Arity
  <2> QED
    BY <1>2, <2>1, ValueOperands
<1>5. /\ Rule(s, n) <=> \/ n.op = "+" /\ b \in Integral
                        \/ n.op = "-" /\ b \in Numeric
                        \/ n.op = "not" /\ b = "bool"
      /\ Lenient(s, n) <=> \/ n.op = "not" /\ b \in Integral
                           \/ n.op = "+" /\ b \in FP
      /\ Withheld(s, n) <=>
           n.op = "+" /\ ("int" \notin DOMAIN s.base \/ s.base["int"] \notin Castable)
  BY <1>2, <1>3 DEF Rule, Lenient, Withheld
<1>6. /\ b \in BuiltIn /\ v.type = types[w.type] /\ v.type.kind = b /\ v.mut \in BOOLEAN
      /\ w.type \in DOMAIN s.base /\ s.base[w.type] = b /\ b # "void"
  BY <1>3, <1>4, ValueFacts DEF BaseOf
<1>7. /\ OperationsOf(v).unary = IF b \in Integral THEN {"+", "-", "not"}
                                 ELSE IF b \in FP THEN {"+", "-"}
                                 ELSE IF b = "bool" THEN {"not"} ELSE {}
      /\ b \in Numeric <=> b \in Integral \/ b \in FP
      /\ b = "bool" => b \notin Integral /\ b \notin FP
  BY <1>6, OperationTables DEF OperationsOf, Numeric, Integral, FP
<1>8. n.op \in OperationsOf(v).unary <=> Rule(s, n) \/ Lenient(s, n)
  BY <1>3, <1>5, <1>7
<1> HIDE DEF v, w, b
<1>9. CASE n.op \notin OperationsOf(v).unary
  <2>1. Reject
    BY <1>2, <1>9 DEF Unary, v
  <2> QED
    BY <1>1, <1>2, <1>8, <1>9, <2>1, Ending
<1>10. CASE n.op \in OperationsOf(v).unary /\ n.op # "+"
  <2> DEFINE x == RValue(v.type, v.mut, <<n.op, v.term>>)
             u == Rv(w.type, <<n.op, w.term>>)
  <2>1. Give(1, x)
    BY <1>2, <1>10 DEF Unary, v
  <2>2. Same(s, x, u)
    <3>1. ~IsCallee(u)
      BY <1>3 DEF IsCallee, Rv, Value
    <3>2. SameValue(s, x, u)
      BY <1>6 DEF SameValue, RValue, TypedValue, Rv, Value, Assignable
    <3> QED
      BY <3>1, <3>2 DEF Same
  <2>3. Chained \/ x.term = u.term
    BY <1>4 DEF RValue, TypedValue, Rv, Value
  <2>4. After(s, n) = Push(s, 1, u)
    BY <1>2, <1>10 DEF After, w
  <2> QED
    BY <1>1, <1>2, <1>4, <1>8, <1>10, <2>1, <2>2, <2>3, <2>4, Giving
<1>11. CASE n.op \in OperationsOf(v).unary /\ n.op = "+" /\ "int" \in DOMAIN s.base
  <2>1. Cast(v, types["int"])
    BY <1>2, <1>3, <1>11 DEF Unary, v, Found, TypesInv, TypesOK
  <2>2. After(s, n) = Push(s, 1, Rv("int", <<"as", s.base["int"], w.term>>))
    BY <1>2, <1>11 DEF After, IntName, w
  <2>3. b \in Integral \/ b \in FP
    BY <1>7, <1>11
  <2>4. /\ NullCast(s, w, s.base["int"]) => s.base["int"] \notin Castable
        /\ b \in Castable /\ b # "bool"
        /\ UnknownCast(s, w, s.base["int"]) => b \in FP /\ b \notin Integral
    BY <2>3 DEF NullCast, UnknownCast, b, Castable, Numeric, Integral, FP
  <2>5. NullCast(s, w, s.base["int"]) \/ UnknownCast(s, w, s.base["int"]) =>
          ~Rule(s, n) \/ Withheld(s, n)
    BY <1>5, <1>11, <2>4
  <2>6. Rule(s, n) => (BaseOf(s, w) \in Castable /\ s.base["int"] \in Castable) \/ Withheld(s, n)
    BY <1>5, <1>11, <2>4 DEF b
  <2> QED
    BY <1>1, <1>2, <1>4, <1>8, <1>11, <2>1, <2>2, <2>5, <2>6, Casting
<1>12. CASE n.op \in OperationsOf(v).unary /\ n.op = "+" /\ "int" \notin DOMAIN s.base
  <2>1. Undefined
    BY <1>2, <1>3, <1>12 DEF Unary, v, Found, TypesInv, TypesOK
  <2> QED
    BY <1>1, <1>2, <1>5, <1>8, <1>12, <2>1, Ending
<1> QED
  BY <1>9, <1>10, <1>11, <1>12

LEMMA BinaryStep ==
  ASSUME IInv, Binary
  PROVE  IInv'
<1>1. Visiting("binary") /\ ~Stopped
  BY Visit DEF Binary
<1>2. PICK s, n : Facing(s, n) /\ n = Node /\ n.is = "binary"
  BY <1>1, Visit
<1> DEFINE l == Operand(2, 1)
           r == Operand(2, 2)
           wl == Nth(s, 2, 1)
           wr == Nth(s, 2, 2)
           b == BaseOf(s, wl)
<1>3. TypesInv(s) /\ n.op \in Arithmetic \cup Comparison \cup Logical
  BY <1>2 DEF Facing, Tables, NodeOK
<1>4. /\ SameValue(s, l, wl) /\ (Chained \/ l.term = wl.term)
      /\ SameValue(s, r, wr) /\ (Chained \/ r.term = wr.term)
      /\ 2 \in 0..Len(s.stack)
  <2>1. Arity(s, n) = 2
    BY <1>2 DEF Arity
  <2> QED
    BY <1>2, <2>1, ValueOperands
<1>5. /\ Rule(s, n) <=> /\ wl.type = wr.type
                        /\ n.op \in Arithmetic => b \in Numeric
                        /\ n.op \in Logical => b = "bool"
      /\ Withheld(s, n) <=>
           \/ n.op \in Comparison \ Equality /\ b \notin Numeric
           \/ n.op \in Equality /\ b \in {"byte", "string", "cstring"}
  BY <1>2, <1>3 DEF Rule, Withheld
<1>6. /\ b \in BuiltIn /\ l.type = types[wl.type] /\ l.type.kind = b /\ l.mut \in BOOLEAN
      /\ wl.type \in DOMAIN s.base /\ s.base[wl.type] = b /\ b # "void"
      /\ r.type = types[wr.type] /\ wr.type \in DOMAIN s.base
  BY <1>3, <1>4, ValueFacts DEF BaseOf
<1>7. equal(l.type, r.type) <=> wl.type = wr.type
  BY <1>3, <1>6, TypeFacts
<1>8. n.op \in OperationsOf(l).binary <=>
        \/ n.op \in Arithmetic \cup Comparison /\ b \in Numeric
        \/ n.op \in Equality /\ b \in Character \cup {"bool"}
        \/ n.op \in Logical /\ b = "bool"
  <2>1. OperationsOf(l).binary = IF b \in Numeric THEN Arithmetic \cup Comparison
                                 ELSE IF b \in Character THEN Equality
                                 ELSE IF b = "bool" THEN Equality \cup Logical ELSE {}
    BY <1>6, OperationTables DEF OperationsOf
  <2>2. /\ b \in Character \cup {"bool"} => b \notin Numeric
        /\ b = "bool" => b \notin Character
        /\ Equality \subseteq Comparison
    BY DEF Numeric, Integral, FP, Character, Comparison
  <2> QED
    BY <2>1, <2>2
<1>9. HasBinary(n.op, l, r) <=> n.op \in OperationsOf(l).binary /\ wl.type = wr.type
  BY <1>7 DEF HasBinary
<1>10. /\ n.op \in Equality \/ n.op \in Comparison \ Equality \/ n.op \in Arithmetic
          \/ n.op \in Logical
       /\ n.op \in Comparison => n.op \notin Arithmetic /\ n.op \notin Logical
       /\ n.op \in Arithmetic => n.op \notin Logical
       /\ Equality \subseteq Comparison
       /\ n.op # "address"
  BY <1>3 DEF Arithmetic, Comparison, Equality, Logical
<1>11. /\ HasBinary(n.op, l, r) => Rule(s, n)
       /\ ~HasBinary(n.op, l, r) => ~Rule(s, n) \/ Withheld(s, n)
  <2>1. b \in Numeric => b # "bool"
    BY DEF Numeric, Integral, FP
  <2>2. \/ b \in Numeric \/ b \in Character \cup {"bool"} \/ b \in {"byte", "string", "cstring"}
    BY <1>6 DEF BuiltIn, Numeric
  <2> QED
    BY <1>5, <1>8, <1>9, <1>10, <2>1, <2>2
<1> HIDE DEF l, r, wl, wr, b
<1>12. CASE HasBinary(n.op, l, r)
  <2> DEFINE x == BinaryValue(n.op, l, r)
             u == Rv(ResultOf(n.op, wl), <<n.op, wl.term, wr.term>>)
  <2>1. Give(2, x)
    BY <1>2, <1>12 DEF Binary, l, r
  <2>2. Same(s, x, u)
    <3>1. ~IsCallee(u)
      BY <1>10 DEF IsCallee, Rv, Value
    <3>2. /\ ResultOf(n.op, wl) \in DOMAIN s.base
          /\ s.base[ResultOf(n.op, wl)] # "void"
          /\ BinaryType(n.op, l) = types[ResultOf(n.op, wl)]
      <4>1. "bool" \in DOMAIN s.base /\ s.base["bool"] = "bool"
        BY <1>3 DEF TypesInv, TypesOK, BuiltIn
      <4> QED
        BY <1>6, <4>1 DEF ResultOf, BinaryType
    <3>3. SameValue(s, x, u)
      BY <1>6, <3>2 DEF SameValue, BinaryValue, RValue, TypedValue, Rv, Value, Assignable
    <3> QED
      BY <3>1, <3>3 DEF Same
  <2>3. Chained \/ x.term = u.term
    BY <1>4 DEF BinaryValue, RValue, TypedValue, Rv, Value
  <2>4. After(s, n) = Push(s, 2, u)
    BY <1>2 DEF After, wl, wr
  <2> QED
    BY <1>1, <1>2, <1>4, <1>11, <1>12, <2>1, <2>2, <2>3, <2>4, Giving
<1>13. CASE ~HasBinary(n.op, l, r)
  <2>1. Reject
    BY <1>2, <1>13 DEF Binary, l, r
  <2> QED
    BY <1>1, <1>2, <1>11, <1>13, <2>1, Ending
<1> QED
  BY <1>12, <1>13

LEMMA AssignmentRule ==
  ASSUME NEW s, NEW n, Facing(s, n), n.is = "assign"
  PROVE  LET l == Operand(2, 1)
             r == Operand(2, 2)
         IN /\ CanAssign(n.op, l, r) => Rule(s, n) \/ Lenient(s, n)
            /\ ~CanAssign(n.op, l, r) => ~Rule(s, n) \/ Withheld(s, n)
            /\ CanAssign(n.op, l, r) => Mutable(s, Nth(s, 2, 1))
<1> DEFINE l == Operand(2, 1)
           r == Operand(2, 2)
           wl == Nth(s, 2, 1)
           wr == Nth(s, 2, 2)
           b == BaseOf(s, wl)
<1>1. TypesInv(s) /\ n.op \in Compound \cup {"="} /\ "=" \notin Compound
  BY DEF Facing, Tables, NodeOK, Compound
<1>2. SameValue(s, l, wl) /\ SameValue(s, r, wr)
  <2>1. Arity(s, n) = 2
    BY DEF Arity
  <2> QED
    BY <2>1, ValueOperands
<1>3. /\ Rule(s, n) <=> /\ Mutable(s, wl) /\ wl.type = wr.type
                        /\ n.op \in Compound => b \in Numeric
      /\ Lenient(s, n) <=> /\ n.op = "=" /\ Mutable(s, wl)
                           /\ b \in FP \cup {"bool", "string", "cstring"}
      /\ Withheld(s, n) <=> b = "byte"
  BY DEF Rule, Lenient, Withheld
<1>4. /\ b \in BuiltIn /\ l.type = types[wl.type] /\ l.type.kind = b
      /\ wl.type \in DOMAIN s.base /\ b # "void"
      /\ r.type = types[wr.type] /\ wr.type \in DOMAIN s.base
      /\ Assignable(l) <=> Mutable(s, wl)
  BY <1>1, <1>2, ValueFacts DEF BaseOf
<1>5. /\ equal(l.type, r.type) <=> wl.type = wr.type
      /\ equal(r.type, l.type) <=> wl.type = wr.type
      /\ equal(l.type, l.type)
  BY <1>1, <1>4, TypeFacts
<1>6. n.op \in Compound => OfCompound[n.op] \in Arithmetic
  BY DEF OfCompound, Compound, Arithmetic
<1> HIDE DEF l, r, wl, wr, b
<1>7. /\ OperationsOf(l).binary = IF b \in Numeric THEN Arithmetic \cup Comparison
                                  ELSE IF b \in Character THEN Equality
                                  ELSE IF b = "bool" THEN Equality \cup Logical ELSE {}
      /\ OperationsOf(l).assign = IF b \in Numeric THEN Compound \cup {"="}
                                  ELSE IF b \in {"void", "byte"} THEN {} ELSE {"="}
      /\ OperationsOf(l).typed <=> b \notin FP \cup {"bool", "string", "cstring"}
  <2>1. OperationsOf(l) = getOperations[b] /\ b \in BuiltIn
    BY <1>4 DEF OperationsOf
  <2>2. getOperations[b].typed <=> b \notin FP \cup {"bool", "string", "cstring"}
    BY <2>1, OperationTables
  <2>3. getOperations[b].binary = IF b \in Numeric THEN Arithmetic \cup Comparison
                                  ELSE IF b \in Character THEN Equality
                                  ELSE IF b = "bool" THEN Equality \cup Logical ELSE {}
    BY <2>1, OperationTables
  <2>4. getOperations[b].assign = IF b \in Numeric THEN Compound \cup {"="}
                                  ELSE IF b \in {"void", "byte"} THEN {} ELSE {"="}
    BY <2>1, OperationTables
  <2> QED
    BY <2>1, <2>2, <2>3, <2>4
<1>8. n.op \in Compound => AssignedValue(n.op, l, r).type = l.type
  BY <1>6 DEF AssignedValue, BinaryValue, BinaryType, RValue, TypedValue
<1>9. n.op \notin Compound => AssignedValue(n.op, l, r) = r
  BY DEF AssignedValue
<1>10. b \in Numeric => b \notin {"void", "byte"}
  BY DEF Numeric, Integral, FP
<1>11. n.op \in Compound /\ b \in Numeric =>
         (HasBinary(OfCompound[n.op], l, r) <=> wl.type = wr.type)
  BY <1>5, <1>6, <1>7 DEF HasBinary
<1>12. n.op \in OperationsOf(l).assign <=>
         b # "byte" /\ (n.op \in Compound => b \in Numeric)
  BY <1>1, <1>4, <1>7, <1>10
<1>13. CASE n.op \in Compound
  <2>1. CanAssign(n.op, l, r) <=> /\ b \in Numeric /\ Mutable(s, wl) /\ wl.type = wr.type
                                  /\ b # "byte"
    BY <1>4, <1>5, <1>8, <1>11, <1>12, <1>13 DEF CanAssign
  <2> QED
    BY <1>3, <1>13, <2>1 DEF l, r, wl
<1>14. CASE n.op = "="
  <2>1. CanAssign(n.op, l, r) <=>
          /\ b # "byte" /\ Mutable(s, wl)
          /\ b \notin FP \cup {"bool", "string", "cstring"} => wl.type = wr.type
    BY <1>1, <1>4, <1>5, <1>7, <1>9, <1>12, <1>14 DEF CanAssign
  <2> QED
    BY <1>1, <1>3, <1>14, <2>1 DEF l, r, wl
<1> QED
  BY <1>1, <1>13, <1>14

LEMMA AssignmentStep ==
  ASSUME IInv, Assignment
  PROVE  IInv'
<1>1. Visiting("assign") /\ ~Stopped
  BY Visit DEF Assignment
<1>2. PICK s, n : Facing(s, n) /\ n = Node /\ n.is = "assign"
  BY <1>1, Visit
<1> DEFINE l == Operand(2, 1)
           r == Operand(2, 2)
           wl == Nth(s, 2, 1)
           wr == Nth(s, 2, 2)
           new == Stored(n, wl, wr)
           w == Value(wl.type, wl.var, new)
<1>3. /\ SameValue(s, l, wl) /\ (Chained \/ l.term = wl.term)
      /\ SameValue(s, r, wr) /\ (Chained \/ r.term = wr.term)
      /\ 2 \in 0..Len(s.stack) /\ ~IsCallee(wr)
  <2>1. Arity(s, n) = 2
    BY <1>2 DEF Arity
  <2> QED
    BY <1>2, <2>1, ValueOperands
<1>4. CASE ~CanAssign(n.op, l, r)
  <2>1. Reject
    BY <1>2, <1>4 DEF Assignment
  <2>2. ~Rule(s, n) \/ Withheld(s, n)
    BY <1>2, <1>4, AssignmentRule
  <2> QED
    BY <1>1, <1>2, <2>1, <2>2, Ending
<1>5. CASE CanAssign(n.op, l, r)
  <2>1. /\ stack' = Append(SubSeq(stack, 1, Len(stack) - 2), l)
        /\ memory' = [memory EXCEPT ![l.from] = AssignedValue(n.op, l, r).term]
        /\ at' = at + 1 /\ UNCHANGED <<program, result, types, symbols>>
    BY <1>2, <1>5 DEF Assignment, GoOn, Below
  <2>2. Rule(s, n) \/ Lenient(s, n)
    BY <1>2, <1>5, AssignmentRule
  <2>3. Went(s, n)
    BY <2>1, <2>2 DEF Went
  <2>4. TypesInv(s) /\ ScopeInv(s) /\ Shape(s)
    BY <1>2 DEF Facing, Tables
  <2>5. wl.var = l.from /\ l.from # NoName /\ l.from \in DOMAIN s.scope
    <3>1. Mutable(s, wl)
      BY <1>2, <1>5, AssignmentRule
    <3> QED
      BY <1>3, <3>1 DEF Mutable, SameValue
  <2>6. n.op \in Compound \cup {"="} /\ "=" \notin Compound /\ "address" \notin Arithmetic
        /\ (n.op \in Compound => OfCompound[n.op] \in Arithmetic)
    BY <1>2 DEF Facing, NodeOK, Compound, OfCompound, Arithmetic
  <2>7. Chained \/ AssignedValue(n.op, l, r).term = new
    BY <1>3, <2>6 DEF AssignedValue, BinaryValue, RValue, TypedValue, Stored
  <2>8. new[1] # "address"
    <3>1. CASE n.op = "="
      BY <1>3, <3>1 DEF Stored, IsCallee
    <3>2. CASE n.op \in Compound
      <4>1. new = <<OfCompound[n.op], wl.term, wr.term>>
        BY <2>6, <3>2 DEF Stored
      <4>2. new[1] = OfCompound[n.op]
        BY <4>1
      <4> QED
        BY <2>6, <3>2, <4>2
    <3> QED
      BY <2>6, <3>1, <3>2
  <2> DEFINE m == [s EXCEPT !.memory[wl.var] = new]
             t == Push(m, 2, w)
  <2>9. t = After(s, n)
    BY <1>2 DEF After
  <2>10. /\ t.stack = Append(SubSeq(s.stack, 1, Len(s.stack) - 2), w)
         /\ t.memory = [s.memory EXCEPT ![wl.var] = new]
         /\ t.scope = s.scope /\ t.base = s.base
    BY <2>4 DEF Push, Shape, Fields
  <2>11. SameValue(s, l, w) /\ ~IsCallee(w)
    BY <1>3, <2>8 DEF SameValue, Value, IsCallee
  <2> HIDE DEF t, m, w, new, l, r, wl, wr
  <2>12. /\ IsSeq(stack') /\ IsSeq(t.stack) /\ Len(stack') = Len(t.stack)
         /\ \A i \in 1..Len(stack') :
              \/ i \in 1..Len(stack) /\ stack'[i] = stack[i] /\ t.stack[i] = s.stack[i]
              \/ i = Len(stack') /\ stack'[i] = l /\ t.stack[i] = w
    <3>1. PICK k \in 0..Len(s.stack) : k = 2
      BY <1>3
    <3>2. Topped(Append(SubSeq(stack, 1, Len(stack) - k), l),
                 Append(SubSeq(s.stack, 1, Len(s.stack) - k), w), s, l, w)
      BY <1>2, BothPushed
    <3>3. Topped(stack', t.stack, s, l, w)
      BY <2>1, <2>10, <3>1, <3>2
    <3> QED
      BY <3>3 DEF Topped
  <2>13. TypesInv(t)'
    BY <2>1, <2>4, <2>10 DEF TypesInv
  <2>14. ScopeInv(t)'
    <3>1. DOMAIN memory' = DOMAIN s.scope /\ DOMAIN t.memory = DOMAIN s.scope
      BY <2>1, <2>4, <2>10 DEF ScopeInv, ScopeOK
    <3>2. \A v \in DOMAIN s.scope : t.memory[v][1] # "address"
      BY <2>4, <2>5, <2>8, <2>10 DEF ScopeInv, ScopeOK
    <3>3. /\ DOMAIN symbols' = DOMAIN s.scope \cup DOMAIN Functions
          /\ DOMAIN s.scope \cap DOMAIN Functions = {} /\ NoName \notin DOMAIN s.scope
          /\ \A f \in DOMAIN Functions : symbols'[f] = Symbol(FunctionType, FALSE)
          /\ \A v \in DOMAIN s.scope :
               /\ s.scope[v].type \in DOMAIN s.base /\ s.base[s.scope[v].type] # "void"
               /\ s.scope[v].mut \in BOOLEAN
               /\ symbols'[v] = Symbol(types'[s.scope[v].type], s.scope[v].mut)
      BY <2>1, <2>4 DEF ScopeInv, ScopeOK
    <3> QED
      BY <2>10, <3>1, <3>2, <3>3 DEF ScopeInv, ScopeOK
  <2>15. Agree(t)'
    <3>1. \A x, y : Same(s, x, y) => Same(t, x, y)'
      BY <2>1, <2>10 DEF Same, SameCallee, SameValue
    <3>2. Same(s, l, w)
      BY <2>11 DEF Same
    <3>3. \A i \in 1..Len(stack) : Same(s, stack[i], s.stack[i])
      BY <1>2, StackFact
    <3>4. \A i \in 1..Len(stack') : Same(s, stack'[i], t.stack[i])
      BY <2>12, <3>2, <3>3
    <3>5. \A i \in 1..Len(stack') : Same(t, stack[i], t.stack[i])'
      BY <3>1, <3>4
    <3> QED
      BY <2>12, <3>5 DEF Agree
  <2>16. (Chained \/ Terms(t))'
    <3>1. SUFFICES ASSUME ~Chained PROVE Terms(t)'
      BY <2>1 DEF Chained
    <3>2. memory = s.memory /\ \A i \in 1..Len(stack) : stack[i].term = s.stack[i].term
      BY <1>2, <3>1, Current
    <3>3. memory' = t.memory
      BY <2>1, <2>5, <2>7, <2>10, <3>1, <3>2
    <3>4. at' > 1 /\ program'[at' - 1].is = "assign"
      BY <1>2, <2>1 DEF Facing, Node
    <3>5. \A i \in 1..Len(stack') : stack'[i].term = t.stack[i].term \/ i = Len(stack')
      BY <2>12, <3>2
    <3> QED
      BY <3>3, <3>4, <3>5 DEF Terms
  <2> QED
    BY <1>1, <1>2, <2>3, <2>9, <2>13, <2>14, <2>15, <2>16, Going
<1> QED
  BY <1>4, <1>5

(* The operands of a call that is not a cast.                              *)
LEMMA CallOperands ==
  ASSUME NEW s, NEW n, Facing(s, n), n.is = "call", ~Constructs(s, n)
  PROVE  /\ n.args \in Nat /\ n.args + 1 \in 0..Len(s.stack)
         /\ n.name \in DOMAIN symbols
         /\ Operand(n.args + 1, 1).type = symbols[n.name].type
         /\ \A i \in 1..n.args :
              /\ SameValue(s, Operand(n.args, i), Nth(s, n.args, i))
              /\ Chained \/ Operand(n.args, i).term = Nth(s, n.args, i).term
<1>1. n.args \in Nat /\ Arity(s, n) = n.args + 1
  BY DEF Facing, NodeOK, Arity
<1>2. PICK m \in Nat : m = n.args + 1
  BY <1>1
<1>3. /\ m \in 0..Len(stack) /\ m \in 0..Len(s.stack)
      /\ \A i \in 1..m : /\ Same(s, Operand(m, i), Nth(s, m, i))
                         /\ i # 1 => ~IsCallee(Nth(s, m, i))
                         /\ Chained \/ Operand(m, i).term = Nth(s, m, i).term
  BY <1>1, <1>2, OperandFacts
<1>4. n.name \in DOMAIN symbols /\ Operand(m, 1).type = symbols[n.name].type
  <2>1. Nth(s, m, 1).term = <<"address", n.name>>
    BY <1>1, <1>2 DEF Facing, OperandsOK
  <2>2. SameCallee(Operand(m, 1), Nth(s, m, 1))
    <3>1. IsCallee(Nth(s, m, 1))
      BY <2>1 DEF IsCallee
    <3>2. 1 \in 1..m
      BY <1>1, <1>2
    <3>3. Same(s, Operand(m, 1), Nth(s, m, 1))
      BY <1>3, <3>2
    <3> QED
      BY <3>1, <3>3 DEF Same
  <2>3. PICK name \in DOMAIN symbols :
          /\ Nth(s, m, 1).term = <<"address", name>>
          /\ Operand(m, 1) = TypedValue(symbols[name].type, "LVALUE", symbols[name].mut, NoName,
                                        Nth(s, m, 1).term)
    BY <2>2 DEF SameCallee
  <2>4. name = n.name
    BY <2>1, <2>3
  <2> QED
    BY <2>3, <2>4 DEF TypedValue
<1>5. ASSUME NEW i \in 1..n.args
      PROVE  /\ SameValue(s, Operand(n.args, i), Nth(s, n.args, i))
             /\ Chained \/ Operand(n.args, i).term = Nth(s, n.args, i).term
  <2>1. i + 1 \in 1..m /\ i + 1 # 1
    BY <1>1, <1>2
  <2>2. /\ Len(stack) - m + (i + 1) = Len(stack) - n.args + i
        /\ Len(s.stack) - m + (i + 1) = Len(s.stack) - n.args + i
    <3>1. Len(stack) \in Nat /\ Len(s.stack) \in Nat
      BY StackFact
    <3>2. \A a, l \in Nat : \A j \in 1..a : l - (a + 1) + (j + 1) = l - a + j
      OBVIOUS
    <3> QED
      BY <1>1, <1>2, <3>1, <3>2
  <2>3. Operand(m, i + 1) = Operand(n.args, i) /\ Nth(s, m, i + 1) = Nth(s, n.args, i)
    BY <2>2 DEF Operand, Nth
  <2> QED
    BY <1>3, <2>1, <2>3 DEF Same
<1> QED
  BY <1>1, <1>2, <1>3, <1>4, <1>5

LEMMA FitsRule ==
  ASSUME NEW s, NEW n, Facing(s, n), n.is = "call", ~Constructs(s, n),
         n.name \in DOMAIN Functions
  PROVE  /\ Fits(n.name, n.args) => Lenient(s, n)
         /\ ~Fits(n.name, n.args) => ~Rule(s, n)
<1> DEFINE params == Functions[n.name].params
           Type(i) == Nth(s, n.args, i).type
<1>1. /\ n.args \in Nat
      /\ \A i \in 1..n.args : SameValue(s, Operand(n.args, i), Nth(s, n.args, i))
  BY CallOperands
<1>2. TypesInv(s)
  BY DEF Facing, Tables
<1>3. /\ Len(params) \in Nat /\ DOMAIN params = 1..Len(params)
      /\ \A i \in 1..Len(params) : params[i] \in DOMAIN s.base
  <2>1. params \in Seq({t \in DOMAIN GivenTypes : GivenTypes[t].kind # "void"})
    BY FunctionsAssumption
  <2>2. /\ Len(params) \in Nat /\ DOMAIN params = 1..Len(params)
        /\ \A i \in 1..Len(params) : params[i] \in DOMAIN GivenTypes
    BY <2>1
  <2> QED
    BY <1>2, <2>2 DEF TypesInv, TypesOK
<1>4. \A i \in 1..n.args : Arguments(s, n)[i].type = Type(i)
  BY DEF Arguments
<1>5. /\ Rule(s, n) <=> [i \in 1..n.args |-> Arguments(s, n)[i].type] = params
      /\ Lenient(s, n) <=> /\ n.args = Len(params)
                           /\ \A i \in 1..n.args : \/ Arguments(s, n)[i].type = params[i]
                                                   \/ AliasOf(s, Arguments(s, n)[i], params[i])
  BY DEF Rule, Lenient
<1>6. ASSUME n.args = Len(params), NEW i \in 1..n.args
      PROVE  isSameOrImplicitlyCastable(Operand(n.args, i).type, types[params[i]]) <=>
               \/ Arguments(s, n)[i].type = params[i]
               \/ AliasOf(s, Arguments(s, n)[i], params[i])
  <2>1. Type(i) \in DOMAIN s.base /\ Operand(n.args, i).type = types[Type(i)]
    BY <1>1 DEF SameValue
  <2>2. params[i] \in DOMAIN s.base
    BY <1>3, <1>6
  <2> QED
    BY <1>2, <1>4, <2>1, <2>2, TypeFacts DEF isSameOrImplicitlyCastable, AliasOf
<1>7. Fits(n.name, n.args) <=> Lenient(s, n)
  BY <1>5, <1>6 DEF Fits
<1>8. Rule(s, n) => Lenient(s, n)
  <2> SUFFICES ASSUME Rule(s, n) PROVE Lenient(s, n)
    OBVIOUS
  <2>1. params = [i \in 1..n.args |-> Arguments(s, n)[i].type]
    BY <1>5
  <2>2. 1..Len(params) = 1..n.args /\ \A i \in 1..n.args : params[i] = Arguments(s, n)[i].type
    BY <1>3, <2>1
  <2>3. Len(params) = n.args
    <3>1. ~(Len(params) < n.args)
      <4>1. Len(params) < n.args => n.args \in 1..n.args /\ n.args \notin 1..Len(params)
        BY <1>1, <1>3
      <4> QED
        BY <2>2, <4>1
    <3>2. ~(n.args < Len(params))
      <4>1. n.args < Len(params) => Len(params) \in 1..Len(params) /\ Len(params) \notin 1..n.args
        BY <1>1, <1>3
      <4> QED
        BY <2>2, <4>1
    <3> QED
      BY <1>1, <1>3, <3>1, <3>2
  <2> QED
    BY <1>5, <2>2, <2>3
<1> QED
  BY <1>7, <1>8

LEMMA CallStep ==
  ASSUME IInv, Call
  PROVE  IInv'
<1>1. Visiting("call") /\ ~Stopped
  BY Visit DEF Call
<1>2. PICK s, n : Facing(s, n) /\ n = Node /\ n.is = "call"
  BY <1>1, Visit
<1>3. TypesInv(s) /\ ScopeInv(s)
  BY <1>2 DEF Facing, Tables
<1>4. IsConstructor <=> Constructs(s, n)
  BY <1>2, <1>3 DEF IsConstructor, Constructs, Found, TypesInv, TypesOK
<1>5. CASE Constructs(s, n)
  <2> DEFINE v == Operand(1, 1)
             w == Nth(s, 1, 1)
  <2>1. SameValue(s, v, w) /\ (Chained \/ v.term = w.term) /\ 1 \in 0..Len(s.stack)
    <3>1. Arity(s, n) = 1
      BY <1>2, <1>5 DEF Arity
    <3> QED
      BY <1>2, <1>5, <3>1, ValueOperands
  <2>2. /\ Rule(s, n) <=> BaseOf(s, w) \in Castable /\ s.base[n.name] \in Castable
        /\ Lenient(s, n) <=> NullCast(s, w, s.base[n.name])
        /\ Withheld(s, n) <=> UnknownCast(s, w, s.base[n.name])
    BY <1>2, <1>5 DEF Rule, Lenient, Withheld
  <2>3. After(s, n) = Push(s, 1, Rv(n.name, <<"as", s.base[n.name], w.term>>))
    BY <1>2, <1>5 DEF After
  <2>4. Cast(v, types[n.name]) /\ n.name \in DOMAIN s.base
    BY <1>2, <1>4, <1>5 DEF Call, Constructs
  <2> HIDE DEF v, w
  <2>5. NullCast(s, w, s.base[n.name]) =>
          ~(BaseOf(s, w) \in Castable /\ s.base[n.name] \in Castable)
    BY DEF NullCast, Castable, Numeric, Integral, FP
  <2> QED
    BY <1>1, <1>2, <2>1, <2>2, <2>3, <2>4, <2>5, Casting
<1>6. CASE ~Constructs(s, n) /\ n.name \notin DOMAIN Functions
  <2>1. n.name \in DOMAIN symbols /\ Operand(n.args + 1, 1).type = symbols[n.name].type
    BY <1>2, <1>6, CallOperands
  <2>2. /\ s.scope[n.name].type \in DOMAIN s.base
        /\ symbols[n.name] = Symbol(types[s.scope[n.name].type], s.scope[n.name].mut)
    BY <1>3, <1>6, <2>1 DEF ScopeInv, ScopeOK
  <2>3. symbols[n.name].type.kind \in BuiltIn
    BY <1>3, <2>2, NameAndKind DEF Symbol
  <2>4. OperationsOf(Operand(n.args + 1, 1)).arbitrary = {}
    BY <2>1, <2>3, OperationTables DEF OperationsOf
  <2>5. Reject
    BY <1>2, <1>4, <1>6, <2>4 DEF Call
  <2>6. ~Rule(s, n)
    BY <1>2, <1>6 DEF Rule
  <2> QED
    BY <1>1, <1>2, <2>5, <2>6, Ending
<1>7. CASE ~Constructs(s, n) /\ n.name \in DOMAIN Functions
  <2> DEFINE ret == Functions[n.name].ret
             x == RValue(types[ret], FALSE,
                         <<"call", n.name, [i \in 1..n.args |-> Operand(n.args, i).term]>>)
             u == Rv(ret, <<"call", n.name, [i \in 1..n.args |-> Arguments(s, n)[i].term]>>)
  <2>1. "()" \in OperationsOf(Operand(n.args + 1, 1)).arbitrary
    <3>1. /\ Operand(n.args + 1, 1).type = symbols[n.name].type
          /\ symbols[n.name] = Symbol(FunctionType, FALSE)
      BY <1>2, <1>3, <1>7, CallOperands DEF ScopeInv, ScopeOK
    <3>2. symbols[n.name].type.kind = "function"
      BY <3>1 DEF Symbol, FunctionType, Basic
    <3> QED
      BY <3>1, <3>2, FunctionOperations DEF OperationsOf
  <2>2. ret \in DOMAIN s.base /\ types[ret].kind = s.base[ret]
    <3>1. ret \in DOMAIN s.base
      BY <1>3, <1>7, FunctionsAssumption DEF TypesInv, TypesOK
    <3> QED
      BY <1>3, <3>1, NameAndKind
  <2>3. CASE ~Fits(n.name, n.args)
    <3>1. Reject
      BY <1>2, <1>4, <1>7, <2>1, <2>3 DEF Call
    <3>2. ~Rule(s, n)
      BY <1>2, <1>7, <2>3, FitsRule
    <3> QED
      BY <1>1, <1>2, <3>1, <3>2, Ending
  <2>4. CASE Fits(n.name, n.args) /\ s.base[ret] = "void"
    <3>1. Undefined
      BY <1>2, <1>4, <1>7, <2>1, <2>2, <2>4 DEF Call
    <3>2. Lenient(s, n) /\ Withheld(s, n)
      BY <1>2, <1>7, <2>4, FitsRule DEF Withheld
    <3> QED
      BY <1>1, <1>2, <3>1, <3>2, Ending
  <2>5. CASE Fits(n.name, n.args) /\ s.base[ret] # "void"
    <3>1. Give(n.args + 1, x)
      BY <1>2, <1>4, <1>7, <2>1, <2>2, <2>5 DEF Call
    <3>2. Lenient(s, n)
      BY <1>2, <1>7, <2>5, FitsRule
    <3>3. Same(s, x, u)
      <4>1. ~IsCallee(u)
        BY DEF IsCallee, Rv, Value
      <4>2. SameValue(s, x, u)
        BY <2>2, <2>5 DEF SameValue, RValue, TypedValue, Rv, Value, Assignable
      <4> QED
        BY <4>1, <4>2 DEF Same
    <3>4. Chained \/ x.term = u.term
      <4>1. Chained \/ \A i \in 1..n.args : Operand(n.args, i).term = Arguments(s, n)[i].term
        BY <1>2, <1>7, CallOperands DEF Arguments
      <4>2. Chained \/ [i \in 1..n.args |-> Operand(n.args, i).term]
                         = [i \in 1..n.args |-> Arguments(s, n)[i].term]
        BY <4>1
      <4> QED
        BY <4>2 DEF RValue, TypedValue, Rv, Value
    <3>5. After(s, n) = Push(s, n.args + 1, u)
      BY <1>2, <1>7 DEF After
    <3>6. n.args + 1 \in 0..Len(s.stack)
      BY <1>2, <1>7, CallOperands
    <3> HIDE DEF x, u
    <3>7. PICK k \in 0..Len(s.stack) : k = n.args + 1
      BY <3>6
    <3>8. Give(k, x) /\ After(s, n) = Push(s, k, u)
      BY <3>1, <3>5, <3>7
    <3> QED
      BY <1>1, <1>2, <3>2, <3>3, <3>4, <3>8, Giving
  <2> QED
    BY <2>3, <2>4, <2>5
<1> QED
  BY <1>5, <1>6, <1>7

(* A visit that is done with all values.                                   *)
LEMMA Clearing ==
  ASSUME IInv, ~Stopped, NEW s, NEW n, Facing(s, n), Rule(s, n) \/ Lenient(s, n),
         GoOn(<<>>), Keep, After(s, n) = [s EXCEPT !.stack = <<>>]
  PROVE  IInv'
<1>1. PICK t : t = After(s, n)
  OBVIOUS
<1>2. t.stack = <<>> /\ t.memory = s.memory /\ t.scope = s.scope /\ t.base = s.base
  BY <1>1 DEF Facing, Tables, Shape, Fields
<1>3. /\ stack' = <<>> /\ at' = at + 1
      /\ UNCHANGED <<program, result, types, symbols, memory>>
  BY DEF GoOn, Keep
<1>4. TypesInv(s) /\ ScopeInv(s)
  BY DEF Facing, Tables
<1>5. TypesInv(t)'
  BY <1>2, <1>3, <1>4 DEF TypesInv
<1>6. ScopeInv(t)'
  <2>1. ScopeInv(s)'
    BY <1>3, <1>4 DEF ScopeInv
  <2> QED
    BY <1>2, <2>1 DEF ScopeInv
<1>7. Agree(t)'
  BY <1>2, <1>3, NothingIsSeq DEF Agree
<1>8. (Chained \/ Terms(t))'
  <2>1. SUFFICES ASSUME ~Chained PROVE Terms(t)'
    BY <1>3 DEF Chained
  <2>2. memory = s.memory
    BY <2>1 DEF Facing, Operands, Terms
  <2> QED
    BY <1>2, <1>3, <2>2, NothingIsSeq DEF Terms
<1>9. Went(s, n)
  BY <1>3 DEF Went
<1> QED
  BY <1>1, <1>5, <1>6, <1>7, <1>8, <1>9, Going

LEMMA ConditionStep ==
  ASSUME IInv, Condition
  PROVE  IInv'
<1>1. Visiting("condition") /\ ~Stopped
  BY Visit DEF Condition
<1>2. PICK s, n : Facing(s, n) /\ n = Node /\ n.is = "condition"
  BY <1>1, Visit
<1> DEFINE v == Operand(1, 1)
           w == Nth(s, 1, 1)
<1>3. SameValue(s, v, w)
  <2>1. Arity(s, n) = 1
    BY <1>2 DEF Arity
  <2> QED
    BY <1>2, <2>1, ValueOperands
<1>4. /\ Rule(s, n) <=> BaseOf(s, w) = "bool"
      /\ After(s, n) = [s EXCEPT !.stack = <<>>]
  BY <1>2 DEF Rule, After
<1>5. implicitCast(v.type, types["bool"]) <=> BaseOf(s, w) = "bool"
  <2>1. TypesInv(s) /\ "bool" \in DOMAIN s.base
    BY <1>2 DEF Facing, Tables, TypesInv, TypesOK, BuiltIn
  <2>2. w.type \in DOMAIN s.base /\ v.type = types[w.type]
    BY <1>3 DEF SameValue
  <2> QED
    BY <2>1, <2>2, TypeFacts DEF BaseOf
<1>6. \/ GoOn(<<>>) /\ Keep /\ Rule(s, n)
      \/ Reject /\ ~Rule(s, n)
  BY <1>4, <1>5 DEF Condition
<1> QED
  BY <1>1, <1>2, <1>4, <1>6, Clearing, Ending

LEMMA ReturnStep ==
  ASSUME IInv, Return
  PROVE  IInv'
<1>1. Visiting("return") /\ ~Stopped
  BY Visit DEF Return
<1>2. PICK s, n : Facing(s, n) /\ n = Node /\ n.is = "return"
  BY <1>1, Visit
<1> DEFINE v == Operand(1, 1)
           w == Nth(s, 1, 1)
<1>3. n.init => SameValue(s, v, w)
  <2>1. n.init => Arity(s, n) = 1
    BY <1>2 DEF Arity
  <2> QED
    BY <1>2, <2>1, ValueOperands
<1>4. /\ Rule(s, n) <=> IF n.init THEN w.type = Returns ELSE Returns = "void"
      /\ Lenient(s, n) <=> (n.init => AliasOf(s, w, Returns))
      /\ After(s, n) = [s EXCEPT !.stack = <<>>]
  BY <1>2 DEF Rule, Lenient, After
<1>5. n.init => (isSameOrImplicitlyCastable(v.type, types[Returns]) <=>
                   w.type = Returns \/ AliasOf(s, w, Returns))
  <2>1. TypesInv(s) /\ Returns \in DOMAIN s.base
    BY <1>2, TypesAssumption DEF Facing, Tables, TypesInv, TypesOK
  <2>2. n.init => w.type \in DOMAIN s.base /\ v.type = types[w.type]
    BY <1>3 DEF SameValue
  <2> QED
    BY <2>1, <2>2, TypeFacts DEF isSameOrImplicitlyCastable, AliasOf
<1>6. \/ GoOn(<<>>) /\ Keep /\ (Rule(s, n) \/ Lenient(s, n))
      \/ Reject /\ ~Rule(s, n)
  <2>1. CASE n.init => isSameOrImplicitlyCastable(v.type, types[Returns])
    <3>1. GoOn(<<>>) /\ Keep
      BY <1>2, <2>1 DEF Return
    <3> QED
      BY <1>4, <1>5, <2>1, <3>1
  <2>2. CASE n.init /\ ~isSameOrImplicitlyCastable(v.type, types[Returns])
    <3>1. Reject
      BY <1>2, <2>2 DEF Return
    <3> QED
      BY <1>4, <1>5, <2>2, <3>1
  <2> QED
    BY <2>1, <2>2
<1> QED
  BY <1>1, <1>2, <1>4, <1>6, Clearing, Ending

LEMMA StatementStep ==
  ASSUME IInv, Statement
  PROVE  IInv'
<1>1. Visiting("statement") /\ ~Stopped
  BY Visit DEF Statement
<1>2. PICK s, n : Facing(s, n) /\ n = Node /\ n.is = "statement"
  BY <1>1, Visit
<1>3. Rule(s, n) /\ After(s, n) = [s EXCEPT !.stack = <<>>]
  BY <1>2 DEF Rule, After
<1>4. GoOn(<<>>) /\ Keep
  BY DEF Statement
<1> QED
  BY <1>1, <1>2, <1>3, <1>4, Clearing

LEMMA AliasStep ==
  ASSUME IInv, Alias
  PROVE  IInv'
<1>1. Visiting("use") /\ ~Stopped
  BY Visit DEF Alias
<1>2. PICK s, n : Facing(s, n) /\ n = Node /\ n.is = "use"
  BY <1>1, Visit
<1>3. /\ Rule(s, n) <=> n.type \in DOMAIN s.base /\ n.name \notin DOMAIN s.base
      /\ After(s, n) = [s EXCEPT !.base = Extended(@, n.name, @[n.type])]
  BY <1>2 DEF Rule, After
<1>4. TypesInv(s) /\ ScopeInv(s) /\ Shape(s) /\ n.name # NoName /\ n.name # "function"
  BY <1>2 DEF Facing, Tables, NodeOK, Named
<1>5. IsNewAlias <=> Rule(s, n)
  BY <1>2, <1>3, <1>4 DEF IsNewAlias, Found, TypesInv, TypesOK
<1>6. CASE ~IsNewAlias
  <2>1. Reject
    BY <1>6 DEF Alias
  <2> QED
    BY <1>1, <1>2, <1>5, <1>6, <2>1, Ending
<1>7. CASE IsNewAlias
  <2>1. PICK t : t = After(s, n)
    OBVIOUS
  <2>2. /\ t.stack = s.stack /\ t.memory = s.memory /\ t.scope = s.scope
        /\ t.base = [x \in DOMAIN s.base \cup {n.name} |->
                       IF x = n.name THEN s.base[n.type] ELSE s.base[x]]
    BY <1>3, <1>4, <2>1 DEF Shape, Fields, Extended
  <2>3. /\ types' = [x \in DOMAIN types \cup {n.name} |->
                       IF x = n.name THEN AliasType(x, types[n.type]) ELSE types[x]]
        /\ stack' = stack /\ at' = at + 1 /\ UNCHANGED <<program, result, symbols, memory>>
    BY <1>2, <1>7 DEF Alias, GoOn
  <2>4. n.type \in DOMAIN s.base /\ n.name \notin DOMAIN s.base /\ Rule(s, n)
    BY <1>3, <1>5, <1>7
  <2>5. /\ DOMAIN types' = DOMAIN s.base \cup {n.name}
        /\ DOMAIN t.base = DOMAIN s.base \cup {n.name}
        /\ t.base[n.name] = s.base[n.type]
        /\ types'[n.name] = AliasType(n.name, types[n.type])
        /\ \A x \in DOMAIN s.base : t.base[x] = s.base[x] /\ types'[x] = types[x]
    BY <1>4, <2>2, <2>3, <2>4 DEF TypesInv, TypesOK
  <2>6. TypesInv(t)'
    <3>1. /\ BuiltIn \cup DOMAIN GivenTypes \subseteq DOMAIN s.base
          /\ \A b \in BuiltIn : t.base[b] = b
          /\ \A x \in DOMAIN GivenTypes : t.base[x] = GivenTypes[x].base
      BY <1>4, <2>5 DEF TypesInv, TypesOK
    <3>2. "function" \notin DOMAIN t.base /\ NoName \notin DOMAIN t.base
      BY <1>4, <2>5 DEF TypesInv, TypesOK
    <3>3. t.base[n.name] \in BuiltIn /\ types'[n.name] = AliasType(n.name, Basic(t.base[n.name]))
      <4>1. types[n.type].kind = s.base[n.type] /\ types[n.type].base = s.base[n.type]
            /\ s.base[n.type] \in BuiltIn
        BY <1>4, <2>4, NameAndKind
      <4>2. AliasType(n.name, types[n.type]) = AliasType(n.name, Basic(s.base[n.type]))
        BY <4>1 DEF AliasType, Basic
      <4> QED
        BY <2>5, <4>1, <4>2
    <3>4. \A x \in DOMAIN s.base :
            t.base[x] \in BuiltIn /\ types'[x] = AliasType(x, Basic(t.base[x]))
      BY <1>4, <2>5 DEF TypesInv, TypesOK
    <3>5. \A x \in DOMAIN t.base :
            t.base[x] \in BuiltIn /\ types'[x] = AliasType(x, Basic(t.base[x]))
      BY <2>5, <3>3, <3>4
    <3> QED
      BY <2>5, <3>1, <3>2, <3>5 DEF TypesInv, TypesOK
  <2>7. ScopeInv(t)'
    <3>1. \A v \in DOMAIN s.scope :
            /\ s.scope[v].type \in DOMAIN t.base /\ t.base[s.scope[v].type] # "void"
            /\ s.scope[v].mut \in BOOLEAN
            /\ symbols'[v] = Symbol(types'[s.scope[v].type], s.scope[v].mut)
            /\ t.memory[v][1] # "address"
      <4> SUFFICES ASSUME NEW v \in DOMAIN s.scope
                   PROVE  /\ s.scope[v].type \in DOMAIN t.base
                          /\ t.base[s.scope[v].type] # "void"
                          /\ s.scope[v].mut \in BOOLEAN
                          /\ symbols'[v] = Symbol(types'[s.scope[v].type], s.scope[v].mut)
                          /\ t.memory[v][1] # "address"
        OBVIOUS
      <4>1. /\ s.scope[v].type \in DOMAIN s.base /\ s.base[s.scope[v].type] # "void"
            /\ s.scope[v].mut \in BOOLEAN /\ s.memory[v][1] # "address"
            /\ symbols[v] = Symbol(types[s.scope[v].type], s.scope[v].mut)
        BY <1>4 DEF ScopeInv, ScopeOK
      <4>2. /\ t.base[s.scope[v].type] = s.base[s.scope[v].type]
            /\ types'[s.scope[v].type] = types[s.scope[v].type]
            /\ s.scope[v].type \in DOMAIN t.base
        BY <2>5, <4>1
      <4> QED
        BY <2>2, <2>3, <4>1, <4>2
    <3>2. /\ DOMAIN symbols' = DOMAIN s.scope \cup DOMAIN Functions
          /\ DOMAIN s.scope \cap DOMAIN Functions = {}
          /\ DOMAIN memory' = DOMAIN s.scope /\ DOMAIN t.memory = DOMAIN s.scope
          /\ NoName \notin DOMAIN s.scope
          /\ \A f \in DOMAIN Functions : symbols'[f] = Symbol(FunctionType, FALSE)
      BY <1>4, <2>2, <2>3 DEF ScopeInv, ScopeOK
    <3> QED
      BY <2>2, <3>1, <3>2 DEF ScopeInv, ScopeOK
  <2>8. Agree(t)'
    <3>1. \A v, w : Same(s, v, w) => Same(t, v, w)'
      <4>1. \A v, w : SameCallee(v, w) => SameCallee(v, w)'
        BY <2>3 DEF SameCallee
      <4>2. \A v, w : SameValue(s, v, w) => SameValue(t, v, w)'
        BY <2>2, <2>3, <2>5 DEF SameValue
      <4> QED
        BY <4>1, <4>2 DEF Same
    <3>2. /\ IsSeq(stack) /\ IsSeq(s.stack) /\ Len(stack) = Len(s.stack)
          /\ \A i \in 1..Len(stack) : Same(s, stack[i], s.stack[i])
      BY <1>2, StackFact
    <3>3. \A i \in 1..Len(stack) : Same(t, stack[i], t.stack[i])'
      BY <2>2, <2>3, <3>1, <3>2
    <3> QED
      BY <2>2, <2>3, <3>2, <3>3 DEF Agree
  <2>9. (Chained \/ Terms(t))'
    <3>1. Chained \/ (memory = s.memory /\ \A i \in 1..Len(stack) : stack[i].term = s.stack[i].term)
      BY <1>2, Current
    <3>2. Chained' <=> Chained
      BY <2>3 DEF Chained
    <3> QED
      BY <2>2, <2>3, <3>1, <3>2 DEF Terms
  <2>10. Went(s, n)
    BY <2>3, <2>4 DEF Went
  <2> QED
    BY <1>1, <1>2, <2>1, <2>6, <2>7, <2>8, <2>9, <2>10, Going
<1> QED
  BY <1>6, <1>7

(* The variable a definition makes: T is the name of its type.             *)
LEMMA DefinitionFacts ==
  ASSUME NEW s, NEW n, Facing(s, n), n.is = "let", n = Node, ~Stated \/ n.type \in DOMAIN s.base,
         NEW T, T = IF n.type = NoName THEN Nth(s, 1, 1).type ELSE n.type
  PROVE  /\ T \in DOMAIN s.base /\ TypeOfVariable = types[T]
         /\ Definable <=> T # "void" /\ n.name \notin DOMAIN s.base
         /\ Stated <=> n.type # NoName
         /\ n.init => /\ SameValue(s, Operand(1, 1), Nth(s, 1, 1)) /\ ~IsCallee(Nth(s, 1, 1))
                      /\ Chained \/ Operand(1, 1).term = Nth(s, 1, 1).term
         /\ Initialisable <=>
              /\ n.name \notin DOMAIN s.scope \cup DOMAIN Functions
              /\ IF n.init THEN Nth(s, 1, 1).type = T \/ AliasOf(s, Nth(s, 1, 1), T)
                           ELSE s.base[T] = T
<1> DEFINE v == Operand(1, 1)
           w == Nth(s, 1, 1)
<1>1. /\ TypesInv(s) /\ ScopeInv(s)
      /\ n.init \in BOOLEAN /\ (n.init \/ n.type # NoName)
  BY DEF Facing, Tables, NodeOK
<1>2. n.init => SameValue(s, v, w) /\ ~IsCallee(w) /\ (Chained \/ v.term = w.term)
  <2>1. n.init => Arity(s, n) = 1
    BY DEF Arity
  <2> QED
    BY <2>1, ValueOperands
<1>3. Stated <=> n.type # NoName
  BY DEF Stated
<1>4. n.init => w.type \in DOMAIN s.base /\ v.type = types[w.type]
  BY <1>2 DEF SameValue
<1>5. T \in DOMAIN s.base /\ TypeOfVariable = types[T]
  BY <1>1, <1>3, <1>4 DEF TypeOfVariable
<1> HIDE DEF v, w
<1>6. /\ types[T].name = T /\ s.base[T] \in DOMAIN s.base
      /\ Underlying(types[T]).name = s.base[T] /\ Underlying(types[T]).kind = s.base[T]
      /\ types[T].kind = s.base[T] /\ types[T].base = s.base[T] /\ s.base[s.base[T]] = s.base[T]
  BY <1>1, <1>5, NameAndKind
<1>7. Definable <=> T # "void" /\ n.name \notin DOMAIN s.base
  BY <1>1, <1>5, <1>6 DEF Definable, isSized, Found, TypesInv, TypesOK
<1>8. ASSUME n.init
      PROVE  isSameOrImplicitlyCastable(Initialiser.type, TypeOfVariable) <=>
               w.type = T \/ AliasOf(s, w, T)
  <2>1. Initialiser = v
    BY <1>8 DEF Initialiser, v
  <2> QED
    BY <1>1, <1>4, <1>5, <1>8, <2>1, TypeFacts DEF isSameOrImplicitlyCastable, AliasOf
<1>9. ASSUME ~n.init
      PROVE  isSameOrImplicitlyCastable(Initialiser.type, TypeOfVariable) <=> s.base[T] = T
  <2>1. Initialiser.type = Underlying(types[T])
    BY <1>5, <1>9 DEF Initialiser, zeroInit, Constant, TypedValue
  <2>2. /\ Underlying(Underlying(types[T])).name = s.base[T]
        /\ Underlying(Underlying(types[T])).kind = s.base[T]
    <3>1. types[T] = AliasType(T, Basic(s.base[T]))
      BY <1>1, <1>5 DEF TypesInv, TypesOK
    <3> QED
      BY <3>1 DEF Underlying, AliasType, Basic
  <2> QED
    BY <1>5, <1>6, <2>1, <2>2 DEF isSameOrImplicitlyCastable, equal, implicitCast
<1>10. Found(n.name, symbols) <=> n.name \in DOMAIN s.scope \cup DOMAIN Functions
  BY <1>1 DEF Found, ScopeInv, ScopeOK
<1>11. Initialisable <=>
         /\ n.name \notin DOMAIN s.scope \cup DOMAIN Functions
         /\ IF n.init THEN w.type = T \/ AliasOf(s, w, T) ELSE s.base[T] = T
  BY <1>8, <1>9, <1>10 DEF Initialisable
<1> QED
  BY <1>2, <1>3, <1>5, <1>7, <1>11 DEF v, w

LEMMA DefinitionStep ==
  ASSUME IInv, VariableDefinition
  PROVE  IInv'
<1>1. Visiting("let") /\ ~Stopped
  BY Visit DEF VariableDefinition
<1>2. PICK s, n : Facing(s, n) /\ n = Node /\ n.is = "let"
  BY <1>1, Visit
<1> DEFINE w == Nth(s, 1, 1)
<1>3. /\ TypesInv(s) /\ ScopeInv(s) /\ Shape(s) /\ n.name # NoName
      /\ n.init \in BOOLEAN /\ n.mut \in BOOLEAN /\ (n.init \/ n.type # NoName)
  BY <1>2 DEF Facing, Tables, NodeOK, Named
<1>4. /\ Rule(s, n) <=>
           /\ n.type # NoName => n.type \in DOMAIN s.base /\ s.base[n.type] # "void"
           /\ n.name \notin DOMAIN s.base \cup DOMAIN s.scope \cup DOMAIN Functions
           /\ n.init /\ n.type # NoName => w.type = n.type
      /\ Lenient(s, n) <=>
           \/ n.type # NoName /\ n.type \notin DOMAIN s.base
           \/ /\ ~n.init /\ n.type # "void" /\ s.base[n.type] = "void"
              /\ n.name \notin DOMAIN s.base
           \/ /\ n.init /\ n.type # NoName /\ AliasOf(s, w, n.type)
              /\ n.name \notin DOMAIN s.base \cup DOMAIN s.scope \cup DOMAIN Functions
      /\ Withheld(s, n) <=> ~n.init /\ n.type \in DOMAIN s.base /\ s.base[n.type] # n.type
      /\ After(s, n) = Defined(s, n)
  BY <1>2 DEF Rule, Lenient, Withheld, After
<1>5. Stated <=> n.type # NoName
  BY <1>2 DEF Stated
<1>6. CASE Stated /\ n.type \notin DOMAIN s.base
  <2>1. Undefined
    BY <1>2, <1>3, <1>6 DEF VariableDefinition, Found, TypesInv, TypesOK
  <2> QED
    BY <1>1, <1>2, <1>4, <1>5, <1>6, <2>1, Ending
<1>7. CASE ~Stated \/ n.type \in DOMAIN s.base
  <2>1. PICK T : T = IF n.type = NoName THEN w.type ELSE n.type
    OBVIOUS
  <2>2. /\ T \in DOMAIN s.base /\ TypeOfVariable = types[T]
        /\ Definable <=> T # "void" /\ n.name \notin DOMAIN s.base
        /\ n.init => /\ SameValue(s, Operand(1, 1), w) /\ ~IsCallee(w)
                     /\ Chained \/ Operand(1, 1).term = w.term
        /\ Initialisable <=>
             /\ n.name \notin DOMAIN s.scope \cup DOMAIN Functions
             /\ IF n.init THEN w.type = T \/ AliasOf(s, w, T) ELSE s.base[T] = T
    BY <1>2, <1>7, <2>1, DefinitionFacts
  <2>3. n.init => w.type \in DOMAIN s.base /\ s.base[w.type] # "void"
    BY <2>2 DEF SameValue
  <2>4. "void" \in DOMAIN s.base /\ s.base["void"] = "void"
    BY <1>3 DEF TypesInv, TypesOK, BuiltIn
  <2>5. HasNoZero(TypeOfVariable) <=> s.base[T] = "void"
    <3>1. types[T].kind = s.base[T] /\ s.base[T] \in BuiltIn
      BY <1>3, <2>2, NameAndKind
    <3> QED
      BY <2>2, <3>1 DEF HasNoZero, BuiltIn, Integral, FP, Character
  <2> HIDE DEF w
  <2>6. ~(Stated /\ ~Found(n.type, types))
    BY <1>3, <1>7 DEF Found, TypesInv, TypesOK
  <2>7. CASE ~Definable
    <3>1. Reject
      BY <1>2, <2>6, <2>7 DEF VariableDefinition
    <3>2. ~Rule(s, n)
      BY <1>3, <1>4, <2>1, <2>2, <2>3, <2>4, <2>7
    <3> QED
      BY <1>1, <1>2, <3>1, <3>2, Ending
  <2>8. CASE Definable /\ ~n.init /\ HasNoZero(TypeOfVariable)
    <3>1. Undefined
      BY <1>2, <2>6, <2>8 DEF VariableDefinition
    <3>2. ~Rule(s, n) /\ Lenient(s, n)
      BY <1>3, <1>4, <2>1, <2>2, <2>5, <2>8
    <3> QED
      BY <1>1, <1>2, <3>1, <3>2, Ending
  <2>9. CASE Definable /\ ~(~n.init /\ HasNoZero(TypeOfVariable)) /\ ~Initialisable
    <3>1. Reject
      BY <1>2, <2>6, <2>9 DEF VariableDefinition
    <3>2. ~Rule(s, n) \/ Withheld(s, n)
      BY <1>3, <1>4, <2>1, <2>2, <2>9
    <3> QED
      BY <1>1, <1>2, <3>1, <3>2, Ending
  <2>10. CASE Definable /\ ~(~n.init /\ HasNoZero(TypeOfVariable)) /\ Initialisable
    <3> DEFINE term == IF n.init THEN w.term ELSE <<"zero">>
    <3>1. /\ symbols' = [x \in DOMAIN symbols \cup {n.name} |->
                           IF x = n.name THEN Symbol(TypeOfVariable, n.mut) ELSE symbols[x]]
          /\ memory' = [x \in DOMAIN memory \cup {n.name} |->
                          IF x = n.name THEN Initialiser.term ELSE memory[x]]
          /\ stack' = <<>> /\ at' = at + 1 /\ UNCHANGED <<program, result, types>>
      BY <1>2, <2>6, <2>10 DEF VariableDefinition, GoOn
    <3>2. Rule(s, n) \/ Lenient(s, n)
      BY <1>3, <1>4, <2>1, <2>2, <2>3, <2>10
    <3>3. s.base[T] # "void"
      BY <1>3, <2>1, <2>2, <2>3, <2>5, <2>10 DEF AliasOf, TypesInv, TypesOK
    <3>4. Chained \/ Initialiser.term = term
      <4>1. n.init => Initialiser = Operand(1, 1)
        BY <1>2 DEF Initialiser
      <4>2. ~n.init => Initialiser.term = <<"zero">>
        BY <1>2 DEF Initialiser, zeroInit, Constant, TypedValue
      <4> QED
        BY <1>3, <2>2, <4>1, <4>2
    <3>5. term[1] # "address"
      BY <1>3, <2>2 DEF IsCallee
    <3> HIDE DEF term
    <3>6. PICK t : t = After(s, n)
      OBVIOUS
    <3>7. /\ t.stack = <<>> /\ t.base = s.base
          /\ t.scope = [x \in DOMAIN s.scope \cup {n.name} |->
                          IF x = n.name THEN [type |-> T, mut |-> n.mut] ELSE s.scope[x]]
          /\ t.memory = [x \in DOMAIN s.memory \cup {n.name} |->
                           IF x = n.name THEN term ELSE s.memory[x]]
      BY <1>3, <1>4, <2>1, <3>6 DEF Defined, Extended, Shape, Fields, term, w
    <3>8. TypesInv(t)'
      BY <1>3, <3>1, <3>7 DEF TypesInv
    <3>9. n.name \notin DOMAIN s.scope /\ n.name \notin DOMAIN Functions
      BY <2>2, <2>10
    <3>10. ScopeInv(t)'
      <4>1. /\ DOMAIN symbols' = DOMAIN t.scope \cup DOMAIN Functions
            /\ DOMAIN t.scope \cap DOMAIN Functions = {} /\ NoName \notin DOMAIN t.scope
            /\ DOMAIN memory' = DOMAIN t.scope /\ DOMAIN t.memory = DOMAIN t.scope
        BY <1>3, <3>1, <3>7, <3>9 DEF ScopeInv, ScopeOK
      <4>2. \A f \in DOMAIN Functions : symbols'[f] = Symbol(FunctionType, FALSE)
        BY <1>3, <3>1, <3>9 DEF ScopeInv, ScopeOK
      <4>3. /\ t.scope[n.name].type = T /\ t.scope[n.name].mut = n.mut
            /\ symbols'[n.name] = Symbol(types[T], n.mut) /\ t.memory[n.name] = term
        BY <2>2, <3>1, <3>7
      <4>4. ASSUME NEW v \in DOMAIN s.scope
            PROVE  /\ t.scope[v] = s.scope[v] /\ symbols'[v] = symbols[v]
                   /\ t.memory[v] = s.memory[v]
        BY <1>3, <3>1, <3>7, <3>9 DEF ScopeInv, ScopeOK
      <4>5. \A v \in DOMAIN t.scope : v = n.name \/ v \in DOMAIN s.scope
        BY <3>7
      <4>6. \A v \in DOMAIN s.scope :
              /\ s.scope[v].type \in DOMAIN s.base /\ s.base[s.scope[v].type] # "void"
              /\ s.scope[v].mut \in BOOLEAN
              /\ symbols[v] = Symbol(types[s.scope[v].type], s.scope[v].mut)
              /\ s.memory[v][1] # "address"
        BY <1>3 DEF ScopeInv, ScopeOK
      <4>7. ASSUME NEW v \in DOMAIN t.scope
            PROVE  /\ t.scope[v].type \in DOMAIN t.base /\ t.base[t.scope[v].type] # "void"
                   /\ t.scope[v].mut \in BOOLEAN
                   /\ symbols'[v] = Symbol(types'[t.scope[v].type], t.scope[v].mut)
                   /\ t.memory[v][1] # "address"
        <5>1. CASE v = n.name
          BY <1>3, <2>2, <3>1, <3>3, <3>5, <3>7, <4>3, <5>1
        <5>2. CASE v \in DOMAIN s.scope
          BY <3>1, <3>7, <4>4, <4>6, <5>2
        <5> QED
          BY <4>5, <5>1, <5>2
      <4> QED
        BY <4>1, <4>2, <4>7 DEF ScopeInv, ScopeOK
    <3>11. Agree(t)'
      BY <3>1, <3>7, NothingIsSeq DEF Agree
    <3>12. (Chained \/ Terms(t))'
      <4>1. SUFFICES ASSUME ~Chained PROVE Terms(t)'
        BY <3>1 DEF Chained
      <4>2. memory = s.memory
        BY <4>1, <1>2 DEF Facing, Operands, Terms
      <4>3. memory' = t.memory
        BY <3>1, <3>4, <3>7, <4>1, <4>2
      <4> QED
        BY <3>1, <3>7, <4>3, NothingIsSeq DEF Terms
    <3>13. Went(s, n)
      BY <3>1, <3>2 DEF Went
    <3> QED
      BY <1>1, <1>2, <3>6, <3>8, <3>10, <3>11, <3>12, <3>13, Going
  <2> QED
    BY <2>7, <2>8, <2>9, <2>10
<1> QED
  BY <1>5, <1>6, <1>7

LEMMA FinishStep ==
  ASSUME IInv, Finish
  PROVE  IInv'
<1>1. /\ result = "visiting" /\ at = Len(program) + 1 /\ result' = "generated"
      /\ UNCHANGED <<program, at, types, symbols, memory, stack>>
  BY ProgramFacts DEF IInv, Finish
<1>2. Reading(at - 1)' = Reading(at - 1)
  BY <1>1 DEF Reading
<1>3. Tables(Reading(at - 1))'
  <2>1. Tables(Reading(at - 1))
    BY DEF IInv
  <2>2. TypesInv(Reading(at - 1))'
    BY <1>1, <1>2, <2>1 DEF Tables, TypesInv
  <2>3. ScopeInv(Reading(at - 1))'
    <3>1. PICK s : s = Reading(at - 1)
      OBVIOUS
    <3>2. ScopeInv(s)
      BY <2>1, <3>1 DEF Tables
    <3>3. ScopeInv(s)'
      BY <1>1, <3>2 DEF ScopeInv
    <3> QED
      BY <1>2, <3>1, <3>3 DEF ScopeInv
  <2> QED
    BY <1>2, <2>1, <2>2, <2>3 DEF Tables
<1>4. Operands(Reading(at - 1))'
  <2>1. Operands(Reading(at - 1))
    BY <1>1 DEF IInv, Stopped
  <2>2. Agree(Reading(at - 1))'
    BY <1>1, <1>2, <2>1 DEF Operands, Agree, Same, SameCallee, SameValue
  <2>3. (Chained \/ Terms(Reading(at - 1)))'
    BY <1>1, <1>2, <2>1 DEF Operands, Chained, Terms
  <2> QED
    BY <2>2, <2>3 DEF Operands
<1> QED
  BY <1>1, <1>3, <1>4 DEF IInv, Stopped

-----------------------------------------------------------------------------
(* The invariant holds.                                                    *)

LEMMA InitInv == Init => IInv
<1> SUFFICES ASSUME Init PROVE IInv
  OBVIOUS
<1>1. /\ program \in Programs /\ at = 1 /\ types = GivenTypes
      /\ memory = [v \in DOMAIN GivenVariables |-> <<"before", v>>]
      /\ stack = <<>> /\ result = "visiting"
      /\ symbols = [n \in DOMAIN GivenVariables \cup DOMAIN Functions |->
                      IF n \in DOMAIN Functions THEN Symbol(FunctionType, FALSE)
                      ELSE Symbol(GivenTypes[GivenVariables[n].type], GivenVariables[n].mut)]
  BY DEF Init
<1>2. Len(program) \in Nat
  BY <1>1, ProgramFacts
<1>3. Reading(at - 1) = Start
  BY <1>1, <1>2, ReadingSteps DEF Reading
<1>4. /\ Shape(Start) /\ Start.excused /\ Start.stack = <<>> /\ Start.scope = GivenVariables
      /\ Start.memory = [v \in DOMAIN GivenVariables |-> <<"before", v>>]
      /\ Start.base = [n \in DOMAIN GivenTypes |-> GivenTypes[n].base]
  BY DEF Start, Shape, Fields
<1>5. ASSUME NEW n \in DOMAIN GivenTypes
      PROVE  /\ Start.base[n] \in BuiltIn /\ GivenTypes[n].kind = Start.base[n]
             /\ types[n] = AliasType(n, Basic(Start.base[n]))
  <2>1. PICK b \in BuiltIn : GivenTypes[n] = AliasType(n, Basic(b))
    BY TypesAssumption
  <2>2. GivenTypes[n].base = b /\ GivenTypes[n].kind = b
    BY <2>1 DEF AliasType, Basic
  <2> QED
    BY <1>1, <1>4, <2>1, <2>2
<1>6. \A b \in BuiltIn : Start.base[b] = b
  <2> SUFFICES ASSUME NEW b \in BuiltIn PROVE Start.base[b] = b
    OBVIOUS
  <2>1. b \in DOMAIN GivenTypes /\ GivenTypes[b] = Basic(b)
    BY TypesAssumption
  <2> QED
    BY <1>4, <2>1 DEF Basic
<1>7. TypesInv(Start)
  <2>1. /\ DOMAIN types = DOMAIN GivenTypes /\ DOMAIN Start.base = DOMAIN GivenTypes
        /\ BuiltIn \subseteq DOMAIN GivenTypes /\ "function" \notin DOMAIN GivenTypes
    BY <1>1, <1>4, TypesAssumption
  <2>2. NoName \notin DOMAIN GivenTypes
    BY NamesAssumption
  <2>3. \A n \in DOMAIN GivenTypes : Start.base[n] = GivenTypes[n].base
    BY <1>4
  <2> QED
    BY <1>5, <1>6, <2>1, <2>2, <2>3 DEF TypesInv, TypesOK
<1>8. ScopeInv(Start)
  <2>1. ASSUME NEW v \in DOMAIN GivenVariables
        PROVE  /\ GivenVariables[v].type \in DOMAIN Start.base
               /\ Start.base[GivenVariables[v].type] # "void" /\ GivenVariables[v].mut \in BOOLEAN
               /\ symbols[v] = Symbol(types[GivenVariables[v].type], GivenVariables[v].mut)
               /\ Start.memory[v][1] # "address"
    <3>1. /\ GivenVariables[v].type \in DOMAIN GivenTypes
          /\ GivenTypes[GivenVariables[v].type].kind # "void" /\ GivenVariables[v].mut \in BOOLEAN
          /\ v \notin DOMAIN Functions
      BY NamesAssumption
    <3>2. symbols[v] = Symbol(types[GivenVariables[v].type], GivenVariables[v].mut)
      BY <1>1, <3>1
    <3>3. Start.memory[v] = <<"before", v>>
      BY <1>4
    <3> QED
      BY <1>4, <1>5, <3>1, <3>2, <3>3
  <2>2. /\ DOMAIN symbols = DOMAIN GivenVariables \cup DOMAIN Functions
        /\ DOMAIN memory = DOMAIN GivenVariables /\ DOMAIN Start.memory = DOMAIN GivenVariables
        /\ DOMAIN GivenVariables \cap DOMAIN Functions = {} /\ NoName \notin DOMAIN GivenVariables
        /\ \A f \in DOMAIN Functions : symbols[f] = Symbol(FunctionType, FALSE)
    BY <1>1, <1>4, NamesAssumption
  <2> QED
    BY <1>4, <2>1, <2>2 DEF ScopeInv, ScopeOK
<1>9. Agree(Start) /\ Terms(Start)
  BY <1>1, <1>4, NothingIsSeq DEF Agree, Terms
<1> QED
  BY <1>1, <1>2, <1>3, <1>4, <1>7, <1>8, <1>9 DEF IInv, Tables, Operands, Stopped

LEMMA NextInv == IInv /\ [Next]_vars => IInv'
<1> SUFFICES ASSUME IInv, [Next]_vars PROVE IInv'
  OBVIOUS
<1>1. CASE UNCHANGED vars
  <2>1. UNCHANGED <<program, at, types, symbols, memory, stack, result>>
    BY <1>1 DEF vars
  <2>2. /\ Reading(at - 1)' = Reading(at - 1) /\ Reading(at)' = Reading(at)
        /\ Chained' <=> Chained
    BY <2>1 DEF Reading, Chained
  <2>3. Tables(Reading(at - 1))'
    BY <2>1, <2>2 DEF IInv, Tables, TypesInv, ScopeInv
  <2>4. (~Stopped => Operands(Reading(at - 1)))'
    <3>1. ~Stopped' => Agree(Reading(at - 1))'
      BY <2>1, <2>2 DEF IInv, Stopped, Operands, Agree, Same, SameCallee, SameValue
    <3>2. ~Stopped' => (Chained \/ Terms(Reading(at - 1)))'
      BY <2>1, <2>2 DEF IInv, Stopped, Operands, Terms
    <3> QED
      BY <3>1, <3>2 DEF Operands
  <2> QED
    BY <2>1, <2>2, <2>3, <2>4 DEF IInv, Stopped, Blamed
<1>2. CASE Next
  BY <1>2, LiteralStep, VariableStep, CalleeStep, AsStep, UnaryStep, BinaryStep, AssignmentStep,
     CallStep, AliasStep, DefinitionStep, ConditionStep, ReturnStep, StatementStep, FinishStep
     DEF Next
<1> QED
  BY <1>1, <1>2

(* While the visits go on they and the reading of the nodes agree on every *)
(* type, variable and operand, and when they stop a node is to blame.      *)
THEOREM Inductive == Spec => []IInv
BY InitInv, NextInv, PTL DEF Spec

-----------------------------------------------------------------------------
(* The properties.                                                         *)

(* Every operand has a type of the type table, one loaded from a variable  *)
(* the variable's, and only what is in a variable can be assigned to.      *)
THEOREM TypeCorrect == Spec => []TypeOK
<1>1. IInv => TypeOK
  <2> SUFFICES ASSUME IInv PROVE TypeOK
    OBVIOUS
  <2>1. PICK s : s = Reading(at - 1)
    OBVIOUS
  <2>2. TypesInv(s) /\ ScopeInv(s) /\ (~Stopped => Agree(s)) /\ (Stopped => stack = <<>>)
    BY <2>1 DEF IInv, Tables, Operands
  <2>3. \A n \in DOMAIN types : types[n].name = n /\ types[n].kind \in Kind
    <3>1. \A n \in DOMAIN types : n \in DOMAIN s.base
      BY <2>2 DEF TypesInv, TypesOK
    <3> QED
      BY <2>2, <3>1, NameAndKind DEF Kind
  <2>4. \A n \in DOMAIN symbols : symbols[n].mut \in BOOLEAN
    <3>1. ASSUME NEW n \in DOMAIN Functions PROVE symbols[n].mut \in BOOLEAN
      <4>1. symbols[n] = Symbol(FunctionType, FALSE)
        BY <2>2 DEF ScopeInv, ScopeOK
      <4> QED
        BY <4>1 DEF Symbol
    <3>2. ASSUME NEW n \in DOMAIN s.scope PROVE symbols[n].mut \in BOOLEAN
      <4>1. /\ symbols[n] = Symbol(types[s.scope[n].type], s.scope[n].mut)
            /\ s.scope[n].mut \in BOOLEAN
        BY <2>2 DEF ScopeInv, ScopeOK
      <4> QED
        BY <4>1 DEF Symbol
    <3> QED
      BY <2>2, <3>1, <3>2 DEF ScopeInv, ScopeOK
  <2>5. DOMAIN memory \subseteq DOMAIN symbols
    BY <2>2 DEF ScopeInv, ScopeOK
  <2>6. ASSUME NEW i \in DOMAIN stack PROVE IsValue(stack[i])
    <3>1. i \in 1..Len(stack) /\ ~Stopped
      BY <2>2, <2>6, NothingIsSeq, SeqFacts DEF Agree
    <3>2. PICK w : w = s.stack[i] /\ Same(s, stack[i], w)
      BY <2>2, <3>1 DEF Agree
    <3>3. CASE IsCallee(w)
      <4>1. PICK name \in DOMAIN symbols :
              /\ w.term = <<"address", name>>
              /\ stack[i] = TypedValue(symbols[name].type, "LVALUE", symbols[name].mut, NoName,
                                       w.term)
        BY <3>2, <3>3 DEF Same, SameCallee
      <4>2. /\ stack[i].type = symbols[name].type /\ stack[i].cat = "LVALUE"
            /\ stack[i].mut = symbols[name].mut /\ stack[i].from = NoName
            /\ stack[i].term[1] = "address"
        BY <4>1 DEF TypedValue
      <4>3. \/ symbols[name].type = FunctionType
            \/ /\ symbols[name].type.name \in DOMAIN types
               /\ symbols[name].type = types[symbols[name].type.name]
        <5>1. CASE name \in DOMAIN Functions
          <6>1. symbols[name] = Symbol(FunctionType, FALSE)
            BY <2>2, <5>1 DEF ScopeInv, ScopeOK
          <6> QED
            BY <6>1 DEF Symbol
        <5>2. CASE name \in DOMAIN s.scope
          <6>1. /\ symbols[name] = Symbol(types[s.scope[name].type], s.scope[name].mut)
                /\ s.scope[name].type \in DOMAIN s.base
            BY <2>2, <5>2 DEF ScopeInv, ScopeOK
          <6>2. symbols[name].type = types[s.scope[name].type]
            BY <6>1 DEF Symbol
          <6> QED
            BY <2>2, <6>1, <6>2, NameAndKind
        <5> QED
          BY <2>2, <5>1, <5>2 DEF ScopeInv, ScopeOK
      <4> QED
        BY <2>4, <4>2, <4>3 DEF IsValue
    <3>4. CASE ~IsCallee(w)
      <4>1. SameValue(s, stack[i], w)
        BY <3>2, <3>4 DEF Same
      <4>2. stack[i].type.name = w.type /\ w.type \in DOMAIN types /\ stack[i].type = types[w.type]
        BY <2>2, <4>1, NameAndKind DEF SameValue
      <4>3. stack[i].from # NoName =>
              /\ stack[i].from \in DOMAIN memory
              /\ symbols[stack[i].from] = Symbol(stack[i].type, stack[i].mut)
        BY <2>2, <4>1 DEF ScopeInv, ScopeOK, SameValue
      <4> QED
        BY <4>1, <4>2, <4>3 DEF IsValue, SameValue
    <3> QED
      BY <3>3, <3>4
  <2> QED
    BY <2>3, <2>4, <2>5, <2>6 DEF TypeOK, IInv
<1> QED
  BY <1>1, Inductive, PTL

(* What the guide forbids ends in an error, but for the named deviations.  *)
THEOREM Forbidden == Spec => []ForbiddenIsRejected
<1>1. IInv => ForbiddenIsRejected
  <2> SUFFICES ASSUME IInv, result \in {"generated", "undefined"} PROVE Visited.excused
    BY DEF ForbiddenIsRejected
  <2>1. CASE result = "generated"
    <3>1. at = Len(program) + 1 /\ Len(program) \in Nat
      BY <2>1, ProgramFacts DEF IInv
    <3>2. Visited = Reading(at - 1)
      BY <3>1 DEF Visited
    <3> QED
      BY <3>2 DEF IInv, Tables
  <2>2. CASE result = "undefined"
    BY <2>2 DEF IInv, Visited, Stopped
  <2> QED
    BY <2>1, <2>2
<1> QED
  BY <1>1, Inductive, PTL

(* What the guide allows is accepted, but for the named deviations.        *)
THEOREM Allowed == Spec => []AllowedIsGenerated
<1>1. IInv => AllowedIsGenerated
  BY DEF IInv, AllowedIsGenerated, Stopped, Blamed, Visited
<1> QED
  BY <1>1, Inductive, PTL

(* The code computes what the program says, for every program in which no  *)
(* assignment is an operand (~Chained). In the others, as in a = b = 1, it *)
(* gives the value the variable had before.                                *)
THEOREM AsWritten == Spec => []RunsAsWritten
<1>1. IInv => RunsAsWritten
  <2> SUFFICES ASSUME IInv, result \in {"visiting", "generated"}, ~Chained,
                      NEW s, s = Reading(at - 1)
               PROVE  /\ memory = s.memory
                      /\ Len(stack) = Len(s.stack)
                      /\ \A i \in DOMAIN stack :
                           Node.is # "statement" =>
                           stack[i].type.name = s.stack[i].type /\ stack[i].term = s.stack[i].term
    BY DEF RunsAsWritten
  <2>1. TypesInv(s) /\ ScopeInv(s) /\ Agree(s) /\ Terms(s)
    BY DEF IInv, Tables, Operands, Stopped
  <2>2. \A i \in DOMAIN stack : i \in 1..Len(stack)
    BY <2>1, SeqFacts DEF Agree
  <2>3. ASSUME NEW i \in DOMAIN stack
        PROVE  stack[i].type.name = s.stack[i].type
    <3>1. PICK v, w : v = stack[i] /\ w = s.stack[i] /\ Same(s, v, w)
      BY <2>1, <2>2 DEF Agree
    <3>2. CASE IsCallee(w)
      BY <3>1, <3>2 DEF Same, SameCallee, TypedValue
    <3>3. CASE ~IsCallee(w)
      BY <2>1, <3>1, <3>3, NameAndKind DEF Same, SameValue
    <3> QED
      BY <3>1, <3>2, <3>3
  <2>4. ASSUME NEW i \in DOMAIN stack, Node.is # "statement"
        PROVE  stack[i].term = s.stack[i].term
    <3>1. ~(at > 1 /\ program[at - 1].is = "assign")
      <4> SUFFICES ASSUME at > 1, program[at - 1].is = "assign" PROVE FALSE
        OBVIOUS
      <4>1. Len(program) \in Nat /\ at \in 1..(Len(program) + 1)
        BY ProgramFacts DEF IInv
      <4>2. CASE at <= Len(program)
        <5>1. at - 1 \in 1..(Len(program) - 1) /\ (at - 1) + 1 = at
          BY <4>1, <4>2
        <5>2. program[(at - 1) + 1].is # "statement"
          BY <2>4, <5>1 DEF Node
        <5> QED
          BY <5>1, <5>2 DEF Chained
      <4>3. CASE at = Len(program) + 1
        <5>1. program # <<>> /\ at - 1 = Len(program)
          BY <4>1, <4>3, ProgramFacts DEF IInv
        <5> QED
          BY <5>1, ProgramFacts DEF IInv
      <4> QED
        BY <4>1, <4>2, <4>3
    <3> QED
      BY <2>1, <2>2, <3>1 DEF Terms
  <2> QED
    BY <2>1, <2>3, <2>4 DEF Agree, Terms
<1> QED
  BY <1>1, Inductive, PTL
=============================================================================

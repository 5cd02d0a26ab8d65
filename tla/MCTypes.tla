------------------------------ MODULE MCTypes ------------------------------
(***************************************************************************)
(* Programs of one or two statements: every operand in every operator,     *)
(* cast, call and statement, nested to the depth of two operators.         *)
(***************************************************************************)
EXTENDS TypeRules

MCTypes == [n \in BuiltIn \cup {"my", "flag", "nil"} |->
  CASE n = "my" -> AliasType("my", Basic("i32"))
    [] n = "flag" -> AliasType("flag", Basic("bool"))
    [] n = "nil" -> AliasType("nil", Basic("void"))
    [] OTHER -> Basic(n)]

Is(t, m) == [type |-> t, mut |-> m]
MCVariables == [vi |-> Is("i32", TRUE), ki |-> Is("i32", FALSE), vm |-> Is("my", TRUE),
                vb |-> Is("bool", TRUE), vf |-> Is("f32", TRUE), kf |-> Is("f32", FALSE),
                vy |-> Is("byte", TRUE), vc |-> Is("char", TRUE), vs |-> Is("string", TRUE),
                vp |-> Is("cstring", TRUE), kg |-> Is("flag", FALSE)]
MCFunctions == [f |-> [params |-> <<"i32">>, ret |-> "my"],
                g |-> [params |-> <<>>, ret |-> "void"],
                h |-> [params |-> <<"my", "f32">>, ret |-> "bool"],
                k |-> [params |-> <<>>, ret |-> "nil"]]

Lit(t) == <<[is |-> "literal", type |-> t, value |-> "1"]>>
Var(n) == <<[is |-> "variable", name |-> n]>>
Un(op) == <<[is |-> "unary", op |-> op]>>
Bin(op) == <<[is |-> "binary", op |-> op]>>
Set(op) == <<[is |-> "assign", op |-> op]>>
To(n) == <<[is |-> "as", name |-> n]>>
Fn(n, a) == <<[is |-> "callee", name |-> n, args |-> a]>>
End2(n, a) == <<[is |-> "call", name |-> n, args |-> a]>>
Let(n, t, m, i) == <<[is |-> "let", name |-> n, type |-> t, mut |-> m, init |-> i]>>
Use(n, t) == <<[is |-> "use", name |-> n, type |-> t]>>
If == <<[is |-> "condition"]>>
Ret(i) == <<[is |-> "return", init |-> i]>>
Stop == <<[is |-> "statement"]>>

Leaves == {Var(n) : n \in DOMAIN MCVariables}
            \cup {Lit(t) : t \in {"i8", "i32", "f64", "bool", "char", "cstring", "string"}}
Few == {Var("vi"), Var("vm"), Var("vb"), Var("vf"), Lit("i32")}

BinOps == {"+", "%", "==", "<", "and"}
Apply(S, T) == {a \o b \o Bin(op) : a \in S, b \in T, op \in BinOps}
Unaries(S) == {a \o Un(op) : a \in S, op \in {"+", "-", "not"}}
CastsOf(S, N) == {a \o To(n) : a \in S, n \in N}
CallsOf(S) == {Fn("f", 1) \o a \o End2("f", 1) : a \in S}
Assigns(S, T) == {a \o b \o Set(op) : a \in S, b \in T, op \in {"=", "-=", "%="}}

Small == Unaries(Few) \cup CastsOf(Few, {"i32", "f32", "my", "flag"}) \cup CallsOf(Few)
           \cup Apply({Var("vi"), Var("vm")}, {Var("vi"), Lit("i32")})

Expressions ==
  Leaves \cup Small \cup Unaries(Leaves \cup Small) \cup Apply(Leaves, Leaves)
    \cup Apply(Few, Small) \cup Apply(Small, Few)
    \cup CastsOf(Leaves, DOMAIN MCTypes \cup {"vi"}) \cup CallsOf(Leaves \cup Small)
    \cup Assigns(Leaves, Leaves) \cup Assigns(Few, Small) \cup Assigns(Small, Few)
    \cup {a \o b \o c \o Set("=") \o Set(op) : a \in Few, b \in Few, c \in Few, op \in {"=", "+="}}
    \cup {a \o b \o Set("=") \o c \o Set("=") : a \in Few, b \in Few, c \in Few}
    \cup {Fn(n, 2) \o a \o b \o End2(n, 2) : n \in {"h", "f", "i32"}, a \in Leaves, b \in Few}
    \cup {Fn(n, 1) \o a \o End2(n, 1) : n \in {"i8", "my", "vi", "x", "h"}, a \in Leaves}
    \cup {Fn(n, 0) \o End2(n, 0) : n \in {"g", "k", "vi"}} \cup
    {Fn(n, 1) \o Var("f") \o End2(n, 1) : n \in {"f", "vi"}} \cup {Var("f"), Var("x")}

(* What follows "use int = i32" may use unary plus.                        *)
WithInt == Unaries(Leaves) \cup Assigns(Few, Unaries(Few)) \cup Apply(Few, Unaries(Few))

Definitions ==
  {e \o Let(n, t, m, TRUE) : e \in Leaves \cup Small, n \in {"x", "vi"}, m \in BOOLEAN,
                             t \in {NoName, "i32", "my", "bool", "i64", "nosuch"}}
    \cup {Let(n, t, TRUE, FALSE) : n \in {"x", "vi", "my", "f"},
                                   t \in {"i32", "string", "void", "nothing", "my"}}

(* A variable, or an alias, defined by the first statement is used next.   *)
Followed ==
  {Lit("i32") \o Let("x", NoName, m, TRUE) \o e \o Stop :
      m \in BOOLEAN, e \in Assigns({Var("x"), Var("vi")}, {Var("x"), Var("vi")} \cup Small)}
    \cup {Use("mine", t) \o e \o Let("x", "mine", TRUE, TRUE) \o d \o Let("y", u, FALSE, TRUE) :
            t \in {"i32", "my", "nosuch"}, u \in {"i32", "my", "mine", NoName},
            e \in CastsOf(Few, {"mine", "my"}), d \in {Var("x"), Var("x") \o Lit("i32") \o Bin("+")}}

AllPrograms ==
  {e \o Stop : e \in Expressions} \cup {Use("int", "i32") \o e \o Stop : e \in WithInt}
    \cup {Use("int", t) \o e \o Stop : t \in {"bool", "f64", "byte", "char", "void"}, e \in Unaries(Few)}
    \cup {e \o s : e \in Leaves \cup Small, s \in {If, Ret(TRUE)}} \cup {Ret(FALSE)}
    \cup Definitions \cup {Use("nothing", "void") \o d : d \in Definitions}
    \cup Followed \cup {Use("my", "i64") \o Var("vm") \o Stop, Use("vi", "bool") \o Lit("bool") \o Stop}

MCPrograms == AllPrograms \cup {}
=============================================================================

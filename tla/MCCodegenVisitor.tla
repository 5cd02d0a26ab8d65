-------------------------- MODULE MCCodegenVisitor --------------------------
(* Programs for TLC.  They are written as nested nodes and flattened.       *)
EXTENDS GeneratedCode

N(kind, name, type, kids) == [kind |-> kind, name |-> name, type |-> type, kids |-> kids]

RECURSIVE Flat(_, _)
Flat(n, p) ==
  LET sub == [i \in DOMAIN n.kids |-> Flat(n.kids[i], Append(p, i))]
  IN [q \in {p} \cup UNION {DOMAIN sub[i] : i \in DOMAIN n.kids} |->
        IF q = p THEN [n EXCEPT !.kids = Len(@)]
        ELSE sub[q[Len(p) + 1]][q]]

Constant == N("expr", "-", "", <<>>)
Read(n) == N("expr", n, "", <<>>)
CallTo(n) == N("call", n, "", <<>>)
None == N("empty", "-", "", <<>>)
Let(n, init) == N("let", n, "", <<init>>)
LetZero(n) == N("let", n, "", <<>>)
Ret(kids) == N("return", "-", "", kids)
Block(ss) == N("block", "-", "", ss)
If(c, s, t) == N("if", "-", "", <<c, s, t>>)
While(c, s) == N("while", "-", "", <<c, s>>)
For(i, c, s, t) == N("for", "-", "", <<i, c, s, t>>)
Param(n) == N("param", n, "", <<>>)
Def(n, type, params, ss) == N("def", n, type, Append(params, Block(ss)))
Decl(n, type, params) == N("decl", n, type, params)
Global(n, init) == N("global", n, "", <<init>>)
GlobalZero(n) == N("global", n, "", <<>>)
Program(defs) == Flat(N("root", "-", "", defs), <<>>)

Pairs(S, T) == {<<s, t>> : s \in S, t \in T}
Ones(S) == {<<s>> : s \in S}

(* Statements: simple ones, compound ones of simple ones, and compound     *)
(* ones of a few compound ones.                                            *)
Simple == {LetZero("x"), Read("x"), Read("a"), Ret(<<>>), None}
Compound(S, T) ==
  {If(Constant, s, t) : s \in S, t \in T} \cup {While(Read("a"), s) : s \in S}
  \cup {For(i, Constant, s, Read("x")) : i \in {LetZero("x"), None}, s \in S}
  \cup {For(None, Read("a"), s, None) : s \in S}
  \cup {Block(b) : b \in Ones(S) \cup Pairs(S, T)}
Inner == {Block(<<>>), If(Constant, LetZero("x"), None), If(Read("a"), Read("a"), Ret(<<Read("a")>>)),
          While(Constant, Read("x")), For(LetZero("y"), Read("y"), Read("x"), Read("y")),
          For(None, Constant, Let("y", Read("x")), Read("y")), Block(<<LetZero("x"), Read("x")>>)}
One == Compound(Simple, Simple)
Two == Compound(Inner, Inner \cup {None, Read("x")})
Three ==
  Compound({While(Constant, If(Read("a"), For(None, Constant, Read("a"), None), Read("a"))),
            For(None, Read("a"), If(Constant, While(Read("a"), Ret(<<>>)), None), CallTo("f"))},
           Inner)

Bodies ==
  Ones(Simple \cup One \cup Two \cup Three) \cup Pairs(Simple \cup One, Simple)
  \cup Pairs(Simple, One \cup Two) \cup Pairs(Two, {Read("x"), LetZero("x")})
InFunction ==
  {Program(<<Def("f", type, <<Param("a")>>, b)>>) : type \in {"void", "int"}, b \in Bodies}
  \cup {Program(<<Global("x", Constant), Def("f", "void", <<Param("a")>>, b)>>) : b \in Bodies}

(* Top level: declarations and definitions of two names in any order.      *)
TopLevels ==
  {Global("x", Constant), Global("f", Constant), Global("x", Read("f")), GlobalZero("f"),
   Global("y", CallTo("f")), Decl("f", "void", <<>>), Decl("f", "int", <<Param("x")>>),
   Def("f", "void", <<>>, <<>>), Def("f", "void", <<>>, <<CallTo("f"), Read("x")>>),
   Def("f", "int", <<Param("x")>>, <<Ret(<<Read("x")>>)>>),
   Def("f", "int", <<Param("x"), Param("x")>>, <<Read("x")>>),
   Def("x", "void", <<Param("f")>>, <<CallTo("f")>>),
   Def("y", "void", <<Param("y")>>, <<Let("x", CallTo("f")), Read("y")>>),
   Def("y", "void", <<>>, <<Read("f"), Ret(<<>>)>>)}
AtTopLevel ==
  {Program(<<>>)} \cup {Program(d) : d \in
     Ones(TopLevels) \cup Pairs(TopLevels, TopLevels)
     \cup {<<c, d, e>> : c \in TopLevels, d \in TopLevels, e \in TopLevels}}

MCPrograms == InFunction \cup AtTopLevel
=============================================================================

---------------------------- MODULE GeneratedCode ----------------------------
(***************************************************************************)
(* What the blocks left by CodegenVisitor must be: they run the program    *)
(* they were made from, names mean what they mean in the source, and LLVM  *)
(* accepts them.                                                           *)
(***************************************************************************)
EXTENDS CodegenVisitor

Generated == result = "generated"
Blocks == {b \in DOMAIN code : code[b].fn # Detached}
Ins(b) == code[b].ins
Ending(b) == Last(Ins(b))
Functions == {code[b].fn : b \in Blocks}
Definitions == {p \in Paths : Kind(p) = "def"}

(* A function is entered at the first block it was given.                  *)
Entry(f) ==
  CHOOSE b \in Blocks : code[b].fn = f /\ \A c \in Blocks : code[c].fn = f => b <= c

(* Blocks reached from the blocks bs without leaving one of the blocks     *)
(* in "shut", in at most n turns.                                          *)
Reached(bs, shut) ==
  LET targets(b) == {Ending(b).to[k] : k \in DOMAIN Ending(b).to}
      Within[n \in Nat] ==
        IF n = 0 THEN bs
        ELSE LET now == Within[n - 1]
             IN now \cup UNION {targets(b) : b \in now \ shut}
  IN Within[Cardinality(Blocks)]

(* The next event in the code from instruction i of block b on; "yes" is   *)
(* the value the block has computed last.                                  *)
CodeFrom[b \in Nat, i \in Nat, yes \in BOOLEAN] ==
  LET ins == Ins(b)[i]
  IN CASE ins.op \in {"eval", "store", "ret", "end"} -> <<ins.op, ins.at>>
       [] ins.op = "br" -> CodeFrom[ins.to[1], 1, yes]
       [] ins.op = "condbr" -> CodeFrom[ins.to[IF yes THEN 1 ELSE 2], 1, yes]
       [] OTHER -> <<"unreachable", code[b].fn>>

(* A function that returns a value and runs into the end of its body ends  *)
(* in an instruction LLVM takes for unreachable; no error is reported.     *)
Agree(event, meant) ==
  \/ event = meant
  \/ /\ event[1] = "unreachable" /\ meant[1] = "end"
     /\ tree[meant[2]].type # "void"

-----------------------------------------------------------------------------
(* Type correctness of the visitor's state: what visits, symbols and       *)
(* blocks refer to exists.                                                 *)
TypeOK ==
  /\ \A i \in DOMAIN visits : /\ visits[i].at \in Paths
                              /\ visits[i].pt \in 0..Kids(visits[i].at)
                              /\ \A k \in DOMAIN visits[i].bb : visits[i].bb[k] \in DOMAIN code
  /\ \A i \in DOMAIN scopes : \A n \in DOMAIN scopes[i] :
       scopes[i][n] \in Paths /\ Name(scopes[i][n]) = n
  /\ \A b \in DOMAIN code : code[b].fn \in {Detached} \cup {p \in Paths : IsFunction(p)}
  /\ \A b \in DOMAIN code : \A i \in DOMAIN Ins(b) :
       \A k \in DOMAIN Ins(b)[i].to : Ins(b)[i].to[k] \in DOMAIN code
  /\ cur \in 0..Len(code)
  /\ refused \in BOOLEAN
  /\ result \in {"running", "generated", "rejected", "undefined"}

(* The code runs the program: from every event in it, taking a branch or   *)
(* not, it comes to the event that is next in the source; and a function   *)
(* begins with the first event of its first definition.  So no statement   *)
(* is skipped, repeated or reordered, whatever the visits of the kids did  *)
(* to the insertion point (IfStmt, WhileStmt, ForStmt).                    *)
FollowsSource ==
  Generated =>
    /\ \A b \in Blocks : \A i \in DOMAIN Ins(b) : \A yes \in BOOLEAN :
         Ins(b)[i].op \in {"eval", "store"} =>
           Agree(CodeFrom[b, i + 1, yes], EventAfter(Ins(b)[i].at, yes))
    /\ \A d \in Definitions :
         (\A e \in Definitions : Name(e) = Name(d) => d = e \/ Before(d, e)) =>
           \E f \in Functions : /\ Name(f) = Name(d)
                                /\ Agree(CodeFrom[Entry(f), 1, TRUE], FirstEvent(d))

(* What LLVM's verifier asks for, which this build does not run: a block   *)
(* has one terminator, its last instruction; branches go to blocks of the  *)
(* same function, never to its entry.  And no path through a function      *)
(* without a result runs into "unreachable" (stripInstructionsAfter-       *)
(* Terminators puts one wherever a block has no end).                      *)
WellFormedCode ==
  Generated =>
    /\ \A b \in Blocks :
         /\ \A i \in DOMAIN Ins(b) : Ins(b)[i].op \in Terminators <=> i = Len(Ins(b))
         /\ \A k \in DOMAIN Ending(b).to :
              LET t == Ending(b).to[k]
              IN code[t].fn = code[b].fn /\ t # Entry(code[b].fn)
    /\ \A f \in Functions :
         tree[f].type = "void" =>
           \A b \in Reached({Entry(f)}, {}) : Ending(b).op # "unreachable"

(* Every read and every call in the code is of the declaration the scoping *)
(* rules give, and only programs that keep the rules are generated; what   *)
(* is rejected without a type error breaks one.  Scopes are opened and     *)
(* closed by hand in each visit function.                                  *)
NamesResolve ==
  /\ Generated =>
       /\ WellScoped
       /\ \A b \in DOMAIN code : \A i \in DOMAIN Ins(b) :
            Ins(b)[i].op = "eval" =>
              Ins(b)[i].site = Resolve(Name(Ins(b)[i].at), Ins(b)[i].at)
  /\ result \in {"rejected", "undefined"} /\ ~refused => ~WellScoped

(* No scope outlives its statement: there is one for the module, one for   *)
(* every visit under way that opened one.                                  *)
ScopesNest ==
  result = "running" =>
    LET opened == {i \in 2..Len(visits) :
                     /\ Kind(visits[i].at) \in Scoped
                     /\ visits[i].pt > 0 \/ i < Len(visits)}
    IN Len(scopes) = 1 + Cardinality(opened)

(* A definition that is the whole then-branch of an if is visible in the   *)
(* else-branch, which never runs after it: condition and branches share    *)
(* one scope (IfStmt).                                                     *)
LeaksIntoElse(d, p) ==
  /\ Kind(d) = "let" /\ Kind(Parent(d)) = "if" /\ Rank(d) = 2
  /\ Inside(p, Child(Parent(d), 3))

(* No variable is read before its value is stored, on any path through the *)
(* function, loops included.                                               *)
StoredBeforeRead ==
  Generated =>
    \A b \in Blocks : \A i \in DOMAIN Ins(b) :
      LET d == Ins(b)[i].site
          stores(c) == {j \in DOMAIN Ins(c) : Ins(c)[j].op = "store" /\ Ins(c)[j].at = d}
          storing == {c \in Blocks : stores(c) # {}}
      IN /\ Ins(b)[i].op = "eval" /\ d # NoSite /\ Kind(d) \in {"let", "param"}
         /\ ~LeaksIntoElse(d, Ins(b)[i].at)
         => \/ \E j \in stores(b) : j < i
            \/ b \notin Reached({Entry(code[b].fn)}, storing)
=============================================================================

---------------------------- MODULE SourceProgram ----------------------------
(***************************************************************************)
(* What a parsed program means, before any code is generated: which        *)
(* declaration a name refers to, and what happens after what when it runs. *)
(* Both are stated on the tree alone, without a symbol table and without   *)
(* basic blocks.  The code generation visitor is checked against them.     *)
(*                                                                         *)
(* A node is named by its path from the root <<>>: path \o <<i>> is its    *)
(* i-th kid.  Kids stand in the order in which code is generated for them: *)
(*   root              top-level definitions                               *)
(*   def               parameters, then the body (a block)                 *)
(*   decl              parameters                                          *)
(*   block             statements                                          *)
(*   if                condition, then, else ("empty" if there is none)    *)
(*   while             condition, body                                     *)
(*   for               initialiser, condition, body, step                  *)
(*   global, let       the initialiser, if there is one                    *)
(*   return            the expression, if there is one                     *)
(*   param, expr, call, empty   none                                       *)
(* expr reads the variable "name" (NoName: a constant), call calls the     *)
(* function "name".  The type of def and decl is what they return.         *)
(***************************************************************************)
EXTENDS Naturals, FiniteSets, SequencesExt

CONSTANT NoName

VARIABLE tree  \* path -> node

Root == <<>>
Paths == DOMAIN tree
Kind(p) == tree[p].kind
Name(p) == tree[p].name
Kids(p) == tree[p].kids
Child(p, i) == Append(p, i)
Parent(p) == Front(p)
Rank(p) == Last(p)

Params(p) == {i \in 1..Kids(p) : Kind(Child(p, i)) = "param"}
Signature(p) == <<tree[p].type, Cardinality(Params(p))>>

IsFunction(p) == Kind(p) \in {"def", "decl"}
IsVariable(p) == Kind(p) \in {"global", "param", "let"}
HasElse(p) == Kind(Child(p, 3)) # "empty"

-----------------------------------------------------------------------------
(* Names.  A declaration is visible from where it ends (a function: from   *)
(* where it begins) to the end of the innermost statement with a scope of  *)
(* its own around it.                                                      *)

Inside(p, q) == IsPrefix(q, p)

Before(p, q) ==
  \/ IsStrictPrefix(p, q)
  \/ \E i \in 1..Len(p) :
       i <= Len(q) /\ p[i] < q[i] /\ \A j \in 1..(i - 1) : p[j] = q[j]

Scoped == {"root", "def", "decl", "block", "if", "while", "for"}
ScopeOf(d) ==
  LET around == {n \in 0..(Len(d) - 1) : Kind(SubSeq(d, 1, n)) \in Scoped}
  IN SubSeq(d, 1, CHOOSE n \in around : \A m \in around : m <= n)

Visible(d, p) ==
  /\ IsFunction(d) \/ IsVariable(d)
  /\ Before(d, p) /\ Inside(p, ScopeOf(d))
  /\ IsVariable(d) => ~Inside(p, d)

NoSite == <<0>>

(* What the name n stands for at p: of the visible declarations the one in *)
(* the innermost scope, there the first.                                   *)
Resolve(n, p) ==
  LET found == {d \in Paths : Name(d) = n /\ Visible(d, p)}
      closer(d, e) == \/ Len(ScopeOf(d)) > Len(ScopeOf(e))
                      \/ ScopeOf(d) = ScopeOf(e) /\ (d = e \/ Before(d, e))
  IN IF found = {} THEN NoSite
     ELSE CHOOSE d \in found : \A e \in found : closer(d, e)

(* The rules a program must keep to be accepted, types aside.              *)
NameRules(p) ==
  CASE Kind(p) = "expr" -> Name(p) # NoName => /\ Resolve(Name(p), p) # NoSite
                                               /\ IsVariable(Resolve(Name(p), p))
    [] Kind(p) = "call" -> /\ Resolve(Name(p), p) # NoSite
                           /\ IsFunction(Resolve(Name(p), p))
    [] Kind(p) = "let" -> Resolve(Name(p), p) = NoSite
    [] Kind(p) = "global" -> /\ Resolve(Name(p), p) = NoSite
                             /\ Kids(p) = 1
                             /\ Kind(Child(p, 1)) = "expr" /\ Name(Child(p, 1)) = NoName
    [] IsFunction(p) -> LET d == Resolve(Name(p), p)
                        IN d # NoSite => IsFunction(d) /\ Signature(d) = Signature(p)
    [] OTHER -> TRUE

WellScoped == \A p \in Paths : NameRules(p)

-----------------------------------------------------------------------------
(* Order of events.  An event <<what, p>> is the moment when node p is     *)
(* evaluated, stores into its variable, or leaves the function; the end of *)
(* a body is an event of its definition.                                   *)

Effect(p) ==
  CASE Kind(p) \in {"expr", "call"} -> "eval"
    [] Kind(p) \in {"let", "param"} -> "store"
    [] Kind(p) = "return" -> "ret"
    [] Kind(p) = "def" -> "end"
    [] OTHER -> "none"

(* The kid of p that follows its i-th one (0: p begins), 0 when p is done; *)
(* "yes" is the value of the kid, when that is a condition.                *)
NextKid(p, i, yes) ==
  CASE Kind(p) = "if" /\ i = 1 -> IF yes THEN 2 ELSE IF HasElse(p) THEN 3 ELSE 0
    [] Kind(p) = "if" /\ i = 2 -> 0
    [] Kind(p) = "while" /\ i = 1 -> IF yes THEN 2 ELSE 0
    [] Kind(p) = "while" /\ i = 2 -> 1
    [] Kind(p) = "for" /\ i = 2 -> IF yes THEN 3 ELSE 0
    [] Kind(p) = "for" /\ i = 4 -> 2
    [] OTHER -> IF i < Kids(p) THEN i + 1 ELSE 0

(* The next event once the i-th kid of p is through.                       *)
EventFrom[p \in Paths, i \in Nat, yes \in BOOLEAN] ==
  LET j == NextKid(p, i, yes)
  IN IF j # 0 THEN EventFrom[Child(p, j), 0, TRUE]
     ELSE IF Effect(p) # "none" THEN <<Effect(p), p>>
     ELSE EventFrom[Parent(p), Rank(p), TRUE]

EventAfter(p, yes) == EventFrom[Parent(p), Rank(p), yes]

(* Of several definitions of one function the first is the one that runs.  *)
FirstEvent(def) == EventFrom[def, 0, TRUE]
=============================================================================

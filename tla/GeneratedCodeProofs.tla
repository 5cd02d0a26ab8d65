------------------------ MODULE GeneratedCodeProofs ------------------------
(***************************************************************************)
(* Proofs about the code generation visitor and the code it generates, for *)
(* every parsed program: its scopes nest, and what its visits, symbols and *)
(* branches refer to exists; the names in the code refer to the            *)
(* declarations that the scoping rules give, the programs accepted are     *)
(* those that keep the rules, the blocks are what LLVM asks for, and no    *)
(* variable is read before it is stored to.                                *)
(*                                                                         *)
(* Scopes.  Every action ends a visit or begins one, and what it does to   *)
(* the scopes follows from where in which statement that happens: Entering *)
(* and Leaving say what an action has to do besides, to keep IInv.         *)
(*                                                                         *)
(* Names.  The walk is at a place of the tree, Pos.  The invariant says    *)
(* that the table holds the declarations visible there (TableOK), each in  *)
(* the scope it belongs to, of several of one name the first; that the     *)
(* rules hold of what is behind the walk; and that what was emitted refers *)
(* to what it should.                                                      *)
(*                                                                         *)
(* Blocks.  A visit of a statement leaves blocks open while its kids are   *)
(* visited, or out of the function.  The invariant says of each visit      *)
(* under way which blocks those are (Puts, Owes), and that all others are  *)
(* closed (ClosedBut) and branch to blocks of their function (JumpOK).     *)
(*                                                                         *)
(* Variables.  There is a set of variables for each block, In, that have   *)
(* been stored to whenever it is entered (CodeFed); the current block has  *)
(* stored to the ones visible at Pos (Feeding).                            *)
(***************************************************************************)
EXTENDS GeneratedCode, StackFacts, FiniteSetTheorems, TLAPS

-----------------------------------------------------------------------------
(* The invariant of the walk.                                              *)

Running == result = "running"

(* How many blocks a visit has saved when it has begun the e-th kid.       *)
BlocksSaved(kind, e, n) ==
  /\ kind = "if" /\ e >= 2 => n = 2
  /\ kind = "while" /\ e \in {1, 2} => n = e
  /\ kind = "for" /\ e \in {1, 2, 3} => n = e
  /\ kind = "for" /\ e = 4 => n = 5

Begun(i) == visits[i].pt + (IF i < Len(visits) THEN 1 ELSE 0)

VisitOK(i) ==
  LET v == visits[i]
  IN /\ DOMAIN v = {"at", "pt", "bb"}
     /\ v.at \in Paths /\ v.pt \in Nat /\ Begun(i) <= Kids(v.at)
     /\ v.at = Root <=> i = 1
     /\ Kind(v.at) \in AtTop <=> i = 2
     /\ Kind(v.at) = "root" <=> i = 1
     /\ IsSeq(v.bb) /\ BlocksSaved(Kind(v.at), Begun(i), Len(v.bb))
     /\ \A k \in 1..Len(v.bb) : v.bb[k] \in 1..Len(code)

VisitsInv == IsSeq(visits) /\ visits # <<>> /\ \A i \in 1..Len(visits) : VisitOK(i)

(* Visits that hold a scope open.                                          *)
Opened == {i \in 2..Len(visits) : /\ Kind(visits[i].at) \in Scoped
                                  /\ visits[i].pt > 0 \/ i < Len(visits)}

SymbolsOK(ss) ==
  /\ IsSeq(ss)
  /\ \A i \in 1..Len(ss) : \A n \in DOMAIN ss[i] : ss[i][n] \in Paths /\ Name(ss[i][n]) = n

ScopesInv == SymbolsOK(scopes) /\ Len(scopes) = 1 + Cardinality(Opened)

(* Inside of a function there is a block to emit into.                     *)
BlockInv == Len(visits) >= 3 \/ (Len(visits) = 2 /\ visits[2].pt > 0) => cur # 0

FnSet == {Detached} \cup {p \in Paths : IsFunction(p)}
TargetsOK(ins, n) == \A k \in DOMAIN ins.to : ins.to[k] \in 1..n
BasicBlockOK(b, n) ==
  /\ DOMAIN b = {"fn", "ins"} /\ b.fn \in FnSet /\ IsSeq(b.ins)
  /\ \A i \in 1..Len(b.ins) : TargetsOK(b.ins[i], n)
CodeOK(c, n) == IsSeq(c) /\ \A b \in 1..Len(c) : BasicBlockOK(c[b], n)

CodeInv == CodeOK(code, Len(code)) /\ cur \in 0..Len(code)

IInv ==
  /\ tree \in Programs
  /\ refused \in BOOLEAN /\ result \in {"running", "generated", "rejected", "undefined"}
  /\ CodeInv
  /\ Running => VisitsInv /\ ScopesInv /\ BlockInv
  /\ ~Running => visits = <<>> /\ scopes = <<>>

-----------------------------------------------------------------------------
(* Trees.                                                                  *)

LEMMA TreeFacts ==
  ASSUME tree \in Programs
  PROVE  /\ Root \in Paths /\ Kind(Root) = "root"
         /\ \A p \in Paths : /\ p \in Seq(Nat) /\ Kids(p) \in Nat
                             /\ Kind(p) = "def" => Kids(p) >= 1
                             /\ Kind(p) = "if" => Kids(p) = 3
                             /\ Kind(p) = "while" => Kids(p) = 2
                             /\ Kind(p) = "for" => Kids(p) = 4
                             /\ Kind(p) \in {"let", "return"} => Kids(p) <= 1
         /\ \A p \in Paths : \A i \in 1..Kids(p) :
              /\ Child(p, i) \in Paths /\ Kind(Child(p, i)) # "root"
              /\ Kind(Child(p, i)) \in AtTop <=> p = Root
              /\ Child(p, i) # Root
<1>1. Parsed(tree)
  BY ProgramsAssumption
<1>2. \A p \in Paths : \A i \in 1..Kids(p) : Child(p, i) # Root
  <2> SUFFICES ASSUME NEW p \in Paths, NEW i \in 1..Kids(p) PROVE Child(p, i) # Root
    OBVIOUS
  <2>1. p \in Seq(Nat) /\ i \in Nat
    BY <1>1 DEF Parsed, Paths, Kids
  <2> QED
    BY <2>1, AppendProperties DEF Child, Root
<1>3. \A p \in Paths : KidsOf(tree, p)
  BY <1>1 DEF Parsed, Paths
<1>4. \A p \in Paths : /\ Kind(p) = "def" => Kids(p) >= 1
                       /\ Kind(p) = "if" => Kids(p) = 3
                       /\ Kind(p) = "while" => Kids(p) = 2
                       /\ Kind(p) = "for" => Kids(p) = 4
                       /\ Kind(p) \in {"let", "return"} => Kids(p) <= 1
  <2> SUFFICES ASSUME NEW p \in Paths
               PROVE  /\ Kind(p) = "def" => Kids(p) >= 1
                      /\ Kind(p) = "if" => Kids(p) = 3
                      /\ Kind(p) = "while" => Kids(p) = 2
                      /\ Kind(p) = "for" => Kids(p) = 4
                      /\ Kind(p) \in {"let", "return"} => Kids(p) <= 1
    OBVIOUS
  <2>1. KidsOf(tree, p)
    BY <1>3
  <2> QED
    BY <2>1 DEF KidsOf, Leaves, Expressions, Kids, Kind
<1> QED
  BY <1>1, <1>2, <1>4 DEF Parsed, Paths, Kids, Kind

-----------------------------------------------------------------------------
(* Blocks.                                                                 *)

LEMMA NewBlock ==
  ASSUME NEW c, NEW n, CodeOK(c, n), NEW f \in FnSet
  PROVE  CodeOK(New(c, f), n) /\ Len(New(c, f)) = Len(c) + 1
<1> DEFINE b == [fn |-> f, ins |-> <<>>]
<1>1. IsSeq(<<>>) /\ Len(<<>>) = 0
  BY NothingIsSeq
<1>2. BasicBlockOK(b, n)
  BY <1>1 DEF BasicBlockOK
<1> HIDE DEF b
<1>3. /\ IsSeq(Append(c, b)) /\ Len(Append(c, b)) = Len(c) + 1
      /\ \A k \in 1..Len(c) : Append(c, b)[k] = c[k]
      /\ Append(c, b)[Len(c) + 1] = b
  BY Appended DEF CodeOK
<1>4. Len(c) \in Nat
  BY SeqFacts DEF CodeOK
<1>5. \A k \in 1..(Len(c) + 1) : k \in 1..Len(c) \/ k = Len(c) + 1
  BY <1>4
<1>6. CodeOK(Append(c, b), n)
  BY <1>2, <1>3, <1>5 DEF CodeOK
<1> QED
  BY <1>3, <1>6 DEF New, b

(* Changing one element of a sequence.                                     *)
LEMMA Changed ==
  ASSUME NEW s, IsSeq(s), NEW k \in 1..Len(s), NEW e
  PROVE  /\ IsSeq([s EXCEPT ![k] = e]) /\ Len([s EXCEPT ![k] = e]) = Len(s)
         /\ \A j \in 1..Len(s) : [s EXCEPT ![k] = e][j] = IF j = k THEN e ELSE s[j]
<1> DEFINE T == {s[j] : j \in DOMAIN s} \cup {e}
<1>1. s \in Seq(T) /\ e \in T
  BY SeqMonotonic DEF IsSeq
<1> HIDE DEF T
<1>2. [s EXCEPT ![k] = e] \in Seq(T) /\ Len([s EXCEPT ![k] = e]) = Len(s)
  BY <1>1, ExceptSeq
<1>3. IsSeq([s EXCEPT ![k] = e])
  BY <1>2, SeqIsSeq
<1> QED
  BY <1>1, <1>2, <1>3, SeqFacts

LEMMA BlockChanged ==
  ASSUME NEW c, NEW n, CodeOK(c, n), NEW b \in 1..Len(c), NEW e, BasicBlockOK(e, n)
  PROVE  CodeOK([c EXCEPT ![b] = e], n) /\ Len([c EXCEPT ![b] = e]) = Len(c)
BY Changed DEF CodeOK

LEMMA Emitted ==
  ASSUME NEW c, NEW n, CodeOK(c, n), NEW b \in 1..Len(c), NEW x, TargetsOK(x, n)
  PROVE  CodeOK(Emit(c, b, x), n) /\ Len(Emit(c, b, x)) = Len(c)
<1> DEFINE ins == Append(c[b].ins, x)
           e == [c[b] EXCEPT !.ins = ins]
<1>1. BasicBlockOK(c[b], n)
  BY DEF CodeOK
<1>2. /\ IsSeq(ins) /\ Len(ins) = Len(c[b].ins) + 1
      /\ \A k \in 1..Len(c[b].ins) : ins[k] = c[b].ins[k]
      /\ ins[Len(c[b].ins) + 1] = x
  BY <1>1, Appended DEF BasicBlockOK
<1>3. \A k \in 1..(Len(c[b].ins) + 1) : k \in 1..Len(c[b].ins) \/ k = Len(c[b].ins) + 1
  BY <1>1, SeqFacts DEF BasicBlockOK
<1> HIDE DEF ins
<1>4. DOMAIN e = {"fn", "ins"} /\ e.fn = c[b].fn /\ e.ins = ins
  BY <1>1 DEF BasicBlockOK
<1>5. BasicBlockOK(e, n)
  BY <1>1, <1>2, <1>3, <1>4 DEF BasicBlockOK
<1>6. Emit(c, b, x) = [c EXCEPT ![b] = e]
  BY DEF Emit, ins
<1>7. CodeOK([c EXCEPT ![b] = e], n) /\ Len([c EXCEPT ![b] = e]) = Len(c)
  BY <1>5, BlockChanged
<1> QED
  BY <1>6, <1>7

LEMMA Attached ==
  ASSUME NEW c, NEW n, CodeOK(c, n), NEW b \in 1..Len(c), NEW f \in FnSet
  PROVE  CodeOK(Attach(c, b, f), n) /\ Len(Attach(c, b, f)) = Len(c)
<1> DEFINE e == [c[b] EXCEPT !.fn = f]
<1>1. BasicBlockOK(c[b], n)
  BY DEF CodeOK
<1>2. BasicBlockOK(e, n)
  BY <1>1 DEF BasicBlockOK
<1>3. Attach(c, b, f) = [c EXCEPT ![b] = e]
  BY DEF Attach
<1>4. CodeOK([c EXCEPT ![b] = e], n) /\ Len([c EXCEPT ![b] = e]) = Len(c)
  BY <1>2, BlockChanged
<1> QED
  BY <1>3, <1>4

LEMMA Wider ==
  ASSUME NEW c, NEW n \in Nat, CodeOK(c, n), NEW m \in Nat, n <= m
  PROVE  CodeOK(c, m)
<1>1. 1..n \subseteq 1..m
  OBVIOUS
<1> QED
  BY <1>1 DEF CodeOK, BasicBlockOK, TargetsOK

LEMMA Strips ==
  ASSUME NEW b, NEW n, BasicBlockOK(b, n)
  PROVE  BasicBlockOK([b EXCEPT !.ins = Stripped(@)], n)
<1> DEFINE ins == b.ins
           ends == {i \in DOMAIN ins : ins[i].op \in Terminators}
           stop == Instr("unreachable", Root, <<>>, NoSite)
<1>1. /\ IsSeq(ins) /\ DOMAIN ins = 1..Len(ins) /\ Len(ins) \in Nat
      /\ \A i \in 1..Len(ins) : TargetsOK(ins[i], n)
  BY SeqFacts DEF BasicBlockOK
<1>2. ASSUME NEW s, IsSeq(s), \A i \in 1..Len(s) : TargetsOK(s[i], n), Stripped(ins) = s
      PROVE  BasicBlockOK([b EXCEPT !.ins = Stripped(@)], n)
  BY <1>2 DEF BasicBlockOK
<1>3. CASE ends = {}
  <2>1. Stripped(ins) = Append(ins, stop)
    BY <1>3 DEF Stripped
  <2>2. TargetsOK(stop, n)
    BY DEF TargetsOK, Instr
  <2> HIDE DEF stop, ins
  <2>3. /\ IsSeq(Append(ins, stop)) /\ Len(Append(ins, stop)) = Len(ins) + 1
        /\ \A k \in 1..Len(ins) : Append(ins, stop)[k] = ins[k]
        /\ Append(ins, stop)[Len(ins) + 1] = stop
    BY <1>1, Appended
  <2>4. \A k \in 1..(Len(ins) + 1) : k \in 1..Len(ins) \/ k = Len(ins) + 1
    BY <1>1
  <2>5. \A k \in 1..Len(Append(ins, stop)) : TargetsOK(Append(ins, stop)[k], n)
    BY <1>1, <2>2, <2>3, <2>4
  <2> QED
    BY <1>2, <2>1, <2>3, <2>5
<1>4. CASE ends # {}
  <2>1. ends \subseteq Nat
    BY <1>1
  <2>2. \E i \in ends : \A j \in ends : i <= j
    BY <1>4, <2>1, LeastExists
  <2>3. PICK i \in ends : i = CHOOSE k \in ends : \A j \in ends : k <= j
    BY <2>2
  <2>4. Stripped(ins) = SubSeq(ins, 1, i)
    BY <1>4, <2>3 DEF Stripped
  <2>5. i \in 1..Len(ins)
    BY <1>1
  <2> HIDE DEF ins, ends
  <2> DEFINE T == {ins[k] : k \in DOMAIN ins}
  <2>6. \A k \in 1..i : ins[k] \in T
    BY <1>1, <2>5
  <2> HIDE DEF T
  <2>7. /\ SubSeq(ins, 1, i) \in Seq(T)
        /\ Len(SubSeq(ins, 1, i)) = i - 1 + 1
        /\ \A k \in 1..(i - 1 + 1) : SubSeq(ins, 1, i)[k] = ins[1 + k - 1]
    BY <2>5, <2>6, SubSeqProperties
  <2>8. i - 1 + 1 = i /\ \A k \in 1..i : 1 + k - 1 = k /\ k \in 1..Len(ins)
    BY <1>1, <2>5
  <2>9. \A k \in 1..Len(SubSeq(ins, 1, i)) : TargetsOK(SubSeq(ins, 1, i)[k], n)
    BY <1>1, <2>7, <2>8
  <2> QED
    BY <1>2, <2>4, <2>7, <2>9, SeqIsSeq
<1> QED
  BY <1>3, <1>4

-----------------------------------------------------------------------------
(* Symbols.                                                                *)

(* A name is found as one of those that are wanted, or not at all.         *)
LEMMA Found ==
  ASSUME SymbolsOK(scopes), NEW n, NEW wanted
  PROVE  FindIn(n, wanted) \in wanted \cup {NoSite}
<1> DEFINE having == {i \in DOMAIN scopes : n \in DOMAIN scopes[i] /\ scopes[i][n] \in wanted}
<1>1. Len(scopes) \in Nat /\ DOMAIN scopes = 1..Len(scopes)
  BY SeqFacts DEF SymbolsOK
<1>2. CASE having = {}
  BY <1>2 DEF FindIn
<1>3. CASE having # {}
  <2>1. having \subseteq 1..Len(scopes)
    BY <1>1
  <2>2. \E i \in having : \A j \in having : j <= i
    BY <1>1, <1>3, <2>1, GreatestExists
  <2>3. PICK i \in having : i = CHOOSE k \in having : \A j \in having : j <= k
    BY <2>2
  <2> QED
    BY <1>3, <2>3 DEF FindIn
<1> QED
  BY <1>2, <1>3

LEMMA Inserted ==
  ASSUME NEW ss, SymbolsOK(ss), ss # <<>>, NEW p \in Paths
  PROVE  /\ SymbolsOK(Insert(ss, Name(p), p)) /\ Insert(ss, Name(p), p) # <<>>
         /\ Len(Insert(ss, Name(p), p)) = Len(ss)
<1> DEFINE top == Last(ss)
           more == [m \in DOMAIN top \cup {Name(p)} |-> IF m \in DOMAIN top THEN top[m] ELSE p]
<1>1. Len(ss) \in Nat /\ Len(ss) \in 1..Len(ss) /\ IsSeq(ss) /\ top = ss[Len(ss)]
  BY SeqFacts DEF SymbolsOK, Last
<1>2. \A n \in DOMAIN more : more[n] \in Paths /\ Name(more[n]) = n
  BY <1>1 DEF SymbolsOK
<1> HIDE DEF more
<1>3. /\ IsSeq(Append(Front(ss), more)) /\ Append(Front(ss), more) # <<>>
      /\ Len(Append(Front(ss), more)) = Len(ss)
      /\ \A k \in 1..(Len(ss) - 1) : Append(Front(ss), more)[k] = ss[k]
      /\ Append(Front(ss), more)[Len(ss)] = more
  BY <1>1, Replaced
<1>4. \A k \in 1..Len(ss) : k \in 1..(Len(ss) - 1) \/ k = Len(ss)
  BY <1>1
<1>5. SymbolsOK(Append(Front(ss), more))
  BY <1>2, <1>3, <1>4 DEF SymbolsOK
<1> QED
  BY <1>3, <1>5 DEF Insert, more

LEMMA Pushed ==
  ASSUME NEW ss, SymbolsOK(ss)
  PROVE  SymbolsOK(Append(ss, NoSymbols)) /\ Len(Append(ss, NoSymbols)) = Len(ss) + 1
<1>1. IsSeq(ss) /\ Len(ss) \in Nat /\ DOMAIN NoSymbols = {}
  BY SeqFacts DEF SymbolsOK, NoSymbols
<1>2. /\ IsSeq(Append(ss, NoSymbols)) /\ Len(Append(ss, NoSymbols)) = Len(ss) + 1
      /\ \A k \in 1..Len(ss) : Append(ss, NoSymbols)[k] = ss[k]
      /\ Append(ss, NoSymbols)[Len(ss) + 1] = NoSymbols
  BY <1>1, Appended
<1>3. \A k \in 1..(Len(ss) + 1) : k \in 1..Len(ss) \/ k = Len(ss) + 1
  BY <1>1
<1> QED
  BY <1>1, <1>2, <1>3 DEF SymbolsOK

LEMMA Popped ==
  ASSUME NEW ss, SymbolsOK(ss), ss # <<>>
  PROVE  SymbolsOK(Front(ss)) /\ Len(Front(ss)) = Len(ss) - 1
<1>1. /\ Len(ss) \in Nat /\ IsSeq(Front(ss)) /\ Len(Front(ss)) = Len(ss) - 1
      /\ \A k \in 1..(Len(ss) - 1) : Front(ss)[k] = ss[k]
  BY SeqFacts, Shortened DEF SymbolsOK
<1>2. \A k \in 1..(Len(ss) - 1) : k \in 1..Len(ss)
  BY <1>1
<1> QED
  BY <1>1, <1>2 DEF SymbolsOK

-----------------------------------------------------------------------------
(* Visits.                                                                 *)

(* The visit under way, in a state that satisfies the invariant.           *)
LEMMA TopVisit ==
  ASSUME IInv, Running
  PROVE  /\ Len(visits) \in Nat \ {0} /\ DOMAIN visits = 1..Len(visits) /\ IsSeq(visits)
         /\ Len(visits) \in 1..Len(visits) /\ Top = visits[Len(visits)]
         /\ DOMAIN Top = {"at", "pt", "bb"} /\ At \in Paths
         /\ Top.pt \in Nat /\ Kids(At) \in Nat /\ Top.pt <= Kids(At)
         /\ At = Root <=> Len(visits) = 1
         /\ Kind(At) \in AtTop <=> Len(visits) = 2
         /\ Kind(At) = "root" <=> Len(visits) = 1
         /\ IsSeq(Top.bb) /\ BlocksSaved(Kind(At), Top.pt, Len(Top.bb))
         /\ \A k \in 1..Len(Top.bb) : Top.bb[k] \in 1..Len(code)
<1>1. /\ Len(visits) \in Nat \ {0} /\ DOMAIN visits = 1..Len(visits)
      /\ Len(visits) \in 1..Len(visits) /\ Top = visits[Len(visits)]
  BY SeqFacts DEF IInv, VisitsInv, Top, Last
<1>2. VisitOK(Len(visits))
  BY <1>1 DEF IInv, VisitsInv
<1>3. Begun(Len(visits)) = Top.pt
  BY <1>1, <1>2 DEF Begun, VisitOK
<1> QED
  BY <1>1, <1>2, <1>3, TreeFacts DEF IInv, VisitsInv, VisitOK, At

LEMMA OpenedFinite ==
  ASSUME IInv, Running
  PROVE  IsFiniteSet(Opened)
<1>1. Len(visits) \in Int /\ Opened \in SUBSET (2..Len(visits))
  BY TopVisit DEF Opened
<1>2. IsFiniteSet(2..Len(visits))
  BY <1>1, FS_Interval
<1> QED
  BY <1>1, <1>2, FS_Subset

LEMMA Entering ==
  ASSUME IInv, Running, Walking, Top.pt < Kids(At),
         NEW bb, IsSeq(bb), BlocksSaved(Kind(At), Top.pt + 1, Len(bb)),
         \A k \in 1..Len(bb) : bb[k] \in 1..Len(code'),
         Enter(Top.pt + 1, bb),
         CodeOK(code', Len(code')), Len(code) <= Len(code'),
         cur' \in 0..Len(code'), At # Root => cur' # 0,
         SymbolsOK(scopes'),
         Len(scopes') = Len(scopes) + (IF At # Root /\ Kind(At) \in Scoped /\ Top.pt = 0
                                       THEN 1 ELSE 0)
  PROVE  IInv'
<1>0. PICK n \in Nat \ {0} : n = Len(visits) /\ n \in 1..n /\ Top = visits[n]
  BY TopVisit
<1> DEFINE v == [Top EXCEPT !.bb = bb]
           w == Visit(Child(At, Top.pt + 1))
           old == [visits EXCEPT ![n] = v]
<1>1. tree' = tree /\ refused' = refused /\ result' = result
  BY DEF Walking
<1>2. Len(code) \in Nat /\ Len(code') \in Nat
  BY SeqFacts DEF CodeOK, IInv, CodeInv
<1>3. visits' = Append(old, w)
  BY <1>0 DEF Enter
<1>4. /\ DOMAIN v = {"at", "pt", "bb"} /\ v.at = At /\ v.pt = Top.pt /\ v.bb = bb
      /\ DOMAIN w = {"at", "pt", "bb"} /\ w.at = Child(At, Top.pt + 1) /\ w.pt = 0
      /\ w.bb = <<>>
  BY TopVisit DEF Visit, At
<1> HIDE DEF v, w
<1>5. /\ IsSeq(old) /\ Len(old) = n
      /\ \A k \in 1..n : old[k] = IF k = n THEN v ELSE visits[k]
  BY <1>0, TopVisit, Changed
<1> HIDE DEF old
<1>6. /\ IsSeq(visits') /\ visits' # <<>> /\ Len(visits') = n + 1
      /\ \A k \in 1..n : visits'[k] = old[k]
      /\ visits'[n + 1] = w
  BY <1>3, <1>5, Appended
<1>7. /\ \A k \in 1..(n - 1) : visits'[k] = visits[k]
      /\ visits'[n] = v
  BY <1>0, <1>5, <1>6
<1>8. /\ w.at \in Paths /\ Kind(w.at) # "root" /\ w.at # Root
      /\ Kind(w.at) \in AtTop <=> At = Root
  <2>1. Top.pt + 1 \in 1..Kids(At)
    BY <1>0, TopVisit
  <2> QED
    BY <1>4, <2>1, TopVisit, TreeFacts DEF IInv
<1>9. \A k \in 1..(n + 1) : VisitOK(k)'
  <2>1. ASSUME NEW k \in 1..(n - 1) PROVE VisitOK(k)'
    <3>1. VisitOK(k) /\ k < n /\ k < n + 1 /\ n \in Nat
      BY <1>0, TopVisit DEF IInv, VisitsInv
    <3>2. Begun(k)' = Begun(k)
      BY <1>0, <1>6, <1>7, <3>1 DEF Begun
    <3>3. \A m \in 1..Len(code) : m \in 1..Len(code')
      BY <1>2
    <3> QED
      BY <1>1, <1>7, <3>1, <3>2, <3>3 DEF VisitOK, Paths, Kids, Kind
  <2>2. VisitOK(n)'
    <3>1. Begun(n)' = Top.pt + 1
      BY <1>0, <1>4, <1>6, <1>7, TopVisit DEF Begun
    <3> QED
      BY <1>1, <1>4, <1>7, <3>1, <1>0, TopVisit DEF VisitOK, Paths, Kids, Kind
  <2>3. VisitOK(n + 1)'
    <3>1. Begun(n + 1)' = 0
      BY <1>0, <1>4, <1>6 DEF Begun
    <3>2. BlocksSaved(Kind(w.at), 0, 0)
      BY DEF BlocksSaved
    <3>3. Kids(w.at) \in Nat
      BY <1>8, TreeFacts DEF IInv
    <3> QED
      BY <1>1, <1>4, <1>6, <1>8, <3>1, <3>2, <3>3, <1>0, TopVisit, NothingIsSeq
         DEF VisitOK, Paths, Kids, Kind
  <2>4. \A k \in 1..(n + 1) : k \in 1..(n - 1) \/ k = n \/ k = n + 1
    OBVIOUS
  <2> QED
    BY <2>1, <2>2, <2>3, <2>4
<1>10. Opened' = IF At # Root /\ Kind(At) \in Scoped THEN Opened \cup {n} ELSE Opened
  <2>1. \A k \in 2..(n - 1) : k \in Opened' <=> k \in Opened
    <3>1. \A k \in 2..(n - 1) : k < n /\ k < n + 1 /\ k \in 2..n /\ k \in 2..(n + 1) /\ k \in 1..(n - 1)
      BY <1>0, TopVisit
    <3> QED
      BY <1>0, <1>1, <1>6, <1>7, <3>1 DEF Opened, Kind
  <2>2. n \in Opened' <=> At # Root /\ Kind(At) \in Scoped
    <3>1. n < n + 1 /\ (n \in 2..(n + 1) <=> n # 1)
      BY <1>0, TopVisit
    <3> QED
      BY <1>1, <1>4, <1>6, <1>7, <3>1, <1>0, TopVisit DEF Opened, Kind
  <2>3. n + 1 \notin Opened'
    <3>1. ~(n + 1 < n + 1) /\ ~(0 > 0)
      BY <1>0, TopVisit
    <3> QED
      BY <1>4, <1>6, <3>1 DEF Opened
  <2>4. n \in Opened => At # Root /\ Kind(At) \in Scoped
    <3>1. n \in 2..n => n # 1
      BY <1>0, TopVisit
    <3> QED
      BY <3>1, <1>0, TopVisit DEF Opened, At
  <2>5. Opened \subseteq 2..n /\ Opened' \subseteq 2..(n + 1)
    BY <1>0, <1>6 DEF Opened
  <2>6. \A k \in 2..(n + 1) : k \in 2..(n - 1) \/ k = n \/ k = n + 1
    OBVIOUS
  <2>7. \A k \in 2..n : k \in 2..(n - 1) \/ k = n
    OBVIOUS
  <2>8. \A k \in Opened' : k \in Opened \/ (k = n /\ At # Root /\ Kind(At) \in Scoped)
    BY <2>1, <2>2, <2>3, <2>5, <2>6
  <2>9. \A k \in Opened : k \in Opened'
    BY <2>1, <2>2, <2>4, <2>5, <2>7
  <2> QED
    BY <2>2, <2>4, <2>8, <2>9, Zenon
<1>11. At # Root /\ Kind(At) \in Scoped => (n \in Opened <=> Top.pt # 0)
  <2>1. At # Root => n \in 2..n
    BY <1>0, TopVisit
  <2>2. ~(n < n) /\ (Top.pt > 0 <=> Top.pt # 0)
    BY <1>0, TopVisit
  <2> QED
    BY <2>1, <2>2, <1>0, TopVisit DEF Opened, At
<1>12. Len(scopes') = 1 + Cardinality(Opened')
  <2>1. /\ Len(scopes) = 1 + Cardinality(Opened) /\ Cardinality(Opened) \in Nat
        /\ IsFiniteSet(Opened)
    BY OpenedFinite, FS_CardinalityType DEF IInv, ScopesInv
  <2>2. Cardinality(Opened \cup {n}) = IF n \in Opened THEN Cardinality(Opened)
                                       ELSE Cardinality(Opened) + 1
    BY <2>1, FS_AddElement
  <2> QED
    BY <1>10, <1>11, <2>1, <2>2
<1>13. ScopesInv'
  BY <1>1, <1>12 DEF ScopesInv, SymbolsOK, Paths, Name
<1>14. BlockInv'
  <2>1. n + 1 >= 3 => At # Root
    BY <1>0, TopVisit
  <2>2. n + 1 = 2 => visits'[2].pt = 0
    <3>1. n + 1 = 2 => visits'[2] = w
      BY <1>6
    <3> QED
      BY <1>4, <3>1
  <2> QED
    BY <1>6, <2>1, <2>2 DEF BlockInv
<1>15. CodeInv'
  BY <1>1 DEF CodeInv, CodeOK, BasicBlockOK, FnSet, TargetsOK, Paths, IsFunction, Kind
<1> QED
  BY <1>1, <1>6, <1>9, <1>13, <1>14, <1>15 DEF IInv, VisitsInv, Running

LEMMA Leaving ==
  ASSUME IInv, Running, Walking, Len(visits) > 1, Return,
         CodeOK(code', Len(code')), Len(code) <= Len(code'),
         cur' \in 0..Len(code'), Len(visits) > 2 => cur' # 0,
         SymbolsOK(scopes'),
         Len(scopes') = Len(scopes) - (IF Kind(At) \in Scoped /\ Top.pt > 0 THEN 1 ELSE 0)
  PROVE  IInv'
<1>0. PICK n \in Nat : n + 1 = Len(visits) /\ n >= 1
  <2>1. Len(visits) - 1 \in Nat /\ (Len(visits) - 1) + 1 = Len(visits) /\ Len(visits) - 1 >= 1
    BY TopVisit
  <2> QED
    BY <2>1
<1>1. tree' = tree /\ refused' = refused /\ result' = result
  BY DEF Walking
<1>2. Len(code) \in Nat /\ Len(code') \in Nat
  BY SeqFacts DEF CodeOK, IInv, CodeInv
<1>3. PICK f : f = Front(visits)
  OBVIOUS
<1>4. IsSeq(f) /\ Len(f) = n /\ \A k \in 1..n : f[k] = visits[k]
  <2>1. Len(visits) - 1 = n
    BY <1>0
  <2>2. IsSeq(visits) /\ visits # <<>>
    BY DEF IInv, VisitsInv
  <2>3. /\ IsSeq(Front(visits)) /\ Len(Front(visits)) = Len(visits) - 1
        /\ \A k \in 1..(Len(visits) - 1) : Front(visits)[k] = visits[k]
    BY <2>2, Shortened
  <2> QED
    BY <1>3, <2>1, <2>3
<1>5. VisitOK(n) /\ VisitOK(n + 1)
  <2>1. n \in 1..(n + 1) /\ n + 1 \in 1..(n + 1)
    BY <1>0
  <2> QED
    BY <1>0, <2>1 DEF IInv, VisitsInv
<1>6. PICK v : v = [visits[n] EXCEPT !.pt = @ + 1]
  OBVIOUS
<1>7. /\ DOMAIN v = {"at", "pt", "bb"} /\ v.at = visits[n].at /\ v.pt = visits[n].pt + 1
      /\ v.bb = visits[n].bb /\ visits[n].pt \in Nat
  BY <1>5, <1>6 DEF VisitOK
<1>8. visits' = [f EXCEPT ![n] = v]
  <2>1. Len(visits) - 1 = n /\ n \in 1..n
    BY <1>0
  <2>2. f[n] = visits[n]
    BY <1>4, <2>1
  <2>3. visits' = [f EXCEPT ![n].pt = @ + 1]
    BY <1>3, <2>1 DEF Return
  <2> QED
    BY <1>6, <2>2, <2>3
<1>9. /\ IsSeq(visits') /\ Len(visits') = n
      /\ \A k \in 1..n : visits'[k] = IF k = n THEN v ELSE visits[k]
  <2>1. n \in 1..n
    BY <1>0
  <2>2. n \in 1..Len(f)
    BY <1>4, <2>1
  <2>3. IsSeq(f)
    BY <1>4
  <2>4. IsSeq([f EXCEPT ![n] = v])
    BY <2>2, <2>3, Changed
  <2>5. Len([f EXCEPT ![n] = v]) = Len(f)
    BY <2>2, <2>3, Changed
  <2>6. \A k \in 1..n : [f EXCEPT ![n] = v][k] = IF k = n THEN v ELSE f[k]
    BY <1>4, <2>3, SeqFacts
  <2> QED
    BY <1>4, <1>8, <2>4, <2>5, <2>6
<1>10. visits' # <<>>
  BY <1>0, <1>9, NothingIsSeq
<1>11. \A k \in 1..n : VisitOK(k)'
  <2>1. ASSUME NEW k \in 1..n, k # n PROVE VisitOK(k)'
    <3>1. k < n /\ k < n + 1 /\ k \in 1..(n + 1)
      BY <1>0, <2>1
    <3>2. VisitOK(k) /\ visits'[k] = visits[k]
      BY <1>0, <1>9, <2>1, <3>1 DEF IInv, VisitsInv
    <3>3. Begun(k)' = Begun(k)
      BY <1>0, <1>9, <3>1, <3>2 DEF Begun
    <3>4. \A m \in 1..Len(code) : m \in 1..Len(code')
      BY <1>2
    <3> QED
      BY <1>1, <3>2, <3>3, <3>4 DEF VisitOK, Paths, Kids, Kind
  <2>2. VisitOK(n)'
    <3>1. visits'[n] = v
      BY <1>0, <1>9
    <3>2. Begun(n) = v.pt /\ Begun(n)' = v.pt
      BY <1>0, <1>7, <1>9, <3>1 DEF Begun
    <3>3. \A m \in 1..Len(code) : m \in 1..Len(code')
      BY <1>2
    <3>4. v.pt \in Nat
      BY <1>7
    <3> QED
      BY <1>1, <1>5, <1>7, <3>1, <3>2, <3>3, <3>4 DEF VisitOK, Paths, Kids, Kind
  <2> QED
    BY <2>1, <2>2
<1>12. Opened' = Opened \ {n + 1}
  <2>1. \A k \in 2..(n + 1) : k # n + 1 => k \in 1..n /\ k \in 2..n /\ k < n + 1
    BY <1>0
  <2>2. \A k \in 2..n : k \in 2..(n + 1) /\ k # n + 1 /\ (k # n => k < n)
    BY <1>0
  <2>3. v.pt > 0
    BY <1>7
  <2>4. ASSUME NEW k \in Opened' PROVE k \in Opened \ {n + 1}
    BY <1>0, <1>1, <1>7, <1>9, <2>1, <2>2 DEF Opened, Kind
  <2>5. ASSUME NEW k \in Opened, k # n + 1 PROVE k \in Opened'
    <3>1. k \in 2..(n + 1)
      BY <1>0 DEF Opened
    <3>2. k \in 2..n /\ k \in 1..n
      BY <2>1, <2>5, <3>1
    <3> QED
      BY <1>0, <1>1, <1>7, <1>9, <2>2, <2>3, <3>2 DEF Opened, Kind
  <2> QED
    BY <2>4, <2>5
<1>13. n + 1 \in Opened <=> Kind(At) \in Scoped /\ Top.pt > 0
  <2>1. n + 1 \in 2..(n + 1) /\ ~(n + 1 < n + 1)
    BY <1>0
  <2> QED
    BY <1>0, <2>1, TopVisit DEF Opened, At
<1>14. Len(scopes') = 1 + Cardinality(Opened')
  <2>1. /\ Len(scopes) = 1 + Cardinality(Opened) /\ Cardinality(Opened) \in Nat
        /\ IsFiniteSet(Opened)
    BY OpenedFinite, FS_CardinalityType DEF IInv, ScopesInv
  <2>2. Cardinality(Opened \ {n + 1}) = IF n + 1 \in Opened THEN Cardinality(Opened) - 1
                                        ELSE Cardinality(Opened)
    BY <2>1, FS_RemoveElement
  <2> QED
    BY <1>12, <1>13, <2>1, <2>2
<1>15. ScopesInv'
  BY <1>1, <1>14 DEF ScopesInv, SymbolsOK, Paths, Name
<1>16. BlockInv'
  <2>1. n >= 2 => Len(visits) > 2
    BY <1>0
  <2>2. n \in Nat
    BY <1>0
  <2> QED
    BY <1>9, <2>1, <2>2 DEF BlockInv
<1>17. CodeInv'
  BY <1>1 DEF CodeInv, CodeOK, BasicBlockOK, FnSet, TargetsOK, Paths, IsFunction, Kind
<1> QED
  BY <1>1, <1>9, <1>10, <1>11, <1>15, <1>16, <1>17 DEF IInv, VisitsInv, Running

LEMMA GivingUp ==
  ASSUME IInv, NEW r \in {"rejected", "undefined"}, GiveUp(r), refused' \in BOOLEAN
  PROVE  IInv'
<1>1. IsSeq(<<>>) /\ Len(<<>>) = 0 /\ 0 \in 0..0
  BY NothingIsSeq
<1>2. CodeInv'
  BY <1>1 DEF GiveUp, CodeInv, CodeOK
<1> QED
  BY <1>2 DEF GiveUp, IInv, Running

-----------------------------------------------------------------------------
(* The actions.                                                            *)

(* What holds in any visit of a statement or of an expression.             *)
LEMMA InStatement ==
  ASSUME IInv, Running, Kind(At) \notin AtTop \cup {"root"}
  PROVE  /\ Len(visits) > 1 /\ Len(visits) > 2 /\ At # Root
         /\ cur # 0 /\ cur \in 1..Len(code) /\ Func \in FnSet
<1>1. Len(visits) > 2 /\ Len(visits) > 1 /\ Len(visits) >= 3 /\ At # Root
  BY TopVisit
<1>2. cur # 0 /\ cur \in 0..Len(code)
  BY <1>1 DEF IInv, BlockInv, CodeInv
<1>3. Len(code) \in Nat
  BY SeqFacts DEF IInv, CodeInv, CodeOK
<1>4. cur \in 1..Len(code)
  BY <1>2, <1>3
<1> QED
  BY <1>1, <1>2, <1>4 DEF IInv, CodeInv, CodeOK, BasicBlockOK, Func

(* In a definition, once its first kid is through.                         *)
LEMMA InFunction ==
  ASSUME IInv, Running, Kind(At) = "def", Top.pt > 0
  PROVE  Len(visits) = 2 /\ At # Root /\ cur # 0 /\ cur \in 1..Len(code)
<1>1. Len(visits) = 2 /\ At # Root
  BY TopVisit DEF AtTop
<1>2. cur # 0 /\ cur \in 0..Len(code)
  BY <1>1, TopVisit DEF IInv, BlockInv, CodeInv
<1>3. Len(code) \in Nat
  BY SeqFacts DEF IInv, CodeInv, CodeOK
<1> QED
  BY <1>1, <1>2, <1>3

(* The state before a step, as the lemmas below need it.                   *)
LEMMA Standing ==
  ASSUME IInv, Running
  PROVE  /\ CodeOK(code, Len(code)) /\ Len(code) \in Nat /\ cur \in 0..Len(code)
         /\ SymbolsOK(scopes) /\ scopes # <<>> /\ Len(scopes) \in Nat \ {0}
<1>1. Len(code) \in Nat /\ IsSeq(scopes)
  BY SeqFacts DEF IInv, CodeInv, CodeOK, ScopesInv, SymbolsOK
<1>2. Cardinality(Opened) \in Nat
  BY OpenedFinite, FS_CardinalityType
<1>3. scopes # <<>>
  <2>1. Len(scopes) # 0
    BY <1>2 DEF IInv, ScopesInv
  <2> QED
    BY <2>1, NothingIsSeq
<1> QED
  BY <1>1, <1>2, <1>3 DEF IInv, CodeInv, ScopesInv

(* Entering or leaving without saved blocks and without a change to code.  *)
LEMMA PlainEnter ==
  ASSUME IInv, Running, Walking, Top.pt < Kids(At), Enter(Top.pt + 1, <<>>),
         Kind(At) \notin {"if", "while", "for"}, UNCHANGED <<code, cur>>,
         At # Root => cur # 0,
         SymbolsOK(scopes'),
         Len(scopes') = Len(scopes) + (IF At # Root /\ Kind(At) \in Scoped /\ Top.pt = 0
                                       THEN 1 ELSE 0)
  PROVE  IInv'
<1>1. BlocksSaved(Kind(At), Top.pt + 1, Len(<<>>)) /\ IsSeq(<<>>) /\ Len(<<>>) = 0
  BY NothingIsSeq DEF BlocksSaved
<1>2. /\ CodeOK(code', Len(code')) /\ Len(code) <= Len(code') /\ cur' \in 0..Len(code')
      /\ At # Root => cur' # 0
  BY Standing
<1>3. \A k \in 1..Len(<<>>) : <<>>[k] \in 1..Len(code')
  BY <1>1
<1> QED
  BY <1>1, <1>2, <1>3, Entering

(* Leaving a visit that has emitted one instruction without targets.       *)
LEMMA PlainLeave ==
  ASSUME IInv, Running, Walking, Len(visits) > 1, Return,
         code' = code \/ (\E x : TargetsOK(x, Len(code)) /\ code' = Emit(code, cur, x)
                                 /\ cur \in 1..Len(code)),
         cur' = cur, Len(visits) > 2 => cur # 0,
         SymbolsOK(scopes'),
         Len(scopes') = Len(scopes) - (IF Kind(At) \in Scoped /\ Top.pt > 0 THEN 1 ELSE 0)
  PROVE  IInv'
<1>1. CodeOK(code', Len(code')) /\ Len(code') = Len(code)
  <2>1. CASE code' = code
    BY <2>1, Standing
  <2>2. ASSUME NEW x, TargetsOK(x, Len(code)), code' = Emit(code, cur, x), cur \in 1..Len(code)
        PROVE  CodeOK(code', Len(code')) /\ Len(code') = Len(code)
    BY <2>2, Standing, Emitted
  <2> QED
    BY <2>1, <2>2
<1>2. Len(code) <= Len(code') /\ cur' \in 0..Len(code')
  BY <1>1, Standing
<1> QED
  BY <1>1, <1>2, Leaving

LEMMA Instructions ==
  ASSUME NEW p, NEW n, NEW site, NEW op
  PROVE  /\ TargetsOK(Instr(op, p, <<>>, site), n)
         /\ \A b : b \in 1..n => TargetsOK(Br(b), n)
         /\ \A b, c : b \in 1..n /\ c \in 1..n => TargetsOK(CondBr(b, c), n)
BY DEF TargetsOK, Instr, Br, CondBr

LEMMA DeclaredFunction ==
  ASSUME IInv, Running, IsFunction(At)
  PROVE  Declared \in FnSet
<1>1. At \in Paths
  BY TopVisit
<1>2. findFunction(Name(At)) \in {p \in Paths : IsFunction(p)} \cup {NoSite}
  BY Standing, Found DEF findFunction
<1> QED
  BY <1>1, <1>2 DEF Declared, FnSet

LEMMA TopLevelStep ==
  ASSUME IInv, TopLevel \/ DefineGlobal \/ Declare
  PROVE  IInv'
<1>1. CASE TopLevel
  <2>1. /\ Running /\ At = Root /\ Kind(At) = "root" /\ Top.pt < Kids(At) /\ Walking
        /\ Enter(Top.pt + 1, <<>>) /\ UNCHANGED <<code, cur>> /\ scopes' = scopes
    BY <1>1, TreeFacts DEF TopLevel, Running, IInv
  <2>2. SymbolsOK(scopes') /\ Len(scopes') = Len(scopes) + 0
    BY <2>1, Standing
  <2> QED
    BY <2>1, <2>2, PlainEnter
<1>2. CASE DefineGlobal \/ Declare
  <2>1. /\ Running /\ Kind(At) \in {"global", "decl"} /\ Top.pt = 0 /\ Walking /\ Return
        /\ code' = code /\ cur' = cur /\ scopes' = Insert(scopes, Name(At), At)
    BY <1>2 DEF DefineGlobal, Declare, Visiting, Running
  <2>2. Len(visits) = 2 /\ Len(visits) > 1 /\ ~(Len(visits) > 2) /\ At \in Paths
    BY <2>1, TopVisit DEF AtTop
  <2>3. SymbolsOK(scopes') /\ Len(scopes') = Len(scopes) - 0
    BY <2>1, <2>2, Standing, Inserted
  <2> QED
    BY <2>1, <2>2, <2>3, PlainLeave
<1> QED
  BY <1>1, <1>2

LEMMA BeginFunctionStep ==
  ASSUME IInv, BeginFunction
  PROVE  IInv'
<1>1. /\ Running /\ Kind(At) = "def" /\ Top.pt = 0 /\ Walking /\ Enter(1, <<>>)
      /\ code' = New(code, Declared) /\ cur' = Len(code) + 1
      /\ scopes' = Append(Insert(scopes, Name(At), At), NoSymbols)
  BY DEF BeginFunction, Visiting, Running
<1>2. Top.pt < Kids(At) /\ Top.pt + 1 = 1 /\ At # Root /\ At \in Paths
  BY <1>1, TopVisit, TreeFacts DEF AtTop, IInv
<1>3. /\ Len(code) \in Nat /\ Len(code') = Len(code) + 1 /\ CodeOK(code', Len(code))
  BY <1>1, DeclaredFunction, Standing, NewBlock DEF IsFunction
<1>4. /\ CodeOK(code', Len(code')) /\ Len(code) <= Len(code')
      /\ cur' \in 0..Len(code') /\ cur' # 0
  BY <1>1, <1>3, Wider
<1>5. SymbolsOK(scopes') /\ Len(scopes') = Len(scopes) + 1
  BY <1>1, <1>2, Standing, Inserted, Pushed
<1>6. /\ BlocksSaved(Kind(At), Top.pt + 1, Len(<<>>)) /\ IsSeq(<<>>) /\ Len(<<>>) = 0
      /\ \A k \in 1..Len(<<>>) : <<>>[k] \in 1..Len(code')
  BY <1>1, NothingIsSeq DEF BlocksSaved
<1>7. Kind(At) \in Scoped
  BY <1>1 DEF Scoped
<1> QED
  BY <1>1, <1>2, <1>4, <1>5, <1>6, <1>7, Entering

LEMMA FunctionStep ==
  ASSUME IInv, NextOfFunction \/ EndFunction
  PROVE  IInv'
<1>1. CASE NextOfFunction
  <2>1. /\ Running /\ Kind(At) = "def" /\ Top.pt \in 1..(Kids(At) - 1) /\ Walking
        /\ Enter(Top.pt + 1, <<>>) /\ UNCHANGED <<code, cur>> /\ scopes' = scopes
    BY <1>1 DEF NextOfFunction, Running
  <2>2. Top.pt > 0 /\ Top.pt # 0 /\ Top.pt < Kids(At)
    BY <2>1, TopVisit
  <2>3. SymbolsOK(scopes') /\ Len(scopes') = Len(scopes) + 0
    BY <2>1, Standing
  <2>4. cur # 0
    BY <2>1, <2>2, InFunction
  <2> QED
    BY <2>1, <2>2, <2>3, <2>4, PlainEnter
<1>2. CASE EndFunction
  <2>1. /\ Running /\ Kind(At) = "def" /\ Top.pt = Kids(At) /\ Walking /\ Return
        /\ scopes' = Front(scopes) /\ cur' = cur
        /\ code' = code \/ code' = Emit(code, cur, Instr("end", At, <<>>, NoSite))
    BY <1>2 DEF EndFunction, Visiting, Running, Pop
  <2>2. Top.pt > 0 /\ Kind(At) \in Scoped
    BY <2>1, TopVisit, TreeFacts DEF Scoped, IInv
  <2>3. Len(visits) = 2 /\ Len(visits) > 1 /\ ~(Len(visits) > 2) /\ cur \in 1..Len(code)
    <3>1. Len(visits) = 2 /\ cur \in 1..Len(code)
      BY <2>1, <2>2, InFunction
    <3> QED
      BY <3>1
  <2>4. SymbolsOK(scopes') /\ Len(scopes') = Len(scopes) - 1
    BY <2>1, Standing, Popped
  <2> QED
    BY <2>1, <2>2, <2>3, <2>4, PlainLeave, Instructions
<1> QED
  BY <1>1, <1>2

LEMMA SimpleStep ==
  ASSUME IInv,
         Parameter \/ Evaluate \/ Call \/ Empty \/ DefineVariable \/ ReturnStatement
  PROVE  IInv'
<1>1. /\ Running /\ Walking /\ Return /\ cur' = cur
      /\ Kind(At) \in {"param", "expr", "call", "empty", "let", "return"}
      /\ scopes' = scopes \/ scopes' = Insert(scopes, Name(At), At)
      /\ code' = code \/ \E op, p, site : code' = Emit(code, cur, Instr(op, p, <<>>, site))
  BY DEF Parameter, Evaluate, Call, Empty, DefineVariable, ReturnStatement, Visiting, Running
<1>2. Kind(At) \notin AtTop \cup {"root"} /\ Kind(At) \notin Scoped
  BY <1>1 DEF AtTop, Scoped
<1>3. Len(visits) > 1 /\ cur # 0 /\ cur \in 1..Len(code) /\ At \in Paths
  BY <1>1, <1>2, InStatement, TopVisit
<1>4. SymbolsOK(scopes') /\ Len(scopes') = Len(scopes)
  BY <1>1, <1>3, Standing, Inserted
<1>5. Len(scopes') = Len(scopes) - 0
  BY <1>1, <1>4, Standing
<1>6. code' = code \/ \E x : TargetsOK(x, Len(code)) /\ code' = Emit(code, cur, x)
                             /\ cur \in 1..Len(code)
  BY <1>1, <1>3, Instructions
<1> QED
  BY <1>1, <1>2, <1>3, <1>4, <1>5, <1>6, PlainLeave

LEMMA OperandStep ==
  ASSUME IInv, Operand
  PROVE  IInv'
<1>1. /\ Running /\ Walking /\ Kind(At) \in {"let", "return"} /\ Top.pt < Kids(At)
      /\ Enter(1, <<>>) /\ UNCHANGED <<code, cur>> /\ scopes' = scopes
  BY DEF Operand, Running
<1>2. Top.pt + 1 = 1
  BY <1>1, TopVisit, TreeFacts DEF IInv
<1>3. Kind(At) \notin AtTop \cup {"root"} /\ Kind(At) \notin Scoped
  BY <1>1 DEF AtTop, Scoped
<1>4. cur # 0 /\ SymbolsOK(scopes') /\ Len(scopes') = Len(scopes) + 0
  BY <1>1, <1>3, InStatement, Standing
<1> QED
  BY <1>1, <1>2, <1>3, <1>4, PlainEnter

LEMMA BlockStep ==
  ASSUME IInv, NextOfBlock \/ EndBlock
  PROVE  IInv'
<1>1. /\ Running /\ Walking /\ Kind(At) = "block" /\ UNCHANGED <<code, cur>>
  BY DEF NextOfBlock, EndBlock, Running, Visiting
<1>2. Kind(At) \notin AtTop \cup {"root"} /\ Kind(At) \in Scoped
  BY <1>1 DEF AtTop, Scoped
<1>3. /\ At # Root /\ Len(visits) > 1 /\ cur # 0 /\ Top.pt \in Nat
      /\ SymbolsOK(scopes) /\ scopes # <<>> /\ Len(scopes) \in Nat
  BY <1>1, <1>2, InStatement, TopVisit, Standing
<1>4. CASE NextOfBlock
  <2>1. /\ Top.pt < Kids(At) /\ Enter(Top.pt + 1, <<>>)
        /\ IF Top.pt = 0 THEN scopes' = Append(scopes, NoSymbols) ELSE scopes' = scopes
    BY <1>4 DEF NextOfBlock, Push
  <2>2. /\ SymbolsOK(scopes')
        /\ Len(scopes') = Len(scopes) + IF Top.pt = 0 THEN 1 ELSE 0
    <3>1. CASE Top.pt = 0
      BY <1>3, <2>1, <3>1, Pushed
    <3>2. CASE Top.pt # 0
      BY <1>3, <2>1, <3>2
    <3> QED
      BY <3>1, <3>2
  <2> QED
    BY <1>1, <1>2, <1>3, <2>1, <2>2, PlainEnter
<1>5. CASE EndBlock
  <2>1. /\ Top.pt = Kids(At) /\ Return
        /\ IF Kids(At) = 0 THEN scopes' = scopes ELSE scopes' = Front(scopes)
    BY <1>5 DEF EndBlock, Visiting, Pop
  <2>2. /\ SymbolsOK(scopes')
        /\ Len(scopes') = Len(scopes) - IF Top.pt > 0 THEN 1 ELSE 0
    BY <1>3, <2>1, Popped
  <2> QED
    BY <1>1, <1>2, <1>3, <2>1, <2>2, PlainLeave
<1> QED
  BY <1>4, <1>5

-----------------------------------------------------------------------------
(* Statements with blocks of their own.                                    *)

LEMMA Saved ==
  ASSUME NEW s, IsSeq(s), NEW n \in Nat, NEW m \in Nat, n <= m,
         \A k \in 1..Len(s) : s[k] \in 1..n
  PROVE  s \in Seq(1..m)
<1> DEFINE T == {s[k] : k \in DOMAIN s}
<1>1. T \subseteq 1..m
  BY SeqFacts
<1> QED
  BY <1>1, SeqMonotonic DEF IsSeq

(* A scope of its own is opened before the first kid, and closed at the    *)
(* end; in between it stays.                                               *)
LEMMA StatementEnters ==
  ASSUME IInv, Running, Walking, Kind(At) \in {"if", "while", "for"}, Top.pt < Kids(At),
         NEW bb \in Seq(1..Len(code')), BlocksSaved(Kind(At), Top.pt + 1, Len(bb)),
         Enter(Top.pt + 1, bb),
         CodeOK(code', Len(code')), Len(code) <= Len(code'), cur' \in 1..Len(code'),
         IF Top.pt = 0 THEN Push ELSE UNCHANGED scopes
  PROVE  IInv'
<1>1. Kind(At) \in Scoped /\ Kind(At) \notin AtTop \cup {"root"}
  BY DEF Scoped, AtTop
<1>2. At # Root /\ SymbolsOK(scopes) /\ Len(scopes) \in Nat
  BY <1>1, InStatement, Standing
<1>3. SymbolsOK(scopes') /\ Len(scopes') = Len(scopes) + IF Top.pt = 0 THEN 1 ELSE 0
  <2>1. CASE Top.pt = 0
    BY <1>2, <2>1, Pushed DEF Push
  <2>2. CASE Top.pt # 0
    BY <1>2, <2>2
  <2> QED
    BY <2>1, <2>2
<1>4. IsSeq(bb) /\ \A k \in 1..Len(bb) : bb[k] \in 1..Len(code')
  BY SeqIsSeq
<1>5. cur' \in 0..Len(code') /\ cur' # 0
  BY SeqFacts DEF CodeOK
<1> QED
  BY <1>1, <1>2, <1>3, <1>4, <1>5, Entering

LEMMA StatementEnds ==
  ASSUME IInv, Running, Walking, Kind(At) \in {"if", "while", "for"}, Top.pt > 0,
         Return, Pop,
         CodeOK(code', Len(code')), Len(code) <= Len(code'), cur' \in 1..Len(code')
  PROVE  IInv'
<1>1. Kind(At) \in Scoped /\ Kind(At) \notin AtTop \cup {"root"}
  BY DEF Scoped, AtTop
<1>2. Len(visits) > 1 /\ SymbolsOK(scopes) /\ scopes # <<>>
  BY <1>1, InStatement, Standing
<1>3. SymbolsOK(scopes') /\ Len(scopes') = Len(scopes) - 1
  BY <1>2, Popped DEF Pop
<1>4. cur' \in 0..Len(code') /\ cur' # 0
  BY SeqFacts DEF CodeOK
<1> QED
  BY <1>1, <1>2, <1>3, <1>4, Leaving

(* Before a step of such a statement.                                      *)
LEMMA AtStatement ==
  ASSUME IInv, Running, Kind(At) \in {"if", "while", "for"}
  PROVE  /\ Len(code) \in Nat /\ cur \in 1..Len(code) /\ Func \in FnSet
         /\ CodeOK(code, Len(code)) /\ Detached \in FnSet
         /\ \A m \in Nat : Len(code) <= m => CodeOK(code, m)
         /\ Top.bb \in Seq(1..Len(code)) /\ Top.pt \in Nat
         /\ BlocksSaved(Kind(At), Top.pt, Len(Top.bb))
         /\ \A k \in 1..Len(Top.bb) : Top.bb[k] \in 1..Len(code)
<1>1. Kind(At) \notin AtTop \cup {"root"}
  BY DEF AtTop
<1>2. Len(code) \in Nat /\ CodeOK(code, Len(code))
  BY Standing
<1>3. \A m \in Nat : Len(code) <= m => CodeOK(code, m)
  BY <1>2, Wider
<1>4. IsSeq(Top.bb) /\ \A k \in 1..Len(Top.bb) : Top.bb[k] \in 1..Len(code)
  BY TopVisit
<1>5. Top.bb \in Seq(1..Len(code))
  <2>1. Len(code) <= Len(code)
    BY <1>2
  <2> QED
    BY <1>2, <1>4, <2>1, Saved
<1> QED
  BY <1>1, <1>2, <1>3, <1>4, <1>5, InStatement, TopVisit DEF FnSet

LEMMA IfStep ==
  ASSUME IInv, BeginIf \/ AfterCondition \/ AfterThen \/ AfterElse
  PROVE  IInv'
<1>1. Running /\ Kind(At) = "if" /\ Walking
  BY DEF BeginIf, AfterCondition, AfterThen, AfterElse, Visiting, Running, Merge
<1>2. Kids(At) = 3
  BY <1>1, TopVisit, TreeFacts DEF IInv
<1>3. PICK n \in Nat : n = Len(code)
  BY <1>1, AtStatement
<1>4. cur \in 1..n /\ Func \in FnSet /\ Detached \in FnSet /\ CodeOK(code, n)
  BY <1>1, <1>3, AtStatement
<1>5. CASE BeginIf
  <2>1. /\ Top.pt = 0 /\ Push /\ Enter(Top.pt + 1, <<>>) /\ UNCHANGED <<code, cur>>
    BY <1>5 DEF BeginIf, Visiting
  <2>2. BlocksSaved(Kind(At), Top.pt + 1, Len(<<>>)) /\ <<>> \in Seq(1..Len(code'))
    BY <1>1, <2>1, NothingIsSeq DEF BlocksSaved
  <2>3. /\ CodeOK(code', Len(code')) /\ Len(code) <= Len(code')
        /\ cur' \in 1..Len(code') /\ Top.pt < Kids(At)
    BY <1>2, <1>3, <1>4, <2>1
  <2> QED
    BY <1>1, <2>1, <2>2, <2>3, StatementEnters
<1>6. CASE AfterCondition
  <2> DEFINE bb == <<n + 2, n + 3>>
             other == IF HasElse(At) THEN n + 2 ELSE n + 3
             blocks == New(New(New(code, Func), Detached), Detached)
  <2>1. /\ Top.pt = 1 /\ code' = Emit(blocks, cur, CondBr(n + 1, other))
        /\ cur' = n + 1 /\ Enter(Top.pt + 1, bb) /\ UNCHANGED scopes
    BY <1>3, <1>6 DEF AfterCondition, Visiting
  <2>2. CodeOK(blocks, n + 3) /\ Len(blocks) = n + 3
    <3>1. CodeOK(code, n + 3)
      BY <1>1, <1>3, AtStatement
    <3>2. CodeOK(New(code, Func), n + 3) /\ Len(New(code, Func)) = n + 1
      BY <1>3, <1>4, <3>1, NewBlock
    <3>3. /\ CodeOK(New(New(code, Func), Detached), n + 3)
          /\ Len(New(New(code, Func), Detached)) = n + 2
      BY <1>4, <3>2, NewBlock
    <3> QED
      BY <1>4, <3>3, NewBlock
  <2>3. TargetsOK(CondBr(n + 1, other), n + 3) /\ cur \in 1..(n + 3)
    <3>1. n + 1 \in 1..(n + 3) /\ other \in 1..(n + 3) /\ cur \in 1..(n + 3)
      BY <1>4
    <3> QED
      BY <3>1, Instructions
  <2> HIDE DEF blocks, other
  <2>4. CodeOK(code', n + 3) /\ Len(code') = n + 3
    BY <2>1, <2>2, <2>3, Emitted
  <2>5. /\ bb \in Seq(1..Len(code')) /\ Len(bb) = 2
        /\ cur' \in 1..Len(code') /\ Len(code) <= Len(code')
    BY <1>3, <2>1, <2>4
  <2>6. BlocksSaved(Kind(At), Top.pt + 1, Len(bb))
    BY <1>1, <2>1, <2>5 DEF BlocksSaved
  <2> HIDE DEF bb
  <2>7. CodeOK(code', Len(code')) /\ Top.pt < Kids(At) /\ Top.pt # 0
    BY <1>2, <2>1, <2>4
  <2> QED
    BY <1>1, <2>1, <2>5, <2>6, <2>7, StatementEnters
<1>7. CASE AfterThen \/ AfterElse
  <2>1. Top.pt \in {2, 3} /\ (AfterThen => Top.pt = 2)
    BY <1>7 DEF AfterThen, AfterElse, Visiting
  <2>2. /\ Len(Top.bb) = 2 /\ Top.bb[1] \in 1..n /\ Top.bb[2] \in 1..n
        /\ Top.bb \in Seq(1..n)
    <3>1. Top.pt >= 2
      BY <2>1
    <3>2. Len(Top.bb) = 2
      BY <1>1, <3>1, AtStatement DEF BlocksSaved
    <3> QED
      BY <1>1, <1>3, <3>2, AtStatement
  <2>3. TargetsOK(Br(Top.bb[2]), n)
    BY <2>2, Instructions
  <2>4. /\ CodeOK(Emit(code, cur, Br(Top.bb[2])), n)
        /\ Len(Emit(code, cur, Br(Top.bb[2]))) = n
    BY <1>3, <1>4, <2>3, Emitted
  <2>5. ASSUME NEW b \in {1, 2}
        PROVE  /\ CodeOK(Attach(Emit(code, cur, Br(Top.bb[2])), Top.bb[b], Func), n)
               /\ Len(Attach(Emit(code, cur, Br(Top.bb[2])), Top.bb[b], Func)) = n
    BY <1>4, <2>2, <2>4, Attached
  <2>6. CASE Merge(Top.bb[2])
    <3>1. /\ code' = Attach(Emit(code, cur, Br(Top.bb[2])), Top.bb[2], Func)
          /\ cur' = Top.bb[2] /\ Pop /\ Return /\ Walking
      BY <2>6 DEF Merge
    <3>2. /\ CodeOK(code', Len(code')) /\ Len(code) <= Len(code')
          /\ cur' \in 1..Len(code') /\ Top.pt > 0
      BY <1>3, <2>1, <2>2, <2>5, <3>1
    <3> QED
      BY <1>1, <3>1, <3>2, StatementEnds
  <2>7. CASE ~Merge(Top.bb[2])
    <3>1. /\ code' = Attach(Emit(code, cur, Br(Top.bb[2])), Top.bb[1], Func)
          /\ cur' = Top.bb[1] /\ Enter(3, Top.bb) /\ UNCHANGED scopes /\ Top.pt = 2
      BY <1>7, <2>1, <2>7 DEF AfterThen, AfterElse
    <3>2. /\ CodeOK(code', Len(code')) /\ Len(code) <= Len(code') /\ Len(code') = n
          /\ cur' \in 1..Len(code') /\ Top.pt + 1 = 3 /\ Top.pt < Kids(At) /\ Top.pt # 0
      BY <1>2, <1>3, <2>2, <2>5, <3>1
    <3>3. BlocksSaved(Kind(At), Top.pt + 1, Len(Top.bb))
      BY <1>1, <2>2, <3>2 DEF BlocksSaved
    <3> QED
      BY <1>1, <2>2, <3>1, <3>2, <3>3, StatementEnters
  <2> QED
    BY <2>6, <2>7
<1> QED
  BY <1>5, <1>6, <1>7

(* One more block, and the insertion point in it; "ins", if any, is        *)
(* emitted where the insertion point was.                                  *)
LEMMA OneMoreBlock ==
  ASSUME IInv, Running, Kind(At) \in {"while", "for"}, NEW n \in Nat, n = Len(code),
         cur' = n + 1,
         \/ code' = New(code, Func)
         \/ code' = New(Emit(code, cur, Br(n + 1)), Func)
  PROVE  /\ CodeOK(code', Len(code')) /\ Len(code') = n + 1 /\ Len(code) <= Len(code')
         /\ cur' \in 1..Len(code')
         /\ \A s : s \in Seq(1..n) =>
              /\ Append(s, n + 1) \in Seq(1..Len(code')) /\ Len(Append(s, n + 1)) = Len(s) + 1
<1>1. cur \in 1..n /\ Func \in FnSet /\ CodeOK(code, n + 1)
  BY AtStatement
<1>2. TargetsOK(Br(n + 1), n + 1)
  <2>1. n + 1 \in 1..(n + 1)
    OBVIOUS
  <2> QED
    BY <2>1, Instructions
<1>3. CodeOK(Emit(code, cur, Br(n + 1)), n + 1) /\ Len(Emit(code, cur, Br(n + 1))) = n
  BY <1>1, <1>2, Emitted
<1>4. CodeOK(code', n + 1) /\ Len(code') = n + 1
  BY <1>1, <1>3, NewBlock
<1>5. ASSUME NEW s \in Seq(1..n)
      PROVE  Append(s, n + 1) \in Seq(1..(n + 1)) /\ Len(Append(s, n + 1)) = Len(s) + 1
  <2>1. s \in Seq(1..(n + 1)) /\ n + 1 \in 1..(n + 1)
    <3>1. 1..n \subseteq 1..(n + 1)
      OBVIOUS
    <3> QED
      BY <3>1, SeqMonotonic
  <2> QED
    BY <2>1, AppendProperties
<1> QED
  BY <1>4, <1>5

LEMMA WhileStep ==
  ASSUME IInv, BeginWhile \/ WhileBody \/ EndWhile
  PROVE  IInv'
<1>1. Running /\ Kind(At) = "while" /\ Walking
  BY DEF BeginWhile, WhileBody, EndWhile, Visiting, Running
<1>2. Kids(At) = 2
  BY <1>1, TopVisit, TreeFacts DEF IInv
<1>3. PICK n \in Nat : n = Len(code)
  BY <1>1, AtStatement
<1>4. cur \in 1..n /\ Func \in FnSet /\ CodeOK(code, n) /\ CodeOK(code, n + 1)
  BY <1>1, <1>3, AtStatement
<1>5. CASE BeginWhile
  <2>1. /\ Top.pt = 0 /\ code' = New(Emit(code, cur, Br(n + 1)), Func) /\ cur' = n + 1
        /\ Enter(Top.pt + 1, <<n + 1>>) /\ Push
    BY <1>3, <1>5 DEF BeginWhile, Visiting
  <2>2. /\ CodeOK(code', Len(code')) /\ Len(code) <= Len(code') /\ cur' \in 1..Len(code')
        /\ Len(code') = n + 1
    BY <1>1, <1>3, <2>1, OneMoreBlock
  <2>3. <<n + 1>> \in Seq(1..Len(code')) /\ Len(<<n + 1>>) = 1
    BY <2>2
  <2>4. BlocksSaved(Kind(At), Top.pt + 1, Len(<<n + 1>>)) /\ Top.pt < Kids(At)
    BY <1>1, <1>2, <2>1, <2>3 DEF BlocksSaved
  <2> QED
    BY <1>1, <2>1, <2>2, <2>3, <2>4, StatementEnters
<1>6. CASE WhileBody
  <2>1. /\ Top.pt = 1 /\ code' = New(code, Func) /\ cur' = n + 1
        /\ Enter(Top.pt + 1, Append(Top.bb, n + 1)) /\ UNCHANGED scopes
    BY <1>3, <1>6 DEF WhileBody, Visiting
  <2>2. /\ CodeOK(code', Len(code')) /\ Len(code) <= Len(code') /\ cur' \in 1..Len(code')
        /\ Append(Top.bb, n + 1) \in Seq(1..Len(code'))
        /\ Len(Append(Top.bb, n + 1)) = Len(Top.bb) + 1
    BY <1>1, <1>3, <2>1, OneMoreBlock, AtStatement
  <2>3. Len(Top.bb) = 1
    BY <1>1, <2>1, AtStatement DEF BlocksSaved
  <2>4. Len(Append(Top.bb, n + 1)) = 2
    BY <2>2, <2>3
  <2>5. /\ BlocksSaved(Kind(At), Top.pt + 1, Len(Append(Top.bb, n + 1)))
        /\ Top.pt < Kids(At) /\ Top.pt # 0
    BY <1>1, <1>2, <2>1, <2>4 DEF BlocksSaved
  <2> QED
    BY <1>1, <2>1, <2>2, <2>5, StatementEnters
<1>7. CASE EndWhile
  <2> DEFINE ended == Emit(New(code, Func), Top.bb[1], CondBr(Top.bb[2], n + 1))
  <2>1. /\ Top.pt = 2 /\ code' = Emit(ended, cur, Br(Top.bb[1])) /\ cur' = n + 1
        /\ Pop /\ Return
    BY <1>3, <1>7 DEF EndWhile, Visiting
  <2>2. Len(Top.bb) = 2
    BY <1>1, <2>1, AtStatement DEF BlocksSaved
  <2>3. /\ Top.bb[1] \in 1..(n + 1) /\ Top.bb[2] \in 1..(n + 1) /\ n + 1 \in 1..(n + 1)
        /\ cur \in 1..(n + 1)
    <3>1. Top.bb[1] \in 1..n /\ Top.bb[2] \in 1..n
      BY <1>1, <1>3, <2>2, AtStatement
    <3> QED
      BY <1>4, <3>1
  <2>4. TargetsOK(CondBr(Top.bb[2], n + 1), n + 1) /\ TargetsOK(Br(Top.bb[1]), n + 1)
    BY <2>3, Instructions
  <2>5. CodeOK(New(code, Func), n + 1) /\ Len(New(code, Func)) = n + 1
    BY <1>3, <1>4, NewBlock
  <2>6. CodeOK(ended, n + 1) /\ Len(ended) = n + 1
    BY <2>3, <2>4, <2>5, Emitted
  <2> HIDE DEF ended
  <2>7. CodeOK(code', n + 1) /\ Len(code') = n + 1
    BY <2>1, <2>3, <2>4, <2>6, Emitted
  <2>8. Len(code) <= Len(code') /\ cur' \in 1..Len(code') /\ Top.pt > 0
    BY <1>3, <2>1, <2>3, <2>7
  <2> QED
    BY <1>1, <2>1, <2>7, <2>8, StatementEnds
<1> QED
  BY <1>5, <1>6, <1>7

LEMMA EmittedAgain ==
  ASSUME NEW c, NEW m \in Nat, CodeOK(c, m), Len(c) = m, NEW b \in 1..m, NEW x, TargetsOK(x, m)
  PROVE  CodeOK(Emit(c, b, x), m) /\ Len(Emit(c, b, x)) = m
BY Emitted

LEMMA ForStatementStep ==
  ASSUME IInv, BeginFor \/ NextOfFor \/ ForStep \/ EndFor
  PROVE  IInv'
<1>1. Running /\ Kind(At) = "for" /\ Walking
  BY DEF BeginFor, NextOfFor, ForStep, EndFor, Visiting, Running
<1>2. Kids(At) = 4
  BY <1>1, TopVisit, TreeFacts DEF IInv
<1>3. PICK n \in Nat : n = Len(code)
  BY <1>1, AtStatement
<1>4. /\ cur \in 1..n /\ Func \in FnSet /\ CodeOK(code, n) /\ CodeOK(code, n + 1)
      /\ Top.bb \in Seq(1..n)
  BY <1>1, <1>3, AtStatement
<1>5. CASE BeginFor
  <2>1. /\ Top.pt = 0 /\ code' = New(Emit(code, cur, Br(n + 1)), Func) /\ cur' = n + 1
        /\ Enter(Top.pt + 1, <<n + 1>>) /\ Push
    BY <1>3, <1>5 DEF BeginFor, Visiting
  <2>2. /\ CodeOK(code', Len(code')) /\ Len(code) <= Len(code') /\ cur' \in 1..Len(code')
        /\ Len(code') = n + 1
    BY <1>1, <1>3, <2>1, OneMoreBlock
  <2>3. <<n + 1>> \in Seq(1..Len(code')) /\ Len(<<n + 1>>) = 1
    BY <2>2
  <2>4. BlocksSaved(Kind(At), Top.pt + 1, Len(<<n + 1>>)) /\ Top.pt < Kids(At)
    BY <1>1, <1>2, <2>1, <2>3 DEF BlocksSaved
  <2> QED
    BY <1>1, <2>1, <2>2, <2>3, <2>4, StatementEnters
<1>6. CASE NextOfFor
  <2>1. /\ Top.pt \in {1, 2} /\ code' = New(code, Func) /\ cur' = n + 1
        /\ Enter(Top.pt + 1, Append(Top.bb, n + 1)) /\ UNCHANGED scopes
    BY <1>3, <1>6 DEF NextOfFor, Visiting
  <2>2. /\ CodeOK(code', Len(code')) /\ Len(code) <= Len(code') /\ cur' \in 1..Len(code')
        /\ Append(Top.bb, n + 1) \in Seq(1..Len(code'))
        /\ Len(Append(Top.bb, n + 1)) = Len(Top.bb) + 1
    BY <1>1, <1>3, <1>4, <2>1, OneMoreBlock
  <2>3. Len(Top.bb) = Top.pt
    BY <1>1, <2>1, AtStatement DEF BlocksSaved
  <2>4. /\ BlocksSaved(Kind(At), Top.pt + 1, Len(Append(Top.bb, n + 1)))
        /\ Top.pt < Kids(At) /\ Top.pt # 0
    BY <1>1, <1>2, <2>1, <2>2, <2>3 DEF BlocksSaved
  <2> QED
    BY <1>1, <2>1, <2>2, <2>4, StatementEnters
<1>7. CASE ForStep
  <2>1. /\ Top.pt = 3 /\ code' = New(code, Func) /\ cur' = n + 1
        /\ Enter(Top.pt + 1, Top.bb \o <<cur, n + 1>>) /\ UNCHANGED scopes
    BY <1>3, <1>7 DEF ForStep, Visiting
  <2>2. /\ CodeOK(code', Len(code')) /\ Len(code) <= Len(code') /\ cur' \in 1..Len(code')
        /\ Len(code') = n + 1
    BY <1>1, <1>3, <2>1, OneMoreBlock
  <2>3. Len(Top.bb) = 3
    BY <1>1, <2>1, AtStatement DEF BlocksSaved
  <2>4. /\ Top.bb \o <<cur, n + 1>> \in Seq(1..Len(code'))
        /\ Len(Top.bb \o <<cur, n + 1>>) = 5
    <3>1. 1..n \subseteq 1..(n + 1) /\ cur \in 1..(n + 1) /\ n + 1 \in 1..(n + 1)
      BY <1>4
    <3>2. Top.bb \in Seq(1..(n + 1))
      BY <1>4, <3>1, SeqMonotonic
    <3>3. <<cur, n + 1>> \in Seq(1..(n + 1)) /\ Len(<<cur, n + 1>>) = 2
      BY <3>1
    <3>4. /\ Top.bb \o <<cur, n + 1>> \in Seq(1..(n + 1))
          /\ Len(Top.bb \o <<cur, n + 1>>) = Len(Top.bb) + Len(<<cur, n + 1>>)
      BY <3>2, <3>3, ConcatProperties
    <3> QED
      BY <2>2, <2>3, <3>3, <3>4
  <2>5. /\ BlocksSaved(Kind(At), Top.pt + 1, Len(Top.bb \o <<cur, n + 1>>))
        /\ Top.pt < Kids(At) /\ Top.pt # 0
    BY <1>1, <1>2, <2>1, <2>4 DEF BlocksSaved
  <2> QED
    BY <1>1, <2>1, <2>2, <2>4, <2>5, StatementEnters
<1>8. CASE EndFor
  <2>0. PICK m \in Nat : m = n + 1
    OBVIOUS
  <2> DEFINE entered == Emit(New(code, Func), Top.bb[1], Br(Top.bb[2]))
             tested == Emit(entered, Top.bb[2], CondBr(Top.bb[3], m))
             stepped == Emit(tested, Top.bb[4], Br(Top.bb[5]))
  <2>1. /\ Top.pt = 4 /\ code' = Emit(stepped, Top.bb[5], Br(Top.bb[2])) /\ cur' = m
        /\ Pop /\ Return
    BY <1>3, <1>8, <2>0 DEF EndFor, Visiting
  <2>2. Len(Top.bb) = 5
    BY <1>1, <2>1, AtStatement DEF BlocksSaved
  <2>3. /\ Top.bb[1] \in 1..(m) /\ Top.bb[2] \in 1..(m) /\ Top.bb[3] \in 1..(m)
        /\ Top.bb[4] \in 1..(m) /\ Top.bb[5] \in 1..(m) /\ m \in 1..(m)
    <3>1. \A k \in 1..5 : Top.bb[k] \in 1..n
      BY <1>1, <1>3, <2>2, AtStatement
    <3>2. \A k \in 1..5 : Top.bb[k] \in 1..(m)
      BY <2>0, <3>1
    <3> QED
      BY <2>0, <3>2
  <2>4. /\ TargetsOK(Br(Top.bb[2]), m) /\ TargetsOK(Br(Top.bb[5]), m)
        /\ TargetsOK(CondBr(Top.bb[3], m), m)
    BY <2>3, Instructions
  <2>5. CodeOK(New(code, Func), m) /\ Len(New(code, Func)) = m
    BY <1>3, <1>4, <2>0, NewBlock
  <2>6. CodeOK(entered, m) /\ Len(entered) = m
    BY <2>3, <2>4, <2>5, EmittedAgain
  <2> HIDE DEF entered
  <2>7. CodeOK(tested, m) /\ Len(tested) = m
    BY <2>3, <2>4, <2>6, EmittedAgain
  <2> HIDE DEF tested
  <2>8. CodeOK(stepped, m) /\ Len(stepped) = m
    BY <2>3, <2>4, <2>7, EmittedAgain
  <2> HIDE DEF stepped
  <2>9. CodeOK(code', m) /\ Len(code') = m
    BY <2>1, <2>3, <2>4, <2>8, EmittedAgain
  <2>10. Len(code) <= Len(code') /\ cur' \in 1..Len(code') /\ Top.pt > 0
    BY <1>3, <2>0, <2>1, <2>3, <2>9
  <2> QED
    BY <1>1, <2>1, <2>9, <2>10, StatementEnds
<1> QED
  BY <1>5, <1>6, <1>7, <1>8

-----------------------------------------------------------------------------
(* The end of the walk, and the theorems.                                  *)

LEMMA FinishStep ==
  ASSUME IInv, Finish
  PROVE  IInv'
<1> DEFINE n == Len(code)
           F(b) == IF code[b].fn = Detached THEN code[b]
                   ELSE [code[b] EXCEPT !.ins = Stripped(@)]
<1>1. /\ Running /\ result' = "generated" /\ visits' = <<>> /\ scopes' = <<>> /\ cur' = 0
      /\ tree' = tree /\ refused' = refused
      /\ code' = [b \in DOMAIN code |-> F(b)]
  BY DEF Finish, Running
<1>2. n \in Nat /\ DOMAIN code = 1..n /\ \A b \in 1..n : BasicBlockOK(code[b], n)
  BY SeqFacts DEF IInv, CodeInv, CodeOK
<1>3. \A b \in 1..n : BasicBlockOK(F(b), n)
  BY <1>2, Strips
<1> HIDE DEF F
<1>4. DOMAIN code' = 1..n /\ \A b \in 1..n : code'[b] = F(b)
  BY <1>1, <1>2
<1>5. IsSeq(code') /\ Len(code') = n
  <2> DEFINE T == {code'[b] : b \in 1..n}
  <2>1. code' \in [1..n -> T]
    BY <1>1, <1>2, <1>4
  <2>2. code' \in Seq(T)
    BY <1>2, <2>1, SeqDef
  <2>3. Len(code') = n
    BY <1>2, <1>4, <2>2, LenProperties
  <2> QED
    BY <2>2, <2>3, SeqIsSeq
<1>6. CodeOK(code', Len(code')) /\ cur' \in 0..Len(code')
  BY <1>1, <1>2, <1>3, <1>4, <1>5 DEF CodeOK
<1>7. CodeInv'
  BY <1>1, <1>6 DEF CodeInv, CodeOK, BasicBlockOK, FnSet, TargetsOK, Paths, IsFunction, Kind
<1> QED
  BY <1>1, <1>7 DEF IInv, Running

LEMMA GivingUpStep ==
  ASSUME IInv, Diagnose \/ Refuse \/ Misuse
  PROVE  IInv'
BY GivingUp DEF Diagnose, Refuse, Misuse, IInv

LEMMA InitInductive == Init => IInv
<1> SUFFICES ASSUME Init PROVE IInv
  OBVIOUS
<1>1. /\ Root \in Paths /\ Kind(Root) = "root" /\ Kids(Root) \in Nat
  BY TreeFacts DEF Init
<1>2. PICK v : v = Visit(Root)
  OBVIOUS
<1>3. DOMAIN v = {"at", "pt", "bb"} /\ v.at = Root /\ v.pt = 0 /\ v.bb = <<>>
  BY <1>2 DEF Visit
<1>4. visits = <<v>> /\ visits \in Seq({v}) /\ Len(visits) = 1 /\ visits[1] = v
  BY <1>2 DEF Init
<1>5. /\ scopes = <<NoSymbols>> /\ scopes \in Seq({NoSymbols}) /\ Len(scopes) = 1
      /\ scopes[1] = NoSymbols /\ DOMAIN NoSymbols = {}
  BY DEF Init, NoSymbols
<1>6. IsSeq(visits) /\ IsSeq(scopes) /\ visits # <<>>
  BY <1>4, <1>5, SeqIsSeq
<1>7. VisitOK(1)
  <2>1. Begun(1) = 0
    BY <1>3, <1>4 DEF Begun
  <2>2. "root" \notin AtTop /\ BlocksSaved("root", 0, 0)
    BY DEF AtTop, BlocksSaved
  <2> QED
    BY <1>1, <1>3, <1>4, <2>1, <2>2, NothingIsSeq DEF VisitOK
<1>8. VisitsInv
  BY <1>4, <1>6, <1>7 DEF VisitsInv
<1>9. Opened = {}
  BY <1>4 DEF Opened
<1>10. ScopesInv
  BY <1>5, <1>6, <1>9, FS_EmptySet DEF ScopesInv, SymbolsOK
<1>11. BlockInv
  BY <1>4 DEF BlockInv
<1>12. CodeInv
  BY NothingIsSeq DEF Init, CodeInv, CodeOK
<1> QED
  BY <1>8, <1>10, <1>11, <1>12 DEF Init, IInv, Running

LEMMA StepInductive == IInv /\ [Next]_vars => IInv'
<1> SUFFICES ASSUME IInv, [Next]_vars PROVE IInv'
  OBVIOUS
<1>1. CASE UNCHANGED vars
  BY <1>1 DEF vars, IInv, Running, CodeInv, VisitsInv, ScopesInv, BlockInv, VisitOK, Begun,
     Opened, SymbolsOK, CodeOK, BasicBlockOK, TargetsOK, FnSet, Paths, Kids, Kind, Name,
     IsFunction
<1>2. CASE Next
  BY <1>1, <1>2, TopLevelStep, BeginFunctionStep, FunctionStep, SimpleStep, OperandStep,
     BlockStep, IfStep, WhileStep, ForStatementStep, FinishStep, GivingUpStep DEF Next, Ended
<1> QED
  BY <1>1, <1>2

LEMMA Invariance == Spec => []IInv
BY InitInductive, StepInductive, PTL DEF Spec

(* What visits, symbols and blocks refer to exists: nodes of the tree,     *)
(* declarations of the name, and blocks, also when a branch to a block is  *)
(* emitted before it (IfStmt, ForStmt keep blocks in local variables).     *)
THEOREM TypeCorrect == Spec => []TypeOK
<1>1. IInv => TypeOK
  <2> SUFFICES ASSUME IInv PROVE TypeOK
    OBVIOUS
  <2>1. Running \/ (visits = <<>> /\ scopes = <<>>)
    BY DEF IInv
  <2>2. \A i \in DOMAIN visits : /\ visits[i].at \in Paths
                                 /\ visits[i].pt \in 0..Kids(visits[i].at)
                                 /\ \A k \in DOMAIN visits[i].bb : visits[i].bb[k] \in DOMAIN code
    <3>1. CASE ~Running
      BY <2>1, <3>1, NothingIsSeq, SeqFacts
    <3>2. ASSUME Running, NEW i \in DOMAIN visits
          PROVE  /\ visits[i].at \in Paths /\ visits[i].pt \in 0..Kids(visits[i].at)
                 /\ \A k \in DOMAIN visits[i].bb : visits[i].bb[k] \in DOMAIN code
      <4>1. VisitOK(i) /\ Len(visits) \in Nat /\ i \in 1..Len(visits)
        BY <3>2, SeqFacts DEF IInv, VisitsInv
      <4>2. visits[i].pt <= Begun(i) /\ Begun(i) \in Nat
        BY <4>1 DEF Begun, VisitOK
      <4>3. Kids(visits[i].at) \in Nat
        BY <4>1, TreeFacts DEF IInv, VisitOK
      <4>4. visits[i].pt \in 0..Kids(visits[i].at)
        BY <4>1, <4>2, <4>3 DEF VisitOK
      <4>5. DOMAIN visits[i].bb = 1..Len(visits[i].bb) /\ DOMAIN code = 1..Len(code)
        BY <4>1, SeqFacts DEF VisitOK, IInv, CodeInv, CodeOK
      <4> QED
        BY <4>1, <4>4, <4>5 DEF VisitOK
    <3> QED
      BY <3>1, <3>2
  <2>3. \A i \in DOMAIN scopes : \A m \in DOMAIN scopes[i] :
          scopes[i][m] \in Paths /\ Name(scopes[i][m]) = m
    <3>1. CASE ~Running
      BY <2>1, <3>1, NothingIsSeq, SeqFacts
    <3>2. CASE Running
      BY <3>2, SeqFacts DEF IInv, ScopesInv, SymbolsOK
    <3> QED
      BY <3>1, <3>2
  <2>4. /\ DOMAIN code = 1..Len(code) /\ cur \in 0..Len(code)
        /\ \A b \in DOMAIN code : BasicBlockOK(code[b], Len(code))
    BY SeqFacts DEF IInv, CodeInv, CodeOK
  <2>5. \A b \in DOMAIN code : code[b].fn \in {Detached} \cup {p \in Paths : IsFunction(p)}
    BY <2>4 DEF BasicBlockOK, FnSet
  <2>6. \A b \in DOMAIN code : \A i \in DOMAIN Ins(b) :
          \A k \in DOMAIN Ins(b)[i].to : Ins(b)[i].to[k] \in DOMAIN code
    BY <2>4, SeqFacts DEF BasicBlockOK, TargetsOK, Ins
  <2> QED
    BY <2>2, <2>3, <2>4, <2>5, <2>6 DEF TypeOK, IInv
<1> QED
  BY <1>1, Invariance, PTL

(* The scopes open are those of the visits under way: each visit function  *)
(* that pushes one pops it, whatever statements are nested in it and       *)
(* wherever the walk stops.                                                *)
THEOREM ScopesAreNested == Spec => []ScopesNest
<1>1. IInv => ScopesNest
  BY DEF IInv, Running, ScopesInv, Opened, ScopesNest
<1> QED
  BY <1>1, Invariance, PTL

-----------------------------------------------------------------------------
(* Places in the tree.                                                     *)

(* d is done before p is reached; d lies inside of p.                      *)
Past(d, p) ==
  \E i \in 1..Len(d) : /\ i <= Len(p) /\ d[i] < p[i]
                       /\ \A j \in 1..(i - 1) : d[j] = p[j]
Below(d, p) == Len(p) < Len(d) /\ \A i \in 1..Len(p) : d[i] = p[i]

(* The scopes around a place.                                              *)
Around(p) == {n \in 0..(Len(p) - 1) : Kind(SubSeq(p, 1, n)) \in Scoped}
Scopes(p) == {SubSeq(p, 1, n) : n \in Around(p)}

Declares(d) == IsFunction(d) \/ IsVariable(d)
Seen(d, p) == Past(d, p) \/ (IsFunction(d) /\ Below(p, d))
Vis(p) == {d \in Paths : Visible(d, p)}

(* Where the walk is: in front of a node, or behind one of its kids.       *)
Pos == IF Top.pt = 0 /\ At # Root THEN At ELSE Append(At, Top.pt + 1)

-----------------------------------------------------------------------------
(* The invariant of the code.                                              *)

ChainInv ==
  \A i \in 1..(Len(visits) - 1) :
    visits[i + 1].at = Append(visits[i].at, visits[i].pt + 1)

(* d is the first of the declarations V of the name n in the scope s.      *)
First(d, n, s, V) ==
  /\ d \in V /\ Name(d) = n /\ ScopeOf(d) = s
  /\ \A e \in V : Name(e) = n /\ ScopeOf(e) = s => e = d \/ Before(d, e)

(* The table ss holds the declarations V; sp are the paths of its scopes.  *)
TableOK(ss, sp, S, V) ==
  /\ IsSeq(ss) /\ IsSeq(sp) /\ Len(sp) = Len(ss)
  /\ \A k \in 1..Len(sp) : sp[k] \in S
  /\ \A s \in S : \E k \in 1..Len(sp) : sp[k] = s
  /\ \A j, k \in 1..Len(sp) : j < k => Len(sp[j]) < Len(sp[k])
  /\ \A k \in 1..Len(ss) : \A n \in DOMAIN ss[k] : First(ss[k][n], n, sp[k], V)
  /\ \A d \in V : /\ d \in Paths /\ ScopeOf(d) \in S
                  /\ \A k \in 1..Len(ss) : sp[k] = ScopeOf(d) => Name(d) \in DOMAIN ss[k]

TableAt(ss, S, V) == \E sp : TableOK(ss, sp, S, V)
TableInv == TableAt(scopes, Scopes(Pos), Vis(Pos))

RulesInv == \A p \in Paths : Seen(p, Pos) => NameRules(p)

EvalOK(x) == x.op = "eval" => x.site = Resolve(Name(x.at), x.at)
EvalsOK(c) ==
  /\ IsSeq(c)
  /\ \A b \in 1..Len(c) : /\ DOMAIN c[b] = {"fn", "ins"} /\ IsSeq(c[b].ins)
                          /\ \A i \in 1..Len(c[b].ins) : EvalOK(c[b].ins[i])
EvalInv == EvalsOK(code)

WalkInv == ChainInv /\ TableInv /\ RulesInv

NInv ==
  /\ EvalInv
  /\ Running => WalkInv
  /\ Generated => WellScoped
  /\ result \in {"rejected", "undefined"} /\ ~refused => ~WellScoped

-----------------------------------------------------------------------------
(* Paths.                                                                  *)

LEMMA PrefixFacts ==
  ASSUME NEW p \in Seq(Nat), NEW n \in Nat, n <= Len(p)
  PROVE  /\ SubSeq(p, 1, n) \in Seq(Nat) /\ Len(SubSeq(p, 1, n)) = n
         /\ \A i \in 1..n : SubSeq(p, 1, n)[i] = p[i]
<1>1. Len(p) \in Nat
  BY LenProperties
<1>2. \A i \in 1..n : p[i] \in Nat
  BY <1>1, ElementOfSeq
<1>3. /\ SubSeq(p, 1, n) \in Seq(Nat)
      /\ Len(SubSeq(p, 1, n)) = IF 1 <= n THEN n - 1 + 1 ELSE 0
      /\ \A i \in 1..(n - 1 + 1) : SubSeq(p, 1, n)[i] = p[1 + i - 1]
  BY <1>2, SubSeqProperties
<1>4. n - 1 + 1 = n /\ \A i \in 1..n : 1 + i - 1 = i
  OBVIOUS
<1> QED
  BY <1>3, <1>4

LEMMA PrefixOfAppend ==
  ASSUME NEW p \in Seq(Nat), NEW x \in Nat, NEW n \in Nat, n <= Len(p)
  PROVE  SubSeq(Append(p, x), 1, n) = SubSeq(p, 1, n)
<1>1. /\ Append(p, x) \in Seq(Nat) /\ Len(Append(p, x)) = Len(p) + 1 /\ Len(p) \in Nat
      /\ \A i \in 1..Len(p) : Append(p, x)[i] = p[i]
  BY AppendProperties, LenProperties
<1>2. n <= Len(Append(p, x)) /\ \A i \in 1..n : i \in 1..Len(p)
  BY <1>1
<1>3. /\ SubSeq(Append(p, x), 1, n) \in Seq(Nat) /\ Len(SubSeq(Append(p, x), 1, n)) = n
      /\ \A i \in 1..n : SubSeq(Append(p, x), 1, n)[i] = p[i]
  BY <1>1, <1>2, PrefixFacts
<1>4. /\ SubSeq(p, 1, n) \in Seq(Nat) /\ Len(SubSeq(p, 1, n)) = n
      /\ \A i \in 1..n : SubSeq(p, 1, n)[i] = p[i]
  BY PrefixFacts
<1> QED
  BY <1>3, <1>4, SeqEqual

LEMMA PrefixIs ==
  ASSUME NEW s \in Seq(Nat), NEW t \in Seq(Nat)
  PROVE  /\ IsPrefix(s, t) <=> s = t \/ Below(t, s)
         /\ IsStrictPrefix(s, t) <=> Below(t, s)
         /\ ~Below(s, s) /\ Len(s) \in Nat
<1>1. Len(s) \in Nat /\ Len(t) \in Nat /\ SubSeq(s, 1, Len(s)) = s
  BY LenProperties, SubSeqFull
<1>2. ~Below(s, s)
  BY <1>1 DEF Below
<1>3. ASSUME Below(t, s) PROVE IsPrefix(s, t)
  <2>1. /\ Len(s) <= Len(t) /\ \A i \in 1..Len(s) : t[i] = s[i]
    BY <1>1, <1>3 DEF Below
  <2>2. /\ SubSeq(t, 1, Len(s)) \in Seq(Nat) /\ Len(SubSeq(t, 1, Len(s))) = Len(s)
        /\ \A i \in 1..Len(s) : SubSeq(t, 1, Len(s))[i] = t[i]
    BY <1>1, <2>1, PrefixFacts
  <2>3. s = SubSeq(t, 1, Len(s))
    BY <2>1, <2>2, SeqEqual
  <2> QED
    BY <1>1, <2>1, <2>3 DEF IsPrefix
<1>4. ASSUME IsPrefix(s, t), s # t PROVE Below(t, s)
  <2>1. Len(s) <= Len(t) /\ s = SubSeq(t, 1, Len(s))
    BY <1>1, <1>4 DEF IsPrefix
  <2>2. \A i \in 1..Len(s) : SubSeq(t, 1, Len(s))[i] = t[i]
    BY <1>1, <2>1, PrefixFacts
  <2>3. \A i \in 1..Len(s) : t[i] = s[i]
    BY <2>1, <2>2
  <2>4. Len(s) # Len(t)
    BY <1>4, <2>3, SeqEqual
  <2> QED
    BY <1>1, <2>1, <2>3, <2>4 DEF Below
<1>5. IsPrefix(s, s)
  BY <1>1 DEF IsPrefix
<1>6. IsPrefix(s, t) <=> s = t \/ Below(t, s)
  BY <1>3, <1>4, <1>5
<1>7. IsStrictPrefix(s, t) <=> Below(t, s)
  BY <1>2, <1>6 DEF IsStrictPrefix
<1> QED
  BY <1>1, <1>2, <1>6, <1>7

LEMMA BeforeIs ==
  ASSUME NEW d \in Seq(Nat), NEW p \in Seq(Nat)
  PROVE  Before(d, p) <=> Below(p, d) \/ Past(d, p)
BY PrefixIs DEF Before, Past

(* What is past is not around, and the order is one.                       *)
LEMMA PastFacts ==
  ASSUME NEW d \in Seq(Nat), NEW p \in Seq(Nat)
  PROVE  /\ Past(d, p) => ~Past(p, d) /\ ~Below(p, d) /\ ~Below(d, p) /\ d # p
         /\ Below(p, d) => ~Below(d, p) /\ d # p
         /\ Before(d, p) => ~Before(p, d) /\ d # p
<1>1. Len(d) \in Nat /\ Len(p) \in Nat
  BY LenProperties
<1>2. /\ \A i \in 1..Len(d) : d[i] \in Nat
      /\ \A i \in 1..Len(p) : p[i] \in Nat
  BY ElementOfSeq
<1>3. ASSUME Past(d, p) PROVE ~Past(p, d) /\ ~Below(p, d) /\ ~Below(d, p) /\ d # p
  <2>1. PICK i \in 1..Len(d) : /\ i <= Len(p) /\ d[i] < p[i]
                               /\ \A j \in 1..(i - 1) : d[j] = p[j]
    BY <1>3 DEF Past
  <2>2. i \in 1..Len(p) /\ d[i] # p[i] /\ ~(p[i] < d[i])
    BY <1>1, <1>2, <2>1
  <2>3. ~Below(p, d) /\ ~Below(d, p) /\ d # p
    BY <2>1, <2>2 DEF Below
  <2>4. ASSUME Past(p, d) PROVE FALSE
    <3>1. PICK k \in 1..Len(p) : /\ k <= Len(d) /\ p[k] < d[k]
                                 /\ \A j \in 1..(k - 1) : p[j] = d[j]
      BY <2>4 DEF Past
    <3>2. CASE k < i
      <4>1. k \in 1..(i - 1)
        BY <3>2
      <4> QED
        BY <1>1, <1>2, <2>1, <3>1, <4>1
    <3>3. CASE i < k
      <4>1. i \in 1..(k - 1)
        BY <3>3
      <4> QED
        BY <2>2, <3>1, <4>1
    <3>4. CASE i = k
      BY <2>2, <3>1, <3>4
    <3> QED
      BY <3>2, <3>3, <3>4
  <2> QED
    BY <2>3, <2>4
<1>4. Below(p, d) => ~Below(d, p) /\ d # p
  BY <1>1 DEF Below
<1>5. ASSUME Past(p, d) PROVE ~Below(p, d)
  <2>1. PICK i \in 1..Len(p) : i <= Len(d) /\ p[i] < d[i]
    BY <1>5 DEF Past
  <2>2. i \in 1..Len(d) /\ p[i] # d[i]
    BY <1>1, <1>2, <2>1
  <2> QED
    BY <2>2 DEF Below
<1> QED
  BY <1>3, <1>4, <1>5, BeforeIs

(* In front of a kid, and behind it.                                       *)
LEMMA PastAppend ==
  ASSUME NEW d \in Seq(Nat), NEW p \in Seq(Nat), NEW x \in Nat
  PROVE  Past(d, Append(p, x)) <=> Past(d, p) \/ (Below(d, p) /\ d[Len(p) + 1] < x)
<1> DEFINE q == Append(p, x)
<1>1. Len(d) \in Nat /\ Len(p) \in Nat
  BY LenProperties
<1>2. /\ Len(q) = Len(p) + 1 /\ q[Len(p) + 1] = x
      /\ \A i \in 1..Len(p) : q[i] = p[i]
  BY AppendProperties
<1> HIDE DEF q
<1>3. ASSUME Past(d, q) PROVE Past(d, p) \/ (Below(d, p) /\ d[Len(p) + 1] < x)
  <2>1. PICK i \in 1..Len(d) : /\ i <= Len(q) /\ d[i] < q[i]
                               /\ \A j \in 1..(i - 1) : d[j] = q[j]
    BY <1>3 DEF Past
  <2>2. CASE i <= Len(p)
    <3>1. i \in 1..Len(p) /\ \A j \in 1..(i - 1) : j \in 1..Len(p)
      BY <1>1, <2>2
    <3> QED
      BY <1>2, <2>1, <2>2, <3>1 DEF Past
  <2>3. CASE i > Len(p)
    <3>1. i = Len(p) + 1
      BY <1>1, <1>2, <2>1, <2>3
    <3>2. Len(p) < Len(d) /\ \A j \in 1..Len(p) : j \in 1..(i - 1)
      BY <1>1, <2>1, <3>1
    <3> QED
      BY <1>2, <2>1, <3>1, <3>2 DEF Below
  <2> QED
    BY <1>1, <2>2, <2>3
<1>4. ASSUME Past(d, p) PROVE Past(d, q)
  <2>1. PICK i \in 1..Len(d) : /\ i <= Len(p) /\ d[i] < p[i]
                               /\ \A j \in 1..(i - 1) : d[j] = p[j]
    BY <1>4 DEF Past
  <2>2. i \in 1..Len(p) /\ i <= Len(q) /\ \A j \in 1..(i - 1) : j \in 1..Len(p)
    BY <1>1, <1>2, <2>1
  <2> QED
    BY <1>2, <2>1, <2>2 DEF Past
<1>5. ASSUME Below(d, p), d[Len(p) + 1] < x PROVE Past(d, q)
  <2>1. PICK i \in Nat : i = Len(p) + 1
    BY <1>1
  <2>2. /\ i \in 1..Len(d) /\ i <= Len(q) /\ d[i] < q[i]
        /\ \A j \in 1..(i - 1) : j \in 1..Len(p)
    BY <1>1, <1>2, <1>5, <2>1 DEF Below
  <2>3. \A j \in 1..(i - 1) : d[j] = q[j]
    BY <1>2, <1>5, <2>2 DEF Below
  <2> QED
    BY <2>2, <2>3 DEF Past
<1> QED
  BY <1>3, <1>4, <1>5 DEF q

LEMMA BelowAppend ==
  ASSUME NEW d \in Seq(Nat), NEW p \in Seq(Nat), NEW x \in Nat
  PROVE  /\ Below(Append(p, x), d) <=> d = p \/ Below(p, d)
         /\ Below(d, p) /\ d[Len(p) + 1] = x <=> d = Append(p, x) \/ Below(d, Append(p, x))
<1> DEFINE q == Append(p, x)
<1>1. Len(d) \in Nat /\ Len(p) \in Nat /\ q \in Seq(Nat)
  BY LenProperties, AppendProperties
<1>2. /\ Len(q) = Len(p) + 1 /\ q[Len(p) + 1] = x
      /\ \A i \in 1..Len(p) : q[i] = p[i]
  BY AppendProperties
<1> HIDE DEF q
<1>3. ASSUME Below(q, d) PROVE d = p \/ Below(p, d)
  <2>1. Len(d) <= Len(p) /\ \A i \in 1..Len(d) : i \in 1..Len(p)
    BY <1>1, <1>2, <1>3 DEF Below
  <2>2. \A i \in 1..Len(d) : p[i] = d[i]
    BY <1>2, <1>3, <2>1 DEF Below
  <2>3. CASE Len(d) = Len(p)
    BY <2>2, <2>3, SeqEqual
  <2>4. CASE Len(d) < Len(p)
    BY <2>2, <2>4 DEF Below
  <2> QED
    BY <1>1, <2>1, <2>3, <2>4
<1>4. ASSUME d = p \/ Below(p, d) PROVE Below(q, d)
  <2>1. Len(d) < Len(q) /\ \A i \in 1..Len(d) : i \in 1..Len(p) /\ p[i] = d[i]
    BY <1>1, <1>2, <1>4 DEF Below
  <2> QED
    BY <1>2, <2>1 DEF Below
<1>5. ASSUME Below(d, p), d[Len(p) + 1] = x PROVE d = q \/ Below(d, q)
  <2>1. Len(q) <= Len(d) /\ \A i \in 1..Len(q) : i \in 1..Len(p) \/ i = Len(p) + 1
    BY <1>1, <1>2, <1>5 DEF Below
  <2>2. \A i \in 1..Len(q) : d[i] = q[i]
    BY <1>2, <1>5, <2>1 DEF Below
  <2>3. CASE Len(d) = Len(q)
    BY <1>1, <2>2, <2>3, SeqEqual
  <2>4. CASE Len(q) < Len(d)
    BY <2>2, <2>4 DEF Below
  <2>5. Len(q) \in Nat
    BY <1>1, <1>2
  <2> QED
    BY <1>1, <2>1, <2>3, <2>4, <2>5
<1>6. ASSUME d = q \/ Below(d, q) PROVE Below(d, p) /\ d[Len(p) + 1] = x
  <2>1. /\ Len(p) < Len(d) /\ Len(p) + 1 \in 1..Len(q)
        /\ \A i \in 1..Len(p) : i \in 1..Len(q)
    BY <1>1, <1>2, <1>6 DEF Below
  <2>2. \A i \in 1..Len(q) : d[i] = q[i]
    BY <1>6 DEF Below
  <2> QED
    BY <1>2, <2>1, <2>2 DEF Below
<1> QED
  BY <1>3, <1>4, <1>5, <1>6 DEF q

-----------------------------------------------------------------------------
(* The tree.                                                               *)

LEMMA PathFacts ==
  ASSUME tree \in Programs, NEW p \in Paths
  PROVE  /\ p \in Seq(Nat) /\ Len(p) \in Nat /\ p # NoSite /\ Kids(p) \in Nat
         /\ \A n \in 0..(Len(p) - 1) : /\ SubSeq(p, 1, n) \in Paths
                                       /\ p[n + 1] \in 1..Kids(SubSeq(p, 1, n))
<1>1. Parsed(tree)
  BY ProgramsAssumption
<1>2. p \in Seq(Nat) /\ Len(p) \in Nat /\ Kids(p) \in Nat
  BY <1>1, TreeFacts, LenProperties
<1>3. ASSUME NEW q \in Paths, NEW n \in 0..(Len(q) - 1), q \in Seq(Nat), Len(q) \in Nat
      PROVE  SubSeq(q, 1, n) \in Paths /\ q[n + 1] \in 1..Kids(SubSeq(q, 1, n))
  <2>1. PICK m \in Nat : m = n + 1
    BY <1>3
  <2>2. m \in 1..Len(q) /\ m - 1 = n
    BY <1>3, <2>1
  <2>3. /\ SubSeq(q, 1, m - 1) \in DOMAIN tree
        /\ q[m] \in 1..tree[SubSeq(q, 1, m - 1)].kids
    BY <1>1, <2>2 DEF Parsed, Paths
  <2> QED
    BY <2>1, <2>2, <2>3 DEF Paths, Kids
<1>4. p # NoSite
  <2>1. NoSite \in Seq(Nat) /\ Len(NoSite) = 1 /\ NoSite[1] = 0 /\ NoSite[0 + 1] = 0
    BY DEF NoSite
  <2>2. ASSUME NoSite \in Paths PROVE FALSE
    <3>1. NoSite[0 + 1] \in 1..Kids(SubSeq(NoSite, 1, 0))
      BY <1>3, <2>1, <2>2
    <3> QED
      BY <2>1, <3>1
  <2> QED
    BY <2>2
<1> QED
  BY <1>2, <1>3, <1>4

LEMMA KindFacts ==
  ASSUME tree \in Programs, NEW p \in Paths
  PROVE  /\ Kind(p) \in Leaves => Kids(p) = 0
         /\ \A i \in 1..Kids(p) :
              /\ Kind(p) \in {"let", "return", "global"} => Kind(Child(p, i)) \in Expressions
              /\ Kind(p) = "decl" => Kind(Child(p, i)) = "param"
              /\ Kind(p) = "def" => Kind(Child(p, i)) = IF i = Kids(p) THEN "block" ELSE "param"
              /\ Kind(p) \in {"if", "while"} /\ i = 1 => Kind(Child(p, i)) \in Values
              /\ Kind(p) = "for" /\ i # 3 => Kind(Child(p, i)) \in Values
<1>1. KidsOf(tree, p) /\ \A i \in 1..Kids(p) : KidOf(tree, p, i)
  BY ProgramsAssumption DEF Parsed, Paths, Kids
<1>2. Kind(p) \in Leaves => Kids(p) = 0
  BY <1>1 DEF KidsOf, Leaves, Expressions, Kids, Kind
<1> QED
  BY <1>1, <1>2 DEF KidOf, Kind, Kids

(* What is inside of p is inside of one of its kids.                       *)
LEMMA KidAbove ==
  ASSUME tree \in Programs, NEW d \in Paths, NEW p \in Paths, Below(d, p)
  PROVE  /\ d[Len(p) + 1] \in 1..Kids(p) /\ Child(p, d[Len(p) + 1]) \in Paths
         /\ d = Child(p, d[Len(p) + 1]) \/ Below(d, Child(p, d[Len(p) + 1]))
<1>1. /\ d \in Seq(Nat) /\ p \in Seq(Nat) /\ Len(p) \in Nat /\ Len(d) \in Nat
      /\ Len(p) < Len(d) /\ \A i \in 1..Len(p) : d[i] = p[i]
  BY PathFacts DEF Below
<1>2. PICK n \in Nat : n = Len(p)
  BY <1>1
<1>3. /\ SubSeq(d, 1, n) \in Seq(Nat) /\ Len(SubSeq(d, 1, n)) = n
      /\ \A i \in 1..n : SubSeq(d, 1, n)[i] = d[i]
  BY <1>1, <1>2, PrefixFacts
<1>4. SubSeq(d, 1, n) = p
  BY <1>1, <1>2, <1>3, SeqEqual
<1>5. n \in 0..(Len(d) - 1)
  BY <1>1, <1>2
<1>6. d[n + 1] \in 1..Kids(p)
  BY <1>4, <1>5, PathFacts
<1>7. d[n + 1] \in Nat
  BY <1>6
<1>8. d = Append(p, d[n + 1]) \/ Below(d, Append(p, d[n + 1]))
  BY <1>1, <1>2, <1>7, BelowAppend
<1> QED
  BY <1>2, <1>6, <1>8, TreeFacts DEF Child

LEMMA LeafHasNothing ==
  ASSUME tree \in Programs, NEW d \in Paths, NEW p \in Paths, Kind(p) \in Leaves
  PROVE  ~Below(d, p)
<1> SUFFICES ASSUME Below(d, p) PROVE FALSE
  OBVIOUS
<1>1. d[Len(p) + 1] \in 1..Kids(p) /\ Kids(p) = 0
  BY KidAbove, KindFacts
<1> QED
  BY <1>1

-----------------------------------------------------------------------------
(* Scopes.                                                                 *)

LEMMA ScopesFacts ==
  ASSUME NEW p \in Seq(Nat), NEW s
  PROVE  s \in Scopes(p) <=> s \in Seq(Nat) /\ Below(p, s) /\ Kind(s) \in Scoped
<1>1. Len(p) \in Nat
  BY LenProperties
<1>2. ASSUME s \in Scopes(p) PROVE s \in Seq(Nat) /\ Below(p, s) /\ Kind(s) \in Scoped
  <2>1. PICK n \in 0..(Len(p) - 1) : s = SubSeq(p, 1, n) /\ Kind(s) \in Scoped
    BY <1>2 DEF Scopes, Around
  <2>2. n \in Nat /\ n < Len(p)
    BY <1>1
  <2>3. s \in Seq(Nat) /\ Len(s) = n /\ \A i \in 1..n : s[i] = p[i]
    BY <2>1, <2>2, PrefixFacts
  <2> QED
    BY <2>1, <2>2, <2>3 DEF Below
<1>3. ASSUME s \in Seq(Nat), Below(p, s), Kind(s) \in Scoped PROVE s \in Scopes(p)
  <2>1. PICK n \in Nat : n = Len(s)
    BY <1>3, LenProperties
  <2>2. n \in 0..(Len(p) - 1) /\ n <= Len(p) /\ \A i \in 1..n : p[i] = s[i]
    BY <1>1, <1>3, <2>1 DEF Below
  <2>3. /\ SubSeq(p, 1, n) \in Seq(Nat) /\ Len(SubSeq(p, 1, n)) = n
        /\ \A i \in 1..n : SubSeq(p, 1, n)[i] = p[i]
    BY <2>2, PrefixFacts
  <2>4. s = SubSeq(p, 1, n)
    BY <1>3, <2>1, <2>2, <2>3, SeqEqual
  <2> QED
    BY <1>3, <2>2, <2>4 DEF Scopes, Around
<1> QED
  BY <1>2, <1>3

LEMMA ScopesAppend ==
  ASSUME NEW p \in Seq(Nat), NEW x \in Nat
  PROVE  /\ Scopes(Append(p, x)) = Scopes(p) \cup (IF Kind(p) \in Scoped THEN {p} ELSE {})
         /\ p \notin Scopes(p)
         /\ \A s \in Scopes(p) : s \in Seq(Nat) /\ Len(s) \in Nat /\ Len(s) < Len(p)
<1>1. Append(p, x) \in Seq(Nat)
  BY AppendProperties
<1>2. ASSUME NEW s
      PROVE  s \in Scopes(Append(p, x)) <=> s \in Scopes(p) \/ (s = p /\ Kind(p) \in Scoped)
  BY <1>1, ScopesFacts, BelowAppend
<1>3. \A s \in Scopes(p) : s \in Seq(Nat) /\ Len(s) \in Nat /\ Len(s) < Len(p)
  BY ScopesFacts, LenProperties DEF Below
<1>4. p \notin Scopes(p)
  BY ScopesFacts, PrefixIs
<1> QED
  BY <1>2, <1>3, <1>4

(* The scope a declaration belongs to is the innermost one around it.      *)
LEMMA ScopeIs ==
  ASSUME tree \in Programs, NEW d \in Paths, d # Root
  PROVE  /\ ScopeOf(d) \in Scopes(d) /\ ScopeOf(d) \in Seq(Nat) /\ Below(d, ScopeOf(d))
         /\ Len(ScopeOf(d)) \in Nat
         /\ \A s \in Scopes(d) : Len(s) <= Len(ScopeOf(d))
<1>1. d \in Seq(Nat) /\ Len(d) \in Nat
  BY PathFacts
<1>2. Len(d) # 0
  BY <1>1, EmptySeq DEF Root
<1>3. 0 \in Around(d)
  <2>1. /\ SubSeq(d, 1, 0) \in Seq(Nat) /\ Len(SubSeq(d, 1, 0)) = 0
    BY <1>1, PrefixFacts
  <2>2. SubSeq(d, 1, 0) = Root
    BY <2>1, EmptySeq DEF Root
  <2>3. Kind(Root) \in Scoped
    BY TreeFacts DEF Scoped
  <2>4. 0 \in 0..(Len(d) - 1)
    BY <1>1, <1>2
  <2>5. Kind(SubSeq(d, 1, 0)) \in Scoped
    BY <2>2, <2>3, Zenon
  <2> QED
    BY <2>4, <2>5 DEF Around
<1> DEFINE T == {m + 1 : m \in Around(d)}
<1>4. T \subseteq 1..Len(d) /\ T # {}
  BY <1>1, <1>3 DEF Around
<1>5. PICK t \in T : \A u \in T : u <= t
  BY <1>1, <1>4, GreatestExists
<1>6. PICK m \in Around(d) : t = m + 1
  OBVIOUS
<1>7. \A k \in Around(d) : k + 1 \in T
  OBVIOUS
<1> HIDE DEF T
<1>8. \A k \in Around(d) : k \in Nat /\ k <= Len(d)
  BY <1>1 DEF Around
<1>9. \A k \in Around(d) : k <= m
  <2> SUFFICES ASSUME NEW k \in Around(d) PROVE k <= m
    OBVIOUS
  <2>1. k + 1 <= m + 1
    BY <1>5, <1>6, <1>7
  <2> QED
    BY <1>8, <2>1
<1>10. \E k \in Around(d) : \A j \in Around(d) : j <= k
  BY <1>9
<1>11. PICK n \in Around(d) : n = CHOOSE k \in Around(d) : \A j \in Around(d) : j <= k
  BY <1>10
<1>12. \A j \in Around(d) : j <= n
  BY <1>10, <1>11
<1>13. ScopeOf(d) = SubSeq(d, 1, n)
  BY <1>11 DEF ScopeOf, Around
<1>14. /\ ScopeOf(d) \in Scopes(d) /\ ScopeOf(d) \in Seq(Nat) /\ Len(ScopeOf(d)) = n
  BY <1>1, <1>8, <1>13, PrefixFacts DEF Scopes
<1>15. \A s \in Scopes(d) : Len(s) \in Around(d)
  BY <1>1, <1>8, PrefixFacts DEF Scopes
<1> QED
  BY <1>1, <1>8, <1>12, <1>14, <1>15, ScopesFacts

LEMMA VisibleIs ==
  ASSUME tree \in Programs, NEW d \in Paths, NEW p \in Seq(Nat)
  PROVE  Visible(d, p) <=> Declares(d) /\ Seen(d, p) /\ ScopeOf(d) \in Scopes(p)
<1>1. d \in Seq(Nat)
  BY PathFacts
<1>2. CASE ~Declares(d)
  BY <1>2 DEF Visible, Declares
<1>3. CASE Declares(d)
  <2>1. d # Root
    BY <1>3, TreeFacts DEF Declares, IsFunction, IsVariable
  <2>2. PICK s : s = ScopeOf(d)
    OBVIOUS
  <2>3. s \in Seq(Nat) /\ Below(d, s) /\ Kind(s) \in Scoped
    BY <1>1, <2>1, <2>2, ScopeIs, ScopesFacts
  <2>4. s \in Scopes(p) <=> Below(p, s)
    BY <2>3, ScopesFacts
  <2>5. Inside(p, s) <=> s = p \/ Below(p, s)
    BY <2>3, PrefixIs DEF Inside
  <2>6. Inside(p, d) <=> d = p \/ Below(p, d)
    BY <1>1, PrefixIs DEF Inside
  <2>7. Before(d, p) <=> Below(p, d) \/ Past(d, p)
    BY <1>1, BeforeIs
  <2>8. /\ Past(d, p) => ~Below(p, d) /\ ~Below(d, p) /\ d # p
        /\ Below(p, d) => ~Below(d, p)
    BY <1>1, PastFacts
  <2>9. IsVariable(d) <=> ~IsFunction(d)
    BY <1>3 DEF Declares, IsVariable, IsFunction
  <2>10. s = p => Below(d, p)
    BY <2>3
  <2> QED
    BY <1>3, <2>2, <2>4, <2>5, <2>6, <2>7, <2>8, <2>9, <2>10 DEF Visible, Declares, Seen
<1> QED
  BY <1>2, <1>3

-----------------------------------------------------------------------------
(* What is visible, from one place of the walk to the next.                *)

(* The kinds a visit returns from.                                         *)
Walked == Scoped \cup Leaves \cup {"let", "return", "global"}
Within(p) == Vis(p) \cup (IF IsFunction(p) THEN {p} ELSE {})
Behind(p) == Vis(p) \cup (IF Declares(p) THEN {p} ELSE {})

LEMMA VisIs ==
  ASSUME tree \in Programs, NEW d, NEW p \in Seq(Nat)
  PROVE  d \in Vis(p) <=> d \in Paths /\ Declares(d) /\ Seen(d, p) /\ ScopeOf(d) \in Scopes(p)
BY VisibleIs DEF Vis

LEMMA SeenWithin ==
  ASSUME tree \in Programs, NEW d \in Paths, NEW p \in Paths, NEW x \in Nat
  PROVE  /\ Seen(d, Append(p, x)) <=> \/ Seen(d, p) \/ (d = p /\ IsFunction(p))
                                      \/ (Below(d, p) /\ d[Len(p) + 1] < x)
         /\ Seen(d, p) => ~Below(d, p) /\ d # p
<1>1. d \in Seq(Nat) /\ p \in Seq(Nat)
  BY PathFacts
<1>2. Past(d, Append(p, x)) <=> Past(d, p) \/ (Below(d, p) /\ d[Len(p) + 1] < x)
  BY <1>1, PastAppend
<1>3. Below(Append(p, x), d) <=> d = p \/ Below(p, d)
  BY <1>1, BelowAppend
<1>4. /\ Past(d, p) => ~Below(d, p) /\ d # p
      /\ Below(p, d) => ~Below(d, p) /\ p # d
  BY <1>1, PastFacts
<1> QED
  BY <1>2, <1>3, <1>4 DEF Seen

LEMMA SeenBehind ==
  ASSUME tree \in Programs, NEW d \in Paths, NEW q \in Seq(Nat), NEW k \in Nat
  PROVE  Seen(d, Append(q, k + 1)) <=> \/ Seen(d, Append(q, k)) \/ d = Append(q, k)
                                       \/ Below(d, Append(q, k))
<1>1. PICK n \in Nat : n = k + 1
  OBVIOUS
<1>2. d \in Seq(Nat) /\ Len(q) \in Nat /\ Len(d) \in Nat
  BY PathFacts, LenProperties
<1>3. /\ Past(d, Append(q, n)) <=> Past(d, q) \/ (Below(d, q) /\ d[Len(q) + 1] < n)
      /\ Past(d, Append(q, k)) <=> Past(d, q) \/ (Below(d, q) /\ d[Len(q) + 1] < k)
  BY <1>2, PastAppend
<1>4. Below(d, q) => d[Len(q) + 1] \in Nat
  <2> SUFFICES ASSUME Below(d, q) PROVE d[Len(q) + 1] \in Nat
    OBVIOUS
  <2>1. Len(q) + 1 \in 1..Len(d)
    BY <1>2 DEF Below
  <2> QED
    BY <1>2, <2>1, ElementOfSeq
<1>5. Below(d, q) => (d[Len(q) + 1] < n <=> d[Len(q) + 1] < k \/ d[Len(q) + 1] = k)
  BY <1>1, <1>4
<1>6. Below(d, q) /\ d[Len(q) + 1] = k <=> d = Append(q, k) \/ Below(d, Append(q, k))
  BY <1>2, BelowAppend
<1>7. Below(Append(q, n), d) <=> Below(Append(q, k), d)
  BY <1>2, BelowAppend
<1> QED
  BY <1>1, <1>3, <1>5, <1>6, <1>7 DEF Seen

(* No declaration inside of a statement is in a scope around it.           *)
LEMMA NothingEscapes ==
  ASSUME tree \in Programs, NEW d \in Paths, NEW p \in Paths, Kind(p) \in Walked,
         Below(d, p), Declares(d)
  PROVE  ScopeOf(d) \notin Scopes(p)
<1>1. d # Root /\ p \in Seq(Nat) /\ d \in Seq(Nat) /\ Len(p) \in Nat
  BY PathFacts, TreeFacts DEF Declares, IsFunction, IsVariable
<1>2. CASE Kind(p) \in Scoped
  <2>1. p \in Scopes(d)
    BY <1>1, <1>2, ScopesFacts
  <2>2. Len(p) <= Len(ScopeOf(d)) /\ Len(ScopeOf(d)) \in Nat
    BY <1>1, <2>1, ScopeIs
  <2>3. \A s \in Scopes(p) : Len(s) < Len(p) /\ Len(s) \in Nat
    BY <1>1, ScopesAppend
  <2> QED
    BY <1>1, <2>2, <2>3
<1>3. CASE Kind(p) \in Leaves
  BY <1>3, LeafHasNothing
<1>4. CASE Kind(p) \in {"let", "return", "global"}
  <2>1. PICK k \in 1..Kids(p) : /\ Child(p, k) \in Paths
                                /\ d = Child(p, k) \/ Below(d, Child(p, k))
    BY KidAbove
  <2>2. Kind(Child(p, k)) \in Expressions /\ Kind(Child(p, k)) \in Leaves
    BY <1>4, <2>1, KindFacts DEF Leaves
  <2>3. d = Child(p, k)
    BY <2>1, <2>2, LeafHasNothing
  <2> QED
    BY <2>2, <2>3 DEF Expressions, Declares, IsFunction, IsVariable
<1> QED
  BY <1>2, <1>3, <1>4 DEF Walked

(* A visit begins the first kid, or has come to a later one.               *)
LEMMA VisWithin ==
  ASSUME tree \in Programs, NEW p \in Paths
  PROVE  /\ Vis(Append(p, 1)) = Within(p)
         /\ \A x \in Nat : x >= 1 /\ Kind(p) \in Walked =>
              /\ {d \in Vis(Append(p, x)) : ScopeOf(d) # p} = Within(p)
              /\ Kind(p) \notin Scoped => Vis(Append(p, x)) = Vis(p)
<1>1. p \in Seq(Nat)
  BY PathFacts
<1>2. IsFunction(p) => /\ p \in Paths /\ Declares(p) /\ ScopeOf(p) \in Scopes(p) /\ ScopeOf(p) # p
                       /\ ~Below(p, p)
  <2> SUFFICES ASSUME IsFunction(p)
               PROVE  /\ Declares(p) /\ ScopeOf(p) \in Scopes(p) /\ ScopeOf(p) # p
                      /\ ~Below(p, p)
    OBVIOUS
  <2>1. p # Root /\ Declares(p)
    BY TreeFacts DEF IsFunction, Declares
  <2> QED
    BY <1>1, <2>1, ScopeIs, PrefixIs
<1>3. ASSUME NEW x \in Nat
      PROVE  /\ Append(p, x) \in Seq(Nat)
             /\ Scopes(Append(p, x)) = Scopes(p) \cup (IF Kind(p) \in Scoped THEN {p} ELSE {})
  BY <1>1, ScopesAppend, AppendProperties
<1>4. p \notin Scopes(p)
  BY <1>1, ScopesAppend
<1>5. \A d \in Paths : ScopeOf(d) = p /\ Declares(d) => Below(d, p)
  BY ScopeIs, TreeFacts DEF Declares, IsFunction, IsVariable
<1>6. ASSUME NEW d PROVE d \in Within(p) <=> d \in Vis(p) \/ (d = p /\ IsFunction(p))
  BY DEF Within
<1>7. ASSUME NEW d PROVE d \in Vis(Append(p, 1)) <=> d \in Within(p)
  <2>1. ASSUME d \in Vis(Append(p, 1)) PROVE d \in Within(p)
    <3>1. /\ d \in Paths /\ Declares(d) /\ Seen(d, Append(p, 1))
          /\ ScopeOf(d) \in Scopes(p) \/ ScopeOf(d) = p
      BY <1>3, <2>1, VisIs
    <3>2. ~(Below(d, p) /\ d[Len(p) + 1] < 1)
      <4> SUFFICES ASSUME Below(d, p) PROVE ~(d[Len(p) + 1] < 1)
        OBVIOUS
      <4>1. d[Len(p) + 1] \in 1..Kids(p) /\ Kids(p) \in Nat
        BY <3>1, KidAbove, PathFacts
      <4> QED
        BY <4>1
    <3>3. Seen(d, p) \/ (d = p /\ IsFunction(p))
      BY <3>1, <3>2, SeenWithin
    <3>4. ~Below(d, p)
      BY <1>2, <3>1, <3>3, SeenWithin
    <3>5. ScopeOf(d) \in Scopes(p)
      BY <1>5, <3>1, <3>4
    <3> QED
      BY <1>1, <1>6, <3>1, <3>3, <3>5, VisIs
  <2>2. ASSUME d \in Within(p) PROVE d \in Vis(Append(p, 1))
    <3>1. /\ d \in Paths /\ Declares(d) /\ ScopeOf(d) \in Scopes(p)
          /\ Seen(d, p) \/ (d = p /\ IsFunction(p))
      BY <1>1, <1>2, <1>6, <2>2, VisIs
    <3>2. Seen(d, Append(p, 1)) /\ ScopeOf(d) \in Scopes(Append(p, 1))
      BY <1>3, <3>1, SeenWithin
    <3> QED
      BY <1>3, <3>1, <3>2, VisIs
  <2> QED
    BY <2>1, <2>2
<1>8. ASSUME NEW x \in Nat, Kind(p) \in Walked, NEW d
      PROVE  d \in Vis(Append(p, x)) /\ ScopeOf(d) # p <=> d \in Within(p)
  <2>1. ASSUME d \in Vis(Append(p, x)), ScopeOf(d) # p PROVE d \in Within(p)
    <3>1. /\ d \in Paths /\ Declares(d) /\ Seen(d, Append(p, x)) /\ ScopeOf(d) \in Scopes(p)
      BY <1>3, <2>1, VisIs
    <3>2. ~Below(d, p)
      BY <1>8, <3>1, NothingEscapes
    <3>3. Seen(d, p) \/ (d = p /\ IsFunction(p))
      BY <3>1, <3>2, SeenWithin
    <3> QED
      BY <1>1, <1>6, <3>1, <3>3, VisIs
  <2>2. ASSUME d \in Within(p) PROVE d \in Vis(Append(p, x)) /\ ScopeOf(d) # p
    <3>1. /\ d \in Paths /\ Declares(d) /\ ScopeOf(d) \in Scopes(p)
          /\ Seen(d, p) \/ (d = p /\ IsFunction(p))
      BY <1>1, <1>2, <1>6, <2>2, VisIs
    <3>2. Seen(d, Append(p, x)) /\ ScopeOf(d) \in Scopes(Append(p, x))
      BY <1>3, <3>1, SeenWithin
    <3> QED
      BY <1>3, <1>4, <3>1, <3>2, VisIs
  <2> QED
    BY <2>1, <2>2
<1>9. ASSUME NEW x \in Nat, Kind(p) \in Walked, Kind(p) \notin Scoped
      PROVE  Vis(Append(p, x)) = Vis(p)
  <2>1. ~IsFunction(p)
    BY <1>9 DEF IsFunction, Scoped
  <2>2. ASSUME NEW d \in Vis(Append(p, x)) PROVE ScopeOf(d) # p
    <3>1. ScopeOf(d) \in Scopes(p)
      BY <1>3, <1>9, VisIs
    <3> QED
      BY <1>4, <3>1
  <2> QED
    BY <1>6, <1>8, <1>9, <2>1, <2>2
<1>10. Vis(Append(p, 1)) = Within(p)
  BY <1>7
<1>11. ASSUME NEW x \in Nat, Kind(p) \in Walked
       PROVE  {d \in Vis(Append(p, x)) : ScopeOf(d) # p} = Within(p)
  BY <1>8, <1>11
<1> QED
  BY <1>9, <1>10, <1>11

(* A visit is over.                                                        *)
LEMMA VisBehind ==
  ASSUME tree \in Programs, NEW q \in Seq(Nat), NEW k \in Nat, Append(q, k) \in Paths,
         Kind(Append(q, k)) \in Walked
  PROVE  /\ Vis(Append(q, k + 1)) = Behind(Append(q, k))
         /\ Scopes(Append(q, k + 1)) = Scopes(Append(q, k))
<1>1. PICK p \in Paths : p = Append(q, k)
  OBVIOUS
<1>2. PICK n \in Nat : n = k + 1
  OBVIOUS
<1>3. p \in Seq(Nat) /\ Append(q, n) \in Seq(Nat) /\ p # Root
  BY <1>1, AppendProperties DEF Root
<1>4. Scopes(Append(q, n)) = Scopes(p)
  BY <1>1, ScopesAppend
<1>5. ScopeOf(p) \in Scopes(p)
  BY <1>3, ScopeIs
<1>6. ASSUME NEW d PROVE d \in Vis(Append(q, n)) <=> d \in Vis(p) \/ (d = p /\ Declares(p))
  <2>1. \A e \in Paths : Seen(e, Append(q, n)) <=> Seen(e, p) \/ e = p \/ Below(e, p)
    BY <1>1, <1>2, SeenBehind
  <2>2. ASSUME d \in Vis(Append(q, n)) PROVE d \in Vis(p) \/ (d = p /\ Declares(p))
    <3>1. d \in Paths /\ Declares(d) /\ Seen(d, Append(q, n)) /\ ScopeOf(d) \in Scopes(p)
      BY <1>3, <1>4, <2>2, VisIs
    <3>2. ~Below(d, p)
      BY <1>1, <3>1, NothingEscapes
    <3> QED
      BY <1>3, <2>1, <3>1, <3>2, VisIs
  <2>3. ASSUME d \in Vis(p) \/ (d = p /\ Declares(p)) PROVE d \in Vis(Append(q, n))
    BY <1>3, <1>4, <1>5, <2>1, <2>3, VisIs
  <2> QED
    BY <2>2, <2>3
<1> QED
  BY <1>1, <1>2, <1>4, <1>6 DEF Behind

-----------------------------------------------------------------------------
(* The table, whatever the declarations in it are.                         *)

LEMMA TablePop ==
  ASSUME NEW ss, NEW S, NEW V, NEW p \in S, TableAt(ss, S, V),
         \A s \in S : Len(s) \in Nat /\ (s = p \/ Len(s) < Len(p))
  PROVE  TableAt(Front(ss), S \ {p}, {d \in V : ScopeOf(d) # p})
<1> DEFINE W == {d \in V : ScopeOf(d) # p}
<1>1. PICK sp : TableOK(ss, sp, S, V)
  BY DEF TableAt
<1>2. /\ IsSeq(ss) /\ IsSeq(sp) /\ Len(sp) = Len(ss) /\ Len(ss) \in Nat
      /\ \A j, k \in 1..Len(sp) : j < k => Len(sp[j]) < Len(sp[k])
      /\ \A k \in 1..Len(sp) : sp[k] \in S
      /\ \A s \in S : \E k \in 1..Len(sp) : sp[k] = s
  BY <1>1, SeqFacts DEF TableOK
<1>3. /\ \A k \in 1..Len(ss) : \A n \in DOMAIN ss[k] : First(ss[k][n], n, sp[k], V)
      /\ \A d \in V : /\ d \in Paths /\ ScopeOf(d) \in S
                      /\ \A k \in 1..Len(ss) : sp[k] = ScopeOf(d) => Name(d) \in DOMAIN ss[k]
  BY <1>1 DEF TableOK
<1>4. PICK k \in 1..Len(ss) : sp[k] = p
  BY <1>2
<1>5. k = Len(ss)
  <2> SUFFICES ASSUME k < Len(ss) PROVE FALSE
    BY <1>2
  <2>1. Len(ss) \in 1..Len(sp) /\ k \in 1..Len(sp)
    BY <1>2
  <2>2. Len(p) < Len(sp[Len(ss)]) /\ sp[Len(ss)] \in S
    BY <1>2, <1>4, <2>1
  <2> QED
    BY <2>2
<1>6. ss # <<>> /\ sp # <<>>
  BY <1>2, <1>4, NothingIsSeq
<1>7. PICK m \in Nat : m + 1 = Len(ss)
  <2>1. Len(ss) - 1 \in Nat /\ (Len(ss) - 1) + 1 = Len(ss)
    BY <1>2, <1>4
  <2> QED
    BY <2>1
<1>8. Len(ss) - 1 = m /\ Len(sp) - 1 = m
  BY <1>2, <1>7
<1>9. PICK tt, tp : tt = Front(ss) /\ tp = Front(sp)
  OBVIOUS
<1>10. /\ IsSeq(tt) /\ Len(tt) = m /\ \A j \in 1..m : tt[j] = ss[j]
       /\ IsSeq(tp) /\ Len(tp) = m /\ \A j \in 1..m : tp[j] = sp[j]
  BY <1>2, <1>6, <1>8, <1>9, Shortened
<1>11. /\ \A j \in 1..m : j \in 1..Len(ss) /\ j \in 1..Len(sp) /\ j < Len(ss)
       /\ \A j \in 1..Len(ss) : j \in 1..m \/ j = Len(ss)
  BY <1>2, <1>7
<1>12. \A j \in 1..m : sp[j] # p
  <2> SUFFICES ASSUME NEW j \in 1..m, sp[j] = p PROVE FALSE
    OBVIOUS
  <2>1. Len(sp[j]) < Len(sp[k])
    BY <1>2, <1>4, <1>5, <1>11
  <2> QED
    BY <1>4, <2>1
<1>13. ASSUME NEW j \in 1..m, NEW n \in DOMAIN tt[j] PROVE First(tt[j][n], n, tp[j], W)
  <2>1. First(ss[j][n], n, sp[j], V)
    BY <1>3, <1>10, <1>11, <1>13
  <2> QED
    BY <1>10, <1>12, <2>1 DEF First
<1>14. ASSUME NEW d \in W
       PROVE  /\ d \in Paths /\ ScopeOf(d) \in S \ {p}
              /\ \A j \in 1..m : tp[j] = ScopeOf(d) => Name(d) \in DOMAIN tt[j]
  BY <1>3, <1>10, <1>11
<1>15. \A s \in S \ {p} : \E j \in 1..m : tp[j] = s
  BY <1>2, <1>4, <1>5, <1>10, <1>11
<1>16. \A j \in 1..m : tp[j] \in S \ {p}
  BY <1>2, <1>10, <1>11, <1>12
<1>17. \A i, j \in 1..m : i < j => Len(tp[i]) < Len(tp[j])
  BY <1>2, <1>10, <1>11
<1> HIDE DEF W
<1>18. TableOK(tt, tp, S \ {p}, W)
  BY <1>10, <1>13, <1>14, <1>15, <1>16, <1>17 DEF TableOK
<1> QED
  BY <1>9, <1>18 DEF TableAt, W

LEMMA TablePush ==
  ASSUME NEW ss, NEW S, NEW V, NEW p, p \notin S, TableAt(ss, S, V),
         \A s \in S : Len(s) < Len(p)
  PROVE  TableAt(Append(ss, NoSymbols), S \cup {p}, V)
<1>1. PICK sp : TableOK(ss, sp, S, V)
  BY DEF TableAt
<1>2. /\ IsSeq(ss) /\ IsSeq(sp) /\ Len(sp) = Len(ss) /\ Len(ss) \in Nat
      /\ \A j, k \in 1..Len(sp) : j < k => Len(sp[j]) < Len(sp[k])
      /\ \A k \in 1..Len(sp) : sp[k] \in S
      /\ \A s \in S : \E k \in 1..Len(sp) : sp[k] = s
  BY <1>1, SeqFacts DEF TableOK
<1>3. /\ \A k \in 1..Len(ss) : \A n \in DOMAIN ss[k] : First(ss[k][n], n, sp[k], V)
      /\ \A d \in V : /\ d \in Paths /\ ScopeOf(d) \in S
                      /\ \A k \in 1..Len(ss) : sp[k] = ScopeOf(d) => Name(d) \in DOMAIN ss[k]
  BY <1>1 DEF TableOK
<1>4. PICK m \in Nat : m = Len(ss)
  BY <1>2
<1>5. PICK tt, tp : tt = Append(ss, NoSymbols) /\ tp = Append(sp, p)
  OBVIOUS
<1>6. /\ IsSeq(tt) /\ Len(tt) = m + 1 /\ tt[m + 1] = NoSymbols
      /\ \A j \in 1..m : tt[j] = ss[j]
      /\ IsSeq(tp) /\ Len(tp) = m + 1 /\ tp[m + 1] = p
      /\ \A j \in 1..m : tp[j] = sp[j]
  BY <1>2, <1>4, <1>5, Appended
<1>7. \A j \in 1..(m + 1) : (j \in 1..m /\ j < m + 1) \/ j = m + 1
  OBVIOUS
<1>8. DOMAIN NoSymbols = {}
  BY DEF NoSymbols
<1>9. ASSUME NEW j \in 1..(m + 1), NEW n \in DOMAIN tt[j] PROVE First(tt[j][n], n, tp[j], V)
  BY <1>3, <1>4, <1>6, <1>7, <1>8, <1>9
<1>10. ASSUME NEW d \in V
       PROVE  /\ d \in Paths /\ ScopeOf(d) \in S \cup {p}
              /\ \A j \in 1..(m + 1) : tp[j] = ScopeOf(d) => Name(d) \in DOMAIN tt[j]
  BY <1>3, <1>4, <1>6, <1>7
<1>11. \A s \in S \cup {p} : \E j \in 1..(m + 1) : tp[j] = s
  <2>1. m + 1 \in 1..(m + 1) /\ \A j \in 1..m : j \in 1..(m + 1)
    OBVIOUS
  <2> QED
    BY <1>2, <1>4, <1>6, <2>1
<1>12. \A j \in 1..(m + 1) : tp[j] \in S \cup {p}
  BY <1>2, <1>4, <1>6, <1>7
<1>13. \A i, j \in 1..(m + 1) : i < j => Len(tp[i]) < Len(tp[j])
  <2> SUFFICES ASSUME NEW i \in 1..(m + 1), NEW j \in 1..(m + 1), i < j
               PROVE  Len(tp[i]) < Len(tp[j])
    OBVIOUS
  <2>1. i \in 1..m
    OBVIOUS
  <2> QED
    BY <1>2, <1>4, <1>6, <1>7, <2>1
<1>14. TableOK(tt, tp, S \cup {p}, V)
  BY <1>6, <1>9, <1>10, <1>11, <1>12, <1>13 DEF TableOK
<1> QED
  BY <1>5, <1>14 DEF TableAt

LEMMA TableInsert ==
  ASSUME NEW ss, NEW S, NEW V, NEW p \in Paths, TableAt(ss, S, V), ScopeOf(p) \in S,
         \A s \in S : Len(s) \in Nat /\ Len(s) <= Len(ScopeOf(p)),
         \A e \in V : ScopeOf(e) = ScopeOf(p) => Before(e, p)
  PROVE  TableAt(Insert(ss, Name(p), p), S, V \cup {p})
<1>1. PICK sp : TableOK(ss, sp, S, V)
  BY DEF TableAt
<1>2. /\ IsSeq(ss) /\ IsSeq(sp) /\ Len(sp) = Len(ss) /\ Len(ss) \in Nat
      /\ \A j, k \in 1..Len(sp) : j < k => Len(sp[j]) < Len(sp[k])
      /\ \A k \in 1..Len(sp) : sp[k] \in S
      /\ \A s \in S : \E k \in 1..Len(sp) : sp[k] = s
  BY <1>1, SeqFacts DEF TableOK
<1>3. /\ \A k \in 1..Len(ss) : \A n \in DOMAIN ss[k] : First(ss[k][n], n, sp[k], V)
      /\ \A d \in V : /\ d \in Paths /\ ScopeOf(d) \in S
                      /\ \A k \in 1..Len(ss) : sp[k] = ScopeOf(d) => Name(d) \in DOMAIN ss[k]
  BY <1>1 DEF TableOK
<1>4. PICK m \in Nat : m = Len(ss)
  BY <1>2
<1>5. PICK k \in 1..m : sp[k] = ScopeOf(p)
  BY <1>2, <1>4
<1>6. k = m
  <2> SUFFICES ASSUME k < m PROVE FALSE
    OBVIOUS
  <2>1. m \in 1..Len(sp) /\ k \in 1..Len(sp)
    BY <1>2, <1>4
  <2>2. Len(ScopeOf(p)) < Len(sp[m]) /\ sp[m] \in S
    BY <1>2, <1>5, <2>1
  <2> QED
    BY <1>5, <2>2
<1>7. \A j \in 1..m : j # m => sp[j] # ScopeOf(p)
  <2> SUFFICES ASSUME NEW j \in 1..m, j # m, sp[j] = ScopeOf(p) PROVE FALSE
    OBVIOUS
  <2>1. j < m /\ j \in 1..Len(sp) /\ m \in 1..Len(sp)
    BY <1>2, <1>4
  <2>2. Len(sp[j]) < Len(sp[m])
    BY <1>2, <2>1
  <2> QED
    BY <1>5, <1>6, <2>2
<1>8. ss # <<>> /\ Last(ss) = ss[m]
  BY <1>4, <1>5, NothingIsSeq DEF Last
<1>9. PICK top : top = [n \in DOMAIN ss[m] \cup {Name(p)} |->
                          IF n \in DOMAIN ss[m] THEN ss[m][n] ELSE p]
  OBVIOUS
<1>10. PICK tt : tt = Insert(ss, Name(p), p)
  OBVIOUS
<1>11. tt = Append(Front(ss), top)
  BY <1>8, <1>9, <1>10 DEF Insert
<1>12. /\ IsSeq(tt) /\ Len(tt) = m /\ tt[m] = top
       /\ \A j \in 1..(m - 1) : tt[j] = ss[j]
  <2>1. /\ IsSeq(Append(Front(ss), top)) /\ Len(Append(Front(ss), top)) = Len(ss)
        /\ \A j \in 1..(Len(ss) - 1) : Append(Front(ss), top)[j] = ss[j]
        /\ Append(Front(ss), top)[Len(ss)] = top
    <3>1. IsSeq(ss) /\ ss # <<>>
      BY <1>2, <1>8
    <3> QED
      BY <3>1, Replaced
  <2> QED
    BY <1>4, <1>11, <2>1
<1>13. \A j \in 1..m : j # m => j \in 1..(m - 1)
  OBVIOUS
<1>14. ASSUME NEW j \in 1..m, j # m PROVE tt[j] = ss[j] /\ sp[j] # ScopeOf(p)
  BY <1>7, <1>12, <1>13, <1>14
<1>15. ASSUME NEW j \in 1..m, NEW n \in DOMAIN tt[j]
       PROVE  First(tt[j][n], n, sp[j], V \cup {p})
  <2>1. CASE j # m
    <3>1. First(ss[j][n], n, sp[j], V)
      BY <1>3, <1>4, <1>14, <1>15, <2>1
    <3> QED
      BY <1>14, <2>1, <3>1 DEF First
  <2>2. CASE j = m /\ n \in DOMAIN ss[m]
    <3>1. First(ss[m][n], n, ScopeOf(p), V)
      BY <1>3, <1>4, <1>5, <1>6, <2>2
    <3>2. tt[j][n] = ss[m][n] /\ sp[j] = ScopeOf(p)
      BY <1>5, <1>6, <1>9, <1>12, <2>2
    <3> QED
      BY <3>1, <3>2 DEF First
  <2>3. CASE j = m /\ n \notin DOMAIN ss[m]
    <3>1. n = Name(p) /\ tt[j][n] = p /\ sp[j] = ScopeOf(p)
      BY <1>5, <1>6, <1>9, <1>12, <1>15, <2>3
    <3>2. \A e \in V : ~(Name(e) = n /\ ScopeOf(e) = ScopeOf(p))
      BY <1>3, <1>4, <1>5, <1>6, <2>3
    <3> QED
      BY <3>1, <3>2 DEF First
  <2> QED
    BY <2>1, <2>2, <2>3
<1>16. ASSUME NEW d \in V \cup {p}
       PROVE  /\ d \in Paths /\ ScopeOf(d) \in S
              /\ \A j \in 1..m : sp[j] = ScopeOf(d) => Name(d) \in DOMAIN tt[j]
  <2>1. d \in Paths /\ ScopeOf(d) \in S
    BY <1>3
  <2>2. ASSUME NEW j \in 1..m, sp[j] = ScopeOf(d) PROVE Name(d) \in DOMAIN tt[j]
    <3>1. CASE d \in V
      BY <1>3, <1>4, <1>9, <1>12, <1>14, <2>2, <3>1
    <3>2. CASE d = p
      BY <1>9, <1>12, <1>14, <2>2, <3>2
    <3> QED
      BY <3>1, <3>2
  <2> QED
    BY <2>1, <2>2
<1>17. TableOK(tt, sp, S, V \cup {p})
  BY <1>2, <1>4, <1>12, <1>15, <1>16 DEF TableOK
<1> QED
  BY <1>10, <1>17 DEF TableAt

(* The table answers what the scoping rules say.                           *)
LEMMA FindIs ==
  ASSUME tree \in Programs, NEW x \in Seq(Nat), TableAt(scopes, Scopes(x), Vis(x)), NEW n
  PROVE  find(n) = Resolve(n, x)
<1> DEFINE V == Vis(x)
           having == {i \in DOMAIN scopes : n \in DOMAIN scopes[i] /\ scopes[i][n] \in Paths}
           found == {d \in Paths : Name(d) = n /\ Visible(d, x)}
           closer(d, e) == \/ Len(ScopeOf(d)) > Len(ScopeOf(e))
                           \/ ScopeOf(d) = ScopeOf(e) /\ (d = e \/ Before(d, e))
<1>1. PICK sp : TableOK(scopes, sp, Scopes(x), V)
  BY DEF TableAt
<1>2. /\ IsSeq(scopes) /\ IsSeq(sp) /\ Len(sp) = Len(scopes) /\ Len(scopes) \in Nat
      /\ DOMAIN scopes = 1..Len(scopes)
      /\ \A j, k \in 1..Len(sp) : j < k => Len(sp[j]) < Len(sp[k])
      /\ \A k \in 1..Len(sp) : sp[k] \in Scopes(x)
      /\ \A s \in Scopes(x) : \E k \in 1..Len(sp) : sp[k] = s
  BY <1>1, SeqFacts DEF TableOK
<1>3. /\ \A k \in 1..Len(scopes) : \A i \in DOMAIN scopes[k] : First(scopes[k][i], i, sp[k], V)
      /\ \A d \in V : /\ d \in Paths /\ ScopeOf(d) \in Scopes(x)
                      /\ \A k \in 1..Len(scopes) : sp[k] = ScopeOf(d) => Name(d) \in DOMAIN scopes[k]
  BY <1>1 DEF TableOK
<1>4. \A d : d \in found <=> d \in V /\ Name(d) = n
  BY DEF Vis
<1>5. \A k \in having : k \in 1..Len(scopes) /\ First(scopes[k][n], n, sp[k], V)
  BY <1>2, <1>3
<1>6. \A k \in having : scopes[k][n] \in found
  BY <1>4, <1>5 DEF First
<1>7. \A e \in found : \E k \in having : sp[k] = ScopeOf(e)
  <2> SUFFICES ASSUME NEW e \in found PROVE \E k \in having : sp[k] = ScopeOf(e)
    OBVIOUS
  <2>1. e \in V /\ Name(e) = n
    BY <1>4
  <2>2. PICK k \in 1..Len(scopes) : sp[k] = ScopeOf(e) /\ n \in DOMAIN scopes[k]
    BY <1>2, <1>3, <2>1
  <2>3. First(scopes[k][n], n, sp[k], V)
    BY <1>3, <2>2
  <2>4. scopes[k][n] \in Paths
    BY <1>3, <2>3 DEF First
  <2> QED
    BY <1>2, <2>2, <2>4
<1>8. CASE having = {}
  <2>1. found = {}
    BY <1>7, <1>8
  <2> QED
    BY <1>8, <2>1 DEF find, FindIn, Resolve
<1>9. CASE having # {}
  <2>1. having \subseteq 1..Len(scopes)
    BY <1>2
  <2>2. \E i \in having : \A j \in having : j <= i
    BY <1>2, <1>9, <2>1, GreatestExists
  <2>3. PICK i \in having : i = CHOOSE k \in having : \A j \in having : j <= k
    BY <2>2
  <2>4. \A j \in having : j <= i
    BY <2>2, <2>3
  <2>5. PICK d : d = scopes[i][n]
    OBVIOUS
  <2>6. find(n) = d
    BY <1>9, <2>3, <2>5 DEF find, FindIn
  <2>7. d \in found /\ First(d, n, sp[i], V) /\ ScopeOf(d) = sp[i]
    BY <1>5, <1>6, <2>3, <2>5 DEF First
  <2>8. \A e \in found : closer(d, e)
    <3> SUFFICES ASSUME NEW e \in found PROVE closer(d, e)
      OBVIOUS
    <3>1. PICK k \in having : sp[k] = ScopeOf(e)
      BY <1>7
    <3>2. i \in 1..Len(sp) /\ k \in 1..Len(sp) /\ k <= i
      BY <1>2, <2>1, <2>3, <2>4, <3>1
    <3>3. CASE k < i
      <4>1. Len(sp[k]) < Len(sp[i])
        BY <1>2, <3>2, <3>3
      <4>2. Len(ScopeOf(d)) > Len(ScopeOf(e))
        BY <2>7, <3>1, <4>1
      <4> QED
        BY <4>2
    <3>4. CASE k = i
      <4>1. e \in V /\ Name(e) = n /\ ScopeOf(e) = sp[i]
        BY <1>4, <3>1, <3>4
      <4>2. d = e \/ Before(d, e)
        BY <2>7, <4>1 DEF First
      <4> QED
        BY <2>7, <4>1, <4>2
    <3> QED
      BY <3>2, <3>3, <3>4
  <2>9. ASSUME NEW e \in found, \A f \in found : closer(e, f) PROVE e = d
    <3>1. closer(e, d) /\ closer(d, e)
      BY <2>7, <2>8, <2>9
    <3>2. e \in Seq(Nat) /\ d \in Seq(Nat) /\ e # Root /\ d # Root
      <4>1. e \in Paths /\ d \in Paths /\ Visible(e, x) /\ Visible(d, x)
        BY <2>7, <2>9
      <4> QED
        BY <4>1, PathFacts, TreeFacts DEF Visible, IsFunction, IsVariable
    <3>3. Len(ScopeOf(e)) \in Nat /\ Len(ScopeOf(d)) \in Nat
      BY <2>7, <2>9, <3>2, ScopeIs
    <3>4. ~(Len(ScopeOf(e)) > Len(ScopeOf(d))) \/ ~(Len(ScopeOf(d)) > Len(ScopeOf(e)))
      BY <3>3
    <3>5. ScopeOf(d) = ScopeOf(e) => ~(Len(ScopeOf(e)) > Len(ScopeOf(d))) /\ ~(Len(ScopeOf(d)) > Len(ScopeOf(e)))
      BY <3>3
    <3>6. ~(Before(e, d) /\ Before(d, e))
      BY <3>2, PastFacts
    <3> QED
      BY <3>1, <3>4, <3>5, <3>6
  <2>10. Resolve(n, x) = CHOOSE e \in found : \A f \in found : closer(e, f)
    BY <2>7 DEF Resolve
  <2> HIDE DEF found, closer
  <2>11. d = CHOOSE e \in found : \A f \in found : closer(e, f)
    <3>1. PICK e \in found : /\ e = CHOOSE g \in found : \A f \in found : closer(g, f)
                             /\ \A f \in found : closer(e, f)
      BY <2>7, <2>8
    <3> QED
      BY <2>9, <3>1
  <2> QED
    BY <2>6, <2>10, <2>11
<1> QED
  BY <1>8, <1>9

-----------------------------------------------------------------------------
(* The walk from one place to the next.                                    *)

LEMMA SameTree ==
  ASSUME tree' = tree, NEW CONSTANT p
  PROVE  /\ Paths' = Paths /\ Kind(p)' = Kind(p) /\ Name(p)' = Name(p)
         /\ ScopeOf(p)' = ScopeOf(p) /\ Scopes(p)' = Scopes(p) /\ Vis(p)' = Vis(p)
         /\ \A n : Resolve(n, p)' = Resolve(n, p)
         /\ NameRules(p)' = NameRules(p)
         /\ \A x : Seen(p, x)' = Seen(p, x)
<1>1. Paths' = Paths
  BY DEF Paths
<1>2. ScopeOf(p)' = ScopeOf(p) /\ Scopes(p)' = Scopes(p)
  BY Zenon DEF ScopeOf, Kind, Scopes, Around
<1>3. Vis(p)' = Vis(p)
  BY Zenon DEF ScopeOf, Kind, Vis, Visible, IsFunction, IsVariable, Paths
<1>4. \A n : Resolve(n, p)' = Resolve(n, p)
  BY SMT DEF ScopeOf, Kind, Resolve, Visible, IsFunction, IsVariable, Paths, Name
<1>5. \A q : Signature(q)' = Signature(q)
  BY DEF Signature, Params, Kids, Kind, Child
<1>6. \A q : /\ Kind(q)' = Kind(q) /\ Name(q)' = Name(q)
             /\ IsFunction(q)' = IsFunction(q) /\ IsVariable(q)' = IsVariable(q)
  BY DEF Kind, Name, IsFunction, IsVariable
<1>7. NameRules(p)' = NameRules(p)
  BY <1>4, <1>5, <1>6 DEF NameRules, Child, Kind, Kids, Name, IsFunction, IsVariable
<1>8. \A x : Seen(p, x)' = Seen(p, x)
  BY Zenon DEF Seen, IsFunction, Kind
<1> QED
  BY <1>1, <1>2, <1>3, <1>4, <1>6, <1>7, <1>8

LEMMA EnterPlace ==
  ASSUME IInv, Running, Top.pt < Kids(At), NEW bb, Enter(Top.pt + 1, bb)
  PROVE  /\ Append(At, Top.pt + 1) \in Paths /\ Append(At, Top.pt + 1) # Root
         /\ Len(visits') = Len(visits) + 1
         /\ \A i \in 1..Len(visits) : visits'[i].at = visits[i].at /\ visits'[i].pt = visits[i].pt
         /\ visits'[Len(visits) + 1].at = Append(At, Top.pt + 1)
         /\ visits'[Len(visits) + 1].pt = 0
         /\ Top'.at = Append(At, Top.pt + 1) /\ Top'.pt = 0
<1>0. PICK n \in Nat \ {0} : n = Len(visits) /\ n \in 1..n /\ Top = visits[n]
  BY TopVisit
<1>1. PICK v, w, c : v = [Top EXCEPT !.bb = bb] /\ c = Append(At, Top.pt + 1) /\ w = Visit(c)
  OBVIOUS
<1>2. v.at = At /\ v.pt = Top.pt /\ w.at = c /\ w.pt = 0
  BY <1>1, TopVisit DEF Visit, At
<1>3. PICK old : old = [visits EXCEPT ![n] = v]
  OBVIOUS
<1>4. visits' = Append(old, w)
  BY <1>0, <1>1, <1>3 DEF Enter, Child
<1>5. /\ IsSeq(old) /\ Len(old) = n
      /\ \A k \in 1..n : old[k] = IF k = n THEN v ELSE visits[k]
  BY <1>0, <1>3, TopVisit, Changed
<1>6. /\ IsSeq(visits') /\ visits' # <<>> /\ Len(visits') = n + 1
      /\ \A k \in 1..n : visits'[k] = old[k]
      /\ visits'[n + 1] = w /\ Last(visits') = w
  BY <1>4, <1>5, Appended
<1>7. c \in Paths /\ c # Root
  <2>1. Top.pt + 1 \in 1..Kids(At)
    BY TopVisit
  <2> QED
    BY <1>1, <2>1, TopVisit, TreeFacts DEF IInv, Child
<1>8. \A i \in 1..n : visits'[i].at = visits[i].at /\ visits'[i].pt = visits[i].pt
  BY <1>0, <1>2, <1>5, <1>6 DEF At
<1> QED
  BY <1>0, <1>1, <1>2, <1>6, <1>7, <1>8 DEF Top

LEMMA ReturnPlace ==
  ASSUME IInv, Running, ChainInv, Len(visits) > 1, Return
  PROVE  \E q \in Paths, k \in Nat, n \in Nat :
           /\ At = Append(q, k) /\ q \in Seq(Nat) /\ k >= 1 /\ Len(visits) = n + 1 /\ n >= 1
           /\ Len(visits') = n
           /\ \A i \in 1..n : visits'[i].at = visits[i].at
           /\ \A i \in 1..(n - 1) : visits'[i].pt = visits[i].pt
           /\ Top'.at = q /\ Top'.pt = k
<1>0. PICK n \in Nat : n + 1 = Len(visits) /\ n >= 1
  <2>1. Len(visits) - 1 \in Nat /\ (Len(visits) - 1) + 1 = Len(visits) /\ Len(visits) - 1 >= 1
    BY TopVisit
  <2> QED
    BY <2>1
<1>1. PICK f, v : f = Front(visits) /\ v = [visits[n] EXCEPT !.pt = @ + 1]
  OBVIOUS
<1>2. Len(visits) - 1 = n /\ n \in 1..n /\ n \in 1..Len(visits) /\ n \in 1..(Len(visits) - 1)
  BY <1>0
<1>3. IsSeq(f) /\ Len(f) = n /\ \A k \in 1..n : f[k] = visits[k]
  <2>1. IsSeq(visits) /\ visits # <<>>
    BY DEF IInv, VisitsInv
  <2>2. /\ IsSeq(Front(visits)) /\ Len(Front(visits)) = Len(visits) - 1
        /\ \A k \in 1..(Len(visits) - 1) : Front(visits)[k] = visits[k]
    BY <2>1, Shortened
  <2> QED
    BY <1>1, <1>2, <2>2
<1>4. VisitOK(n)
  BY <1>2 DEF IInv, VisitsInv
<1>5. v.at = visits[n].at /\ v.pt = visits[n].pt + 1 /\ visits[n].pt \in Nat
  BY <1>1, <1>4 DEF VisitOK
<1>6. visits' = [f EXCEPT ![n] = v]
  <2>1. visits' = [f EXCEPT ![n].pt = @ + 1]
    BY <1>1, <1>2 DEF Return
  <2> QED
    BY <1>1, <1>2, <1>3, <2>1
<1>7. IsSeq([f EXCEPT ![n] = v]) /\ Len([f EXCEPT ![n] = v]) = n
  BY <1>2, <1>3, Changed
<1>8. \A k \in 1..n : [f EXCEPT ![n] = v][k] = IF k = n THEN v ELSE f[k]
  BY <1>3, SeqFacts
<1>9. /\ Len(visits') = n /\ Last(visits') = v
      /\ \A k \in 1..n : visits'[k] = IF k = n THEN v ELSE visits[k]
  BY <1>2, <1>3, <1>6, <1>7, <1>8 DEF Last
<1>10. PICK q, k : q = visits[n].at /\ k = visits[n].pt + 1
  OBVIOUS
<1>11. q \in Paths /\ q \in Seq(Nat) /\ k \in Nat /\ k >= 1 /\ Top'.at = q /\ Top'.pt = k
  BY <1>4, <1>5, <1>9, <1>10, TreeFacts DEF VisitOK, Top, IInv
<1>12. At = Append(q, k)
  <2>1. visits[n + 1].at = Append(visits[n].at, visits[n].pt + 1)
    BY <1>2 DEF ChainInv
  <2> QED
    BY <1>0, <1>10, <2>1, TopVisit DEF At
<1>13. \A i \in 1..n : visits'[i].at = visits[i].at
  BY <1>5, <1>9
<1>14. \A i \in 1..(n - 1) : visits'[i].pt = visits[i].pt
  <2>1. \A i \in 1..(n - 1) : i \in 1..n /\ i # n
    OBVIOUS
  <2> QED
    BY <1>9, <2>1
<1> QED
  BY <1>0, <1>9, <1>11, <1>12, <1>13, <1>14

(* The parts of the invariant that are about a place, at the new one.      *)
LEMMA NewPlace ==
  ASSUME tree' = tree, NEW CONSTANT x, Pos' = x
  PROVE  /\ TableAt(scopes', Scopes(x), Vis(x)) => TableInv'
         /\ (\A d \in Paths : Seen(d, x) => NameRules(d)) => RulesInv'
<1>1. Paths' = Paths
  BY DEF Paths
<1>2. \A p : ScopeOf(p)' = ScopeOf(p)
  BY Zenon DEF ScopeOf, Kind
<1>3. \A p : Name(p)' = Name(p) /\ IsFunction(p)' = IsFunction(p)
  BY DEF Name, IsFunction, Kind
<1>4. Scopes(Pos)' = Scopes(x)
  BY Zenon DEF Scopes, Around, Kind
<1>5. Vis(Pos)' = Vis(x)
  BY Zenon DEF ScopeOf, Kind, Vis, Visible, IsFunction, IsVariable, Paths
<1>6. \A d : Seen(d, Pos)' = Seen(d, x)
  BY Zenon DEF Seen, IsFunction, Kind
<1>7. \A d : NameRules(d)' = NameRules(d)
  BY SameTree
<1>8. ASSUME TableAt(scopes', Scopes(x), Vis(x)) PROVE TableInv'
  <2>1. PICK sp : TableOK(scopes', sp, Scopes(x), Vis(x))
    BY <1>8 DEF TableAt
  <2>2. TableOK(scopes, sp, Scopes(Pos), Vis(Pos))'
    BY <1>1, <1>2, <1>3, <1>4, <1>5, <2>1 DEF TableOK, First
  <2> QED
    BY <2>2 DEF TableInv, TableAt
<1>9. ASSUME \A d \in Paths : Seen(d, x) => NameRules(d) PROVE RulesInv'
  BY <1>1, <1>6, <1>7, <1>9 DEF RulesInv
<1> QED
  BY <1>8, <1>9

LEMMA Here ==
  ASSUME IInv, Running
  PROVE  /\ tree \in Programs /\ At \in Paths /\ At \in Seq(Nat) /\ Pos \in Seq(Nat)
         /\ Top.pt \in Nat /\ Kids(At) \in Nat /\ Top.pt <= Kids(At)
         /\ Pos = IF Top.pt = 0 /\ At # Root THEN At ELSE Append(At, Top.pt + 1)
<1>1. tree \in Programs /\ At \in Paths /\ At \in Seq(Nat)
  BY TopVisit, PathFacts DEF IInv
<1>2. Top.pt \in Nat /\ Kids(At) \in Nat /\ Top.pt <= Kids(At)
  BY TopVisit
<1>3. Append(At, Top.pt + 1) \in Seq(Nat)
  BY <1>1, <1>2, AppendProperties
<1> QED
  BY <1>1, <1>2, <1>3 DEF Pos

(* The table in front of a node, and for statements without a scope also   *)
(* once their kids are through.                                            *)
LEMMA TableHere ==
  ASSUME IInv, Running, TableInv, At # Root,
         Top.pt = 0 \/ (Kind(At) \notin Scoped /\ Kind(At) \in Walked)
  PROVE  TableAt(scopes, Scopes(At), Vis(At)) /\ \A n : find(n) = Resolve(n, At)
<1>1. TableAt(scopes, Scopes(At), Vis(At))
  <2>1. CASE Top.pt = 0
    BY <2>1, Here DEF TableInv
  <2>2. CASE Top.pt # 0 /\ Kind(At) \notin Scoped /\ Kind(At) \in Walked
    <3>1. PICK x \in Nat : x = Top.pt + 1 /\ x >= 1 /\ Pos = Append(At, x)
      BY <2>2, Here
    <3>2. Vis(Append(At, x)) = Vis(At)
      BY <2>2, <3>1, Here, VisWithin
    <3>3. Scopes(Append(At, x)) = Scopes(At)
      BY <2>2, <3>1, Here, ScopesAppend
    <3> QED
      BY <3>1, <3>2, <3>3 DEF TableInv
  <2> QED
    BY <2>1, <2>2
<1> QED
  BY <1>1, Here, FindIs

LEMMA InsertHere ==
  ASSUME tree \in Programs, NEW p \in Paths, p # Root, NEW ss,
         TableAt(ss, Scopes(p), Vis(p))
  PROVE  TableAt(Insert(ss, Name(p), p), Scopes(p), Vis(p) \cup {p})
<1>1. p \in Seq(Nat)
  BY PathFacts
<1>2. ScopeOf(p) \in Scopes(p) /\ \A s \in Scopes(p) : Len(s) \in Nat /\ Len(s) <= Len(ScopeOf(p))
  BY <1>1, ScopeIs, ScopesAppend
<1>3. \A e \in Vis(p) : Before(e, p)
  BY DEF Vis, Visible
<1> QED
  BY <1>2, <1>3, TableInsert

(* What a step that begins a kid does to the table, and one that returns.  *)
Opening ==
  scopes' = IF At = Root \/ Top.pt > 0 \/ Kind(At) \notin Scoped THEN scopes
            ELSE Append(IF IsFunction(At) THEN Insert(scopes, Name(At), At) ELSE scopes,
                        NoSymbols)
Closing ==
  scopes' = IF Kind(At) \in Scoped /\ Top.pt > 0 THEN Front(scopes)
            ELSE IF Declares(At) THEN Insert(scopes, Name(At), At) ELSE scopes

LEMMA WalkEnters ==
  ASSUME IInv, Running, WalkInv, Walking, Top.pt < Kids(At),
         NEW bb, Enter(Top.pt + 1, bb), Opening,
         Top.pt = 0 /\ IsFunction(At) => NameRules(At)
  PROVE  WalkInv'
<1>0. PICK n \in Nat : n = Len(visits)
  BY TopVisit
<1>1. PICK p, x : p \in Paths /\ p = At /\ x = Append(At, Top.pt + 1) /\ n = Len(visits)
  BY <1>0, Here
<1>2. /\ p \in Paths /\ p \in Seq(Nat) /\ tree \in Programs /\ tree' = tree
      /\ Top.pt \in Nat
  BY <1>1, Here DEF Walking
<1>3. /\ Len(visits') = n + 1
      /\ \A i \in 1..n : visits'[i].at = visits[i].at /\ visits'[i].pt = visits[i].pt
      /\ visits'[n + 1].at = x /\ visits'[n + 1].pt = 0 /\ visits[n].at = p
      /\ visits[n].pt = Top.pt /\ x # Root /\ Top'.at = x /\ Top'.pt = 0
  BY <1>1, EnterPlace, TopVisit DEF At
<1>4. Pos' = x
  BY <1>3 DEF Pos, At
<1>5. ChainInv'
  <2>1. \A i \in 1..n : (i \in 1..(n - 1) /\ i + 1 \in 1..n) \/ i = n
    OBVIOUS
  <2>2. ASSUME NEW i \in 1..(n - 1), i + 1 \in 1..n
        PROVE  visits'[i + 1].at = Append(visits'[i].at, visits'[i].pt + 1)
    <3>1. visits[i + 1].at = Append(visits[i].at, visits[i].pt + 1) /\ i \in 1..n
      BY <1>1 DEF WalkInv, ChainInv
    <3> QED
      BY <1>3, <2>2, <3>1
  <2>3. n \in 1..n
    BY <1>1, TopVisit
  <2>4. visits'[n + 1].at = Append(visits'[n].at, visits'[n].pt + 1)
    BY <1>1, <1>3, <2>3
  <2>5. Len(visits') - 1 = n
    BY <1>3
  <2>6. \A i \in 1..n : visits'[i + 1].at = Append(visits'[i].at, visits'[i].pt + 1)
    BY <2>1, <2>2, <2>4
  <2> QED
    BY <2>5, <2>6 DEF ChainInv
<1>6. CASE p = Root \/ Top.pt > 0
  <2>1. Pos = x /\ scopes' = scopes
    BY <1>1, <1>2, <1>6, Here DEF Opening
  <2>2. TableAt(scopes', Scopes(x), Vis(x)) /\ \A d \in Paths : Seen(d, x) => NameRules(d)
    BY <2>1 DEF WalkInv, TableInv, RulesInv
  <2> QED
    BY <1>2, <1>4, <1>5, <2>2, NewPlace DEF WalkInv
<1>7. CASE p # Root /\ Top.pt = 0
  <2>1. Pos = p /\ x = Append(p, 1)
    BY <1>1, <1>7, Here
  <2>2. /\ Vis(x) = Within(p)
        /\ Scopes(x) = Scopes(p) \cup (IF Kind(p) \in Scoped THEN {p} ELSE {})
        /\ p \notin Scopes(p) /\ \A s \in Scopes(p) : Len(s) < Len(p)
    BY <1>2, <2>1, VisWithin, ScopesAppend
  <2>3. TableAt(scopes, Scopes(p), Vis(p))
    BY <2>1 DEF WalkInv, TableInv
  <2>4. TableAt(scopes', Scopes(x), Vis(x))
    <3>1. CASE Kind(p) \notin Scoped
      <4>1. scopes' = scopes /\ ~IsFunction(p)
        BY <1>1, <3>1 DEF Opening, IsFunction, Scoped
      <4> QED
        BY <2>2, <2>3, <3>1, <4>1 DEF Within
    <3>2. CASE Kind(p) \in Scoped
      <4>1. PICK ss : ss = IF IsFunction(p) THEN Insert(scopes, Name(p), p) ELSE scopes
        OBVIOUS
      <4>2. scopes' = Append(ss, NoSymbols)
        BY <1>1, <1>7, <3>2, <4>1 DEF Opening
      <4>3. TableAt(ss, Scopes(p), Within(p))
        BY <1>2, <1>7, <2>3, <4>1, InsertHere DEF Within
      <4> QED
        BY <2>2, <3>2, <4>2, <4>3, TablePush
    <3> QED
      BY <3>1, <3>2
  <2>5. ASSUME NEW d \in Paths, Seen(d, x) PROVE NameRules(d)
    <3>1. ~(Below(d, p) /\ d[Len(p) + 1] < 1)
      <4> SUFFICES ASSUME Below(d, p) PROVE ~(d[Len(p) + 1] < 1)
        OBVIOUS
      <4>1. d[Len(p) + 1] \in 1..Kids(p) /\ Kids(p) \in Nat
        BY <1>2, KidAbove, PathFacts
      <4> QED
        BY <4>1
    <3>2. Seen(d, p) \/ (d = p /\ IsFunction(p))
      BY <1>2, <2>1, <2>5, <3>1, SeenWithin
    <3> QED
      BY <1>1, <1>7, <2>1, <3>2 DEF WalkInv, RulesInv
  <2> QED
    BY <1>2, <1>4, <1>5, <2>4, <2>5, NewPlace DEF WalkInv
<1> QED
  BY <1>2, <1>6, <1>7

LEMMA WalkLeaves ==
  ASSUME IInv, Running, WalkInv, Walking, Len(visits) > 1, Return, Closing,
         Kind(At) \in Walked, NameRules(At),
         \A d \in Paths : Below(d, At) /\ d[Len(At) + 1] > Top.pt => NameRules(d)
  PROVE  WalkInv'
<1>1. ChainInv /\ TableInv /\ RulesInv
  BY DEF WalkInv
<1>2. PICK q \in Paths, k \in Nat, n \in Nat :
        /\ At = Append(q, k) /\ q \in Seq(Nat) /\ k >= 1 /\ Len(visits) = n + 1 /\ n >= 1
        /\ Len(visits') = n
        /\ \A i \in 1..n : visits'[i].at = visits[i].at
        /\ \A i \in 1..(n - 1) : visits'[i].pt = visits[i].pt
        /\ Top'.at = q /\ Top'.pt = k
  BY <1>1, ReturnPlace
<1>3. PICK p, x : p \in Paths /\ p = At /\ x = Append(q, k + 1)
  BY Here
<1>4. /\ p \in Paths /\ p \in Seq(Nat) /\ tree \in Programs /\ tree' = tree /\ p # Root
      /\ Top.pt \in Nat
  BY <1>3, Here, TopVisit DEF Walking
<1>5. Pos' = x
  BY <1>2, <1>3 DEF Pos, At
<1>6. ChainInv'
  <2>1. \A i \in 1..(n - 1) : /\ i \in 1..n /\ i + 1 \in 1..n /\ i \in 1..(Len(visits) - 1)
    BY <1>2
  <2>2. ASSUME NEW i \in 1..(n - 1)
        PROVE  visits'[i + 1].at = Append(visits'[i].at, visits'[i].pt + 1)
    <3>1. visits[i + 1].at = Append(visits[i].at, visits[i].pt + 1)
      BY <1>1, <2>1 DEF ChainInv
    <3> QED
      BY <1>2, <2>1, <3>1
  <2> QED
    BY <1>2, <2>2 DEF ChainInv
<1>7. Vis(x) = Behind(p) /\ Scopes(x) = Scopes(p)
  BY <1>2, <1>3, <1>4, VisBehind
<1>8. TableAt(scopes', Scopes(x), Vis(x))
  <2>1. CASE Kind(p) \in Scoped /\ Top.pt > 0
    <3>1. PICK y \in Nat : y = Top.pt + 1 /\ y >= 1 /\ Pos = Append(p, y)
      BY <1>3, <1>4, <2>1, Here
    <3>2. /\ Scopes(Append(p, y)) = Scopes(p) \cup {p}
          /\ p \notin Scopes(p) /\ \A s \in Scopes(p) : Len(s) \in Nat /\ Len(s) < Len(p)
      BY <1>4, <2>1, ScopesAppend
    <3>3. {d \in Vis(Append(p, y)) : ScopeOf(d) # p} = Within(p)
      BY <1>3, <1>4, <3>1, VisWithin
    <3>4. Within(p) = Behind(p)
      BY <2>1 DEF Within, Behind, Declares, IsFunction, IsVariable, Scoped
    <3>5. (Scopes(p) \cup {p}) \ {p} = Scopes(p)
      BY <3>2
    <3>6. TableAt(scopes, Scopes(p) \cup {p}, Vis(Append(p, y)))
      BY <1>1, <3>1, <3>2 DEF TableInv
    <3>7. \A s \in Scopes(p) \cup {p} : Len(s) \in Nat /\ (s = p \/ Len(s) < Len(p))
      BY <1>4, <3>2, LenProperties
    <3>8. TableAt(Front(scopes), Scopes(p), Within(p))
      BY <3>3, <3>5, <3>6, <3>7, TablePop
    <3> QED
      BY <1>3, <1>7, <2>1, <3>4, <3>8 DEF Closing
  <2>2. CASE ~(Kind(p) \in Scoped /\ Top.pt > 0)
    <3>1. Top.pt = 0 \/ Kind(p) \notin Scoped
      BY <1>4, <2>2
    <3>2. TableAt(scopes, Scopes(p), Vis(p))
      BY <1>1, <1>3, <1>4, <3>1, TableHere
    <3>3. scopes' = IF Declares(p) THEN Insert(scopes, Name(p), p) ELSE scopes
      BY <1>3, <2>2 DEF Closing
    <3> QED
      BY <1>4, <1>7, <3>2, <3>3, InsertHere DEF Behind
  <2> QED
    BY <2>1, <2>2
<1>9. ASSUME NEW d \in Paths, Seen(d, x) PROVE NameRules(d)
  <2>1. Seen(d, p) \/ d = p \/ Below(d, p)
    BY <1>2, <1>3, <1>4, <1>9, SeenBehind
  <2>2. CASE d = p
    BY <1>3, <2>2
  <2>3. PICK y \in Nat : y = Top.pt + 1
    BY <1>4
  <2>4. Pos = p \/ Pos = Append(p, y)
    BY <1>3, <2>3, Here
  <2>5. CASE Seen(d, p)
    <3>1. Seen(d, Append(p, y))
      BY <1>4, <2>5, SeenWithin
    <3> QED
      BY <1>1, <2>4, <2>5, <3>1 DEF RulesInv
  <2>6. CASE Below(d, p)
    <3>1. d[Len(p) + 1] \in 1..Kids(p) /\ Kids(p) \in Nat
      BY <1>4, <2>6, KidAbove, PathFacts
    <3>2. CASE d[Len(p) + 1] > Top.pt
      BY <1>3, <2>6, <3>2
    <3>3. CASE ~(d[Len(p) + 1] > Top.pt)
      <4>1. Top.pt # 0 /\ d[Len(p) + 1] < y
        BY <1>4, <2>3, <3>1, <3>3
      <4>2. Pos = Append(p, y) /\ Seen(d, Append(p, y))
        BY <1>3, <1>4, <2>3, <2>6, <4>1, Here, SeenWithin
      <4> QED
        BY <1>1, <4>2 DEF RulesInv
    <3> QED
      BY <3>2, <3>3
  <2> QED
    BY <2>1, <2>2, <2>5, <2>6
<1> QED
  BY <1>4, <1>5, <1>6, <1>8, <1>9, NewPlace DEF WalkInv

-----------------------------------------------------------------------------
(* The rules at the node of a visit.                                       *)

LEMMA NoRules ==
  ASSUME NEW p, Kind(p) \notin {"expr", "call", "let", "global", "def", "decl"}
  PROVE  NameRules(p)
BY DEF NameRules, IsFunction

LEMMA OneScope ==
  ASSUME IsSeq(scopes), Len(scopes) = 1, NEW n, NEW wanted
  PROVE  FindIn(n, wanted) = IF n \in DOMAIN scopes[1] /\ scopes[1][n] \in wanted
                             THEN scopes[1][n] ELSE NoSite
<1> DEFINE having == {i \in DOMAIN scopes : n \in DOMAIN scopes[i] /\ scopes[i][n] \in wanted}
<1>1. DOMAIN scopes = {1}
  <2>1. DOMAIN scopes = 1..1
    BY SeqFacts
  <2> QED
    BY <2>1
<1>2. CASE n \in DOMAIN scopes[1] /\ scopes[1][n] \in wanted
  <2>1. having = {1}
    BY <1>1, <1>2
  <2>2. PICK i : i = CHOOSE k \in having : \A j \in having : j <= k
    OBVIOUS
  <2>3. i = 1
    BY <2>1, <2>2
  <2>4. FindIn(n, wanted) = scopes[i][n]
    BY <2>1, <2>2 DEF FindIn
  <2> QED
    BY <1>2, <2>3, <2>4
<1>3. CASE ~(n \in DOMAIN scopes[1] /\ scopes[1][n] \in wanted)
  <2>1. having = {}
    BY <1>1, <1>3
  <2> QED
    BY <1>3, <2>1 DEF FindIn
<1> QED
  BY <1>2, <1>3

(* At the top level: what declareFunction finds, and what that means.      *)
LEMMA FunctionRule ==
  ASSUME IInv, Running, TableInv, IsFunction(At), Top.pt = 0
  PROVE  /\ NameRules(At) <=> Declarable
         /\ findFunction(Name(At)) # NoSite /\ NameRules(At) =>
              Signature(findFunction(Name(At))) = Signature(At)
         /\ findFunction(Name(At)) = NoSite /\ NameRules(At) => find(Name(At)) = NoSite
<1>1. PICK p, n : p = At /\ n = Name(At)
  OBVIOUS
<1>2. p \in Paths /\ p # Root /\ Kind(p) \in {"def", "decl"} /\ tree \in Programs
  BY <1>1, Here, TreeFacts DEF IsFunction
<1>3. find(n) = Resolve(n, p)
  BY <1>1, <1>2, TableHere
<1>4. Len(visits) = 2
  BY <1>1, <1>2, TopVisit DEF AtTop
<1>5. Opened = {}
  <2>1. \A i \in 2..2 : i = 2 /\ ~(i < 2)
    OBVIOUS
  <2>2. visits[2].pt = 0 /\ ~(0 > 0)
    BY <1>4, TopVisit
  <2> QED
    BY <1>4, <2>1, <2>2 DEF Opened
<1>6. IsSeq(scopes) /\ Len(scopes) = 1
  BY <1>5, FS_EmptySet DEF IInv, ScopesInv, SymbolsOK
<1>7. /\ find(n) = IF n \in DOMAIN scopes[1] /\ scopes[1][n] \in Paths
                   THEN scopes[1][n] ELSE NoSite
      /\ findFunction(n) = IF n \in DOMAIN scopes[1] /\ scopes[1][n] \in {q \in Paths : IsFunction(q)}
                           THEN scopes[1][n] ELSE NoSite
  BY <1>6, OneScope DEF find, findFunction
<1>8. NoSite \notin Paths
  BY <1>2, PathFacts
<1>9. findFunction(n) = IF find(n) # NoSite /\ IsFunction(find(n)) THEN find(n) ELSE NoSite
  BY <1>7, <1>8
<1>10. NameRules(p) <=> (find(n) # NoSite =>
                           IsFunction(find(n)) /\ Signature(find(n)) = Signature(p))
  BY <1>1, <1>2, <1>3 DEF NameRules, IsFunction
<1>11. Declarable <=> IF findFunction(n) = NoSite THEN find(n) = NoSite
                      ELSE Signature(findFunction(n)) = Signature(p)
  BY <1>1 DEF Declarable
<1> QED
  BY <1>1, <1>9, <1>10, <1>11

-----------------------------------------------------------------------------
(* The actions, and the place of the walk.                                 *)

LEMMA EnterStays ==
  ASSUME IInv, Running, WalkInv, Walking, Top.pt < Kids(At),
         NEW bb, Enter(Top.pt + 1, bb), scopes' = scopes,
         At = Root \/ Top.pt > 0 \/ Kind(At) \notin Scoped
  PROVE  WalkInv'
<1>1. Opening
  BY DEF Opening
<1>2. Top.pt = 0 /\ IsFunction(At) => NameRules(At)
  <2>1. At = Root \/ Kind(At) \notin Scoped => ~IsFunction(At)
    BY Here, TreeFacts DEF IsFunction, Scoped
  <2>2. ~(Top.pt = 0 /\ Top.pt > 0)
    BY Here
  <2> QED
    BY <2>1, <2>2
<1> QED
  BY <1>1, <1>2, WalkEnters

LEMMA EnterPushes ==
  ASSUME IInv, Running, WalkInv, Walking, Top.pt < Kids(At),
         NEW bb, Enter(Top.pt + 1, bb), Push, Top.pt = 0,
         Kind(At) \in {"block", "if", "while", "for"}
  PROVE  WalkInv'
<1>1. At # Root /\ Kind(At) \in Scoped /\ ~IsFunction(At) /\ ~(Top.pt > 0)
  BY Here, TreeFacts DEF IsFunction, Scoped
<1>2. Opening
  BY <1>1 DEF Opening, Push
<1> QED
  BY <1>1, <1>2, WalkEnters

LEMMA WalkBegins ==
  ASSUME IInv, WalkInv,
         \/ TopLevel \/ BeginFunction \/ NextOfFunction \/ Operand \/ NextOfBlock
  PROVE  WalkInv'
<1>1. CASE TopLevel
  <2>1. /\ Running /\ Walking /\ Top.pt < Kids(At) /\ Enter(Top.pt + 1, <<>>)
        /\ scopes' = scopes /\ At = Root
    BY <1>1 DEF TopLevel, Running
  <2> QED
    BY <2>1, EnterStays
<1>2. CASE BeginFunction
  <2>1. /\ Running /\ Walking /\ Kind(At) = "def" /\ Top.pt = 0 /\ Declarable
        /\ Enter(1, <<>>)
        /\ scopes' = Append(Insert(scopes, Name(At), At), NoSymbols)
    BY <1>2 DEF BeginFunction, Visiting, Running
  <2>2. /\ At # Root /\ Kind(At) \in Scoped /\ IsFunction(At) /\ ~(Top.pt > 0)
        /\ Top.pt < Kids(At) /\ Top.pt + 1 = 1
    BY <2>1, Here, TreeFacts DEF IsFunction, Scoped
  <2>3. Opening
    BY <2>1, <2>2 DEF Opening
  <2>4. NameRules(At)
    BY <2>1, <2>2, FunctionRule DEF WalkInv
  <2> QED
    BY <2>1, <2>2, <2>3, <2>4, WalkEnters
<1>3. CASE NextOfFunction
  <2>1. /\ Running /\ Walking /\ Top.pt \in 1..(Kids(At) - 1) /\ Enter(Top.pt + 1, <<>>)
        /\ scopes' = scopes
    BY <1>3 DEF NextOfFunction, Running
  <2>2. Top.pt > 0 /\ Top.pt < Kids(At)
    BY <2>1, Here
  <2> QED
    BY <2>1, <2>2, EnterStays
<1>4. CASE Operand
  <2>1. /\ Running /\ Walking /\ Top.pt < Kids(At) /\ Enter(1, <<>>)
        /\ scopes' = scopes /\ Kind(At) \in {"let", "return"}
    BY <1>4 DEF Operand, Running
  <2>2. Kind(At) \notin Scoped /\ Top.pt + 1 = 1
    BY <2>1, Here, TreeFacts DEF Scoped
  <2> QED
    BY <2>1, <2>2, EnterStays
<1>5. CASE NextOfBlock
  <2>1. /\ Running /\ Walking /\ Top.pt < Kids(At) /\ Enter(Top.pt + 1, <<>>)
        /\ Kind(At) = "block" /\ IF Top.pt = 0 THEN Push ELSE scopes' = scopes
    BY <1>5 DEF NextOfBlock, Running
  <2>2. Top.pt = 0 \/ Top.pt > 0
    BY <2>1, Here
  <2>3. Top.pt > 0 => Top.pt # 0
    BY <2>1, Here
  <2> QED
    BY <2>1, <2>2, <2>3, EnterStays, EnterPushes
<1> QED
  BY <1>1, <1>2, <1>3, <1>4, <1>5

LEMMA WalkControls ==
  ASSUME IInv, WalkInv,
         \/ BeginIf \/ AfterCondition \/ (AfterThen /\ HasElse(At))
         \/ BeginWhile \/ WhileBody \/ BeginFor \/ NextOfFor \/ ForStep
  PROVE  WalkInv'
<1>1. CASE BeginIf \/ BeginWhile \/ BeginFor
  <2>1. /\ Running /\ Walking /\ Top.pt = 0 /\ Push /\ \E bb : Enter(1, bb)
        /\ Kind(At) \in {"if", "while", "for"}
    BY <1>1 DEF BeginIf, BeginWhile, BeginFor, Visiting, Running
  <2>2. Top.pt < Kids(At) /\ Top.pt + 1 = 1
    BY <2>1, Here, TreeFacts
  <2> QED
    BY <2>1, <2>2, EnterPushes
<1>2. CASE AfterCondition
  <2>1. /\ Running /\ Walking /\ Top.pt = 1 /\ Kind(At) = "if" /\ scopes' = scopes
        /\ \E bb : Enter(2, bb)
    BY <1>2 DEF AfterCondition, Visiting, Running
  <2>2. Top.pt < Kids(At) /\ Top.pt + 1 = 2 /\ Top.pt > 0
    BY <2>1, Here, TreeFacts
  <2> QED
    BY <2>1, <2>2, EnterStays
<1>3. CASE AfterThen /\ HasElse(At)
  <2>1. /\ Running /\ Walking /\ Top.pt = 2 /\ Kind(At) = "if" /\ scopes' = scopes
        /\ \E bb : Enter(3, bb)
    BY <1>3 DEF AfterThen, Visiting, Running
  <2>2. Top.pt < Kids(At) /\ Top.pt + 1 = 3 /\ Top.pt > 0
    BY <2>1, Here, TreeFacts
  <2> QED
    BY <2>1, <2>2, EnterStays
<1>4. CASE WhileBody
  <2>1. /\ Running /\ Walking /\ Top.pt = 1 /\ Kind(At) = "while" /\ scopes' = scopes
        /\ \E bb : Enter(2, bb)
    BY <1>4 DEF WhileBody, Visiting, Running
  <2>2. Top.pt < Kids(At) /\ Top.pt + 1 = 2 /\ Top.pt > 0
    BY <2>1, Here, TreeFacts
  <2> QED
    BY <2>1, <2>2, EnterStays
<1>5. CASE NextOfFor
  <2>1. PICK i \in {1, 2} : /\ Running /\ Walking /\ Top.pt = i /\ Kind(At) = "for"
                            /\ scopes' = scopes /\ \E bb : Enter(i + 1, bb)
    BY <1>5 DEF NextOfFor, Visiting, Running
  <2>2. Top.pt < Kids(At) /\ Top.pt > 0
    BY <2>1, Here, TreeFacts
  <2> QED
    BY <2>1, <2>2, EnterStays
<1>6. CASE ForStep
  <2>1. /\ Running /\ Walking /\ Top.pt = 3 /\ Kind(At) = "for" /\ scopes' = scopes
        /\ \E bb : Enter(4, bb)
    BY <1>6 DEF ForStep, Visiting, Running
  <2>2. Top.pt < Kids(At) /\ Top.pt + 1 = 4 /\ Top.pt > 0
    BY <2>1, Here, TreeFacts
  <2> QED
    BY <2>1, <2>2, EnterStays
<1> QED
  BY <1>1, <1>2, <1>3, <1>4, <1>5, <1>6

(* What a visit leaves out is a leaf that no rule is about.                *)
LEMMA LeaveSkipping ==
  ASSUME IInv, Running, WalkInv, Walking, At # Root, Return, Closing,
         Kind(At) \in Walked, NameRules(At),
         \A i \in 1..Kids(At) : i > Top.pt =>
           Kind(Child(At, i)) \in Leaves /\ NameRules(Child(At, i))
  PROVE  WalkInv'
<1>1. ASSUME NEW d \in Paths, Below(d, At), d[Len(At) + 1] > Top.pt PROVE NameRules(d)
  <2>1. PICK i \in 1..Kids(At) : /\ i = d[Len(At) + 1] /\ Child(At, i) \in Paths
                                 /\ d = Child(At, i) \/ Below(d, Child(At, i))
    BY <1>1, Here, KidAbove
  <2>2. Kind(Child(At, i)) \in Leaves /\ NameRules(Child(At, i))
    BY <1>1, <2>1
  <2>3. ~Below(d, Child(At, i))
    BY <2>1, <2>2, Here, LeafHasNothing
  <2> QED
    BY <2>1, <2>2, <2>3
<1>2. Len(visits) > 1
  BY TopVisit
<1> QED
  BY <1>1, <1>2, WalkLeaves

LEMMA LeaveThrough ==
  ASSUME IInv, Running, WalkInv, Walking, At # Root, Return, Closing,
         Kind(At) \in Walked, NameRules(At), Top.pt = Kids(At)
  PROVE  WalkInv'
<1>1. \A i \in 1..Kids(At) : ~(i > Top.pt)
  BY Here
<1> QED
  BY <1>1, LeaveSkipping

(* A statement with a scope of its own.                                    *)
LEMMA LeavePops ==
  ASSUME IInv, Running, WalkInv, Walking, Return, Pop,
         Kind(At) \in {"block", "if", "while", "for"}, Top.pt > 0,
         Top.pt = Kids(At) \/ (Kind(At) = "if" /\ Top.pt = 2 /\ ~HasElse(At))
  PROVE  WalkInv'
<1>1. /\ At # Root /\ Kind(At) \in Scoped /\ Kind(At) \in Walked /\ ~Declares(At)
      /\ NameRules(At)
  BY Here, TreeFacts, NoRules DEF Scoped, Walked, Declares, IsFunction, IsVariable
<1>2. Closing
  BY <1>1 DEF Closing, Pop
<1>3. CASE Top.pt = Kids(At)
  BY <1>1, <1>2, <1>3, LeaveThrough
<1>4. CASE Kind(At) = "if" /\ Top.pt = 2 /\ ~HasElse(At)
  <2>1. \A i \in 1..Kids(At) : i > Top.pt => i = 3
    BY <1>4, Here, TreeFacts
  <2>2. Kind(Child(At, 3)) = "empty"
    BY <1>4 DEF HasElse
  <2>3. Kind(Child(At, 3)) \in Leaves /\ NameRules(Child(At, 3))
    BY <2>2, NoRules DEF Leaves
  <2> QED
    BY <1>1, <1>2, <2>1, <2>3, LeaveSkipping
<1> QED
  BY <1>3, <1>4

LEMMA WalkDeclares ==
  ASSUME IInv, WalkInv, DefineGlobal \/ Declare \/ Parameter \/ DefineVariable
  PROVE  WalkInv'
<1>1. /\ Running /\ Walking /\ Return /\ scopes' = Insert(scopes, Name(At), At)
      /\ Kind(At) \in {"global", "decl", "param", "let"}
      /\ Kind(At) \in {"global", "decl", "param"} => Top.pt = 0
      /\ Kind(At) = "let" => Top.pt = Kids(At)
  BY DEF DefineGlobal, Declare, Parameter, DefineVariable, Visiting, Running
<1>2. /\ At \in Paths /\ tree \in Programs /\ At # Root /\ Kind(At) \in Walked
      /\ Declares(At)
      /\ ~(Top.pt > 0) \/ Kind(At) \notin Scoped
      /\ TableInv
  BY <1>1, Here, TreeFacts
     DEF Walked, Scoped, Leaves, Declares, IsFunction, IsVariable, WalkInv
<1>3. Closing
  BY <1>1, <1>2, TreeFacts DEF Closing, Declares, IsFunction, IsVariable, Scoped
<1>4. Top.pt = 0 \/ (Kind(At) \notin Scoped /\ Kind(At) \in Walked)
  BY <1>1, <1>2 DEF Scoped
<1>5. find(Name(At)) = Resolve(Name(At), At)
  BY <1>1, <1>2, <1>4, TableHere
<1>6. CASE DefineGlobal
  <2>1. Kind(At) = "global" /\ HasConstant(At) /\ find(Name(At)) = NoSite
    BY <1>6 DEF DefineGlobal, Visiting
  <2>2. NameRules(At)
    BY <1>5, <2>1 DEF NameRules, HasConstant
  <2>3. Kind(Child(At, 1)) \in Leaves /\ NameRules(Child(At, 1))
    BY <2>1 DEF NameRules, HasConstant, Leaves, Expressions, IsFunction
  <2>4. \A i \in 1..Kids(At) : i = 1
    BY <2>1 DEF HasConstant
  <2> QED
    BY <1>1, <1>2, <1>3, <2>2, <2>3, <2>4, LeaveSkipping
<1>7. CASE Declare
  <2>1. Kind(At) = "decl" /\ Declarable /\ Top.pt = 0 /\ IsFunction(At)
    BY <1>7 DEF Declare, Visiting, IsFunction
  <2>2. NameRules(At)
    BY <1>1, <1>2, <2>1, FunctionRule
  <2>3. \A i \in 1..Kids(At) : Kind(Child(At, i)) = "param"
    BY <1>2, <2>1, KindFacts
  <2>4. \A i \in 1..Kids(At) : Kind(Child(At, i)) \in Leaves /\ NameRules(Child(At, i))
    BY <2>3, NoRules DEF Leaves
  <2> QED
    BY <1>1, <1>2, <1>3, <2>2, <2>4, LeaveSkipping
<1>8. CASE Parameter
  <2>1. Kind(At) = "param" /\ Top.pt = 0
    BY <1>8 DEF Parameter, Visiting
  <2>2. Kids(At) = 0
    BY <1>2, <2>1, KindFacts DEF Leaves
  <2>3. NameRules(At)
    BY <2>1, NoRules
  <2> QED
    BY <1>1, <1>2, <1>3, <2>1, <2>2, <2>3, LeaveThrough
<1>9. CASE DefineVariable
  <2>1. Kind(At) = "let" /\ find(Name(At)) = NoSite /\ Top.pt = Kids(At)
    BY <1>9 DEF DefineVariable, Visiting
  <2>2. NameRules(At)
    BY <1>5, <2>1 DEF NameRules
  <2> QED
    BY <1>1, <1>2, <1>3, <2>1, <2>2, LeaveThrough
<1> QED
  BY <1>6, <1>7, <1>8, <1>9

LEMMA WalkEvaluates ==
  ASSUME IInv, WalkInv, Evaluate \/ Call \/ Empty \/ ReturnStatement
  PROVE  WalkInv'
<1>1. /\ Running /\ Walking /\ Return /\ scopes' = scopes
      /\ Kind(At) \in {"expr", "call", "empty", "return"}
      /\ Kind(At) \in {"expr", "call", "empty"} => Top.pt = 0
      /\ Kind(At) = "return" => Top.pt = Kids(At)
  BY DEF Evaluate, Call, Empty, ReturnStatement, Visiting, Running
<1>2. /\ At \in Paths /\ tree \in Programs /\ At # Root /\ Kind(At) \in Walked
      /\ ~Declares(At) /\ Kind(At) \notin Scoped /\ TableInv
  BY <1>1, Here, TreeFacts
     DEF Walked, Scoped, Leaves, Expressions, Declares, IsFunction, IsVariable, WalkInv
<1>3. Closing
  BY <1>1, <1>2 DEF Closing
<1>4. Top.pt = Kids(At)
  BY <1>1, <1>2, KindFacts DEF Leaves, Expressions
<1>5. find(Name(At)) = Resolve(Name(At), At)
  BY <1>1, <1>2, TableHere
<1>6. NameRules(At)
  <2>1. CASE Evaluate
    BY <1>5, <2>1 DEF Evaluate, Visiting, NameRules, IsFunction
  <2>2. CASE Call
    BY <1>5, <2>2 DEF Call, Visiting, NameRules, IsFunction
  <2>3. CASE Empty \/ ReturnStatement
    BY <2>3, NoRules DEF Empty, ReturnStatement, Visiting
  <2> QED
    BY <2>1, <2>2, <2>3
<1> QED
  BY <1>1, <1>2, <1>3, <1>4, <1>6, LeaveThrough

LEMMA WalkCloses ==
  ASSUME IInv, WalkInv,
         \/ EndFunction \/ EndBlock \/ (AfterThen /\ ~HasElse(At)) \/ AfterElse
         \/ EndWhile \/ EndFor
  PROVE  WalkInv'
<1>1. CASE EndFunction
  <2>1. /\ Running /\ Walking /\ Return /\ Pop /\ Kind(At) = "def" /\ Top.pt = Kids(At)
    BY <1>1 DEF EndFunction, Visiting, Running
  <2>2. /\ At # Root /\ Kind(At) \in Scoped /\ Kind(At) \in Walked /\ IsFunction(At)
        /\ Top.pt > 0 /\ At \in Paths /\ tree \in Programs
    BY <2>1, Here, TreeFacts DEF Scoped, Walked, IsFunction
  <2>3. Closing
    BY <2>1, <2>2 DEF Closing, Pop
  <2>4. PICK y \in Nat : y = Top.pt + 1 /\ Pos = Append(At, y)
    BY <2>1, <2>2, Here
  <2>5. Seen(At, Pos)
    BY <2>2, <2>4, SeenWithin
  <2>6. NameRules(At)
    BY <2>2, <2>5 DEF WalkInv, RulesInv
  <2> QED
    BY <2>1, <2>2, <2>3, <2>6, LeaveThrough
<1>2. CASE EndBlock
  <2>1. /\ Running /\ Walking /\ Return /\ Kind(At) = "block" /\ Top.pt = Kids(At)
        /\ IF Kids(At) = 0 THEN scopes' = scopes ELSE Pop
    BY <1>2 DEF EndBlock, Visiting, Running
  <2>2. CASE Kids(At) # 0
    <3>1. Top.pt > 0
      BY <2>1, <2>2, Here
    <3> QED
      BY <2>1, <2>2, <3>1, LeavePops
  <2>3. CASE Kids(At) = 0
    <3>1. /\ At # Root /\ Kind(At) \in Walked /\ ~Declares(At) /\ NameRules(At)
          /\ ~(Top.pt > 0)
      BY <2>1, <2>3, Here, TreeFacts, NoRules
         DEF Scoped, Walked, Declares, IsFunction, IsVariable
    <3>2. Closing
      BY <2>1, <2>3, <3>1 DEF Closing
    <3> QED
      BY <2>1, <3>1, <3>2, LeaveThrough
  <2> QED
    BY <2>2, <2>3
<1>3. CASE AfterThen /\ ~HasElse(At)
  <2>1. /\ Running /\ Walking /\ Return /\ Pop /\ Kind(At) = "if" /\ Top.pt = 2
        /\ Top.pt > 0
    BY <1>3 DEF AfterThen, Merge, Visiting, Running
  <2> QED
    BY <1>3, <2>1, LeavePops
<1>4. CASE AfterElse
  <2>1. /\ Running /\ Walking /\ Return /\ Pop /\ Kind(At) = "if" /\ Top.pt = 3
        /\ Top.pt > 0
    BY <1>4 DEF AfterElse, Merge, Visiting, Running
  <2>2. Top.pt = Kids(At)
    BY <2>1, Here, TreeFacts
  <2> QED
    BY <2>1, <2>2, LeavePops
<1>5. CASE EndWhile
  <2>1. /\ Running /\ Walking /\ Return /\ Pop /\ Kind(At) = "while" /\ Top.pt = 2
        /\ Top.pt > 0
    BY <1>5 DEF EndWhile, Visiting, Running
  <2>2. Top.pt = Kids(At)
    BY <2>1, Here, TreeFacts
  <2> QED
    BY <2>1, <2>2, LeavePops
<1>6. CASE EndFor
  <2>1. /\ Running /\ Walking /\ Return /\ Pop /\ Kind(At) = "for" /\ Top.pt = 4
        /\ Top.pt > 0
    BY <1>6 DEF EndFor, Visiting, Running
  <2>2. Top.pt = Kids(At)
    BY <2>1, Here, TreeFacts
  <2> QED
    BY <2>1, <2>2, LeavePops
<1> QED
  BY <1>1, <1>2, <1>3, <1>4, <1>5, <1>6

-----------------------------------------------------------------------------
(* What is emitted.                                                        *)

LEMMA EvalsChanged ==
  ASSUME NEW c, EvalsOK(c), NEW b \in 1..Len(c), NEW e,
         DOMAIN e = {"fn", "ins"}, IsSeq(e.ins), \A i \in 1..Len(e.ins) : EvalOK(e.ins[i])
  PROVE  EvalsOK([c EXCEPT ![b] = e]) /\ Len([c EXCEPT ![b] = e]) = Len(c)
BY Changed DEF EvalsOK

LEMMA EvalsNew ==
  ASSUME NEW c, EvalsOK(c), NEW f
  PROVE  EvalsOK(New(c, f)) /\ Len(New(c, f)) = Len(c) + 1
<1>1. PICK e : e = [fn |-> f, ins |-> <<>>]
  OBVIOUS
<1>2. DOMAIN e = {"fn", "ins"} /\ IsSeq(e.ins) /\ Len(e.ins) = 0
  BY <1>1, NothingIsSeq
<1>3. /\ IsSeq(Append(c, e)) /\ Len(Append(c, e)) = Len(c) + 1
      /\ \A k \in 1..Len(c) : Append(c, e)[k] = c[k]
      /\ Append(c, e)[Len(c) + 1] = e
  BY Appended DEF EvalsOK
<1>4. Len(c) \in Nat
  BY SeqFacts DEF EvalsOK
<1>5. \A k \in 1..(Len(c) + 1) : k \in 1..Len(c) \/ k = Len(c) + 1
  BY <1>4
<1>6. EvalsOK(Append(c, e))
  BY <1>2, <1>3, <1>5 DEF EvalsOK
<1> QED
  BY <1>1, <1>3, <1>6 DEF New

LEMMA EvalsEmit ==
  ASSUME NEW c, EvalsOK(c), NEW b \in 1..Len(c), NEW x, EvalOK(x)
  PROVE  EvalsOK(Emit(c, b, x)) /\ Len(Emit(c, b, x)) = Len(c)
<1>1. PICK s, t : s = c[b].ins /\ t = Append(s, x)
  OBVIOUS
<1>2. /\ IsSeq(s) /\ Len(s) \in Nat /\ DOMAIN c[b] = {"fn", "ins"}
      /\ \A i \in 1..Len(s) : EvalOK(s[i])
  BY <1>1, SeqFacts DEF EvalsOK
<1>3. /\ IsSeq(t) /\ Len(t) = Len(s) + 1 /\ t[Len(s) + 1] = x
      /\ \A k \in 1..Len(s) : t[k] = s[k]
  BY <1>1, <1>2, Appended
<1>4. \A k \in 1..(Len(s) + 1) : k \in 1..Len(s) \/ k = Len(s) + 1
  BY <1>2
<1>5. PICK e : e = [c[b] EXCEPT !.ins = t]
  OBVIOUS
<1>6. DOMAIN e = {"fn", "ins"} /\ e.ins = t
  BY <1>2, <1>5
<1>7. \A i \in 1..Len(t) : EvalOK(t[i])
  BY <1>2, <1>3, <1>4
<1>8. Emit(c, b, x) = [c EXCEPT ![b] = e]
  BY <1>1, <1>5 DEF Emit
<1>9. IsSeq(e.ins) /\ \A i \in 1..Len(e.ins) : EvalOK(e.ins[i])
  BY <1>3, <1>6, <1>7
<1>10. EvalsOK([c EXCEPT ![b] = e]) /\ Len([c EXCEPT ![b] = e]) = Len(c)
  BY <1>6, <1>9, EvalsChanged
<1> QED
  BY <1>8, <1>10

LEMMA EvalsAttach ==
  ASSUME NEW c, EvalsOK(c), NEW b \in 1..Len(c), NEW f
  PROVE  EvalsOK(Attach(c, b, f)) /\ Len(Attach(c, b, f)) = Len(c)
<1>1. PICK e : e = [c[b] EXCEPT !.fn = f]
  OBVIOUS
<1>2. DOMAIN e = {"fn", "ins"} /\ e.ins = c[b].ins
  BY <1>1 DEF EvalsOK
<1>3. Attach(c, b, f) = [c EXCEPT ![b] = e]
  BY <1>1 DEF Attach
<1>4. IsSeq(e.ins) /\ \A i \in 1..Len(e.ins) : EvalOK(e.ins[i])
  BY <1>2 DEF EvalsOK
<1>5. EvalsOK([c EXCEPT ![b] = e]) /\ Len([c EXCEPT ![b] = e]) = Len(c)
  BY <1>2, <1>4, EvalsChanged
<1> QED
  BY <1>3, <1>5

LEMMA NotEval ==
  /\ \A p : EvalOK(Instr("store", p, <<>>, NoSite))
  /\ \A p : EvalOK(Instr("ret", p, <<>>, NoSite))
  /\ \A p : EvalOK(Instr("end", p, <<>>, NoSite))
  /\ EvalOK(Instr("unreachable", Root, <<>>, NoSite))
  /\ \A b : EvalOK(Br(b))
  /\ \A b, d : EvalOK(CondBr(b, d))
BY DEF EvalOK, Instr, Br, CondBr

LEMMA EvalsAgain ==
  ASSUME tree' = tree, EvalsOK(code')
  PROVE  EvalInv'
<1>1. \A n, p : Name(p)' = Name(p) /\ Resolve(n, p)' = Resolve(n, p)
  BY SameTree
<1>2. \A x : EvalOK(x)' = EvalOK(x)
  BY <1>1 DEF EvalOK
<1> QED
  BY <1>2 DEF EvalInv, EvalsOK

(* Where a visit can emit.                                                 *)
LEMMA Emitting ==
  ASSUME IInv, Running, EvalInv
  PROVE  /\ EvalsOK(code) /\ Len(code) \in Nat
         /\ Kind(At) \notin AtTop \cup {"root"} => cur \in 1..Len(code)
         /\ Kind(At) = "def" /\ Top.pt > 0 => cur \in 1..Len(code)
         /\ \A k \in 1..Len(Top.bb) : Top.bb[k] \in 1..Len(code)
         /\ BlocksSaved(Kind(At), Top.pt, Len(Top.bb))
BY InStatement, InFunction, TopVisit, Standing DEF EvalInv

LEMMA EvalsSimple ==
  ASSUME IInv, Running, WalkInv, EvalInv,
         Parameter \/ EndFunction \/ Evaluate \/ Call \/ DefineVariable \/ ReturnStatement
  PROVE  EvalInv'
<1>1. tree' = tree
  BY DEF Parameter, EndFunction, Evaluate, Call, DefineVariable, ReturnStatement, Walking
<1>2. EvalsOK(code)
  BY DEF EvalInv
<1>3. CASE Parameter \/ DefineVariable \/ ReturnStatement
  <2>1. Kind(At) \notin AtTop \cup {"root"}
    BY <1>3 DEF Parameter, DefineVariable, ReturnStatement, Visiting, AtTop
  <2>2. \/ code' = Emit(code, cur, Instr("store", At, <<>>, NoSite))
        \/ code' = Emit(code, cur, Instr("ret", At, <<>>, NoSite))
    BY <1>3 DEF Parameter, DefineVariable, ReturnStatement
  <2> QED
    BY <1>1, <1>2, <2>1, <2>2, Emitting, NotEval, EvalsEmit, EvalsAgain
<1>4. CASE EndFunction
  <2>1. Kind(At) = "def" /\ Top.pt > 0
    BY <1>4, Here, TreeFacts DEF EndFunction, Visiting
  <2>2. code' = code \/ code' = Emit(code, cur, Instr("end", At, <<>>, NoSite))
    BY <1>4 DEF EndFunction
  <2> QED
    BY <1>1, <1>2, <2>1, <2>2, Emitting, NotEval, EvalsEmit, EvalsAgain
<1>5. CASE Evaluate \/ Call
  <2>1. /\ Kind(At) \in {"expr", "call"} /\ Top.pt = 0
        /\ code' = Emit(code, cur, Instr("eval", At, <<>>, find(Name(At))))
    BY <1>5 DEF Evaluate, Call, Visiting
  <2>2. At # Root /\ Kind(At) \notin AtTop \cup {"root"}
    BY <2>1, Here, TreeFacts DEF AtTop
  <2>3. find(Name(At)) = Resolve(Name(At), At)
    BY <2>1, <2>2, TableHere DEF WalkInv
  <2>4. EvalOK(Instr("eval", At, <<>>, find(Name(At))))
    BY <2>3 DEF EvalOK, Instr
  <2> QED
    BY <1>1, <1>2, <2>1, <2>2, <2>4, Emitting, EvalsEmit, EvalsAgain
<1> QED
  BY <1>3, <1>4, <1>5

LEMMA EvalsControl ==
  ASSUME IInv, Running, EvalInv,
         \/ BeginFunction \/ AfterCondition \/ AfterThen \/ AfterElse
         \/ BeginWhile \/ WhileBody \/ EndWhile
         \/ BeginFor \/ NextOfFor \/ ForStep \/ EndFor
  PROVE  EvalInv'
<1>1. tree' = tree
  BY DEF BeginFunction, AfterCondition, AfterThen, AfterElse, BeginWhile, WhileBody, EndWhile,
         BeginFor, NextOfFor, ForStep, EndFor, Merge, Walking
<1>2. PICK n \in Nat : n = Len(code) /\ EvalsOK(code)
  BY Emitting
<1>3. CASE BeginFunction \/ WhileBody \/ NextOfFor \/ ForStep
  <2>1. \E f : code' = New(code, f)
    BY <1>3 DEF BeginFunction, WhileBody, NextOfFor, ForStep
  <2> QED
    BY <1>1, <1>2, <2>1, EvalsNew, EvalsAgain
<1>4. ASSUME Kind(At) \in {"if", "while", "for"}
      PROVE  /\ cur \in 1..n /\ BlocksSaved(Kind(At), Top.pt, Len(Top.bb))
             /\ \A k \in 1..Len(Top.bb) : Top.bb[k] \in 1..n
  BY <1>2, <1>4, Emitting DEF AtTop
<1>5. CASE BeginWhile \/ BeginFor
  <2>1. Kind(At) \in {"if", "while", "for"} /\ \E b, f : code' = New(Emit(code, cur, Br(b)), f)
    BY <1>5 DEF BeginWhile, BeginFor, Visiting
  <2>2. cur \in 1..Len(code)
    BY <1>2, <1>4, <2>1
  <2>3. PICK b, f : code' = New(Emit(code, cur, Br(b)), f)
    BY <2>1
  <2>4. EvalsOK(Emit(code, cur, Br(b)))
    BY <1>2, <2>2, NotEval, EvalsEmit
  <2> QED
    BY <1>1, <2>3, <2>4, EvalsNew, EvalsAgain
<1>6. CASE AfterCondition
  <2>1. PICK f, x : /\ EvalOK(x) /\ Kind(At) = "if"
                    /\ code' = Emit(New(New(New(code, f), Detached), Detached), cur, x)
    BY <1>6, NotEval DEF AfterCondition, Visiting
  <2>2. PICK c, d, e : c = New(code, f) /\ d = New(c, Detached) /\ e = New(d, Detached)
    OBVIOUS
  <2>3. EvalsOK(c) /\ Len(c) = n + 1
    BY <1>2, <2>2, EvalsNew
  <2>4. EvalsOK(d) /\ Len(d) = Len(c) + 1
    BY <2>2, <2>3, EvalsNew
  <2>5. EvalsOK(e) /\ Len(e) = Len(d) + 1
    BY <2>2, <2>4, EvalsNew
  <2>6. cur \in 1..Len(e)
    BY <1>4, <2>1, <2>3, <2>4, <2>5
  <2> QED
    BY <1>1, <2>1, <2>2, <2>5, <2>6, EvalsEmit, EvalsAgain
<1>7. CASE AfterThen \/ AfterElse
  <2>1. PICK b, k, f : /\ Kind(At) = "if" /\ Top.pt \in {2, 3} /\ k \in {1, 2}
                       /\ code' = Attach(Emit(code, cur, Br(b)), Top.bb[k], f)
    BY <1>7 DEF AfterThen, AfterElse, Merge, Visiting
  <2>2. Len(Top.bb) = 2 /\ Top.bb[k] \in 1..n /\ cur \in 1..n
    BY <1>4, <2>1 DEF BlocksSaved
  <2>3. EvalsOK(Emit(code, cur, Br(b))) /\ Len(Emit(code, cur, Br(b))) = n
    BY <1>2, <2>2, NotEval, EvalsEmit
  <2> QED
    BY <1>1, <2>1, <2>2, <2>3, EvalsAttach, EvalsAgain
<1>8. CASE EndWhile
  <2>1. PICK f, x, y : /\ EvalOK(x) /\ EvalOK(y) /\ Kind(At) = "while" /\ Top.pt = 2
                       /\ code' = Emit(Emit(New(code, f), Top.bb[1], x), cur, y)
    BY <1>8, NotEval DEF EndWhile, Visiting
  <2>2. PICK m \in Nat : m = n + 1
    OBVIOUS
  <2>3. Top.bb[1] \in 1..m /\ cur \in 1..m
    BY <1>4, <2>1, <2>2 DEF BlocksSaved
  <2>4. PICK c, d : c = New(code, f) /\ d = Emit(c, Top.bb[1], x)
    OBVIOUS
  <2>5. EvalsOK(c) /\ Len(c) = m
    BY <1>2, <2>2, <2>4, EvalsNew
  <2>6. EvalsOK(d) /\ Len(d) = m
    BY <2>1, <2>3, <2>4, <2>5, EvalsEmit
  <2> QED
    BY <1>1, <2>1, <2>3, <2>4, <2>6, EvalsEmit, EvalsAgain
<1>9. CASE EndFor
  <2>1. PICK f, w, x, y, z :
          /\ EvalOK(w) /\ EvalOK(x) /\ EvalOK(y) /\ EvalOK(z)
          /\ Kind(At) = "for" /\ Top.pt = 4
          /\ code' = Emit(Emit(Emit(Emit(New(code, f), Top.bb[1], w), Top.bb[2], x),
                               Top.bb[4], y), Top.bb[5], z)
    BY <1>9, NotEval DEF EndFor, Visiting
  <2>2. PICK m \in Nat : m = n + 1
    OBVIOUS
  <2>3. \A k \in 1..5 : Top.bb[k] \in 1..m
    <3>1. Len(Top.bb) = 5
      BY <1>4, <2>1 DEF BlocksSaved
    <3>2. \A k \in 1..5 : Top.bb[k] \in 1..n
      BY <1>4, <2>1, <3>1
    <3> QED
      BY <2>2, <3>2
  <2>4. Top.bb[1] \in 1..m /\ Top.bb[2] \in 1..m /\ Top.bb[4] \in 1..m /\ Top.bb[5] \in 1..m
    BY <2>3
  <2>5. PICK c : c = New(code, f)
    OBVIOUS
  <2>6. PICK d : d = Emit(c, Top.bb[1], w)
    OBVIOUS
  <2>7. PICK e : e = Emit(d, Top.bb[2], x)
    OBVIOUS
  <2>8. PICK g : g = Emit(e, Top.bb[4], y)
    OBVIOUS
  <2>9. EvalsOK(c) /\ Len(c) = m
    BY <1>2, <2>2, <2>5, EvalsNew
  <2>10. EvalsOK(d) /\ Len(d) = m
    BY <2>1, <2>4, <2>6, <2>9, EvalsEmit
  <2>11. EvalsOK(e) /\ Len(e) = m
    BY <2>1, <2>4, <2>7, <2>10, EvalsEmit
  <2>12. EvalsOK(g) /\ Len(g) = m
    BY <2>1, <2>4, <2>8, <2>11, EvalsEmit
  <2>13. code' = Emit(g, Top.bb[5], z)
    BY <2>1, <2>5, <2>6, <2>7, <2>8
  <2> QED
    BY <1>1, <2>1, <2>4, <2>12, <2>13, EvalsEmit, EvalsAgain
<1> QED
  BY <1>3, <1>5, <1>6, <1>7, <1>8, <1>9

-----------------------------------------------------------------------------
(* The end of the walk.                                                    *)

LEMMA EvalsStripped ==
  ASSUME NEW ins, IsSeq(ins), \A i \in 1..Len(ins) : EvalOK(ins[i])
  PROVE  /\ IsSeq(Stripped(ins))
         /\ \A i \in 1..Len(Stripped(ins)) : EvalOK(Stripped(ins)[i])
<1> DEFINE ends == {i \in DOMAIN ins : ins[i].op \in Terminators}
<1>1. DOMAIN ins = 1..Len(ins) /\ Len(ins) \in Nat
  BY SeqFacts
<1>2. CASE ends = {}
  <2>1. PICK stop : stop = Instr("unreachable", Root, <<>>, NoSite)
    OBVIOUS
  <2>2. Stripped(ins) = Append(ins, stop)
    BY <1>2, <2>1 DEF Stripped
  <2>3. /\ IsSeq(Append(ins, stop)) /\ Len(Append(ins, stop)) = Len(ins) + 1
        /\ \A k \in 1..Len(ins) : Append(ins, stop)[k] = ins[k]
        /\ Append(ins, stop)[Len(ins) + 1] = stop
    BY Appended
  <2>4. \A k \in 1..(Len(ins) + 1) : k \in 1..Len(ins) \/ k = Len(ins) + 1
    BY <1>1
  <2>5. EvalOK(stop)
    BY <2>1, NotEval
  <2> QED
    BY <2>2, <2>3, <2>4, <2>5
<1>3. CASE ends # {}
  <2>1. ends \subseteq Nat
    BY <1>1
  <2>2. \E i \in ends : \A j \in ends : i <= j
    BY <1>3, <2>1, LeastExists
  <2>3. PICK i \in ends : i = CHOOSE k \in ends : \A j \in ends : k <= j
    BY <2>2
  <2>4. Stripped(ins) = SubSeq(ins, 1, i)
    BY <1>3, <2>3 DEF Stripped
  <2>5. i \in 1..Len(ins)
    BY <1>1
  <2> HIDE DEF ends
  <2> DEFINE T == {ins[k] : k \in DOMAIN ins}
  <2>6. \A k \in 1..i : ins[k] \in T
    BY <1>1, <2>5
  <2> HIDE DEF T
  <2>7. /\ SubSeq(ins, 1, i) \in Seq(T)
        /\ Len(SubSeq(ins, 1, i)) = i - 1 + 1
        /\ \A k \in 1..(i - 1 + 1) : SubSeq(ins, 1, i)[k] = ins[1 + k - 1]
    BY <2>5, <2>6, SubSeqProperties
  <2>8. i - 1 + 1 = i /\ \A k \in 1..i : 1 + k - 1 = k /\ k \in 1..Len(ins)
    BY <1>1, <2>5
  <2>9. \A k \in 1..Len(SubSeq(ins, 1, i)) : EvalOK(SubSeq(ins, 1, i)[k])
    BY <2>7, <2>8
  <2> QED
    BY <2>4, <2>7, <2>9, SeqIsSeq
<1> QED
  BY <1>2, <1>3

LEMMA EvalsFinish ==
  ASSUME EvalInv, Finish
  PROVE  EvalInv'
<1> DEFINE F(b) == IF code[b].fn = Detached THEN code[b]
                   ELSE [code[b] EXCEPT !.ins = Stripped(@)]
<1>1. tree' = tree /\ code' = [b \in DOMAIN code |-> F(b)]
  BY DEF Finish
<1>2. PICK n \in Nat : n = Len(code) /\ DOMAIN code = 1..n
  BY SeqFacts DEF EvalInv, EvalsOK
<1>3. ASSUME NEW b \in 1..n
      PROVE  /\ DOMAIN F(b) = {"fn", "ins"} /\ IsSeq(F(b).ins)
             /\ \A i \in 1..Len(F(b).ins) : EvalOK(F(b).ins[i])
  <2>1. PICK ins : ins = code[b].ins
    OBVIOUS
  <2>2. /\ DOMAIN code[b] = {"fn", "ins"} /\ IsSeq(ins)
        /\ \A i \in 1..Len(ins) : EvalOK(ins[i])
    BY <1>2, <2>1 DEF EvalInv, EvalsOK
  <2>3. /\ IsSeq(Stripped(ins)) /\ \A i \in 1..Len(Stripped(ins)) : EvalOK(Stripped(ins)[i])
    BY <2>2, EvalsStripped
  <2>4. F(b) = code[b] \/ (DOMAIN F(b) = {"fn", "ins"} /\ F(b).ins = Stripped(ins))
    BY <2>1, <2>2
  <2> HIDE DEF F
  <2> QED
    BY <2>1, <2>2, <2>3, <2>4
<1> HIDE DEF F
<1>4. DOMAIN code' = 1..n /\ \A b \in 1..n : code'[b] = F(b)
  BY <1>1, <1>2
<1>5. IsSeq(code') /\ Len(code') = n
  <2> DEFINE T == {code'[b] : b \in 1..n}
  <2>1. code' \in [1..n -> T]
    BY <1>1, <1>2, <1>4
  <2>2. code' \in Seq(T)
    BY <1>2, <2>1, SeqDef
  <2>3. Len(code') = n
    BY <1>2, <1>4, <2>2, LenProperties
  <2> QED
    BY <2>2, <2>3, SeqIsSeq
<1>6. EvalsOK(code')
  BY <1>3, <1>4, <1>5 DEF EvalsOK
<1> QED
  BY <1>1, <1>6, EvalsAgain

(* When the walk is through, every node is behind it.                      *)
LEMMA AllSeen ==
  ASSUME IInv, Running, RulesInv, At = Root, Top.pt = Kids(Root)
  PROVE  WellScoped
<1>1. PICK y \in Nat : y = Kids(Root) + 1 /\ Pos = Append(Root, y)
  BY Here
<1>2. tree \in Programs /\ Root \in Paths /\ Kind(Root) = "root" /\ Len(Root) = 0
      /\ Kids(Root) \in Nat
  BY Here, TreeFacts, EmptySeq DEF Root
<1>3. ASSUME NEW p \in Paths PROVE NameRules(p)
  <2>1. CASE p = Root
    BY <1>2, <2>1, NoRules
  <2>2. CASE p # Root
    <3>1. p \in Seq(Nat) /\ Len(p) \in Nat
      BY <1>2, PathFacts
    <3>2. Len(p) # 0
      BY <2>2, <3>1, EmptySeq DEF Root
    <3>3. Below(p, Root)
      BY <1>2, <3>1, <3>2 DEF Below
    <3>4. p[Len(Root) + 1] \in 1..Kids(Root)
      BY <1>2, <3>3, KidAbove
    <3>5. p[Len(Root) + 1] < y
      BY <1>1, <1>2, <3>4
    <3>6. Seen(p, Append(Root, y))
      BY <1>2, <3>3, <3>5, SeenWithin
    <3> QED
      BY <1>1, <3>6 DEF RulesInv
  <2> QED
    BY <2>1, <2>2
<1> QED
  BY <1>3 DEF WellScoped

(* A diagnosis is right: a rule is broken at the node.                     *)
LEMMA RightlyRefused ==
  ASSUME IInv, Running, WalkInv, Diagnose \/ Misuse
  PROVE  ~WellScoped
<1>1. TableInv /\ At \in Paths
  BY Here DEF WalkInv
<1>2. ASSUME At # Root, Top.pt = 0 \/ Kind(At) = "let"
      PROVE  find(Name(At)) = Resolve(Name(At), At)
  <2>1. Kind(At) = "let" => Kind(At) \notin Scoped /\ Kind(At) \in Walked
    BY DEF Scoped, Walked
  <2> QED
    BY <1>1, <1>2, <2>1, TableHere
<1>3. Kind(At) # "root" => At # Root
  BY Here, TreeFacts
<1>4. ~NameRules(At)
  <2>1. CASE Kind(At) = "expr"
    <3>1. At # Root /\ ~IsFunction(At) /\ Kind(At) # "call" /\ Kind(At) # "let" /\ Kind(At) # "global"
      BY <1>3, <2>1 DEF IsFunction
    <3>2. /\ Top.pt = 0 /\ Name(At) # NoName
          /\ find(Name(At)) = NoSite \/ ~IsVariable(find(Name(At)))
      BY <3>1 DEF Diagnose, Misuse, Visiting, LoadsFunction
    <3> QED
      BY <1>2, <2>1, <3>1, <3>2 DEF NameRules, IsFunction
  <2>2. CASE Kind(At) = "call"
    <3>1. At # Root /\ ~IsFunction(At) /\ Kind(At) # "expr" /\ Kind(At) # "let" /\ Kind(At) # "global"
      BY <1>3, <2>2 DEF IsFunction
    <3>2. Top.pt = 0 /\ (find(Name(At)) # NoSite => ~IsFunction(find(Name(At))))
      BY <3>1 DEF Diagnose, Misuse, Visiting
    <3> QED
      BY <1>2, <2>2, <3>1, <3>2 DEF NameRules, IsFunction
  <2>3. CASE Kind(At) = "let"
    <3>1. At # Root /\ ~IsFunction(At) /\ Kind(At) # "expr" /\ Kind(At) # "call" /\ Kind(At) # "global"
      BY <1>3, <2>3 DEF IsFunction
    <3>2. find(Name(At)) # NoSite
      BY <3>1 DEF Diagnose, Misuse, Visiting
    <3> QED
      BY <1>2, <2>3, <3>1, <3>2 DEF NameRules, IsFunction
  <2>4. CASE Kind(At) = "global"
    <3>1. At # Root /\ ~IsFunction(At) /\ Kind(At) # "expr" /\ Kind(At) # "call" /\ Kind(At) # "let"
      BY <1>3, <2>4 DEF IsFunction
    <3>2. Top.pt = 0 /\ (find(Name(At)) # NoSite \/ ~HasConstant(At))
      BY <3>1 DEF Diagnose, Misuse, Visiting, InitialiserLoads, LoadsFunction, HasConstant
    <3> QED
      BY <1>2, <2>4, <3>1, <3>2 DEF NameRules, IsFunction, HasConstant
  <2>5. CASE Kind(At) \notin {"expr", "call", "let", "global"}
    <3>1. /\ IsFunction(At) /\ Top.pt = 0
          /\ \/ /\ findFunction(Name(At)) # NoSite
                /\ Signature(findFunction(Name(At))) # Signature(At)
             \/ findFunction(Name(At)) = NoSite /\ find(Name(At)) # NoSite
      BY <2>5 DEF Diagnose, Misuse, Visiting
    <3> QED
      BY <1>1, <3>1, FunctionRule
  <2> QED
    BY <2>1, <2>2, <2>3, <2>4, <2>5
<1> QED
  BY <1>1, <1>4 DEF WellScoped

-----------------------------------------------------------------------------
(* The invariant holds, and the theorem.                                   *)

LEMMA NamesInit == Init => NInv
<1> SUFFICES ASSUME Init PROVE NInv
  OBVIOUS
<1>1. /\ tree \in Programs /\ IInv /\ Running /\ refused = FALSE /\ result = "running"
      /\ code = <<>> /\ visits = <<Visit(Root)>> /\ scopes = <<NoSymbols>>
  BY InitInductive DEF Init, Running
<1>2. Len(visits) = 1 /\ Len(scopes) = 1 /\ scopes[1] = NoSymbols /\ DOMAIN NoSymbols = {}
  BY <1>1 DEF NoSymbols
<1>3. ChainInv
  BY <1>2 DEF ChainInv
<1>4. At = Root /\ Top.pt = 0 /\ Root \in Paths /\ Kind(Root) = "root" /\ Root \in Seq(Nat)
      /\ Len(Root) = 0
  BY <1>1, <1>2, TopVisit, TreeFacts, EmptySeq DEF Visit, At, Root
<1>5. Pos = Append(Root, 1)
  BY <1>4 DEF Pos
<1>6. Scopes(Root) = {}
  <2>1. 0 \in Nat /\ \A s \in Scopes(Root) : Len(s) \in Nat /\ Len(s) < Len(Root)
    BY <1>4, ScopesAppend
  <2>2. \A s \in Scopes(Root) : FALSE
    BY <1>4, <2>1
  <2> QED
    BY <2>2
<1>7. Scopes(Pos) = {Root}
  <2>1. Kind(Root) \in Scoped
    BY <1>4 DEF Scoped
  <2> QED
    BY <1>4, <1>5, <1>6, <2>1, ScopesAppend
<1>8. Vis(Root) = {} /\ ~IsFunction(Root)
  BY <1>1, <1>4, <1>6, VisIs DEF IsFunction
<1>9. Vis(Pos) = {}
  BY <1>1, <1>4, <1>5, <1>8, VisWithin DEF Within
<1>10. TableInv
  <2>1. PICK sp : sp = <<Root>>
    OBVIOUS
  <2>2. sp \in Seq({Root}) /\ Len(sp) = 1 /\ sp[1] = Root
    BY <2>1
  <2>3. scopes \in Seq({NoSymbols})
    BY <1>1
  <2>4. IsSeq(sp) /\ IsSeq(scopes)
    BY <2>2, <2>3, SeqIsSeq
  <2>5. \A k \in 1..1 : k = 1
    OBVIOUS
  <2>6. TableOK(scopes, sp, {Root}, {})
    BY <1>2, <2>2, <2>4, <2>5 DEF TableOK
  <2> QED
    BY <1>7, <1>9, <2>6 DEF TableInv, TableAt
<1>11. RulesInv
  <2> SUFFICES ASSUME NEW d \in Paths, Seen(d, Append(Root, 1)) PROVE NameRules(d)
    BY <1>5 DEF RulesInv
  <2>1. ~Seen(d, Root)
    <3>1. ~Past(d, Root)
      BY <1>4 DEF Past
    <3>2. ~Below(Root, d)
      BY <1>1, <1>4, PathFacts DEF Below
    <3> QED
      BY <3>1, <3>2 DEF Seen
  <2>2. Below(d, Root) /\ d[Len(Root) + 1] < 1
    BY <1>1, <1>4, <1>8, <2>1, SeenWithin
  <2>3. d[Len(Root) + 1] \in 1..Kids(Root) /\ Kids(Root) \in Nat
    BY <1>1, <1>4, <2>2, KidAbove, PathFacts
  <2> QED
    BY <2>2, <2>3
<1>12. EvalInv
  BY <1>1, NothingIsSeq DEF EvalInv, EvalsOK
<1> QED
  BY <1>1, <1>3, <1>10, <1>11, <1>12 DEF NInv, WalkInv, Running, Generated

LEMMA NamesKept ==
  ASSUME IInv, NInv, [Next]_vars
  PROVE  NInv'
<1>1. CASE UNCHANGED vars
  <2>1. tree' = tree /\ Pos' = Pos
    BY <1>1 DEF vars, Pos, Top, At
  <2>2. PICK x : x = Pos
    OBVIOUS
  <2>3. WalkInv => WalkInv'
    <3> SUFFICES ASSUME WalkInv PROVE WalkInv'
      OBVIOUS
    <3>1. TableAt(scopes', Scopes(x), Vis(x)) /\ \A d \in Paths : Seen(d, x) => NameRules(d)
      BY <1>1, <2>2 DEF WalkInv, TableInv, RulesInv, vars
    <3>2. ChainInv'
      BY <1>1 DEF WalkInv, ChainInv, vars
    <3> QED
      BY <2>1, <2>2, <3>1, <3>2, NewPlace DEF WalkInv
  <2>4. EvalInv'
    BY <1>1, <2>1, EvalsAgain DEF NInv, EvalInv, vars
  <2>5. WellScoped' <=> WellScoped
    BY <2>1, SameTree DEF WellScoped
  <2> QED
    BY <1>1, <2>3, <2>4, <2>5 DEF NInv, Running, Generated, vars
<1>2. ASSUME Running, Walking, WalkInv', EvalInv' PROVE NInv'
  BY <1>2 DEF NInv, Running, Generated, Walking
<1>3. Running => WalkInv /\ EvalInv
  BY DEF NInv
<1>4. EvalInv
  BY DEF NInv
<1>5. CASE TopLevel \/ NextOfFunction \/ Operand \/ NextOfBlock \/ BeginIf \/ EndBlock
           \/ DefineGlobal \/ Declare \/ Empty
  <2>1. Running /\ Walking /\ code' = code
    BY <1>5 DEF TopLevel, NextOfFunction, Operand, NextOfBlock, BeginIf, EndBlock,
       DefineGlobal, Declare, Empty, Visiting, Running
  <2>2. EvalInv'
    BY <1>4, <2>1, EvalsAgain DEF EvalInv, Walking
  <2>3. WalkInv'
    BY <1>3, <1>5, <2>1, WalkBegins, WalkControls, WalkCloses, WalkDeclares, WalkEvaluates
  <2> QED
    BY <1>2, <2>1, <2>2, <2>3
<1>6. CASE Parameter \/ EndFunction \/ Evaluate \/ Call \/ DefineVariable \/ ReturnStatement
  <2>1. Running /\ Walking
    BY <1>6 DEF Parameter, EndFunction, Evaluate, Call, DefineVariable, ReturnStatement,
       Visiting, Running
  <2>2. WalkInv'
    BY <1>3, <1>6, <2>1, WalkCloses, WalkDeclares, WalkEvaluates
  <2> QED
    BY <1>2, <1>3, <1>6, <2>1, <2>2, EvalsSimple
<1>7. CASE \/ BeginFunction \/ AfterCondition \/ AfterThen \/ AfterElse
           \/ BeginWhile \/ WhileBody \/ EndWhile
           \/ BeginFor \/ NextOfFor \/ ForStep \/ EndFor
  <2>1. Running /\ Walking
    BY <1>7 DEF BeginFunction, AfterCondition, AfterThen, AfterElse, BeginWhile, WhileBody,
       EndWhile, BeginFor, NextOfFor, ForStep, EndFor, Merge, Visiting, Running
  <2>2. WalkInv'
    BY <1>3, <1>7, <2>1, WalkBegins, WalkControls, WalkCloses
  <2> QED
    BY <1>2, <1>3, <1>7, <2>1, <2>2, EvalsControl
<1>8. CASE Finish
  <2>1. /\ Running /\ At = Root /\ Top.pt = Kids(Root) /\ result' = "generated" /\ tree' = tree
    BY <1>8 DEF Finish, Running
  <2>2. WellScoped
    BY <1>3, <2>1, AllSeen DEF WalkInv
  <2>3. WellScoped'
    BY <2>1, <2>2, SameTree DEF WellScoped
  <2> QED
    BY <1>4, <1>8, <2>1, <2>3, EvalsFinish DEF NInv, Running, Generated
<1>9. CASE Diagnose \/ Misuse \/ Refuse
  <2>1. /\ Running /\ tree' = tree /\ code' = <<>> /\ result' \in {"rejected", "undefined"}
        /\ Refuse => refused'
    BY <1>9 DEF Diagnose, Misuse, Refuse, GiveUp, Running
  <2>2. EvalsOK(code')
    BY <2>1, NothingIsSeq DEF EvalsOK
  <2>3. EvalInv'
    BY <2>1, <2>2, EvalsAgain
  <2>4. ~refused' => ~WellScoped
    BY <1>3, <1>9, <2>1, RightlyRefused
  <2>5. WellScoped' <=> WellScoped
    BY <2>1, SameTree DEF WellScoped
  <2> QED
    BY <2>1, <2>3, <2>4, <2>5 DEF NInv, Running, Generated
<1> QED
  BY <1>1, <1>5, <1>6, <1>7, <1>8, <1>9 DEF Next, Ended

(* Every read and every call in the generated code is of the declaration   *)
(* the scoping rules give; a program is generated only when it keeps the   *)
(* rules, and rejected for a name only when it breaks one: the scopes that *)
(* the visit functions open and close by hand, and the symbol they find    *)
(* first (SymbolTable::find, getTop().insert()), are those of the source.  *)
THEOREM NamesAreResolved == Spec => []NamesResolve
<1>1. IInv /\ NInv => NamesResolve
  <2> SUFFICES ASSUME IInv, NInv PROVE NamesResolve
    OBVIOUS
  <2>1. DOMAIN code = 1..Len(code) /\ \A b \in 1..Len(code) : DOMAIN Ins(b) = 1..Len(Ins(b))
    BY SeqFacts DEF NInv, EvalInv, EvalsOK, Ins
  <2>2. \A b \in 1..Len(code) : \A i \in 1..Len(Ins(b)) : EvalOK(Ins(b)[i])
    BY DEF NInv, EvalInv, EvalsOK, Ins
  <2> QED
    BY <2>1, <2>2 DEF NamesResolve, NInv, EvalOK
<1>2. IInv /\ NInv /\ [Next]_vars => NInv'
  BY NamesKept
<1> QED
  BY <1>1, <1>2, NamesInit, Invariance, PTL DEF Spec

-----------------------------------------------------------------------------
(* The blocks.                                                             *)

Closed(c, b) == \E i \in 1..Len(c[b].ins) : c[b].ins[i].op \in Terminators
Goes(c, b, t) ==
  \E i \in 1..Len(c[b].ins) : \E k \in DOMAIN c[b].ins[i].to : c[b].ins[i].to[k] = t

(* The function f has a block before t.                                    *)
Later(c, t, f) == \E a \in 1..Len(c) : a < t /\ c[a].fn = f

(* Branches lead to later blocks of their function than its first one, or  *)
(* to blocks P that will be put into the function f under way.             *)
JumpOK(c, f, P) ==
  \A b \in 1..Len(c) : \A t \in 1..Len(c) : Goes(c, b, t) =>
    /\ c[b].fn # Detached /\ Later(c, t, c[b].fn)
    /\ \/ c[t].fn = c[b].fn
       \/ c[t].fn = Detached /\ c[b].fn = f /\ t \in P

(* Only blocks in Q are open in a function that returns nothing; and       *)
(* nothing that was generated so far is unreachable.                       *)
ClosedBut(c, Q) ==
  \A b \in 1..Len(c) :
    /\ c[b].fn # Detached /\ tree[c[b].fn].type = "void" => Closed(c, b) \/ b \in Q
    /\ \A i \in 1..Len(c[b].ins) : c[b].ins[i].op # "unreachable"

(* What a visit of this kind, at its e-th kid, has saved: the blocks it is *)
(* to put into the function, the ones it is to close, the one that is      *)
(* still current.                                                          *)
PutsOf(p, bb) == {bb[k] : k \in {k \in 1..Len(bb) : Kind(p) = "if" /\ (k = 2 \/ HasElse(p))}}
Owed(kind, e) ==
  CASE kind = "while" /\ e = 2 -> {1}
    [] kind = "for" /\ e = 2 -> {1}
    [] kind = "for" /\ e = 3 -> {1, 2}
    [] kind = "for" /\ e = 4 -> {1, 2, 4}
    [] OTHER -> {}
OwesOf(p, e, bb) == {bb[k] : k \in Owed(Kind(p), e)}
Stands(kind, e) ==
  CASE kind = "while" /\ e = 1 -> 1
    [] kind = "for" /\ e \in {1, 2} -> e
    [] kind = "for" /\ e = 4 -> 5
    [] OTHER -> 0

Puts(i) == PutsOf(visits[i].at, visits[i].bb)
Owes(i) == OwesOf(visits[i].at, Begun(i), visits[i].bb)

Promised == UNION {Puts(i) : i \in 1..Len(visits)}
InBody == Len(visits) >= 2 /\ Kind(visits[2].at) = "def" /\ Begun(2) > 0
Current == IF InBody THEN {cur} ELSE {}
Owing == UNION {Owes(i) : i \in 1..Len(visits)}
Open == Owing \cup Current

Controls == {"if", "while", "for"}
Holds(c, f, p, e, bb) ==
  /\ Kind(p) \notin Controls \/ e = 0 \/ (Kind(p) = "if" /\ e = 1) => Len(bb) = 0
  /\ \A k \in 1..Len(bb) :
       /\ k # 4 => Later(c, bb[k], f)
       /\ c[bb[k]].fn \in {Detached, f}
       /\ Kind(p) # "if" \/ (e = 3 /\ k = 1) => c[bb[k]].fn = f
HoldsAt(i) == Holds(code, Func, visits[i].at, Begun(i), visits[i].bb)
StandsOK(i) ==
  LET s == Stands(Kind(visits[i].at), Begun(i)) IN s # 0 => cur = visits[i].bb[s]

(* The body's last statement, or a block's, is a return.                   *)
Ends(p) == Kind(p) = "return" \/ (Kind(p) = "block" /\ EndsInReturn(p))

BodyInv ==
  /\ Len(visits) >= 3 => Kind(visits[2].at) = "def"
  /\ InBody => Func # Detached /\ tree[Func].type = tree[visits[2].at].type
FlowInv ==
  /\ BodyInv
  /\ \A i \in 1..Len(visits) : HoldsAt(i) /\ StandsOK(i)
  /\ JumpOK(code, Func, Promised)
  /\ ClosedBut(code, Open)
  /\ Top.pt > 0 /\ Ends(Child(At, Top.pt)) => Closed(code, cur)


Aims(x, t) == \E k \in DOMAIN x.to : x.to[k] = t

(* What is left when the walk is through.                                  *)
FinishedBlock(c, b) ==
  LET n == Len(c[b].ins)
      end == c[b].ins[n]
  IN /\ IsSeq(c[b].ins) /\ n >= 1
     /\ \A i \in 1..n : c[b].ins[i].op \in Terminators <=> i = n
     /\ \A t : Aims(end, t) =>
          t \in 1..Len(c) /\ c[t].fn = c[b].fn /\ Later(c, t, c[b].fn)
     /\ tree[c[b].fn].type = "void" => end.op # "unreachable"
Finished(c) == \A b \in 1..Len(c) : c[b].fn # Detached => FinishedBlock(c, b)

BInv == (Running => FlowInv) /\ (Generated => Finished(code))

-----------------------------------------------------------------------------
(* What New, Emit and Attach do to the blocks.                             *)

LEMMA NewIs ==
  ASSUME NEW c, NEW n, CodeOK(c, n), NEW f
  PROVE  /\ Len(c) \in Nat /\ Len(New(c, f)) = Len(c) + 1
         /\ \A b \in 1..Len(c) : New(c, f)[b] = c[b]
         /\ New(c, f)[Len(c) + 1].fn = f /\ Len(New(c, f)[Len(c) + 1].ins) = 0
<1> DEFINE b == [fn |-> f, ins |-> <<>>]
<1>1. /\ Len(Append(c, b)) = Len(c) + 1 /\ Append(c, b)[Len(c) + 1] = b
      /\ \A k \in 1..Len(c) : Append(c, b)[k] = c[k]
  BY Appended DEF CodeOK
<1>2. b.fn = f /\ Len(b.ins) = 0
  BY NothingIsSeq
<1> QED
  BY <1>1, <1>2, SeqFacts DEF New, CodeOK

LEMMA EmitIs ==
  ASSUME NEW c, NEW n, CodeOK(c, n), NEW b \in 1..Len(c), NEW x
  PROVE  /\ Len(c) \in Nat /\ Len(Emit(c, b, x)) = Len(c)
         /\ \A j \in 1..Len(c) : Emit(c, b, x)[j].fn = c[j].fn
         /\ \A j \in 1..Len(c) : j # b => Emit(c, b, x)[j] = c[j]
         /\ Len(c[b].ins) \in Nat /\ Len(Emit(c, b, x)[b].ins) = Len(c[b].ins) + 1
         /\ \A i \in 1..Len(c[b].ins) : Emit(c, b, x)[b].ins[i] = c[b].ins[i]
         /\ Emit(c, b, x)[b].ins[Len(c[b].ins) + 1] = x
<1>1. PICK s : s = Append(c[b].ins, x)
  OBVIOUS
<1>2. PICK e : e = [c[b] EXCEPT !.ins = s]
  OBVIOUS
<1>3. BasicBlockOK(c[b], n)
  BY DEF CodeOK
<1>4. e.fn = c[b].fn /\ e.ins = s
  BY <1>2, <1>3 DEF BasicBlockOK
<1>5. /\ Len(c[b].ins) \in Nat /\ Len(s) = Len(c[b].ins) + 1 /\ s[Len(c[b].ins) + 1] = x
      /\ \A i \in 1..Len(c[b].ins) : s[i] = c[b].ins[i]
  BY <1>1, <1>3, Appended, SeqFacts DEF BasicBlockOK
<1>6. Emit(c, b, x) = [c EXCEPT ![b] = e]
  BY <1>1, <1>2 DEF Emit
<1>7. /\ Len(Emit(c, b, x)) = Len(c) /\ Len(c) \in Nat
      /\ \A j \in 1..Len(c) : Emit(c, b, x)[j] = IF j = b THEN e ELSE c[j]
  BY <1>6, Changed, SeqFacts DEF CodeOK
<1> QED
  BY <1>4, <1>5, <1>7

LEMMA AttachIs ==
  ASSUME NEW c, NEW n, CodeOK(c, n), NEW b \in 1..Len(c), NEW f
  PROVE  /\ Len(c) \in Nat /\ Len(Attach(c, b, f)) = Len(c)
         /\ \A j \in 1..Len(c) : /\ Attach(c, b, f)[j].fn = IF j = b THEN f ELSE c[j].fn
                                 /\ Attach(c, b, f)[j].ins = c[j].ins
<1>1. PICK e : e = [c[b] EXCEPT !.fn = f]
  OBVIOUS
<1>2. BasicBlockOK(c[b], n)
  BY DEF CodeOK
<1>3. e.fn = f /\ e.ins = c[b].ins
  BY <1>1, <1>2 DEF BasicBlockOK
<1>4. /\ Len(Attach(c, b, f)) = Len(c) /\ Len(c) \in Nat
      /\ \A j \in 1..Len(c) : Attach(c, b, f)[j] = IF j = b THEN e ELSE c[j]
  BY <1>1, Changed, SeqFacts DEF CodeOK, Attach
<1> QED
  BY <1>3, <1>4

(* Where a block goes, whether it is closed.                               *)
LEMMA GoesWhere ==
  ASSUME NEW c, NEW n, CodeOK(c, n), NEW b \in 1..Len(c), NEW t, Goes(c, b, t)
  PROVE  t \in 1..n
BY DEF CodeOK, BasicBlockOK, TargetsOK, Goes

LEMMA EmitGoes ==
  ASSUME NEW c, NEW n, CodeOK(c, n), NEW b \in 1..Len(c), NEW x, NEW j \in 1..Len(c), NEW t,
         Goes(Emit(c, b, x), j, t)
  PROVE  Goes(c, j, t) \/ (j = b /\ Aims(x, t))
<1>0. /\ \A h \in 1..Len(c) : h # b => Emit(c, b, x)[h] = c[h]
      /\ Len(c[b].ins) \in Nat /\ Len(Emit(c, b, x)[b].ins) = Len(c[b].ins) + 1
      /\ \A i \in 1..Len(c[b].ins) : Emit(c, b, x)[b].ins[i] = c[b].ins[i]
      /\ Emit(c, b, x)[b].ins[Len(c[b].ins) + 1] = x
  BY EmitIs
<1>1. CASE j # b
  <2>1. Emit(c, b, x)[j] = c[j]
    BY <1>0, <1>1
  <2> QED
    BY <2>1 DEF Goes
<1>2. CASE j = b
  <2>1. PICK i \in 1..(Len(c[b].ins) + 1) :
          \E k \in DOMAIN Emit(c, b, x)[b].ins[i].to : Emit(c, b, x)[b].ins[i].to[k] = t
    BY <1>0, <1>2 DEF Goes
  <2>2. i \in 1..Len(c[b].ins) \/ i = Len(c[b].ins) + 1
    BY <1>0, <2>1
  <2>3. CASE i \in 1..Len(c[b].ins)
    <3>1. Emit(c, b, x)[b].ins[i] = c[b].ins[i]
      BY <1>0, <2>3
    <3> QED
      BY <1>2, <2>1, <2>3, <3>1 DEF Goes
  <2>4. CASE i = Len(c[b].ins) + 1
    BY <1>0, <1>2, <2>1, <2>4 DEF Aims
  <2> QED
    BY <2>2, <2>3, <2>4
<1> QED
  BY <1>1, <1>2

LEMMA NewGoes ==
  ASSUME NEW c, NEW n, CodeOK(c, n), NEW f, NEW j \in 1..(Len(c) + 1), NEW t,
         Goes(New(c, f), j, t)
  PROVE  j \in 1..Len(c) /\ Goes(c, j, t)
<1>1. j \in 1..Len(c) \/ j = Len(c) + 1
  BY NewIs
<1>2. j # Len(c) + 1
  BY NewIs DEF Goes
<1> QED
  BY <1>1, <1>2, NewIs DEF Goes

LEMMA EmitCloses ==
  ASSUME NEW c, NEW n, CodeOK(c, n), NEW b \in 1..Len(c), NEW x, NEW j \in 1..Len(c)
  PROVE  /\ Closed(c, j) => Closed(Emit(c, b, x), j)
         /\ x.op \in Terminators => Closed(Emit(c, b, x), b)
<1>1. Len(c[b].ins) + 1 \in 1..Len(Emit(c, b, x)[b].ins)
  BY EmitIs
<1>2. \A i \in 1..Len(c[b].ins) : /\ i \in 1..Len(Emit(c, b, x)[b].ins)
                                  /\ Emit(c, b, x)[b].ins[i] = c[b].ins[i]
  BY EmitIs
<1>3. Emit(c, b, x)[b].ins[Len(c[b].ins) + 1] = x /\ (j # b => Emit(c, b, x)[j] = c[j])
  BY EmitIs
<1>4. x.op \in Terminators => Closed(Emit(c, b, x), b)
  BY <1>1, <1>3 DEF Closed
<1>5. CASE j # b
  BY <1>3, <1>4, <1>5 DEF Closed
<1>6. CASE j = b
  BY <1>2, <1>4, <1>6 DEF Closed
<1> QED
  BY <1>5, <1>6

-----------------------------------------------------------------------------
(* Code under way in function f: b is a block of it; t can be branched to. *)

Own(c, f, b) == b \in 1..Len(c) /\ c[b].fn = f
Leads(c, f, P, t) ==
  /\ t \in 1..Len(c) /\ Later(c, t, f)
  /\ c[t].fn = f \/ (c[t].fn = Detached /\ t \in P)
Sane(c, f, P, Q) ==
  /\ CodeOK(c, Len(c)) /\ Len(c) \in Nat /\ f \in FnSet /\ f # Detached
  /\ JumpOK(c, f, P) /\ ClosedBut(c, Q)

(* Blocks stay in the function they are in; one that is in none may come   *)
(* into f.                                                                 *)
Grew(c, d, f) ==
  /\ Len(c) \in Nat /\ Len(d) \in Nat /\ Len(c) <= Len(d)
  /\ \A b \in 1..Len(c) : d[b].fn = c[b].fn \/ (c[b].fn = Detached /\ d[b].fn = f)

LEMMA Keeps ==
  ASSUME NEW c, NEW d, NEW f, Grew(c, d, f), f # Detached
  PROVE  /\ \A b : Own(c, f, b) => Own(d, f, b)
         /\ \A t \in 1..Len(c) : Later(c, t, f) => Later(d, t, f)
         /\ \A t, P : Leads(c, f, P, t) => Leads(d, f, P, t)
<1>1. \A b \in 1..Len(c) : b \in 1..Len(d)
  BY DEF Grew
<1>2. \A b \in 1..Len(c) : c[b].fn = f => d[b].fn = f
  BY DEF Grew
<1>3. \A t \in 1..Len(c) : Later(c, t, f) => Later(d, t, f)
  BY <1>1, <1>2 DEF Later
<1>4. ASSUME NEW t, NEW P, Leads(c, f, P, t) PROVE Leads(d, f, P, t)
  BY <1>1, <1>2, <1>3, <1>4 DEF Leads, Grew
<1> QED
  BY <1>1, <1>2, <1>3, <1>4 DEF Own

LEMMA GrewOn ==
  ASSUME NEW c, NEW d, NEW e, NEW f, Grew(c, d, f), Grew(d, e, f)
  PROVE  Grew(c, e, f)
<1>1. \A b \in 1..Len(c) : b \in 1..Len(d)
  BY DEF Grew
<1> QED
  BY <1>1 DEF Grew

LEMMA SaneMore ==
  ASSUME NEW c, NEW f, NEW P, NEW Q, Sane(c, f, P, Q), NEW R, NEW S,
         \A t \in P : t \in R \/ (t \in 1..Len(c) /\ c[t].fn = f), \A b \in Q : b \in S
  PROVE  Sane(c, f, R, S)
<1>1. JumpOK(c, f, R)
  BY DEF Sane, JumpOK
<1>2. ClosedBut(c, S)
  BY DEF Sane, ClosedBut
<1> QED
  BY <1>1, <1>2 DEF Sane

(* A new block, in the function or in none.                                *)
LEMMA SaneNew ==
  ASSUME NEW c, NEW f, NEW P, NEW Q, Sane(c, f, P, Q), NEW n \in Nat, n = Len(c),
         NEW g \in {Detached, f}
  PROVE  /\ Sane(New(c, g), f, P, IF g = f THEN Q \cup {n + 1} ELSE Q)
         /\ Len(New(c, g)) = n + 1 /\ Grew(c, New(c, g), f)
         /\ New(c, g)[n + 1].fn = g
         /\ \A b : Own(c, f, b) => Later(New(c, g), n + 1, f)
<1>1. CodeOK(c, n) /\ f \in FnSet /\ f # Detached /\ g \in FnSet
  BY DEF Sane, FnSet
<1> DEFINE d == New(c, g)
<1>2. /\ Len(d) = n + 1 /\ d[n + 1].fn = g /\ Len(d[n + 1].ins) = 0
      /\ \A b \in 1..n : d[b] = c[b]
  BY <1>1, NewIs
<1>3. CodeOK(d, n + 1)
  BY <1>1, <1>2, NewBlock, Wider
<1>4. \A b \in 1..(n + 1) : b \in 1..n \/ b = n + 1
  OBVIOUS
<1>5. \A b \in 1..n : b \in 1..(n + 1) /\ b < n + 1
  OBVIOUS
<1>6. Grew(c, d, f)
  BY <1>2, <1>5 DEF Grew
<1>7. ASSUME NEW b \in 1..(n + 1), NEW t, Goes(d, b, t)
      PROVE  b \in 1..n /\ Goes(c, b, t) /\ t \in 1..n
  BY <1>1, <1>7, NewGoes, GoesWhere
<1>8. \A h : \A t \in 1..n : Later(c, t, h) => Later(d, t, h)
  BY <1>2, <1>5 DEF Later
<1> HIDE DEF d
<1>9. JumpOK(d, f, P)
  <2>1. JumpOK(c, f, P)
    BY DEF Sane
  <2>2. ASSUME NEW b \in 1..(n + 1), NEW t \in 1..(n + 1), Goes(d, b, t)
        PROVE  /\ d[b].fn # Detached /\ Later(d, t, d[b].fn)
               /\ \/ d[t].fn = d[b].fn
                  \/ d[t].fn = Detached /\ d[b].fn = f /\ t \in P
    <3>1. b \in 1..n /\ t \in 1..n /\ Goes(c, b, t)
      BY <1>7, <2>2
    <3> QED
      BY <1>2, <1>8, <2>1, <3>1 DEF JumpOK
  <2> QED
    BY <1>2, <2>2 DEF JumpOK
<1>10. ClosedBut(d, IF g = f THEN Q \cup {n + 1} ELSE Q)
  <2>1. \A b \in 1..n : Closed(c, b) => Closed(d, b)
    BY <1>2 DEF Closed
  <2>2. ClosedBut(c, Q)
    BY DEF Sane
  <2>3. \A i : ~(i \in 1..0)
    OBVIOUS
  <2> QED
    BY <1>2, <1>4, <2>1, <2>2, <2>3 DEF ClosedBut
<1>11. \A b : Own(c, f, b) => Later(d, n + 1, f)
  BY <1>2, <1>5 DEF Own, Later
<1> QED
  BY <1>1, <1>2, <1>3, <1>6, <1>9, <1>10, <1>11 DEF Sane, d

(* An instruction, perhaps one that leads to other blocks.                 *)
LEMMA SaneEmit ==
  ASSUME NEW c, NEW f, NEW P, NEW Q, Sane(c, f, P, Q), NEW b, Own(c, f, b),
         NEW x, x.op # "unreachable", \A k \in DOMAIN x.to : Leads(c, f, P, x.to[k])
  PROVE  /\ Sane(Emit(c, b, x), f, P, IF x.op \in Terminators THEN Q \ {b} ELSE Q)
         /\ Len(Emit(c, b, x)) = Len(c) /\ Grew(c, Emit(c, b, x), f)
         /\ x.op \in Terminators => Closed(Emit(c, b, x), b)
<1>0. PICK n \in Nat : n = Len(c) /\ CodeOK(c, n)
  BY DEF Sane
<1>1. b \in 1..n /\ c[b].fn = f /\ f \in FnSet /\ f # Detached
  BY <1>0 DEF Own, Sane
<1> DEFINE d == Emit(c, b, x)
<1>2. TargetsOK(x, n)
  BY <1>0 DEF TargetsOK, Leads
<1>3. CodeOK(d, n) /\ Len(d) = n
  BY <1>0, <1>1, <1>2, Emitted
<1>4. /\ \A j \in 1..n : d[j].fn = c[j].fn
      /\ \A j \in 1..n : j # b => d[j] = c[j]
      /\ Len(c[b].ins) \in Nat /\ Len(d[b].ins) = Len(c[b].ins) + 1
      /\ \A i \in 1..Len(c[b].ins) : d[b].ins[i] = c[b].ins[i]
      /\ d[b].ins[Len(c[b].ins) + 1] = x
  BY <1>0, <1>1, EmitIs
<1>5. ASSUME NEW j \in 1..n, NEW t, Goes(d, j, t)
      PROVE  Goes(c, j, t) \/ (j = b /\ Aims(x, t))
  <2>1. j \in 1..Len(c) /\ b \in 1..Len(c) /\ CodeOK(c, n)
    BY <1>0, <1>1
  <2> QED
    BY <1>5, <2>1, EmitGoes
<1>6. /\ \A j \in 1..n : Closed(c, j) => Closed(d, j)
      /\ x.op \in Terminators => Closed(d, b)
  BY <1>0, <1>1, EmitCloses
<1> HIDE DEF d
<1>7. \A h : \A t \in 1..n : Later(c, t, h) => Later(d, t, h)
  BY <1>0, <1>3, <1>4 DEF Later
<1>8. JumpOK(d, f, P)
  <2>1. JumpOK(c, f, P)
    BY DEF Sane
  <2>2. ASSUME NEW j \in 1..n, NEW t \in 1..n, Goes(d, j, t)
        PROVE  /\ d[j].fn # Detached /\ Later(d, t, d[j].fn)
               /\ \/ d[t].fn = d[j].fn
                  \/ d[t].fn = Detached /\ d[j].fn = f /\ t \in P
    <3>1. CASE Goes(c, j, t)
      BY <1>0, <1>4, <1>7, <2>1, <3>1 DEF JumpOK
    <3>2. CASE j = b /\ Aims(x, t)
      <4>1. Leads(c, f, P, t)
        BY <3>2 DEF Aims
      <4> QED
        BY <1>0, <1>1, <1>4, <1>7, <3>2, <4>1 DEF Leads
    <3> QED
      BY <1>5, <2>2, <3>1, <3>2
  <2> QED
    BY <1>3, <2>2 DEF JumpOK
<1>9. ClosedBut(d, IF x.op \in Terminators THEN Q \ {b} ELSE Q)
  <2>1. ClosedBut(c, Q)
    BY DEF Sane
  <2>2. ASSUME NEW j \in 1..n
        PROVE  /\ d[j].fn # Detached /\ tree[d[j].fn].type = "void" =>
                    Closed(d, j) \/ j \in IF x.op \in Terminators THEN Q \ {b} ELSE Q
    BY <1>0, <1>4, <1>6, <2>1 DEF ClosedBut
  <2>3. ASSUME NEW j \in 1..n, NEW i \in 1..Len(d[j].ins) PROVE d[j].ins[i].op # "unreachable"
    <3>1. CASE j # b
      BY <1>0, <1>4, <2>1, <3>1 DEF ClosedBut
    <3>2. CASE j = b
      <4>1. i \in 1..Len(c[b].ins) \/ i = Len(c[b].ins) + 1
        BY <1>4, <3>2
      <4> QED
        BY <1>0, <1>1, <1>4, <2>1, <3>2, <4>1 DEF ClosedBut
    <3> QED
      BY <3>1, <3>2
  <2> QED
    BY <1>3, <2>2, <2>3 DEF ClosedBut
<1>10. Grew(c, d, f)
  BY <1>0, <1>3, <1>4 DEF Grew
<1> QED
  BY <1>0, <1>1, <1>3, <1>6, <1>8, <1>9, <1>10 DEF Sane, d

(* A branch to a block that comes next and is in the function.             *)
LEMMA SaneBegin ==
  ASSUME NEW c, NEW f, NEW P, NEW Q, Sane(c, f, P, Q), NEW n \in Nat, n = Len(c),
         NEW b, Own(c, f, b)
  PROVE  LET d == New(Emit(c, b, Br(n + 1)), f)
         IN /\ Sane(d, f, P, (Q \ {b}) \cup {n + 1})
            /\ Len(d) = n + 1 /\ Grew(c, d, f) /\ d[n + 1].fn = f /\ Later(d, n + 1, f)
<1>0. CodeOK(c, n) /\ b \in 1..n /\ c[b].fn = f /\ f \in FnSet /\ f # Detached
  BY DEF Sane, Own
<1>1. PICK x : x = Br(n + 1)
  OBVIOUS
<1>2. /\ x.op = "br" /\ DOMAIN x.to = {1} /\ x.to[1] = n + 1
  BY <1>1 DEF Br, Instr
<1> DEFINE e == Emit(c, b, x)
           d == New(e, f)
<1>3. CodeOK(e, n + 1) /\ Len(e) = n
  <2>1. TargetsOK(x, n + 1)
    BY <1>2 DEF TargetsOK
  <2>2. CodeOK(c, n + 1)
    BY <1>0, Wider
  <2> QED
    BY <1>0, <2>1, <2>2, Emitted
<1>4. /\ \A j \in 1..n : e[j].fn = c[j].fn
      /\ \A j \in 1..n : j # b => e[j] = c[j]
      /\ Len(c[b].ins) \in Nat /\ Len(e[b].ins) = Len(c[b].ins) + 1
      /\ \A i \in 1..Len(c[b].ins) : e[b].ins[i] = c[b].ins[i]
      /\ e[b].ins[Len(c[b].ins) + 1] = x
  BY <1>0, EmitIs
<1>5. ASSUME NEW j \in 1..n, NEW t, Goes(e, j, t)
      PROVE  Goes(c, j, t) \/ (j = b /\ Aims(x, t))
  <2>1. j \in 1..Len(c) /\ b \in 1..Len(c) /\ CodeOK(c, n)
    BY <1>0
  <2> QED
    BY <1>5, <2>1, EmitGoes
<1>6. /\ \A j \in 1..n : Closed(c, j) => Closed(e, j)
      /\ x.op \in Terminators => Closed(e, b)
  BY <1>0, EmitCloses
<1> HIDE DEF e
<1>7. /\ Len(d) = n + 1 /\ d[n + 1].fn = f /\ Len(d[n + 1].ins) = 0
      /\ \A j \in 1..n : d[j] = e[j]
  BY <1>3, NewIs
<1>8. CodeOK(d, n + 1)
  BY <1>0, <1>3, NewBlock
<1>9. \A t : \A j \in 1..(n + 1) : Goes(d, j, t) => j \in 1..n /\ Goes(e, j, t)
  BY <1>3, NewGoes
<1> HIDE DEF d
<1>10. /\ \A j \in 1..(n + 1) : j \in 1..n \/ j = n + 1
       /\ \A j \in 1..n : j \in 1..(n + 1) /\ j < n + 1
  OBVIOUS
<1>11. \A j \in 1..n : d[j].fn = c[j].fn
  BY <1>4, <1>7
<1>12. \A h : \A t \in 1..n : Later(c, t, h) => Later(d, t, h)
  BY <1>7, <1>10, <1>11 DEF Later
<1>13. Later(d, n + 1, f)
  BY <1>0, <1>7, <1>10, <1>11 DEF Later
<1>14. JumpOK(d, f, P)
  <2>1. JumpOK(c, f, P)
    BY DEF Sane
  <2>2. ASSUME NEW j \in 1..(n + 1), NEW t \in 1..(n + 1), Goes(d, j, t)
        PROVE  /\ d[j].fn # Detached /\ Later(d, t, d[j].fn)
               /\ \/ d[t].fn = d[j].fn
                  \/ d[t].fn = Detached /\ d[j].fn = f /\ t \in P
    <3>1. j \in 1..n /\ (Goes(c, j, t) \/ (j = b /\ t = n + 1))
      BY <1>2, <1>5, <1>9, <2>2 DEF Aims
    <3>2. CASE Goes(c, j, t)
      <4>1. t \in 1..n
        BY <1>0, <3>1, <3>2, GoesWhere
      <4> QED
        BY <1>11, <1>12, <2>1, <3>1, <3>2, <4>1 DEF JumpOK
    <3>3. CASE j = b /\ t = n + 1
      BY <1>0, <1>7, <1>11, <1>13, <3>3
    <3> QED
      BY <3>1, <3>2, <3>3
  <2> QED
    BY <1>7, <2>2 DEF JumpOK
<1>15. ClosedBut(d, (Q \ {b}) \cup {n + 1})
  <2>1. ClosedBut(c, Q)
    BY DEF Sane
  <2>2. \A j \in 1..n : Closed(e, j) => Closed(d, j)
    BY <1>7 DEF Closed
  <2>3. Closed(d, b)
    BY <1>0, <1>2, <1>6, <2>2 DEF Terminators
  <2>4. ASSUME NEW j \in 1..(n + 1)
        PROVE  d[j].fn # Detached /\ tree[d[j].fn].type = "void" =>
                 Closed(d, j) \/ j \in (Q \ {b}) \cup {n + 1}
    BY <1>6, <1>10, <1>11, <2>1, <2>2, <2>3 DEF ClosedBut
  <2>5. ASSUME NEW j \in 1..(n + 1), NEW i \in 1..Len(d[j].ins)
        PROVE  d[j].ins[i].op # "unreachable"
    <3>0. ~(j = n + 1)
      BY <1>7
    <3>1. CASE j # b
      BY <1>4, <1>7, <1>10, <2>1, <3>0, <3>1 DEF ClosedBut
    <3>2. CASE j = b
      <4>1. i \in 1..Len(c[b].ins) \/ i = Len(c[b].ins) + 1
        BY <1>0, <1>4, <1>7, <3>2
      <4>2. d[b].ins = e[b].ins
        BY <1>0, <1>7
      <4> QED
        BY <1>0, <1>2, <1>4, <2>1, <3>2, <4>1, <4>2 DEF ClosedBut
    <3> QED
      BY <3>1, <3>2
  <2> QED
    BY <1>7, <2>4, <2>5 DEF ClosedBut
<1>16. Grew(c, d, f)
  BY <1>7, <1>10, <1>11 DEF Grew
<1> QED
  BY <1>0, <1>1, <1>7, <1>8, <1>13, <1>14, <1>15, <1>16 DEF Sane, d, e

LEMMA BeginNext ==
  ASSUME NEW c, NEW f, NEW P, NEW Q, Sane(c, f, P, Q), NEW n \in Nat, n = Len(c),
         NEW k, Own(c, f, k), NEW m, m = n + 1, NEW d, d = New(Emit(c, k, Br(m)), f)
  PROVE  /\ Sane(d, f, P, (Q \ {k}) \cup {m})
         /\ Len(d) = m /\ Grew(c, d, f) /\ d[m].fn = f /\ Later(d, m, f)
<1> DEFINE w == New(Emit(c, k, Br(n + 1)), f)
<1>1. /\ Sane(w, f, P, (Q \ {k}) \cup {n + 1})
      /\ Len(w) = n + 1 /\ Grew(c, w, f) /\ w[n + 1].fn = f /\ Later(w, n + 1, f)
  BY SaneBegin
<1>2. w = d
  OBVIOUS
<1> HIDE DEF w
<1> QED
  BY <1>1, <1>2

(* A block is put into the function.                                       *)
LEMMA SaneAttach ==
  ASSUME NEW c, NEW f, NEW P, NEW Q, Sane(c, f, P, Q), NEW t \in 1..Len(c),
         c[t].fn \in {Detached, f}
  PROVE  /\ Sane(Attach(c, t, f), f, P \ {t}, Q \cup {t})
         /\ Len(Attach(c, t, f)) = Len(c) /\ Grew(c, Attach(c, t, f), f)
         /\ Own(Attach(c, t, f), f, t)
<1>0. PICK n \in Nat : n = Len(c) /\ CodeOK(c, n)
  BY DEF Sane
<1>1. t \in 1..n /\ f \in FnSet /\ f # Detached
  BY <1>0 DEF Sane
<1> DEFINE d == Attach(c, t, f)
<1>2. CodeOK(d, n) /\ Len(d) = n
  BY <1>0, <1>1, Attached
<1>3. /\ d[t].fn = f
      /\ \A j \in 1..n : /\ j # t => d[j].fn = c[j].fn
                         /\ d[j].ins = c[j].ins
  BY <1>0, <1>1, AttachIs
<1> HIDE DEF d
<1>4. \A j \in 1..n : /\ \A u : Goes(d, j, u) <=> Goes(c, j, u)
                      /\ Closed(d, j) <=> Closed(c, j)
  BY <1>3 DEF Goes, Closed
<1>5. \A j \in 1..n : c[j].fn # Detached => d[j].fn = c[j].fn
  BY <1>3
<1>6. \A h : \A u \in 1..n : Later(c, u, h) /\ h # Detached => Later(d, u, h)
  BY <1>0, <1>2, <1>5 DEF Later
<1>7. JumpOK(d, f, P \ {t})
  <2>1. JumpOK(c, f, P)
    BY DEF Sane
  <2>2. ASSUME NEW j \in 1..n, NEW u \in 1..n, Goes(d, j, u)
        PROVE  /\ d[j].fn # Detached /\ Later(d, u, d[j].fn)
               /\ \/ d[u].fn = d[j].fn
                  \/ d[u].fn = Detached /\ d[j].fn = f /\ u \in P \ {t}
    <3>1. /\ c[j].fn # Detached /\ Later(c, u, c[j].fn)
          /\ \/ c[u].fn = c[j].fn
             \/ c[u].fn = Detached /\ c[j].fn = f /\ u \in P
      BY <1>0, <1>4, <2>1, <2>2 DEF JumpOK
    <3>2. d[j].fn = c[j].fn /\ Later(d, u, d[j].fn)
      BY <1>5, <1>6, <3>1
    <3> QED
      BY <1>3, <1>5, <3>1, <3>2
  <2> QED
    BY <1>2, <2>2 DEF JumpOK
<1>8. ClosedBut(d, Q \cup {t})
  <2>1. ClosedBut(c, Q)
    BY DEF Sane
  <2> QED
    BY <1>0, <1>2, <1>3, <1>4, <2>1 DEF ClosedBut
<1>9. Grew(c, d, f)
  BY <1>0, <1>1, <1>2, <1>3 DEF Grew
<1>10. Own(d, f, t)
  BY <1>1, <1>2, <1>3 DEF Own
<1> QED
  BY <1>0, <1>1, <1>2, <1>7, <1>8, <1>9, <1>10 DEF Sane, d

-----------------------------------------------------------------------------
(* The visits under way: what entering and returning does to them, and to  *)
(* what the visits below the top have saved.                               *)

Lower == UNION {Puts(i) : i \in 1..(Len(visits) - 1)}
LowerOpen == UNION {Owes(i) : i \in 1..(Len(visits) - 1)}

LEMMA FrameIs ==
  ASSUME tree' = tree, NEW CONSTANT i, NEW CONSTANT p, NEW CONSTANT e, NEW CONSTANT bb,
         visits'[i].at = p, visits'[i].bb = bb, Begun(i)' = e
  PROVE  /\ Puts(i)' = PutsOf(p, bb) /\ Owes(i)' = OwesOf(p, e, bb)
         /\ HoldsAt(i)' <=> Holds(code', Func', p, e, bb)
         /\ StandsOK(i)' <=> (Stands(Kind(p), e) # 0 => cur' = bb[Stands(Kind(p), e)])
<1>1. Kind(p)' = Kind(p) /\ HasElse(p)' = HasElse(p)
  BY DEF Kind, HasElse, Child
<1>2. Puts(i)' = PutsOf(p, bb)
  BY <1>1 DEF Puts, PutsOf, Kind, HasElse, Child
<1>3. Owes(i)' = OwesOf(p, e, bb)
  BY <1>1 DEF Owes, OwesOf, Kind
<1>4. HoldsAt(i)' <=> Holds(code', Func', p, e, bb)
  BY <1>1 DEF HoldsAt, Holds, Later, Kind, Detached, Root
<1>5. StandsOK(i)' <=> (Stands(Kind(p), e) # 0 => cur' = bb[Stands(Kind(p), e)])
  BY <1>1 DEF StandsOK, Kind
<1> QED
  BY <1>2, <1>3, <1>4, <1>5

LEMMA EnterFrames ==
  ASSUME IInv, Running, Top.pt < Kids(At), NEW bb, Enter(Top.pt + 1, bb),
         NEW n \in Nat, n = Len(visits)
  PROVE  /\ n >= 1 /\ Len(visits') = n + 1
         /\ \A i \in 1..(n - 1) : visits'[i] = visits[i] /\ Begun(i)' = Begun(i)
         /\ visits'[n].at = At /\ visits'[n].bb = bb /\ Begun(n)' = Top.pt + 1
         /\ visits'[n + 1].at = Child(At, Top.pt + 1) /\ Begun(n + 1)' = 0
         /\ visits'[n + 1].bb = <<>> /\ visits'[n + 1].pt = 0
<1>0. n \in Nat \ {0} /\ n \in 1..n /\ Top = visits[n]
  BY TopVisit
<1>1. PICK v, w : v = [Top EXCEPT !.bb = bb] /\ w = Visit(Child(At, Top.pt + 1))
  OBVIOUS
<1>2. /\ v.at = At /\ v.pt = Top.pt /\ v.bb = bb
      /\ w.at = Child(At, Top.pt + 1) /\ w.pt = 0 /\ w.bb = <<>>
  BY <1>1, TopVisit DEF Visit, At
<1>3. PICK old : old = [visits EXCEPT ![n] = v]
  OBVIOUS
<1>4. visits' = Append(old, w)
  BY <1>0, <1>1, <1>3 DEF Enter
<1>5. /\ IsSeq(old) /\ Len(old) = n
      /\ \A k \in 1..n : old[k] = IF k = n THEN v ELSE visits[k]
  BY <1>0, <1>3, TopVisit, Changed
<1>6. /\ Len(visits') = n + 1 /\ visits'[n + 1] = w
      /\ \A k \in 1..n : visits'[k] = old[k]
  BY <1>4, <1>5, Appended
<1>7. \A i \in 1..(n - 1) : i \in 1..n /\ i # n /\ i < n /\ i < n + 1
  BY <1>0
<1>8. \A i \in 1..(n - 1) : visits'[i] = visits[i] /\ Begun(i)' = Begun(i)
  BY <1>5, <1>6, <1>7 DEF Begun
<1>9. visits'[n] = v
  BY <1>0, <1>5, <1>6
<1>10. Begun(n)' = Top.pt + 1 /\ Begun(n + 1)' = 0
  BY <1>0, <1>2, <1>6, <1>9, TopVisit DEF Begun
<1> QED
  BY <1>0, <1>2, <1>6, <1>8, <1>9, <1>10

LEMMA ReturnFrames ==
  ASSUME IInv, Running, Return, NEW n \in Nat, Len(visits) = n + 1, n >= 1
  PROVE  /\ Len(visits') = n
         /\ \A i \in 1..n : /\ visits'[i].at = visits[i].at /\ visits'[i].bb = visits[i].bb
                            /\ Begun(i)' = Begun(i)
         /\ Top' = visits'[n] /\ visits'[n].pt = visits[n].pt + 1
<1>1. PICK f, v : f = Front(visits) /\ v = [visits[n] EXCEPT !.pt = @ + 1]
  OBVIOUS
<1>2. /\ Len(visits) - 1 = n /\ n \in 1..n /\ n \in 1..Len(visits) /\ n \in 1..(Len(visits) - 1)
      /\ n < n + 1 /\ ~(n < n)
  OBVIOUS
<1>3. IsSeq(f) /\ Len(f) = n /\ \A k \in 1..n : f[k] = visits[k]
  <2>1. IsSeq(visits) /\ visits # <<>>
    BY DEF IInv, VisitsInv
  <2>2. /\ IsSeq(Front(visits)) /\ Len(Front(visits)) = Len(visits) - 1
        /\ \A k \in 1..(Len(visits) - 1) : Front(visits)[k] = visits[k]
    BY <2>1, Shortened
  <2> QED
    BY <1>1, <1>2, <2>2
<1>4. VisitOK(n)
  BY <1>2 DEF IInv, VisitsInv
<1>5. v.at = visits[n].at /\ v.pt = visits[n].pt + 1 /\ v.bb = visits[n].bb /\ visits[n].pt \in Nat
  BY <1>1, <1>4 DEF VisitOK
<1>6. visits' = [f EXCEPT ![n] = v]
  <2>1. visits' = [f EXCEPT ![n].pt = @ + 1]
    BY <1>1, <1>2 DEF Return
  <2> QED
    BY <1>1, <1>2, <1>3, <2>1
<1>7. /\ IsSeq(visits') /\ Len(visits') = n
      /\ \A k \in 1..n : visits'[k] = IF k = n THEN v ELSE visits[k]
  <2>1. IsSeq([f EXCEPT ![n] = v]) /\ Len([f EXCEPT ![n] = v]) = n
    <3>1. IsSeq(f) /\ n \in 1..Len(f)
      BY <1>2, <1>3
    <3>2. IsSeq([f EXCEPT ![n] = v]) /\ Len([f EXCEPT ![n] = v]) = Len(f)
      BY <3>1, Changed, Zenon
    <3> QED
      BY <1>3, <3>2
  <2>2. \A k \in 1..n : [f EXCEPT ![n] = v][k] = IF k = n THEN v ELSE f[k]
    BY <1>3, SeqFacts
  <2> QED
    BY <1>3, <1>6, <2>1, <2>2
<1>8. visits'[n] = v /\ Top' = v
  BY <1>2, <1>7 DEF Top, Last
<1>9. \A i \in 1..n : visits'[i].at = visits[i].at /\ visits'[i].bb = visits[i].bb
  BY <1>5, <1>7
<1>10. ASSUME NEW i \in 1..n PROVE Begun(i)' = Begun(i)
  <2>1. i < n \/ i = n
    OBVIOUS
  <2>2. CASE i < n
    BY <1>2, <1>7, <2>2 DEF Begun
  <2>3. CASE i = n
    BY <1>2, <1>5, <1>7, <1>8, <2>3 DEF Begun
  <2> QED
    BY <2>1, <2>2, <2>3
<1> QED
  BY <1>5, <1>7, <1>8, <1>9, <1>10

(* While a visit still stands where it saved its block, only values are    *)
(* visited below it, and values make no blocks.                            *)
LEMMA Quiet ==
  ASSUME IInv, Running, ChainInv, NEW i \in 1..(Len(visits) - 1),
         Stands(Kind(visits[i].at), Begun(i)) # 0
  PROVE  Kind(At) \notin Controls
<1>0. PICK n \in Nat \ {0} : n = Len(visits) /\ Top = visits[n] /\ tree \in Programs
  BY TopVisit DEF IInv
<1>1. i \in 1..n /\ i + 1 \in 1..n /\ i < n
  BY <1>0
<1>2. PICK p, e : p = visits[i].at /\ e = visits[i].pt
  OBVIOUS
<1>3. /\ p \in Paths /\ e \in Nat /\ e + 1 \in 1..Kids(p)
      /\ visits[i + 1].at = Child(p, e + 1) /\ Begun(i) = e + 1
  BY <1>0, <1>1, <1>2 DEF IInv, VisitsInv, VisitOK, Begun, ChainInv, Child
<1>4. PICK q : q = Child(p, e + 1) /\ q \in Paths
  BY <1>0, <1>3, TreeFacts
<1>5. Kind(q) \in Values
  <2>1. (Kind(p) = "while" /\ e + 1 = 1) \/ (Kind(p) = "for" /\ e + 1 # 3)
    BY <1>2, <1>3 DEF Stands
  <2> QED
    BY <1>0, <1>3, <1>4, <2>1, KindFacts
<1>6. CASE i + 1 = n
  BY <1>0, <1>3, <1>4, <1>5, <1>6 DEF At, Values, Expressions, Controls
<1>7. CASE i + 1 < n
  <2>1. PICK j : j = i + 1 /\ j \in 1..n /\ j < n /\ j + 1 \in 1..n /\ j \in 1..(n - 1)
    BY <1>0, <1>1, <1>7
  <2>2. PICK d : d = visits[j].pt
    OBVIOUS
  <2>3. /\ d \in Nat /\ d + 1 \in 1..Kids(q)
        /\ visits[j + 1].at = Child(q, d + 1)
    <3>1. VisitOK(j) /\ visits[j].at = q
      BY <1>0, <1>3, <1>4, <2>1 DEF IInv, VisitsInv
    <3>2. visits[j + 1].at = Child(visits[j].at, d + 1)
      BY <1>0, <2>1, <2>2 DEF ChainInv, Child
    <3>3. Begun(j) = d + 1
      BY <1>0, <2>1, <2>2 DEF Begun
    <3>4. d \in Nat /\ d + 1 <= Kids(q) /\ Kids(q) \in Nat
      BY <1>0, <1>4, <2>2, <3>1, <3>3, TreeFacts DEF VisitOK
    <3> QED
      BY <3>1, <3>2, <3>4
  <2>4. Kind(q) \notin Leaves
    BY <1>0, <1>4, <2>3, KindFacts
  <2>5. Kind(q) = "let"
    BY <1>5, <2>4 DEF Values, Leaves
  <2>6. PICK r : r = Child(q, d + 1) /\ r \in Paths /\ Kind(r) \in Expressions
    BY <1>0, <1>4, <2>3, <2>5, TreeFacts, KindFacts
  <2>7. CASE j + 1 = n
    BY <1>0, <2>3, <2>6, <2>7 DEF At, Expressions, Controls
  <2>8. CASE j + 1 < n
    <3>1. PICK l : l = j + 1 /\ l \in 1..n /\ l < n
      BY <2>1, <2>8
    <3>2. visits[l].pt \in Nat /\ visits[l].pt + 1 <= Kids(r)
      BY <1>0, <2>3, <2>6, <3>1 DEF IInv, VisitsInv, VisitOK, Begun
    <3>3. Kids(r) = 0
      BY <1>0, <2>6, KindFacts DEF Leaves
    <3> QED
      BY <3>2, <3>3
  <2> QED
    BY <2>1, <2>7, <2>8
<1> QED
  BY <1>0, <1>1, <1>6, <1>7

LEMMA HoldsStill ==
  ASSUME NEW c, NEW d, NEW f, Grew(c, d, f), f # Detached, NEW p, NEW e, NEW bb,
         Holds(c, f, p, e, bb), \A k \in 1..Len(bb) : bb[k] \in 1..Len(c)
  PROVE  Holds(d, f, p, e, bb)
<1>1. \A t \in 1..Len(c) : Later(c, t, f) => Later(d, t, f)
  BY Keeps
<1>2. \A b \in 1..Len(c) : /\ c[b].fn = f => d[b].fn = f
                           /\ c[b].fn \in {Detached, f} => d[b].fn \in {Detached, f}
  BY DEF Grew
<1> QED
  BY <1>1, <1>2 DEF Holds

LEMMA Indoors ==
  ASSUME IInv, Running, FlowInv,
         Kind(At) \notin AtTop \cup {"root"} \/ (Kind(At) = "def" /\ Top.pt > 0)
  PROVE  /\ InBody /\ Len(visits) >= 2 /\ At # Root
         /\ Kind(At) \notin AtTop \cup {"root"} => Len(visits) >= 3
<1>0. PICK n \in Nat \ {0} : n = Len(visits) /\ Top = visits[n]
  BY TopVisit
<1>1. CASE Kind(At) \notin AtTop \cup {"root"}
  <2>1. n # 1 /\ n # 2 /\ At # Root
    BY <1>0, <1>1, TopVisit
  <2>2. n >= 3 /\ n >= 2 /\ 2 \in 1..n /\ 2 < n
    BY <2>1
  <2>3. visits[2].pt \in Nat /\ Kind(visits[2].at) = "def"
    BY <1>0, <2>2 DEF FlowInv, BodyInv, IInv, VisitsInv, VisitOK
  <2>4. Begun(2) = visits[2].pt + 1
    BY <1>0, <2>2 DEF Begun
  <2> QED
    BY <1>0, <2>1, <2>2, <2>3, <2>4 DEF InBody
<1>2. CASE Kind(At) = "def" /\ Top.pt > 0
  <2>1. n = 2
    BY <1>0, <1>2, TopVisit DEF AtTop
  <2>2. Begun(2) = Top.pt
    BY <1>0, <2>1, TopVisit DEF Begun
  <2> QED
    BY <1>0, <1>2, <2>1, <2>2, TopVisit DEF InBody, At, AtTop
<1> QED
  BY <1>1, <1>2

LEMMA InFlow ==
  ASSUME IInv, Running, FlowInv, InBody
  PROVE  /\ Len(visits) >= 2
         /\ Sane(code, Func, Lower \cup PutsOf(At, Top.bb),
                 LowerOpen \cup OwesOf(At, Top.pt, Top.bb) \cup {cur})
         /\ Own(code, Func, cur)
         /\ Holds(code, Func, At, Top.pt, Top.bb)
         /\ Stands(Kind(At), Top.pt) # 0 => cur = Top.bb[Stands(Kind(At), Top.pt)]
<1>0. PICK n \in Nat \ {0} : n = Len(visits) /\ Top = visits[n] /\ n \in 1..n
  BY TopVisit
<1>1. n >= 2
  BY <1>0 DEF InBody
<1>2. Begun(n) = Top.pt
  BY <1>0, TopVisit DEF Begun
<1>3. Puts(n) = PutsOf(At, Top.bb) /\ Owes(n) = OwesOf(At, Top.pt, Top.bb)
  BY <1>0, <1>2 DEF Puts, Owes, At
<1>4. CodeOK(code, Len(code)) /\ Len(code) \in Nat /\ cur \in 0..Len(code)
  BY Standing
<1>5. cur \in 1..Len(code)
  <2>1. n = 2 => visits[2].pt > 0
    BY <1>0, <1>2 DEF InBody
  <2>2. Len(visits) >= 3 \/ (Len(visits) = 2 /\ visits[2].pt > 0)
    BY <1>0, <1>1, <2>1
  <2>3. cur # 0
    BY <2>2 DEF IInv, BlockInv
  <2> QED
    BY <1>4, <2>3
<1>6. Func \in FnSet /\ Func # Detached
  <2>1. Func \in FnSet
    BY <1>4, <1>5 DEF CodeOK, BasicBlockOK, Func
  <2> QED
    BY <2>1 DEF FlowInv, BodyInv
<1>7. \A i \in 1..n : i \in 1..(n - 1) \/ i = n
  OBVIOUS
<1>8. Promised \subseteq Lower \cup PutsOf(At, Top.bb)
  BY <1>0, <1>3, <1>7 DEF Promised, Lower
<1>9. Open \subseteq LowerOpen \cup OwesOf(At, Top.pt, Top.bb) \cup {cur}
  <2>1. Owing \subseteq LowerOpen \cup Owes(n)
    BY <1>0, <1>7 DEF LowerOpen, Owing
  <2>2. Open = Owing \cup {cur}
    BY <1>0 DEF Open, Current
  <2> QED
    BY <1>3, <2>1, <2>2
<1>10. Sane(code, Func, Promised, Open)
  BY <1>4, <1>6 DEF Sane, FlowInv
<1>11. Sane(code, Func, Lower \cup PutsOf(At, Top.bb),
            LowerOpen \cup OwesOf(At, Top.pt, Top.bb) \cup {cur})
  BY <1>8, <1>9, <1>10, SaneMore
<1>12. HoldsAt(n) /\ StandsOK(n)
  BY <1>0 DEF FlowInv
<1> QED
  BY <1>0, <1>1, <1>2, <1>5, <1>11, <1>12 DEF HoldsAt, StandsOK, Own, Func, At

(* The visits below the top keep what they hold.                           *)
LEMMA LowerStays ==
  ASSUME IInv, Running, ChainInv, FlowInv, InBody, tree' = tree,
         Grew(code, code', Func), Own(code', Func, cur'),
         cur' = cur \/ Kind(At) \in Controls,
         NEW CONSTANT i \in 1..(Len(visits) - 1),
         visits'[i].at = visits[i].at, visits'[i].bb = visits[i].bb, Begun(i)' = Begun(i)
  PROVE  Puts(i)' = Puts(i) /\ Owes(i)' = Owes(i) /\ HoldsAt(i)' /\ StandsOK(i)'
<1>0. PICK n \in Nat \ {0} : n = Len(visits)
  BY TopVisit
<1>1. i \in 1..n
  BY <1>0
<1>2. PICK p, e, bb, f : p = visits[i].at /\ e = Begun(i) /\ bb = visits[i].bb /\ f = Func
  OBVIOUS
<1>3. /\ Puts(i)' = PutsOf(p, bb) /\ Owes(i)' = OwesOf(p, e, bb)
      /\ HoldsAt(i)' <=> Holds(code', Func', p, e, bb)
      /\ StandsOK(i)' <=> (Stands(Kind(p), e) # 0 => cur' = bb[Stands(Kind(p), e)])
  BY <1>2, FrameIs
<1>4. Puts(i)' = Puts(i) /\ Owes(i)' = Owes(i)
  BY <1>2, <1>3 DEF Puts, Owes
<1>5. Func' = f /\ f # Detached
  BY <1>2, InFlow DEF Own, Func, Sane
<1>6. HoldsAt(i) /\ StandsOK(i) /\ VisitOK(i)
  BY <1>0, <1>1 DEF FlowInv, IInv, VisitsInv
<1>7. HoldsAt(i)'
  <2>1. Holds(code, f, p, e, bb) /\ \A k \in 1..Len(bb) : bb[k] \in 1..Len(code)
    BY <1>2, <1>6 DEF HoldsAt, VisitOK
  <2>2. Holds(code', f, p, e, bb)
    BY <1>2, <1>5, <2>1, HoldsStill
  <2> QED
    BY <1>3, <1>5, <2>2
<1>8. StandsOK(i)'
  <2>1. Kind(At) \in Controls => Stands(Kind(p), e) = 0
    BY <1>2, Quiet
  <2>2. Stands(Kind(p), e) # 0 => cur = bb[Stands(Kind(p), e)]
    BY <1>2, <1>6 DEF StandsOK
  <2> QED
    BY <1>3, <2>1, <2>2
<1> QED
  BY <1>4, <1>7, <1>8

LEMMA ClosedSame ==
  ASSUME tree' = tree, ClosedBut(code', Open')
  PROVE  ClosedBut(code, Open)'
BY DEF ClosedBut, Closed, Detached, Root, Terminators

LEMMA FlowEnters ==
  ASSUME IInv, Running, ChainInv, FlowInv, InBody, tree' = tree, Top.pt < Kids(At),
         NEW bb, Enter(Top.pt + 1, bb),
         Grew(code, code', Func), Own(code', Func, cur'),
         cur' = cur \/ Kind(At) \in Controls,
         Sane(code', Func, Lower \cup PutsOf(At, bb),
              LowerOpen \cup OwesOf(At, Top.pt + 1, bb) \cup {cur'}),
         Holds(code', Func, At, Top.pt + 1, bb),
         Stands(Kind(At), Top.pt + 1) # 0 => cur' = bb[Stands(Kind(At), Top.pt + 1)]
  PROVE  FlowInv'
<1>0. PICK n \in Nat : n = Len(visits) /\ n >= 2 /\ Top = visits[n]
  BY TopVisit, InFlow
<1>1. /\ n >= 1 /\ Len(visits') = n + 1
      /\ \A i \in 1..(n - 1) : visits'[i] = visits[i] /\ Begun(i)' = Begun(i)
      /\ visits'[n].at = At /\ visits'[n].bb = bb /\ Begun(n)' = Top.pt + 1
      /\ visits'[n + 1].at = Child(At, Top.pt + 1) /\ Begun(n + 1)' = 0
      /\ visits'[n + 1].bb = <<>> /\ visits'[n + 1].pt = 0
  BY <1>0, EnterFrames
<1>2. PICK f, p, e, q :
        f = Func /\ p = At /\ e = Top.pt + 1 /\ q = Child(At, Top.pt + 1)
  OBVIOUS
<1>3. Func' = f /\ f # Detached
  BY <1>2, InFlow DEF Own, Func, Sane
<1>4. ASSUME NEW i \in 1..(n - 1)
      PROVE  Puts(i)' = Puts(i) /\ Owes(i)' = Owes(i) /\ HoldsAt(i)' /\ StandsOK(i)'
  BY <1>0, <1>1, LowerStays
<1>5. /\ Puts(n)' = PutsOf(p, bb) /\ Owes(n)' = OwesOf(p, e, bb)
      /\ HoldsAt(n)' /\ StandsOK(n)'
  <2>1. visits'[n].at = p /\ visits'[n].bb = bb /\ Begun(n)' = e
    BY <1>1, <1>2
  <2>2. /\ Puts(n)' = PutsOf(p, bb) /\ Owes(n)' = OwesOf(p, e, bb)
        /\ HoldsAt(n)' <=> Holds(code', Func', p, e, bb)
        /\ StandsOK(n)' <=> (Stands(Kind(p), e) # 0 => cur' = bb[Stands(Kind(p), e)])
    BY <2>1, FrameIs
  <2> QED
    BY <1>2, <1>3, <2>2
<1>6. HoldsAt(n + 1)' /\ StandsOK(n + 1)'
  <2>1. visits'[n + 1].at = q /\ visits'[n + 1].bb = <<>> /\ Begun(n + 1)' = 0
    BY <1>1, <1>2
  <2>2. /\ HoldsAt(n + 1)' <=> Holds(code', Func', q, 0, <<>>)
        /\ StandsOK(n + 1)' <=> (Stands(Kind(q), 0) # 0 => cur' = <<>>[Stands(Kind(q), 0)])
    BY <2>1, FrameIs
  <2>3. Holds(code', Func', q, 0, <<>>)
    BY NothingIsSeq DEF Holds
  <2>4. Stands(Kind(q), 0) = 0
    BY DEF Stands
  <2> QED
    BY <2>2, <2>3, <2>4
<1>7. \A i \in 1..(n + 1) : i \in 1..(n - 1) \/ i = n \/ i = n + 1
  OBVIOUS
<1>8. \A i \in 1..Len(visits') : HoldsAt(i)' /\ StandsOK(i)'
  BY <1>1, <1>4, <1>5, <1>6, <1>7
<1>9. \A t \in Lower \cup PutsOf(p, bb) : t \in Promised'
  <2>1. \A i \in 1..(n - 1) : i \in 1..(n + 1)
    OBVIOUS
  <2>2. \A t \in Lower : t \in Promised'
    BY <1>0, <1>1, <1>4, <2>1 DEF Promised, Lower
  <2>3. n \in 1..Len(visits')
    BY <1>1
  <2>4. \A t \in PutsOf(p, bb) : t \in Promised'
    BY <1>5, <2>3 DEF Promised
  <2> QED
    BY <2>2, <2>4
<1>10. InBody' /\ visits'[2].at = visits[2].at /\ Len(visits') >= 3
  <2>1. CASE n = 2
    BY <1>0, <1>1, <2>1, TopVisit DEF InBody, At, Kind
  <2>2. CASE n > 2
    <3>1. 2 \in 1..(n - 1)
      BY <2>2
    <3>2. visits'[2] = visits[2] /\ Begun(2)' = Begun(2)
      BY <1>1, <3>1
    <3> QED
      BY <1>0, <1>1, <3>2 DEF InBody, Kind
  <2> QED
    BY <1>0, <2>1, <2>2
<1>11. \A t \in LowerOpen \cup OwesOf(p, e, bb) \cup {cur'} : t \in Open'
  <2>1. \A i \in 1..(n - 1) : i \in 1..(n + 1)
    OBVIOUS
  <2>2. \A t \in LowerOpen : t \in Owing'
    BY <1>0, <1>1, <1>4, <2>1 DEF Owing, LowerOpen
  <2>3. n \in 1..Len(visits')
    BY <1>1
  <2>4. \A t \in OwesOf(p, e, bb) : t \in Owing'
    BY <1>5, <2>3 DEF Owing
  <2>5. cur' \in Current'
    BY <1>10 DEF Current
  <2>6. Open' = Owing' \cup Current'
    BY DEF Open
  <2> QED
    BY <2>2, <2>4, <2>5, <2>6
<1>12. JumpOK(code, Func, Promised)' /\ ClosedBut(code, Open)'
  <2>1. Sane(code', f, Lower \cup PutsOf(p, bb), LowerOpen \cup OwesOf(p, e, bb) \cup {cur'})
    BY <1>2
  <2>2. Sane(code', f, Promised', Open')
    BY <1>9, <1>11, <2>1, SaneMore
  <2>3. JumpOK(code', f, Promised') /\ ClosedBut(code', Open')
    BY <2>2 DEF Sane
  <2> QED
    BY <1>3, <2>3, ClosedSame DEF JumpOK, Later, Goes, Detached, Root
<1>13. BodyInv'
  <2>1. Kind(visits[2].at) = "def"
    BY DEF InBody
  <2>2. tree[f].type = tree[visits[2].at].type
    BY <1>2 DEF FlowInv, BodyInv
  <2>3. Func' # Detached /\ tree'[Func'].type = tree'[visits'[2].at].type
    BY <1>3, <1>10, <2>2
  <2> QED
    BY <1>10, <2>1, <2>3 DEF BodyInv, Kind, Detached, Root
<1>14. Top'.pt = 0
  <2>1. Last(visits') = visits'[n + 1]
    BY <1>1 DEF Last
  <2> QED
    BY <1>1, <2>1 DEF Top
<1> QED
  BY <1>8, <1>12, <1>13, <1>14 DEF FlowInv

LEMMA FlowLeaves ==
  ASSUME IInv, Running, ChainInv, FlowInv, InBody, tree' = tree, Len(visits) >= 3, Return,
         Grew(code, code', Func), Own(code', Func, cur'),
         cur' = cur \/ Kind(At) \in Controls,
         Sane(code', Func, Lower, LowerOpen \cup {cur'}),
         Ends(At) => Closed(code', cur')
  PROVE  FlowInv'
<1>0. PICK m \in Nat : Len(visits) = m + 1 /\ m >= 2 /\ m >= 1
  <2>1. PICK n \in Nat : n = Len(visits) /\ n >= 3
    BY TopVisit
  <2>2. PICK m \in Nat : n = m + 1
    BY <2>1
  <2>3. m >= 2 /\ m >= 1
    BY <2>1, <2>2
  <2> QED
    BY <2>1, <2>2, <2>3
<1>1. /\ Len(visits') = m
      /\ \A i \in 1..m : /\ visits'[i].at = visits[i].at /\ visits'[i].bb = visits[i].bb
                         /\ Begun(i)' = Begun(i)
      /\ Top' = visits'[m] /\ visits'[m].pt = visits[m].pt + 1
  BY <1>0, ReturnFrames
<1>2. PICK f, p : f = Func /\ p = At
  OBVIOUS
<1>3. Func' = f /\ f # Detached
  BY <1>2, InFlow DEF Own, Func, Sane
<1>4. ASSUME NEW i \in 1..m
      PROVE  Puts(i)' = Puts(i) /\ Owes(i)' = Owes(i) /\ HoldsAt(i)' /\ StandsOK(i)'
  <2>1. i \in 1..(Len(visits) - 1)
    BY <1>0
  <2> QED
    BY <1>1, <2>1, LowerStays
<1>5. Len(visits) - 1 = m
  BY <1>0
<1>6. \A t \in Lower : t \in Promised'
  BY <1>1, <1>4, <1>5 DEF Promised, Lower
<1>7. InBody' /\ visits'[2].at = visits[2].at
  <2>1. 2 \in 1..m
    BY <1>0
  <2>2. visits'[2].at = visits[2].at /\ Begun(2)' = Begun(2)
    BY <1>1, <2>1
  <2> QED
    BY <1>0, <1>1, <2>2 DEF InBody, Kind
<1>8. \A t \in LowerOpen \cup {cur'} : t \in Open'
  <2>1. \A t \in LowerOpen : t \in Owing'
    BY <1>1, <1>4, <1>5 DEF Owing, LowerOpen
  <2>2. cur' \in Current'
    BY <1>7 DEF Current
  <2>3. Open' = Owing' \cup Current'
    BY DEF Open
  <2> QED
    BY <2>1, <2>2, <2>3
<1>9. JumpOK(code, Func, Promised)' /\ ClosedBut(code, Open)'
  <2>1. Sane(code', f, Lower, LowerOpen \cup {cur'})
    BY <1>2
  <2>2. Sane(code', f, Promised', Open')
    BY <1>6, <1>8, <2>1, SaneMore
  <2>3. JumpOK(code', f, Promised') /\ ClosedBut(code', Open')
    BY <2>2 DEF Sane
  <2> QED
    BY <1>3, <2>3, ClosedSame DEF JumpOK, Later, Goes, Detached, Root
<1>10. BodyInv'
  <2>1. Kind(visits[2].at) = "def"
    BY DEF InBody
  <2>2. tree[f].type = tree[visits[2].at].type
    BY <1>2 DEF FlowInv, BodyInv
  <2>3. Func' # Detached /\ tree'[Func'].type = tree'[visits'[2].at].type
    BY <1>3, <1>7, <2>2
  <2> QED
    BY <1>7, <2>1, <2>3 DEF BodyInv, Kind, Detached, Root
<1>11. Ends(Child(At, Top.pt))' => Closed(code, cur)'
  <2>1. visits'[m].at = visits[m].at
    BY <1>0, <1>1
  <2>2. p = Child(visits[m].at, visits[m].pt + 1)
    <3>1. visits[m + 1].at = Append(visits[m].at, visits[m].pt + 1)
      BY <1>0, <1>5 DEF ChainInv
    <3> QED
      BY <1>0, <1>2, <3>1, TopVisit DEF At, Child
  <2>3. Child(At, Top.pt)' = p
    BY <1>1, <2>1, <2>2 DEF At, Child
  <2>4. Ends(p)' <=> Ends(p)
    BY DEF Ends, EndsInReturn, Kind, Kids, Child
  <2>5. Closed(code, cur)' <=> Closed(code', cur')
    BY DEF Closed, Terminators
  <2> QED
    BY <1>2, <2>3, <2>4, <2>5
<1> QED
  BY <1>1, <1>4, <1>9, <1>10, <1>11 DEF FlowInv

-----------------------------------------------------------------------------
(* The visits in a function's body.                                        *)

LEMMA NothingSaved ==
  ASSUME NEW p, NEW e, NEW bb, Len(bb) = 0
  PROVE  PutsOf(p, bb) = {} /\ (Owed(Kind(p), e) = {} => OwesOf(p, e, bb) = {})
<1>1. \A i : ~(i \in 1..0)
  OBVIOUS
<1>2. PutsOf(p, bb) = {}
  BY <1>1 DEF PutsOf
<1>3. Owed(Kind(p), e) = {} => OwesOf(p, e, bb) = {}
  BY DEF OwesOf
<1> QED
  BY <1>2, <1>3

LEMMA FlowGoesOn ==
  ASSUME IInv, Running, ChainInv, FlowInv, InBody, tree' = tree, Top.pt < Kids(At),
         Enter(Top.pt + 1, <<>>), code' = code, cur' = cur,
         Kind(At) \notin {"while", "for"}, Kind(At) = "if" => Top.pt = 0
  PROVE  FlowInv'
<1>1. PICK f, p, e, bb, L, O :
        f = Func /\ p = At /\ e = Top.pt /\ bb = Top.bb /\ L = Lower /\ O = LowerOpen
  OBVIOUS
<1>2. /\ Sane(code, f, L \cup PutsOf(p, bb), O \cup OwesOf(p, e, bb) \cup {cur})
      /\ Own(code, f, cur) /\ Holds(code, f, p, e, bb)
  BY <1>1, InFlow
<1>3. Len(bb) = 0
  BY <1>1, <1>2 DEF Holds, Controls
<1>4. Owed(Kind(p), e) = {} /\ Stands(Kind(p), e + 1) = 0
  BY <1>1 DEF Owed, Stands
<1>5. PutsOf(p, bb) = {} /\ OwesOf(p, e, bb) = {}
  BY <1>3, <1>4, NothingSaved
<1>6. Sane(code, f, L \cup PutsOf(p, <<>>), O \cup OwesOf(p, e + 1, <<>>) \cup {cur})
  BY <1>2, <1>5, SaneMore
<1>7. Holds(code, f, p, e + 1, <<>>)
  BY NothingIsSeq DEF Holds
<1>8. Grew(code, code, f)
  BY <1>2 DEF Grew, Sane
<1> QED
  BY <1>1, <1>2, <1>4, <1>6, <1>7, <1>8, FlowEnters

LEMMA FlowComesBack ==
  ASSUME IInv, Running, ChainInv, FlowInv, tree' = tree, Return, cur' = cur,
         Kind(At) \notin AtTop \cup {"root"}, Kind(At) \notin Controls,
         NEW x, x.op # "unreachable", DOMAIN x.to = {},
         code' = code \/ code' = Emit(code, cur, x),
         Ends(At) => Closed(code', cur')
  PROVE  FlowInv'
<1>0. InBody /\ Len(visits) >= 3
  BY Indoors
<1>1. PICK f, p, e, bb, L, O :
        f = Func /\ p = At /\ e = Top.pt /\ bb = Top.bb /\ L = Lower /\ O = LowerOpen
  OBVIOUS
<1>2. /\ Sane(code, f, L \cup PutsOf(p, bb), O \cup OwesOf(p, e, bb) \cup {cur})
      /\ Own(code, f, cur) /\ Holds(code, f, p, e, bb)
  BY <1>0, <1>1, InFlow
<1>3. Len(bb) = 0
  BY <1>1, <1>2 DEF Holds
<1>4. Owed(Kind(p), e) = {}
  BY <1>1 DEF Owed, Controls
<1>5. PutsOf(p, bb) = {} /\ OwesOf(p, e, bb) = {}
  BY <1>3, <1>4, NothingSaved
<1>6. Sane(code, f, L, O \cup {cur})
  BY <1>2, <1>5, SaneMore
<1>7. Sane(code', f, L, O \cup {cur}) /\ Grew(code, code', f)
  <2>1. CASE code' = code
    BY <1>6, <2>1 DEF Grew, Sane
  <2>2. CASE code' = Emit(code, cur, x)
    <3>1. \A k \in DOMAIN x.to : Leads(code, f, L, x.to[k])
      OBVIOUS
    <3>2. /\ Sane(Emit(code, cur, x), f, L,
                  IF x.op \in Terminators THEN (O \cup {cur}) \ {cur} ELSE O \cup {cur})
          /\ Grew(code, Emit(code, cur, x), f)
      BY <1>2, <1>6, <3>1, SaneEmit
    <3>3. Sane(Emit(code, cur, x), f, L, O \cup {cur})
      BY <3>2, SaneMore
    <3> QED
      BY <2>2, <3>2, <3>3
  <2> QED
    BY <2>1, <2>2
<1>8. Own(code', f, cur')
  BY <1>2, <1>7, Keeps DEF Sane
<1> QED
  BY <1>0, <1>1, <1>7, <1>8, FlowLeaves

LEMMA FlowSimple ==
  ASSUME IInv, ChainInv, FlowInv,
         \/ Parameter \/ Evaluate \/ Call \/ Empty \/ DefineVariable \/ ReturnStatement \/ EndBlock
  PROVE  FlowInv'
<1>1. Running /\ tree' = tree /\ Return /\ cur' = cur
  BY DEF Parameter, Evaluate, Call, Empty, DefineVariable, ReturnStatement, EndBlock, Visiting,
         Running, Walking
<1>2. Kind(At) \in {"param", "expr", "call", "empty", "let", "return", "block"}
  BY DEF Parameter, Evaluate, Call, Empty, DefineVariable, ReturnStatement, EndBlock, Visiting
<1>3. /\ Kind(At) \notin AtTop \cup {"root"} /\ Kind(At) \notin Controls
      /\ Kind(At) = "return" => ReturnStatement
      /\ Kind(At) = "block" => EndBlock
  BY <1>2 DEF Parameter, Evaluate, Call, Empty, DefineVariable, ReturnStatement, EndBlock, Visiting,
              AtTop, Controls
<1>4. InBody
  BY <1>1, <1>3, Indoors
<1>5. PICK x : /\ x.op # "unreachable" /\ DOMAIN x.to = {}
               /\ code' = code \/ code' = Emit(code, cur, x)
               /\ ReturnStatement => code' = Emit(code, cur, x) /\ x.op \in Terminators
  <2>1. CASE ReturnStatement
    <3>1. PICK x : x = Instr("ret", At, <<>>, NoSite)
      OBVIOUS
    <3>2. x.op = "ret" /\ DOMAIN x.to = {}
      BY <3>1 DEF Instr
    <3> QED
      BY <2>1, <3>1, <3>2 DEF ReturnStatement, Terminators
  <2>2. CASE ~ReturnStatement /\ code' # code
    <3>1. PICK op, s : /\ op \in {"store", "eval"}
                       /\ code' = Emit(code, cur, Instr(op, At, <<>>, s))
      BY <2>2 DEF Parameter, Evaluate, Call, Empty, DefineVariable, EndBlock
    <3>2. PICK x : x = Instr(op, At, <<>>, s)
      OBVIOUS
    <3>3. x.op = op /\ DOMAIN x.to = {}
      BY <3>2 DEF Instr
    <3> QED
      BY <2>2, <3>1, <3>2, <3>3
  <2>3. CASE ~ReturnStatement /\ code' = code
    <3>1. PICK x : x = Instr("end", Root, <<>>, NoSite)
      OBVIOUS
    <3>2. x.op = "end" /\ DOMAIN x.to = {}
      BY <3>1 DEF Instr
    <3> QED
      BY <2>3, <3>2
  <2> QED
    BY <2>1, <2>2, <2>3
<1>6. Ends(At) => Closed(code', cur')
  <2>1. CASE Kind(At) = "return"
    <3>1. /\ Own(code, Func, cur) /\ CodeOK(code, Len(code)) /\ cur \in 1..Len(code)
      BY <1>1, <1>4, InFlow DEF Sane, Own
    <3>2. Closed(Emit(code, cur, x), cur)
      BY <1>3, <1>5, <2>1, <3>1, EmitCloses
    <3> QED
      BY <1>1, <1>3, <1>5, <2>1, <3>2
  <2>2. CASE Kind(At) = "block"
    <3>1. EndBlock /\ code' = code /\ Top.pt = Kids(At) /\ Kids(At) \in Nat
      BY <1>1, <1>3, <2>2, TopVisit DEF EndBlock, Visiting
    <3>2. SUFFICES ASSUME EndsInReturn(At) PROVE Closed(code, cur)
      BY <1>1, <2>2, <3>1 DEF Ends
    <3>3. Top.pt > 0 /\ Ends(Child(At, Top.pt))
      BY <3>1, <3>2 DEF EndsInReturn, Ends
    <3> QED
      BY <3>3 DEF FlowInv
  <2>3. CASE Kind(At) \notin {"return", "block"}
    BY <2>3 DEF Ends
  <2> QED
    BY <2>1, <2>2, <2>3
<1> QED
  BY <1>1, <1>3, <1>5, <1>6, FlowComesBack

LEMMA FlowFurther ==
  ASSUME IInv, ChainInv, FlowInv, NextOfFunction \/ Operand \/ NextOfBlock \/ BeginIf
  PROVE  FlowInv'
<1>1. Running /\ tree' = tree /\ code' = code /\ cur' = cur
  BY DEF NextOfFunction, Operand, NextOfBlock, BeginIf, Visiting, Running, Walking
<1>2. PICK n \in Nat : n = Kids(At) /\ tree \in Programs /\ At \in Paths /\ Top.pt \in Nat
  BY <1>1, TopVisit DEF IInv
<1>3. /\ Top.pt < n /\ Enter(Top.pt + 1, <<>>)
      /\ Kind(At) \in {"def", "let", "return", "block", "if"}
      /\ Kind(At) = "if" => Top.pt = 0
      /\ Kind(At) = "def" => Top.pt > 0
  <2>1. CASE NextOfFunction
    BY <1>2, <2>1 DEF NextOfFunction
  <2>2. CASE Operand
    <3>1. Kind(At) \in {"let", "return"} /\ Top.pt < n /\ Enter(1, <<>>)
      BY <1>2, <2>2 DEF Operand
    <3>2. n <= 1
      BY <1>2, <3>1, TreeFacts
    <3>3. Top.pt + 1 = 1
      BY <1>2, <3>1, <3>2
    <3> QED
      BY <3>1, <3>3
  <2>3. CASE NextOfBlock
    BY <1>2, <2>3 DEF NextOfBlock
  <2>4. CASE BeginIf
    <3>1. Kind(At) = "if" /\ Top.pt = 0 /\ Enter(1, <<>>)
      BY <2>4 DEF BeginIf, Visiting
    <3>2. n = 3
      BY <1>2, <3>1, TreeFacts
    <3> QED
      BY <3>1, <3>2
  <2> QED
    BY <2>1, <2>2, <2>3, <2>4
<1>4. InBody
  BY <1>1, <1>3, Indoors DEF AtTop
<1> QED
  BY <1>1, <1>2, <1>3, <1>4, FlowGoesOn

-----------------------------------------------------------------------------
(* Control flow.  What is there when a visit of one of the statements goes *)
(* on: code, function, current block, node, kids begun, blocks saved; and  *)
(* what the visits below are to put into the function and to close.        *)

Ready(c, f, k, p, e, bb, L, O, n) ==
  /\ c = code /\ f = Func /\ k = cur /\ p = At /\ e = Top.pt /\ bb = Top.bb
  /\ L = Lower /\ O = LowerOpen /\ n = Len(code) /\ n \in Nat
  /\ Sane(c, f, L \cup PutsOf(p, bb), O \cup OwesOf(p, e, bb) \cup {k})
  /\ Own(c, f, k) /\ f # Detached
  /\ Holds(c, f, p, e, bb) /\ BlocksSaved(Kind(p), e, Len(bb))
  /\ Stands(Kind(p), e) # 0 => k = bb[Stands(Kind(p), e)]
  /\ IsSeq(bb) /\ \A j \in 1..Len(bb) : bb[j] \in 1..n
  /\ InBody /\ Len(visits) >= 3

LEMMA Readiness ==
  ASSUME IInv, Running, FlowInv, Kind(At) \in Controls
  PROVE  \E c, f, k, p, e, bb, L, O, n : Ready(c, f, k, p, e, bb, L, O, n)
<1>1. PICK c, f, k, p, e, bb, L, O, n :
        /\ c = code /\ f = Func /\ k = cur /\ p = At /\ e = Top.pt /\ bb = Top.bb
        /\ L = Lower /\ O = LowerOpen /\ n = Len(code)
  OBVIOUS
<1>2. InBody /\ Len(visits) >= 3
  BY Indoors DEF Controls, AtTop
<1>3. /\ Sane(c, f, L \cup PutsOf(p, bb), O \cup OwesOf(p, e, bb) \cup {k})
      /\ Own(c, f, k) /\ Holds(c, f, p, e, bb)
      /\ Stands(Kind(p), e) # 0 => k = bb[Stands(Kind(p), e)]
  BY <1>1, <1>2, InFlow
<1>4. n \in Nat /\ f # Detached
  BY <1>1, <1>3 DEF Sane
<1>5. BlocksSaved(Kind(p), e, Len(bb)) /\ IsSeq(bb) /\ \A j \in 1..Len(bb) : bb[j] \in 1..n
  BY <1>1, TopVisit
<1>6. Ready(c, f, k, p, e, bb, L, O, n)
  BY <1>1, <1>2, <1>3, <1>4, <1>5 DEF Ready
<1> QED
  BY <1>6

LEMMA ControlGoesOn ==
  ASSUME IInv, Running, ChainInv, FlowInv, Kind(At) \in Controls, tree' = tree,
         NEW c, NEW f, NEW k, NEW p, NEW e, NEW bb, NEW L, NEW O, NEW n,
         Ready(c, f, k, p, e, bb, L, O, n),
         e < Kids(p), NEW saved, Enter(e + 1, saved),
         NEW d, code' = d, NEW h, cur' = h, Grew(c, d, f), Own(d, f, h),
         Sane(d, f, L \cup PutsOf(p, saved), O \cup OwesOf(p, e + 1, saved) \cup {h}),
         Holds(d, f, p, e + 1, saved),
         Stands(Kind(p), e + 1) # 0 => h = saved[Stands(Kind(p), e + 1)]
  PROVE  FlowInv'
BY FlowEnters DEF Ready

LEMMA ControlEnds ==
  ASSUME IInv, Running, ChainInv, FlowInv, Kind(At) \in Controls, tree' = tree,
         NEW c, NEW f, NEW k, NEW p, NEW e, NEW bb, NEW L, NEW O, NEW n,
         Ready(c, f, k, p, e, bb, L, O, n),
         Return, NEW d, code' = d, NEW h, cur' = h, Grew(c, d, f), Own(d, f, h),
         Sane(d, f, L, O \cup {h})
  PROVE  FlowInv'
<1>1. ~Ends(At)
  BY DEF Ends, Controls
<1> QED
  BY <1>1, FlowLeaves DEF Ready

LEMMA BranchIs ==
  ASSUME NEW t, NEW u
  PROVE  /\ Br(t).op = "br" /\ DOMAIN Br(t).to = {1} /\ Br(t).to[1] = t
         /\ CondBr(t, u).op = "condbr" /\ DOMAIN CondBr(t, u).to = {1, 2}
         /\ CondBr(t, u).to[1] = t /\ CondBr(t, u).to[2] = u
BY DEF Br, CondBr, Instr

LEMMA PairIs ==
  ASSUME NEW a, NEW b
  PROVE  /\ Len(<<a>>) = 1 /\ <<a>>[1] = a
         /\ Len(<<a, b>>) = 2 /\ <<a, b>>[1] = a /\ <<a, b>>[2] = b
OBVIOUS

LEMMA Branch ==
  ASSUME NEW c, NEW f, NEW P, NEW Q, Sane(c, f, P, Q), NEW b, Own(c, f, b),
         NEW t, Leads(c, f, P, t)
  PROVE  /\ Sane(Emit(c, b, Br(t)), f, P, Q \ {b})
         /\ Len(Emit(c, b, Br(t))) = Len(c) /\ Grew(c, Emit(c, b, Br(t)), f)
<1>1. PICK x : x = Br(t)
  OBVIOUS
<1>2. x.op = "br" /\ DOMAIN x.to = {1} /\ x.to[1] = t
  BY <1>1, BranchIs
<1>3. x.op \in Terminators /\ x.op # "unreachable" /\ \A k \in DOMAIN x.to : Leads(c, f, P, x.to[k])
  BY <1>2 DEF Terminators
<1> QED
  BY <1>1, <1>3, SaneEmit

LEMMA BranchBoth ==
  ASSUME NEW c, NEW f, NEW P, NEW Q, Sane(c, f, P, Q), NEW b, Own(c, f, b),
         NEW t, Leads(c, f, P, t), NEW u, Leads(c, f, P, u)
  PROVE  /\ Sane(Emit(c, b, CondBr(t, u)), f, P, Q \ {b})
         /\ Len(Emit(c, b, CondBr(t, u))) = Len(c) /\ Grew(c, Emit(c, b, CondBr(t, u)), f)
<1>1. PICK x : x = CondBr(t, u)
  OBVIOUS
<1>2. x.op = "condbr" /\ DOMAIN x.to = {1, 2} /\ x.to[1] = t /\ x.to[2] = u
  BY <1>1, BranchIs
<1>3. x.op \in Terminators /\ x.op # "unreachable" /\ \A k \in DOMAIN x.to : Leads(c, f, P, x.to[k])
  BY <1>2 DEF Terminators
<1> QED
  BY <1>1, <1>3, SaneEmit

LEMMA NewAside ==
  ASSUME NEW c, NEW f, NEW P, NEW Q, Sane(c, f, P, Q), NEW n \in Nat, n = Len(c),
         NEW m \in Nat, m = n + 1, NEW b, Own(c, f, b)
  PROVE  /\ Sane(New(c, Detached), f, P, Q) /\ Len(New(c, Detached)) = m
         /\ Grew(c, New(c, Detached), f)
         /\ New(c, Detached)[m].fn = Detached /\ Later(New(c, Detached), m, f)
<1>1. f # Detached
  BY DEF Sane
<1>2. /\ Sane(New(c, Detached), f, P, IF Detached = f THEN Q \cup {n + 1} ELSE Q)
      /\ Len(New(c, Detached)) = n + 1 /\ Grew(c, New(c, Detached), f)
      /\ New(c, Detached)[n + 1].fn = Detached
      /\ \A j : Own(c, f, j) => Later(New(c, Detached), n + 1, f)
  BY SaneNew
<1> QED
  BY <1>1, <1>2

LEMMA NewInside ==
  ASSUME NEW c, NEW f, NEW P, NEW Q, Sane(c, f, P, Q), NEW n \in Nat, n = Len(c),
         NEW m \in Nat, m = n + 1, NEW b, Own(c, f, b)
  PROVE  /\ Sane(New(c, f), f, P, Q \cup {m}) /\ Len(New(c, f)) = m
         /\ Grew(c, New(c, f), f) /\ Own(New(c, f), f, m) /\ Leads(New(c, f), f, P, m)
<1>1. /\ Sane(New(c, f), f, P, IF f = f THEN Q \cup {n + 1} ELSE Q)
      /\ Len(New(c, f)) = n + 1 /\ Grew(c, New(c, f), f)
      /\ New(c, f)[n + 1].fn = f
      /\ \A j : Own(c, f, j) => Later(New(c, f), n + 1, f)
  BY SaneNew
<1>2. m \in 1..m
  OBVIOUS
<1> QED
  BY <1>1, <1>2 DEF Own, Leads

LEMMA FlowCondition ==
  ASSUME IInv, ChainInv, FlowInv, AfterCondition
  PROVE  FlowInv'
<1>1. /\ Running /\ tree' = tree /\ Kind(At) = "if" /\ Top.pt = 1 /\ Kind(At) \in Controls
  BY DEF AfterCondition, Visiting, Running, Walking, Controls
<1>2. PICK c, f, k, p, e, bb, L, O, n : Ready(c, f, k, p, e, bb, L, O, n)
  BY <1>1, Readiness
<1>3. PICK n1 \in Nat, n2 \in Nat, n3 \in Nat : n1 = n + 1 /\ n2 = n1 + 1 /\ n3 = n2 + 1
  BY <1>2 DEF Ready
<1>4. n \in Nat /\ n1 = n + 1 /\ n2 = n + 2 /\ n3 = n + 3 /\ n = Len(c) /\ f # Detached
  BY <1>2, <1>3 DEF Ready
<1>5. PICK u, saved : u = (IF HasElse(p) THEN n2 ELSE n3) /\ saved = <<n2, n3>>
  OBVIOUS
<1>6. PICK c1, c2, c3, d : /\ c1 = New(c, f) /\ c2 = New(c1, Detached) /\ c3 = New(c2, Detached)
                           /\ d = Emit(c3, k, CondBr(n1, u))
  OBVIOUS
<1>7. /\ code' = d /\ cur' = n1 /\ Enter(2, saved)
  BY <1>2, <1>4, <1>5, <1>6 DEF AfterCondition, Ready
<1>8. PICK P : P = L \cup PutsOf(p, saved)
  OBVIOUS
<1>9. Sane(c, f, P, O \cup {k})
  <2>1. Kind(p) = "if" /\ e = 1 /\ Len(bb) = 0
    BY <1>1, <1>2 DEF Ready, Holds, Controls
  <2>2. PutsOf(p, bb) = {} /\ OwesOf(p, e, bb) = {}
    BY <2>1, NothingSaved DEF Owed
  <2>3. Sane(c, f, L \cup PutsOf(p, bb), O \cup OwesOf(p, e, bb) \cup {k})
    BY <1>2 DEF Ready
  <2> QED
    BY <1>8, <2>2, <2>3, SaneMore
<1>10. Own(c, f, k)
  BY <1>2 DEF Ready
<1>11. /\ Sane(c1, f, P, (O \cup {k}) \cup {n1}) /\ Len(c1) = n1 /\ Grew(c, c1, f)
       /\ Own(c1, f, n1) /\ Leads(c1, f, P, n1)
  BY <1>4, <1>6, <1>9, <1>10, NewInside
<1>12. Own(c1, f, k)
  BY <1>4, <1>10, <1>11, Keeps
<1>13. /\ Sane(c2, f, P, (O \cup {k}) \cup {n1}) /\ Len(c2) = n2 /\ Grew(c1, c2, f)
       /\ c2[n2].fn = Detached /\ Later(c2, n2, f)
  BY <1>3, <1>6, <1>11, <1>12, NewAside
<1>14. /\ Own(c2, f, k) /\ Leads(c2, f, P, n1) /\ Own(c2, f, n1)
  BY <1>4, <1>11, <1>12, <1>13, Keeps
<1>15. /\ Sane(c3, f, P, (O \cup {k}) \cup {n1}) /\ Len(c3) = n3 /\ Grew(c2, c3, f)
       /\ c3[n3].fn = Detached /\ Later(c3, n3, f)
  BY <1>3, <1>6, <1>13, <1>14, NewAside
<1>16. /\ Own(c3, f, k) /\ Leads(c3, f, P, n1) /\ Own(c3, f, n1)
  BY <1>4, <1>14, <1>15, Keeps
<1>17. n2 \in 1..n3 /\ n3 \in 1..n3 /\ n2 \in 1..n2
  BY <1>3
<1>18. Later(c3, n2, f) /\ c3[n2].fn \in {Detached, f}
  BY <1>4, <1>13, <1>15, <1>17, Keeps DEF Grew
<1>19. Kind(p) = "if" /\ e = 1 /\ (HasElse(p) => n2 \in P) /\ n3 \in P
  <2>1. Kind(p) = "if" /\ e = 1
    BY <1>1, <1>2 DEF Ready
  <2>2. Len(saved) = 2 /\ saved[1] = n2 /\ saved[2] = n3
    BY <1>5, PairIs
  <2> QED
    BY <1>8, <2>1, <2>2 DEF PutsOf
<1>20. Leads(c3, f, P, u)
  BY <1>5, <1>15, <1>17, <1>18, <1>19 DEF Leads
<1>21. Sane(d, f, P, ((O \cup {k}) \cup {n1}) \ {k}) /\ Len(d) = n3 /\ Grew(c3, d, f)
  BY <1>6, <1>15, <1>16, <1>20, BranchBoth
<1>22. Sane(d, f, L \cup PutsOf(p, saved), O \cup OwesOf(p, e + 1, saved) \cup {n1})
  BY <1>8, <1>21, SaneMore
<1>23. Grew(c, d, f) /\ Own(d, f, n1)
  BY <1>4, <1>11, <1>13, <1>15, <1>16, <1>21, GrewOn, Keeps
<1>24. Holds(d, f, p, e + 1, saved) /\ Stands(Kind(p), e + 1) = 0
  <2>1. /\ Later(d, n2, f) /\ Later(d, n3, f) /\ d[n2].fn \in {Detached, f}
        /\ d[n3].fn \in {Detached, f}
    BY <1>4, <1>15, <1>17, <1>18, <1>21, Keeps DEF Grew
  <2>2. Len(saved) = 2 /\ saved[1] = n2 /\ saved[2] = n3
    BY <1>5, PairIs
  <2>3. e + 1 = 2 /\ \A j \in 1..2 : j = 1 \/ j = 2
    BY <1>19
  <2> QED
    BY <1>19, <2>1, <2>2, <2>3 DEF Holds, Stands, Controls
<1>25. e < Kids(p) /\ Enter(e + 1, saved)
  <2>1. Kids(p) = 3
    BY <1>1, <1>2, <1>19, TreeFacts, TopVisit DEF Ready, IInv
  <2> QED
    BY <1>7, <1>19, <2>1
<1> QED
  BY <1>1, <1>2, <1>7, <1>22, <1>23, <1>24, <1>25, ControlGoesOn

LEMMA FlowElse ==
  ASSUME IInv, ChainInv, FlowInv, AfterThen, HasElse(At)
  PROVE  FlowInv'
<1>1. /\ Running /\ tree' = tree /\ Kind(At) = "if" /\ Top.pt = 2 /\ Kind(At) \in Controls
  BY DEF AfterThen, Visiting, Running, Walking, Merge, Controls
<1>2. PICK c, f, k, p, e, bb, L, O, n : Ready(c, f, k, p, e, bb, L, O, n)
  BY <1>1, Readiness
<1>3. /\ Kind(p) = "if" /\ e = 2 /\ HasElse(p) /\ Len(bb) = 2 /\ 1 \in 1..2 /\ 2 \in 1..2
      /\ f # Detached /\ Own(c, f, k) /\ n = Len(c) /\ bb[1] \in 1..n /\ bb[2] \in 1..n
  BY <1>1, <1>2 DEF Ready, BlocksSaved
<1>4. PICK P, a, b : P = L \cup PutsOf(p, bb) /\ a = bb[1] /\ b = bb[2]
  OBVIOUS
<1>5. PICK c1, d : c1 = Emit(c, k, Br(b)) /\ d = Attach(c1, a, f)
  OBVIOUS
<1>6. code' = d /\ cur' = a /\ Enter(3, bb)
  BY <1>2, <1>3, <1>4, <1>5 DEF AfterThen, Ready
<1>7. /\ Later(c, a, f) /\ Later(c, b, f) /\ c[a].fn \in {Detached, f} /\ c[b].fn \in {Detached, f}
  BY <1>2, <1>3, <1>4 DEF Ready, Holds
<1>8. b \in P
  BY <1>3, <1>4 DEF PutsOf
<1>9. OwesOf(p, e, bb) = {}
  BY <1>3 DEF OwesOf, Owed
<1>10. Sane(c, f, P, O \cup {k})
  BY <1>2, <1>4, <1>9, SaneMore DEF Ready
<1>11. Leads(c, f, P, b)
  BY <1>3, <1>4, <1>7, <1>8 DEF Leads
<1>12. Sane(c1, f, P, (O \cup {k}) \ {k}) /\ Len(c1) = n /\ Grew(c, c1, f)
  BY <1>3, <1>5, <1>10, <1>11, Branch
<1>13. a \in 1..Len(c1) /\ c1[a].fn \in {Detached, f}
  BY <1>3, <1>4, <1>7, <1>12 DEF Grew
<1>14. /\ Sane(d, f, P \ {a}, ((O \cup {k}) \ {k}) \cup {a}) /\ Grew(c1, d, f) /\ Own(d, f, a)
  BY <1>5, <1>12, <1>13, SaneAttach
<1>15. Grew(c, d, f)
  BY <1>12, <1>14, GrewOn
<1>16. Sane(d, f, L \cup PutsOf(p, bb), O \cup OwesOf(p, e + 1, bb) \cup {a})
  BY <1>4, <1>14, SaneMore
<1>17. Holds(d, f, p, e + 1, bb) /\ Stands(Kind(p), e + 1) = 0
  <2>0. a \in 1..Len(c) /\ b \in 1..Len(c)
    BY <1>3, <1>4
  <2>1. Later(d, a, f) /\ Later(d, b, f) /\ d[b].fn \in {Detached, f} /\ d[a].fn = f
    <3>1. Later(d, a, f) /\ Later(d, b, f)
      BY <1>3, <1>7, <1>15, <2>0, Keeps
    <3>2. d[b].fn \in {Detached, f} /\ d[a].fn = f
      BY <1>7, <1>14, <1>15, <2>0 DEF Grew, Own
    <3> QED
      BY <3>1, <3>2
  <2>2. e + 1 = 3 /\ \A j \in 1..2 : j = 1 \/ j = 2
    BY <1>3
  <2> QED
    BY <1>3, <1>4, <2>1, <2>2 DEF Holds, Stands, Controls
<1>18. e < Kids(p) /\ Enter(e + 1, bb)
  <2>1. Kids(p) = 3
    BY <1>1, <1>2, <1>3, TreeFacts, TopVisit DEF Ready, IInv
  <2> QED
    BY <1>3, <1>6, <2>1
<1> QED
  BY <1>1, <1>2, <1>6, <1>14, <1>15, <1>16, <1>17, <1>18, ControlGoesOn

LEMMA FlowMerge ==
  ASSUME IInv, ChainInv, FlowInv, (AfterThen /\ ~HasElse(At)) \/ AfterElse
  PROVE  FlowInv'
<1>1. /\ Running /\ tree' = tree /\ Kind(At) = "if" /\ Kind(At) \in Controls
      /\ (Top.pt = 2 /\ ~HasElse(At)) \/ Top.pt = 3
      /\ Merge(Top.bb[2])
  BY DEF AfterThen, AfterElse, Visiting, Running, Walking, Merge, Controls
<1>2. PICK c, f, k, p, e, bb, L, O, n : Ready(c, f, k, p, e, bb, L, O, n)
  BY <1>1, Readiness
<1>3. /\ Kind(p) = "if"
      /\ (e = 2 /\ ~HasElse(p)) \/ e = 3
      /\ f # Detached /\ Own(c, f, k) /\ n = Len(c)
  BY <1>1, <1>2 DEF Ready
<1>4. Len(bb) = 2 /\ 1 \in 1..2 /\ 2 \in 1..2 /\ bb[1] \in 1..n /\ bb[2] \in 1..n
  BY <1>2, <1>3 DEF Ready, BlocksSaved
<1>5. PICK P, a, b : P = L \cup PutsOf(p, bb) /\ a = bb[1] /\ b = bb[2]
  OBVIOUS
<1>6. PICK c1, d : c1 = Emit(c, k, Br(b)) /\ d = Attach(c1, b, f)
  OBVIOUS
<1>7. code' = d /\ cur' = b /\ Return
  BY <1>1, <1>2, <1>5, <1>6 DEF Merge, Ready
<1>8. /\ Later(c, b, f) /\ c[b].fn \in {Detached, f} /\ (e = 3 => c[a].fn = f)
  BY <1>2, <1>3, <1>4, <1>5 DEF Ready, Holds
<1>9. b \in P
  BY <1>3, <1>4, <1>5 DEF PutsOf
<1>10. OwesOf(p, e, bb) = {}
  BY <1>3 DEF OwesOf, Owed
<1>11. Sane(c, f, P, O \cup {k})
  BY <1>2, <1>5, <1>10, SaneMore DEF Ready
<1>12. Leads(c, f, P, b)
  BY <1>3, <1>4, <1>5, <1>8, <1>9 DEF Leads
<1>13. Sane(c1, f, P, (O \cup {k}) \ {k}) /\ Len(c1) = n /\ Grew(c, c1, f)
  BY <1>3, <1>6, <1>11, <1>12, Branch
<1>14. b \in 1..Len(c1) /\ c1[b].fn \in {Detached, f}
  BY <1>3, <1>4, <1>5, <1>8, <1>13 DEF Grew
<1>15. /\ Sane(d, f, P \ {b}, ((O \cup {k}) \ {k}) \cup {b}) /\ Grew(c1, d, f) /\ Own(d, f, b)
  BY <1>6, <1>13, <1>14, SaneAttach
<1>16. Grew(c, d, f)
  BY <1>13, <1>15, GrewOn
<1>17. \A t \in P \ {b} : t \in L \/ (t \in 1..Len(d) /\ d[t].fn = f)
  <2>1. SUFFICES ASSUME NEW t \in PutsOf(p, bb), t # b PROVE t \in 1..Len(d) /\ d[t].fn = f
    BY <1>5
  <2>2. t = a /\ HasElse(p)
    <3>1. \A j \in 1..2 : j = 1 \/ j = 2
      OBVIOUS
    <3> QED
      BY <1>4, <1>5, <2>1, <3>1 DEF PutsOf
  <2>3. Own(c, f, a)
    BY <1>3, <1>4, <1>5, <1>8, <2>2 DEF Own
  <2> QED
    BY <1>3, <1>16, <2>2, <2>3, Keeps DEF Own
<1>18. Sane(d, f, L, O \cup {b})
  BY <1>15, <1>17, SaneMore
<1> QED
  BY <1>1, <1>2, <1>7, <1>15, <1>16, <1>18, ControlEnds

(* The blocks that a loop has saved are in the function.                   *)
LEMMA LoopBlocks ==
  ASSUME NEW c, NEW f, NEW k, NEW p, NEW e, NEW bb, NEW L, NEW O, NEW n,
         Ready(c, f, k, p, e, bb, L, O, n), Kind(p) \in {"while", "for"}
  PROVE  /\ \A x : PutsOf(p, x) = {}
         /\ Sane(c, f, L, O \cup OwesOf(p, e, bb) \cup {k})
         /\ \A j \in 1..Len(bb) : /\ Own(c, f, bb[j])
                                  /\ j # 4 => Leads(c, f, L, bb[j])
<1>1. \A x : PutsOf(p, x) = {}
  BY DEF PutsOf
<1>2. Sane(c, f, L, O \cup OwesOf(p, e, bb) \cup {k})
  BY <1>1, SaneMore DEF Ready
<1>3. ASSUME NEW j \in 1..Len(bb)
      PROVE  Own(c, f, bb[j]) /\ (j # 4 => Leads(c, f, L, bb[j]))
  <2>1. bb[j] \in 1..Len(c) /\ c[bb[j]].fn = f /\ (j # 4 => Later(c, bb[j], f))
    BY DEF Ready, Holds
  <2> QED
    BY <2>1 DEF Own, Leads
<1> QED
  BY <1>1, <1>2, <1>3

LEMMA FlowLoopBegins ==
  ASSUME IInv, ChainInv, FlowInv, BeginWhile \/ BeginFor
  PROVE  FlowInv'
<1>1. /\ Running /\ tree' = tree /\ Kind(At) \in {"while", "for"} /\ Top.pt = 0
      /\ Kind(At) \in Controls
  BY DEF BeginWhile, BeginFor, Visiting, Running, Walking, Controls
<1>2. PICK c, f, k, p, e, bb, L, O, n : Ready(c, f, k, p, e, bb, L, O, n)
  BY <1>1, Readiness
<1>3. /\ Kind(p) \in {"while", "for"} /\ e = 0 /\ f # Detached /\ Own(c, f, k)
      /\ n = Len(c) /\ n \in Nat
  BY <1>1, <1>2 DEF Ready
<1>4. PICK m, saved : m = n + 1 /\ saved = <<m>>
  OBVIOUS
<1>5. PICK d : d = New(Emit(c, k, Br(m)), f)
  OBVIOUS
<1>6. code' = d /\ cur' = m /\ Enter(1, saved)
  BY <1>2, <1>4, <1>5 DEF BeginWhile, BeginFor, Ready
<1>7. /\ \A x : PutsOf(p, x) = {}
      /\ Sane(c, f, L, O \cup OwesOf(p, e, bb) \cup {k})
  BY <1>2, <1>3, LoopBlocks
<1>8. OwesOf(p, e, bb) = {}
  BY <1>3 DEF OwesOf, Owed
<1>9. Sane(c, f, L, O \cup {k})
  BY <1>7, <1>8, SaneMore
<1>10. /\ Sane(d, f, L, ((O \cup {k}) \ {k}) \cup {m})
       /\ Len(d) = m /\ Grew(c, d, f) /\ d[m].fn = f /\ Later(d, m, f)
  <2>1. PICK Q : Q = O \cup {k}
    OBVIOUS
  <2>2. /\ Sane(c, f, L, Q) /\ n \in Nat /\ n = Len(c) /\ Own(c, f, k)
        /\ m = n + 1 /\ d = New(Emit(c, k, Br(m)), f)
    BY <1>3, <1>4, <1>5, <1>9, <2>1
  <2>3. /\ Sane(d, f, L, (Q \ {k}) \cup {m})
        /\ Len(d) = m /\ Grew(c, d, f) /\ d[m].fn = f /\ Later(d, m, f)
    BY <2>2, BeginNext
  <2> QED
    BY <2>1, <2>3
<1>11. m \in 1..m
  BY <1>3, <1>4
<1>12. Own(d, f, m)
  BY <1>10, <1>11 DEF Own
<1>13. Sane(d, f, L \cup PutsOf(p, saved), O \cup OwesOf(p, e + 1, saved) \cup {m})
  BY <1>10, SaneMore
<1>14. Len(saved) = 1 /\ saved[1] = m /\ e + 1 = 1
  BY <1>3, <1>4, PairIs
<1>15. Holds(d, f, p, e + 1, saved)
  <2>1. \A j \in 1..1 : j = 1
    OBVIOUS
  <2> QED
    BY <1>3, <1>10, <1>14, <2>1 DEF Holds, Controls
<1>16. Stands(Kind(p), e + 1) # 0 => m = saved[Stands(Kind(p), e + 1)]
  BY <1>3, <1>14 DEF Stands
<1>17. e < Kids(p) /\ Enter(e + 1, saved)
  <2>1. Kids(p) = 2 \/ Kids(p) = 4
    BY <1>1, <1>2, <1>3, TreeFacts, TopVisit DEF Ready, IInv
  <2> QED
    BY <1>3, <1>6, <1>14, <2>1
<1> QED
  BY <1>1, <1>2, <1>6, <1>10, <1>12, <1>13, <1>15, <1>16, <1>17, ControlGoesOn

(* What the visit of a loop saves when it goes on.                         *)
LEMMA MoreSaved ==
  ASSUME NEW n \in Nat, NEW m \in Nat, m = n + 1, NEW k \in 1..n, NEW bb, IsSeq(bb),
         NEW e \in {1, 2, 3}, Len(bb) = e, \A j \in 1..e : bb[j] \in 1..n,
         NEW saved, saved = IF e = 3 THEN bb \o <<k, m>> ELSE Append(bb, m)
  PROVE  /\ \A j \in 1..e : saved[j] = bb[j]
         /\ e = 3 => Len(saved) = 5 /\ saved[4] = k /\ saved[5] = m
         /\ e # 3 => Len(saved) = e + 1 /\ saved[e + 1] = m
<1>1. CASE e = 3
  <2>1. m \in 1..m /\ k \in 1..m /\ n <= m
    OBVIOUS
  <2>2. bb \in Seq(1..m)
    BY <2>1, Saved
  <2>3. <<k, m>> \in Seq(1..m)
    BY <2>1
  <2>4. Len(<<k, m>>) = 2 /\ <<k, m>>[1] = k /\ <<k, m>>[2] = m
    BY PairIs
  <2>5. /\ Len(bb \o <<k, m>>) = 5
        /\ \A j \in 1..5 : (bb \o <<k, m>>)[j] = IF j <= 3 THEN bb[j] ELSE <<k, m>>[j - 3]
    <3>1. /\ Len(bb \o <<k, m>>) = Len(bb) + Len(<<k, m>>)
          /\ \A j \in 1..(Len(bb) + Len(<<k, m>>)) :
               (bb \o <<k, m>>)[j] = IF j <= Len(bb) THEN bb[j] ELSE <<k, m>>[j - Len(bb)]
      BY <2>2, <2>3, ConcatProperties
    <3>2. Len(bb) = 3 /\ Len(bb) + Len(<<k, m>>) = 5
      BY <1>1, <2>4
    <3> QED
      BY <3>1, <3>2
  <2>6. /\ \A j \in 1..3 : (bb \o <<k, m>>)[j] = bb[j]
        /\ (bb \o <<k, m>>)[4] = k /\ (bb \o <<k, m>>)[5] = m
    BY <2>4, <2>5
  <2> QED
    BY <1>1, <2>5, <2>6
<1>2. CASE e # 3
  BY <1>2, Appended
<1> QED
  BY <1>1, <1>2

LEMMA FlowLoopGoesOn ==
  ASSUME IInv, ChainInv, FlowInv, WhileBody \/ NextOfFor \/ ForStep
  PROVE  FlowInv'
<1>1. /\ Running /\ tree' = tree /\ Kind(At) \in {"while", "for"} /\ Kind(At) \in Controls
      /\ \/ Kind(At) = "while" /\ Top.pt = 1
         \/ Kind(At) = "for" /\ Top.pt \in {1, 2, 3}
      /\ code' = New(code, Func) /\ cur' = Len(code) + 1
      /\ Enter(Top.pt + 1, IF Top.pt = 3 THEN Top.bb \o <<cur, Len(code) + 1>>
                           ELSE Append(Top.bb, Len(code) + 1))
  <2>1. CASE WhileBody
    BY <2>1 DEF WhileBody, Visiting, Running, Walking, Controls
  <2>2. CASE NextOfFor
    BY <2>2 DEF NextOfFor, Visiting, Running, Walking, Controls
  <2>3. CASE ForStep
    BY <2>3 DEF ForStep, Visiting, Running, Walking, Controls
  <2> QED
    BY <2>1, <2>2, <2>3
<1>2. PICK c, f, k, p, e, bb, L, O, n : Ready(c, f, k, p, e, bb, L, O, n)
  BY <1>1, Readiness
<1>3. /\ Kind(p) \in {"while", "for"} /\ f # Detached /\ Own(c, f, k)
      /\ n = Len(c) /\ n \in Nat /\ e \in {1, 2, 3} /\ Len(bb) = e /\ IsSeq(bb)
      /\ Kind(p) = "while" => e = 1
      /\ Stands(Kind(p), e) # 0 => k = bb[Stands(Kind(p), e)]
  BY <1>1, <1>2 DEF Ready, BlocksSaved
<1>4. PICK m, d : m = n + 1 /\ d = New(c, f)
  OBVIOUS
<1>5. m \in Nat
  BY <1>3, <1>4
<1>6. PICK saved : saved = IF e = 3 THEN bb \o <<k, m>> ELSE Append(bb, m)
  OBVIOUS
<1>7. code' = d /\ cur' = m /\ Enter(e + 1, saved)
  BY <1>1, <1>2, <1>4, <1>6 DEF Ready
<1>8. /\ \A x : PutsOf(p, x) = {}
      /\ Sane(c, f, L, O \cup OwesOf(p, e, bb) \cup {k})
      /\ \A j \in 1..Len(bb) : Own(c, f, bb[j]) /\ (j # 4 => Leads(c, f, L, bb[j]))
  BY <1>2, <1>3, LoopBlocks
<1>9. /\ Sane(d, f, L, (O \cup OwesOf(p, e, bb) \cup {k}) \cup {m}) /\ Len(d) = m
      /\ Grew(c, d, f) /\ Own(d, f, m) /\ Leads(d, f, L, m)
  <2>1. PICK R : R = O \cup OwesOf(p, e, bb) \cup {k}
    OBVIOUS
  <2>2. Sane(c, f, L, R) /\ Own(c, f, k) /\ n = Len(c) /\ n \in Nat /\ m \in Nat /\ m = n + 1
    BY <1>3, <1>4, <1>5, <1>8, <2>1
  <2>3. /\ Sane(New(c, f), f, L, R \cup {m}) /\ Len(New(c, f)) = m /\ Grew(c, New(c, f), f)
        /\ Own(New(c, f), f, m) /\ Leads(New(c, f), f, L, m)
    BY <2>2, NewInside
  <2> QED
    BY <1>4, <2>1, <2>3
<1>10. /\ \A j \in 1..e : saved[j] = bb[j]
       /\ e = 3 => Len(saved) = 5 /\ saved[4] = k /\ saved[5] = m
       /\ e # 3 => Len(saved) = e + 1 /\ saved[e + 1] = m
  <2>1. k \in 1..n /\ \A j \in 1..e : bb[j] \in 1..n
    BY <1>2, <1>3 DEF Own, Ready
  <2> QED
    BY <1>3, <1>4, <1>5, <1>6, <2>1, MoreSaved
<1>11. \A j \in 1..Len(bb) : Own(d, f, bb[j]) /\ (j # 4 => Leads(d, f, L, bb[j]))
  BY <1>3, <1>8, <1>9, Keeps
<1>12. Own(d, f, k)
  BY <1>3, <1>9, Keeps
<1>13. ASSUME NEW j \in 1..Len(saved)
       PROVE  Own(d, f, saved[j]) /\ (j # 4 => Leads(d, f, L, saved[j]))
  <2>1. CASE j \in 1..e
    BY <1>3, <1>10, <1>11, <2>1
  <2>2. CASE j \notin 1..e /\ e = 3
    <3>1. Len(saved) = 5
      BY <1>10, <2>2
    <3>2. j \in 1..5 /\ ~(j \in 1..3)
      BY <2>2, <3>1
    <3>3. j = 4 \/ j = 5
      BY <3>2
    <3> QED
      BY <1>9, <1>10, <1>12, <2>2, <3>3
  <2>3. CASE j \notin 1..e /\ e # 3
    <3>1. j = e + 1
      BY <1>3, <1>10, <2>3
    <3> QED
      BY <1>3, <1>9, <1>10, <2>3, <3>1
  <2> QED
    BY <2>1, <2>2, <2>3
<1>14. Holds(d, f, p, e + 1, saved)
  <2>1. e + 1 # 0 /\ Kind(p) # "if" /\ Kind(p) \in Controls
    BY <1>3 DEF Controls
  <2>2. \A j \in 1..Len(saved) : d[saved[j]].fn = f /\ (j # 4 => Later(d, saved[j], f))
    BY <1>13 DEF Own, Leads
  <2> QED
    BY <2>1, <2>2 DEF Holds
<1>15. Stands(Kind(p), e + 1) # 0 => m = saved[Stands(Kind(p), e + 1)]
  <2>1. CASE e = 1
    BY <1>3, <1>10, <2>1 DEF Stands
  <2>2. CASE e = 2
    BY <1>3, <1>10, <2>2 DEF Stands
  <2>3. CASE e = 3
    BY <1>3, <1>10, <2>3 DEF Stands
  <2> QED
    BY <1>3, <2>1, <2>2, <2>3
<1>16. OwesOf(p, e, bb) \cup {k} \subseteq OwesOf(p, e + 1, saved)
  <2>1. CASE e = 1
    <3>1. Owed(Kind(p), e) = {} /\ Owed(Kind(p), e + 1) = {1}
      BY <1>3, <2>1 DEF Owed
    <3>2. k = bb[1] /\ saved[1] = bb[1]
      BY <1>3, <1>10, <2>1 DEF Stands
    <3> QED
      BY <3>1, <3>2 DEF OwesOf
  <2>2. CASE e = 2
    <3>1. Owed(Kind(p), e) = {1} /\ Owed(Kind(p), e + 1) = {1, 2}
      BY <1>3, <2>2 DEF Owed
    <3>2. k = bb[2] /\ saved[1] = bb[1] /\ saved[2] = bb[2]
      BY <1>3, <1>10, <2>2 DEF Stands
    <3> QED
      BY <3>1, <3>2 DEF OwesOf
  <2>3. CASE e = 3
    <3>1. Owed(Kind(p), e) = {1, 2} /\ Owed(Kind(p), e + 1) = {1, 2, 4}
      BY <1>3, <2>3 DEF Owed
    <3>2. saved[4] = k /\ saved[1] = bb[1] /\ saved[2] = bb[2]
      BY <1>3, <1>10, <2>3
    <3> QED
      BY <3>1, <3>2 DEF OwesOf
  <2> QED
    BY <1>3, <2>1, <2>2, <2>3
<1>17. Sane(d, f, L \cup PutsOf(p, saved), O \cup OwesOf(p, e + 1, saved) \cup {m})
  BY <1>9, <1>16, SaneMore
<1>18. e < Kids(p)
  <2>1. (Kind(p) = "while" => Kids(p) = 2) /\ (Kind(p) = "for" => Kids(p) = 4)
    BY <1>1, <1>2, TreeFacts, TopVisit DEF Ready, IInv
  <2> QED
    BY <1>3, <2>1
<1> QED
  BY <1>1, <1>2, <1>7, <1>9, <1>14, <1>15, <1>17, <1>18, ControlGoesOn

LEMMA FlowWhileEnds ==
  ASSUME IInv, ChainInv, FlowInv, EndWhile
  PROVE  FlowInv'
<1>1. /\ Running /\ tree' = tree /\ Kind(At) = "while" /\ Top.pt = 2 /\ Kind(At) \in Controls
  BY DEF EndWhile, Visiting, Running, Walking, Controls
<1>2. PICK c, f, k, p, e, bb, L, O, n : Ready(c, f, k, p, e, bb, L, O, n)
  BY <1>1, Readiness
<1>3. /\ Kind(p) = "while" /\ e = 2 /\ f # Detached /\ Own(c, f, k)
      /\ n = Len(c) /\ n \in Nat /\ Len(bb) = 2
  BY <1>1, <1>2 DEF Ready, BlocksSaved
<1>4. PICK m, condBB, bodyBB : m = n + 1 /\ condBB = bb[1] /\ bodyBB = bb[2]
  OBVIOUS
<1>5. PICK c1, c2, d : /\ c1 = New(c, f) /\ c2 = Emit(c1, condBB, CondBr(bodyBB, m))
                       /\ d = Emit(c2, k, Br(condBB))
  OBVIOUS
<1>6. code' = d /\ cur' = m /\ Return
  BY <1>2, <1>4, <1>5 DEF EndWhile, Ready
<1>7. /\ Sane(c, f, L, O \cup OwesOf(p, e, bb) \cup {k})
      /\ Own(c, f, condBB) /\ Leads(c, f, L, condBB) /\ Leads(c, f, L, bodyBB)
  <2>1. \A j \in 1..Len(bb) : Own(c, f, bb[j]) /\ (j # 4 => Leads(c, f, L, bb[j]))
    BY <1>2, <1>3, LoopBlocks
  <2>2. 1 \in 1..Len(bb) /\ 2 \in 1..Len(bb)
    BY <1>3
  <2>3. Sane(c, f, L, O \cup OwesOf(p, e, bb) \cup {k})
    BY <1>2, <1>3, LoopBlocks
  <2> QED
    BY <1>4, <2>1, <2>2, <2>3
<1>8. OwesOf(p, e, bb) = {condBB}
  <2>1. Owed(Kind(p), e) = {1}
    BY <1>3 DEF Owed
  <2> QED
    BY <1>4, <2>1 DEF OwesOf
<1>9. PICK R, Q : R = O \cup OwesOf(p, e, bb) \cup {k} /\ Q = R \cup {m}
  OBVIOUS
<1>10. m \in Nat
  BY <1>3, <1>4
<1>11. /\ Sane(c1, f, L, Q) /\ Grew(c, c1, f) /\ Own(c1, f, m) /\ Leads(c1, f, L, m)
  <2>1. Sane(c, f, L, R) /\ Own(c, f, k) /\ n = Len(c) /\ n \in Nat /\ m \in Nat /\ m = n + 1
    BY <1>3, <1>4, <1>7, <1>9, <1>10
  <2>2. /\ Sane(New(c, f), f, L, R \cup {m}) /\ Grew(c, New(c, f), f)
        /\ Own(New(c, f), f, m) /\ Leads(New(c, f), f, L, m)
    BY <2>1, NewInside
  <2> QED
    BY <1>5, <1>9, <2>2
<1>12. /\ Own(c1, f, condBB) /\ Leads(c1, f, L, condBB) /\ Leads(c1, f, L, bodyBB)
       /\ Own(c1, f, k)
  BY <1>3, <1>7, <1>11, Keeps
<1>13. Sane(c2, f, L, Q \ {condBB}) /\ Grew(c1, c2, f)
  BY <1>5, <1>11, <1>12, BranchBoth
<1>14. Own(c2, f, k) /\ Leads(c2, f, L, condBB) /\ Own(c2, f, m)
  BY <1>3, <1>11, <1>12, <1>13, Keeps
<1>15. Sane(d, f, L, (Q \ {condBB}) \ {k}) /\ Grew(c2, d, f)
  BY <1>5, <1>13, <1>14, Branch
<1>16. Grew(c, d, f) /\ Own(d, f, m)
  BY <1>3, <1>11, <1>13, <1>14, <1>15, GrewOn, Keeps
<1>17. Sane(d, f, L, O \cup {m})
  BY <1>8, <1>9, <1>15, SaneMore
<1> QED
  BY <1>1, <1>2, <1>6, <1>16, <1>17, ControlEnds

LEMMA FlowForEnds ==
  ASSUME IInv, ChainInv, FlowInv, EndFor
  PROVE  FlowInv'
<1>1. /\ Running /\ tree' = tree /\ Kind(At) = "for" /\ Top.pt = 4 /\ Kind(At) \in Controls
  BY DEF EndFor, Visiting, Running, Walking, Controls
<1>2. PICK c, f, k, p, e, bb, L, O, n : Ready(c, f, k, p, e, bb, L, O, n)
  BY <1>1, Readiness
<1>3. /\ Kind(p) = "for" /\ e = 4 /\ f # Detached /\ Own(c, f, k)
      /\ n = Len(c) /\ n \in Nat /\ Len(bb) = 5
      /\ Stands(Kind(p), e) # 0 => k = bb[Stands(Kind(p), e)]
  BY <1>1, <1>2 DEF Ready, BlocksSaved
<1>4. PICK m, initBB, condBB, bodyBB, bodyEnd, stepBB :
        /\ m = n + 1 /\ initBB = bb[1] /\ condBB = bb[2] /\ bodyBB = bb[3]
        /\ bodyEnd = bb[4] /\ stepBB = bb[5]
  OBVIOUS
<1>5. PICK c1, c2, c3, c4, d :
        /\ c1 = New(c, f) /\ c2 = Emit(c1, initBB, Br(condBB))
        /\ c3 = Emit(c2, condBB, CondBr(bodyBB, m)) /\ c4 = Emit(c3, bodyEnd, Br(stepBB))
        /\ d = Emit(c4, stepBB, Br(condBB))
  OBVIOUS
<1>6. code' = d /\ cur' = m /\ Return
  BY <1>2, <1>4, <1>5 DEF EndFor, Ready
<1>7. /\ Sane(c, f, L, O \cup OwesOf(p, e, bb) \cup {k})
      /\ Own(c, f, initBB) /\ Own(c, f, condBB) /\ Own(c, f, bodyEnd) /\ Own(c, f, stepBB)
      /\ Leads(c, f, L, condBB) /\ Leads(c, f, L, bodyBB) /\ Leads(c, f, L, stepBB)
  <2>1. \A j \in 1..Len(bb) : Own(c, f, bb[j]) /\ (j # 4 => Leads(c, f, L, bb[j]))
    BY <1>2, <1>3, LoopBlocks
  <2>2. 1 \in 1..Len(bb) /\ 2 \in 1..Len(bb) /\ 3 \in 1..Len(bb) /\ 4 \in 1..Len(bb) /\ 5 \in 1..Len(bb)
    BY <1>3
  <2>3. Sane(c, f, L, O \cup OwesOf(p, e, bb) \cup {k})
    BY <1>2, <1>3, LoopBlocks
  <2> QED
    BY <1>4, <2>1, <2>2, <2>3
<1>8. OwesOf(p, e, bb) = {initBB, condBB, bodyEnd} /\ k = stepBB
  <2>1. Owed(Kind(p), e) = {1, 2, 4} /\ Stands(Kind(p), e) = 5
    BY <1>3 DEF Owed, Stands
  <2> QED
    BY <1>3, <1>4, <2>1 DEF OwesOf
<1>9. PICK R, Q : R = O \cup OwesOf(p, e, bb) \cup {k} /\ Q = R \cup {m}
  OBVIOUS
<1>10. m \in Nat
  BY <1>3, <1>4
<1>11. /\ Sane(c1, f, L, Q) /\ Grew(c, c1, f) /\ Own(c1, f, m) /\ Leads(c1, f, L, m)
  <2>1. Sane(c, f, L, R) /\ Own(c, f, k) /\ n = Len(c) /\ n \in Nat /\ m \in Nat /\ m = n + 1
    BY <1>3, <1>4, <1>7, <1>9, <1>10
  <2>2. /\ Sane(New(c, f), f, L, R \cup {m}) /\ Grew(c, New(c, f), f)
        /\ Own(New(c, f), f, m) /\ Leads(New(c, f), f, L, m)
    BY <2>1, NewInside
  <2> QED
    BY <1>5, <1>9, <2>2
<1>12. /\ Own(c1, f, initBB) /\ Own(c1, f, condBB) /\ Own(c1, f, bodyEnd) /\ Own(c1, f, stepBB)
       /\ Leads(c1, f, L, condBB) /\ Leads(c1, f, L, bodyBB) /\ Leads(c1, f, L, stepBB)
  BY <1>3, <1>7, <1>11, Keeps
<1>13. Sane(c2, f, L, Q \ {initBB}) /\ Grew(c1, c2, f)
  BY <1>5, <1>11, <1>12, Branch
<1>14. /\ Own(c2, f, condBB) /\ Own(c2, f, bodyEnd) /\ Own(c2, f, stepBB) /\ Own(c2, f, m)
       /\ Leads(c2, f, L, condBB) /\ Leads(c2, f, L, bodyBB) /\ Leads(c2, f, L, stepBB)
       /\ Leads(c2, f, L, m)
  BY <1>3, <1>11, <1>12, <1>13, Keeps
<1>15. Sane(c3, f, L, (Q \ {initBB}) \ {condBB}) /\ Grew(c2, c3, f)
  BY <1>5, <1>13, <1>14, BranchBoth
<1>16. /\ Own(c3, f, bodyEnd) /\ Own(c3, f, stepBB) /\ Own(c3, f, m)
       /\ Leads(c3, f, L, condBB) /\ Leads(c3, f, L, stepBB)
  BY <1>3, <1>14, <1>15, Keeps
<1>17. Sane(c4, f, L, ((Q \ {initBB}) \ {condBB}) \ {bodyEnd}) /\ Grew(c3, c4, f)
  BY <1>5, <1>15, <1>16, Branch
<1>18. Own(c4, f, stepBB) /\ Own(c4, f, m) /\ Leads(c4, f, L, condBB)
  BY <1>3, <1>16, <1>17, Keeps
<1>19. Sane(d, f, L, (((Q \ {initBB}) \ {condBB}) \ {bodyEnd}) \ {stepBB}) /\ Grew(c4, d, f)
  BY <1>5, <1>17, <1>18, Branch
<1>20. Grew(c, d, f) /\ Own(d, f, m)
  <2>1. Grew(c, c3, f)
    BY <1>11, <1>13, <1>15, GrewOn
  <2>2. Grew(c3, d, f)
    BY <1>17, <1>19, GrewOn
  <2> QED
    BY <1>3, <1>18, <1>19, <2>1, <2>2, GrewOn, Keeps
<1>21. Sane(d, f, L, O \cup {m})
  BY <1>8, <1>9, <1>19, SaneMore
<1> QED
  BY <1>1, <1>2, <1>6, <1>20, <1>21, ControlEnds

-----------------------------------------------------------------------------
(* Outside of a function's body.                                           *)

LEMMA NoneOwed ==
  ASSUME NEW p, Kind(p) \notin Controls
  PROVE  \A e, bb : PutsOf(p, bb) = {} /\ OwesOf(p, e, bb) = {} /\ Stands(Kind(p), e) = 0
<1>1. Kind(p) # "if" /\ Kind(p) # "while" /\ Kind(p) # "for"
  BY DEF Controls
<1>2. \A bb : PutsOf(p, bb) = {}
  BY <1>1 DEF PutsOf
<1>3. \A e : Owed(Kind(p), e) = {} /\ Stands(Kind(p), e) = 0
  BY <1>1 DEF Owed, Stands
<1> QED
  BY <1>2, <1>3 DEF OwesOf

(* Nothing is saved below the body, and nothing outside of it.             *)
LEMMA Shallow ==
  ASSUME IInv, Running, FlowInv, NEW i \in 1..Len(visits), i <= 2
  PROVE  /\ Kind(visits[i].at) \notin Controls /\ Len(visits[i].bb) = 0
         /\ Puts(i) = {} /\ Owes(i) = {}
<1>1. Kind(visits[i].at) \in AtTop \cup {"root"}
  <2>1. VisitOK(i) /\ (i = 1 \/ i = 2)
    BY DEF IInv, VisitsInv
  <2> QED
    BY <2>1 DEF VisitOK
<1>2. Kind(visits[i].at) \notin Controls
  BY <1>1 DEF AtTop, Controls
<1>3. HoldsAt(i)
  BY DEF FlowInv
<1> QED
  BY <1>2, <1>3, NoneOwed DEF HoldsAt, Holds, Puts, Owes

LEMMA Calm ==
  ASSUME IInv, Running, FlowInv, Len(visits) <= 2
  PROVE  /\ JumpOK(code, Func, {}) /\ Lower = {} /\ LowerOpen = {}
         /\ ~InBody => ClosedBut(code, {})
<1>0. PICK n \in Nat : n = Len(visits) /\ n <= 2
  BY TopVisit
<1>1. \A i \in 1..n : Puts(i) = {} /\ Owes(i) = {}
  BY <1>0, Shallow
<1>2. \A i \in 1..(n - 1) : i \in 1..n
  BY <1>0
<1>3. Promised = {} /\ Lower = {} /\ Owing = {} /\ LowerOpen = {}
  BY <1>0, <1>1, <1>2 DEF Promised, Lower, Owing, LowerOpen
<1>4. ~InBody => Open = {}
  BY <1>3 DEF Open, Current
<1> QED
  BY <1>3, <1>4 DEF FlowInv

LEMMA FlowAnew ==
  ASSUME tree' = tree, NEW CONSTANT n \in Nat, Len(visits') = n,
         \A i \in 1..n : Kind(visits'[i].at) \notin Controls /\ Len(visits'[i].bb) = 0,
         NEW CONSTANT d, code' = d, NEW CONSTANT f, JumpOK(d, f, {}),
         NEW CONSTANT Q, ClosedBut(d, Q), Q \subseteq Current', BodyInv',
         NEW CONSTANT p, (Top.pt > 0)' => Child(At, Top.pt)' = p, ~Ends(p)
  PROVE  FlowInv'
<1>1. ASSUME NEW CONSTANT i \in 1..n
      PROVE  HoldsAt(i)' /\ StandsOK(i)' /\ Puts(i)' = {}
  <2>1. PICK q, e, bb : q = visits'[i].at /\ e = Begun(i)' /\ bb = visits'[i].bb
    OBVIOUS
  <2>2. /\ HoldsAt(i)' <=> Holds(code', Func', q, e, bb)
        /\ StandsOK(i)' <=> (Stands(Kind(q), e) # 0 => cur' = bb[Stands(Kind(q), e)])
        /\ Puts(i)' = PutsOf(q, bb)
    BY <2>1, FrameIs
  <2>3. Kind(q) \notin Controls /\ Len(bb) = 0
    BY <2>1
  <2>4. Stands(Kind(q), e) = 0 /\ PutsOf(q, bb) = {}
    BY <2>3, NoneOwed
  <2>5. Holds(code', Func', q, e, bb)
    BY <2>3 DEF Holds, Controls
  <2> QED
    BY <2>2, <2>4, <2>5
<1>2. JumpOK(code, Func, Promised)'
  <2>1. JumpOK(d, Func', Promised')
    BY DEF JumpOK
  <2> QED
    BY <2>1 DEF JumpOK, Later, Goes, Detached, Root
<1>3. ClosedBut(code, Open)'
  <2>1. \A b \in Q : b \in Open'
    BY DEF Open
  <2>2. ClosedBut(code', Open')
    BY <2>1 DEF ClosedBut
  <2> QED
    BY <2>2, ClosedSame
<1>4. (Top.pt > 0 /\ Ends(Child(At, Top.pt)) => Closed(code, cur))'
  <2>1. Ends(p)' <=> Ends(p)
    BY DEF Ends, EndsInReturn, Kind, Kids, Child
  <2> QED
    BY <2>1
<1> QED
  BY <1>1, <1>2, <1>3, <1>4 DEF FlowInv

LEMMA FlowDeclares ==
  ASSUME IInv, ChainInv, FlowInv, TopLevel
  PROVE  FlowInv'
<1>1. /\ Running /\ tree' = tree /\ code' = code /\ At = Root /\ Top.pt < Kids(At)
      /\ Enter(Top.pt + 1, <<>>)
  BY DEF TopLevel, Running, Walking
<1>2. PICK n : n = 1 /\ n \in Nat /\ n = Len(visits)
  BY <1>1, TopVisit
<1>3. /\ Len(visits') = n + 1 /\ visits'[n].at = Root /\ visits'[n].bb = <<>>
      /\ visits'[n + 1].at = Child(Root, Top.pt + 1) /\ Begun(n + 1)' = 0
      /\ visits'[n + 1].bb = <<>> /\ visits'[n + 1].pt = 0
  BY <1>1, <1>2, EnterFrames
<1>4. n + 1 = 2 /\ Len(visits') = 2 /\ \A i \in 1..2 : i = n \/ i = n + 1
  <2>1. n + 1 = 2 /\ \A i \in 1..2 : i = 1 \/ i = 2
    BY <1>2
  <2> QED
    BY <1>2, <1>3, <2>1
<1>5. Kind(Root) = "root" /\ Kind(Child(Root, Top.pt + 1)) \in AtTop
  BY <1>1, TopVisit, TreeFacts DEF IInv
<1>6. \A i \in 1..2 : Kind(visits'[i].at) \notin Controls /\ Len(visits'[i].bb) = 0
  BY <1>3, <1>4, <1>5, NothingIsSeq DEF Controls, AtTop
<1>7. ~InBody /\ n <= 2
  <2>1. ~(Len(visits) >= 2) /\ n <= 2
    BY <1>2
  <2> QED
    BY <2>1 DEF InBody
<1>8. JumpOK(code, Func, {}) /\ ClosedBut(code, {})
  <2>1. IInv /\ Running /\ FlowInv /\ Len(visits) <= 2 /\ ~InBody
    BY <1>1, <1>2, <1>7
  <2> QED
    BY <2>1, Calm
<1>9. BodyInv'
  <2>1. visits'[2].at = Child(Root, Top.pt + 1) /\ Begun(2)' = 0
    BY <1>3, <1>4
  <2> QED
    BY <1>4, <2>1 DEF BodyInv, InBody
<1>10. ~(Top.pt > 0)'
  BY <1>2, <1>3, <1>4 DEF Top, Last
<1>11. PICK d, f, p, Q : d = code /\ f = Func /\ p = Root /\ Q = {}
  OBVIOUS
<1>12. ~Ends(p)
  BY <1>5, <1>11 DEF Ends
<1> QED
  BY <1>1, <1>4, <1>6, <1>8, <1>9, <1>10, <1>11, <1>12, FlowAnew

(* Back at the top.                                                        *)
LEMMA FlowAtTop ==
  ASSUME IInv, Running, ChainInv, FlowInv, tree' = tree, Kind(At) \in AtTop, Return,
         NEW CONSTANT d, code' = d, NEW CONSTANT f, JumpOK(d, f, {}), ClosedBut(d, {})
  PROVE  FlowInv'
<1>1. PICK n : n = 1 /\ n \in Nat /\ Len(visits) = n + 1 /\ n >= 1 /\ n <= 2 /\ n \in 1..n
  BY TopVisit
<1>2. /\ Len(visits') = n
      /\ visits'[n].at = visits[n].at /\ visits'[n].bb = visits[n].bb
      /\ Top' = visits'[n] /\ visits'[n].pt = visits[n].pt + 1
  BY <1>1, ReturnFrames
<1>3. Kind(visits[n].at) \notin Controls /\ Len(visits[n].bb) = 0
  BY <1>1, Shallow
<1>4. \A i \in 1..n : Kind(visits'[i].at) \notin Controls /\ Len(visits'[i].bb) = 0
  BY <1>1, <1>2, <1>3
<1>5. BodyInv'
  BY <1>1, <1>2 DEF BodyInv, InBody
<1>6. PICK p, Q : p = At /\ Q = {}
  OBVIOUS
<1>7. Child(At, Top.pt)' = p
  <2>1. visits[n + 1].at = Append(visits[n].at, visits[n].pt + 1)
    BY <1>1 DEF ChainInv
  <2> QED
    BY <1>1, <1>2, <1>6, <2>1, TopVisit DEF At, Child
<1>8. ~Ends(p)
  BY <1>6 DEF Ends, AtTop
<1> QED
  BY <1>1, <1>2, <1>4, <1>5, <1>6, <1>7, <1>8, FlowAnew

LEMMA FlowDeclared ==
  ASSUME IInv, ChainInv, FlowInv, DefineGlobal \/ Declare
  PROVE  FlowInv'
<1>1. /\ Running /\ tree' = tree /\ code' = code /\ Return /\ Kind(At) \in {"global", "decl"}
      /\ Top.pt = 0
  BY DEF DefineGlobal, Declare, Visiting, Running, Walking
<1>2. Len(visits) = 2 /\ Kind(At) \in AtTop
  BY <1>1, TopVisit DEF AtTop
<1>3. ~InBody
  BY <1>1, <1>2, TopVisit DEF InBody, At
<1>4. JumpOK(code, Func, {}) /\ ClosedBut(code, {})
  <2>1. IInv /\ Running /\ FlowInv /\ Len(visits) <= 2 /\ ~InBody
    BY <1>1, <1>2, <1>3
  <2> QED
    BY <2>1, Calm
<1>5. PICK d, f : d = code /\ f = Func
  OBVIOUS
<1> QED
  BY <1>1, <1>2, <1>4, <1>5, FlowAtTop

LEMMA FlowOpensBody ==
  ASSUME IInv, ChainInv, FlowInv, BeginFunction
  PROVE  FlowInv'
<1>1. /\ Running /\ tree' = tree /\ Kind(At) = "def" /\ Top.pt = 0 /\ Declarable
      /\ code' = New(code, Declared) /\ cur' = Len(code) + 1 /\ Enter(1, <<>>)
  BY DEF BeginFunction, Visiting, Running, Walking
<1>2. PICK n \in Nat : n = 2 /\ n <= 2 /\ n = Len(visits)
  <2>1. Len(visits) = 2
    BY <1>1, TopVisit DEF AtTop
  <2>2. PICK n \in Nat : n = 2 /\ n <= 2
    OBVIOUS
  <2> QED
    BY <2>1, <2>2
<1>3. PICK q : q = At /\ q \in Paths /\ Kids(q) >= 1 /\ Kids(q) \in Nat /\ 1 \in 1..Kids(q)
  BY <1>1, TopVisit, TreeFacts DEF IInv
<1>4. Top.pt + 1 = 1 /\ Top.pt < Kids(At)
  BY <1>1, <1>3
<1>5. /\ Len(visits') = n + 1
      /\ \A i \in 1..(n - 1) : visits'[i] = visits[i] /\ Begun(i)' = Begun(i)
      /\ visits'[n].at = q /\ visits'[n].bb = <<>> /\ Begun(n)' = 1
      /\ visits'[n + 1].at = Child(q, 1) /\ Begun(n + 1)' = 0
      /\ visits'[n + 1].bb = <<>> /\ visits'[n + 1].pt = 0
  BY <1>1, <1>2, <1>3, <1>4, EnterFrames
<1>6. /\ n + 1 = 3 /\ n - 1 = 1 /\ Len(visits') = 3 /\ visits'[1] = visits[1]
      /\ visits'[2].at = q /\ visits'[2].bb = <<>> /\ Begun(2)' = 1
      /\ visits'[3].at = Child(q, 1) /\ visits'[3].bb = <<>> /\ visits'[3].pt = 0
  <2>1. n + 1 = 3 /\ n - 1 = 1 /\ 1 \in 1..1
    BY <1>2
  <2> QED
    BY <1>2, <1>5, <2>1
<1>7. Kind(Child(q, 1)) \in {"param", "block"}
  BY <1>1, <1>3, KindFacts DEF IInv
<1>8. Kind(visits[1].at) \notin Controls /\ Len(visits[1].bb) = 0
  BY <1>1, <1>2, Shallow
<1>9. \A i \in 1..3 : Kind(visits'[i].at) \notin Controls /\ Len(visits'[i].bb) = 0
  <2>1. \A i \in 1..3 : i = 1 \/ i = 2 \/ i = 3
    OBVIOUS
  <2> QED
    BY <1>1, <1>3, <1>6, <1>7, <1>8, <2>1, NothingIsSeq DEF Controls
<1>10. ~InBody
  BY <1>1, <1>2, TopVisit DEF InBody, Begun, At
<1>11. JumpOK(code, Func, {}) /\ ClosedBut(code, {})
  <2>1. IInv /\ Running /\ FlowInv /\ Len(visits) <= 2 /\ ~InBody
    <3>1. Len(visits) <= 2
      BY <1>2
    <3> QED
      BY <1>1, <1>10, <3>1
  <2> QED
    BY <2>1, Calm
<1>12. PICK c, f, m : c = code /\ f = Declared /\ m = Len(code)
  OBVIOUS
<1>13. /\ f \in FnSet /\ f # Detached /\ tree[f].type = tree[q].type
  <2>1. f \in FnSet
    BY <1>1, <1>12, DeclaredFunction DEF IsFunction
  <2>2. PICK g : g = findFunction(Name(At))
    OBVIOUS
  <2>3. g \in {p \in Paths : IsFunction(p)} \cup {NoSite}
    BY <1>1, <2>2, Standing, Found DEF findFunction
  <2>4. CASE g = NoSite
    <3>1. f = q
      BY <1>3, <1>12, <2>2, <2>4 DEF Declared
    <3>2. Kind(Root) = "root"
      BY TreeFacts DEF IInv
    <3> QED
      BY <1>1, <1>3, <2>1, <3>1, <3>2 DEF Detached
  <2>5. CASE g # NoSite
    <3>1. f = g /\ Signature(g) = Signature(q)
      BY <1>1, <1>3, <1>12, <2>2, <2>5 DEF Declared, Declarable
    <3>2. IsFunction(f) /\ Kind(Root) = "root"
      BY <2>3, <2>5, <3>1, TreeFacts DEF IInv
    <3> QED
      BY <2>1, <3>1, <3>2 DEF Signature, Detached, IsFunction
  <2> QED
    BY <2>4, <2>5
<1>14. Sane(c, f, {}, {}) /\ m \in Nat /\ m = Len(c)
  <2>1. JumpOK(c, f, {})
    BY <1>11, <1>12 DEF JumpOK
  <2> QED
    BY <1>1, <1>11, <1>12, <1>13, <2>1, Standing DEF Sane
<1>15. PICK d : d = New(c, f)
  OBVIOUS
<1>16. Sane(d, f, {}, {} \cup {m + 1}) /\ Own(d, f, m + 1)
  <2>1. /\ Sane(New(c, f), f, {}, IF f = f THEN {} \cup {m + 1} ELSE {})
        /\ Len(New(c, f)) = m + 1 /\ New(c, f)[m + 1].fn = f
    BY <1>14, SaneNew
  <2> QED
    BY <1>14, <1>15, <2>1 DEF Own
<1>17. code' = d /\ cur' = m + 1
  BY <1>1, <1>12, <1>15
<1>18. Func' = f
  BY <1>16, <1>17 DEF Func, Own
<1>19. InBody' /\ BodyInv'
  <2>1. Kind(q)' = "def"
    BY <1>1, <1>3 DEF Kind
  <2>2. InBody'
    BY <1>6, <2>1 DEF InBody, Kind
  <2> QED
    <3>1. Func' # Detached /\ tree'[Func'].type = tree'[visits'[2].at].type
      BY <1>1, <1>6, <1>13, <1>18
    <3>2. Kind(visits[2].at)' = "def"
      BY <1>6, <2>1 DEF Kind
    <3> QED
      BY <2>2, <3>1, <3>2 DEF BodyInv, Kind, Detached, Root
<1>20. PICK Q : Q = {m + 1}
  OBVIOUS
<1>21. Q \subseteq Current' /\ ClosedBut(d, Q) /\ JumpOK(d, f, {})
  BY <1>16, <1>17, <1>19, <1>20 DEF Current, Sane
<1>22. ~(Top.pt > 0)'
  BY <1>6 DEF Top, Last
<1>23. ~Ends(q)
  BY <1>1, <1>3 DEF Ends
<1> QED
  BY <1>1, <1>6, <1>9, <1>17, <1>19, <1>21, <1>22, <1>23, FlowAnew

LEMMA FlowClosesBody ==
  ASSUME IInv, ChainInv, FlowInv, EndFunction
  PROVE  FlowInv'
<1>1. /\ Running /\ tree' = tree /\ Kind(At) = "def" /\ Top.pt = Kids(At) /\ Return
      /\ code' = IF tree[At].type = "void" /\ ~EndsInReturn(Child(At, Kids(At)))
                 THEN Emit(code, cur, Instr("end", At, <<>>, NoSite)) ELSE code
  BY DEF EndFunction, Visiting, Running, Walking
<1>2. PICK c, f, k, p, b, Q :
        /\ c = code /\ f = Func /\ k = cur /\ p = At /\ b = Child(At, Kids(At)) /\ Q = {k}
  OBVIOUS
<1>3. /\ p \in Paths /\ Kids(p) \in Nat /\ Kids(p) >= 1 /\ Kids(p) \in 1..Kids(p)
      /\ Kind(b) = "block"
  BY <1>1, <1>2, TopVisit, TreeFacts, KindFacts DEF IInv
<1>4. InBody /\ Len(visits) = 2 /\ Kind(p) \notin Controls
  <2>1. Len(visits) = 2
    BY <1>1, TopVisit DEF AtTop
  <2>2. Top.pt > 0
    BY <1>1, <1>2, <1>3
  <2> QED
    BY <1>1, <1>2, <2>1, <2>2, Indoors DEF Controls
<1>5. Sane(c, f, {}, Q) /\ Own(c, f, k)
  <2>1. Lower = {} /\ LowerOpen = {}
    <3>1. IInv /\ Running /\ FlowInv /\ Len(visits) <= 2
      BY <1>1, <1>4
    <3> QED
      BY <3>1, Calm
  <2>2. \A e, bb : PutsOf(p, bb) = {} /\ OwesOf(p, e, bb) = {}
    BY <1>4, NoneOwed
  <2>3. /\ Sane(c, f, Lower \cup PutsOf(p, Top.bb),
                LowerOpen \cup OwesOf(p, Top.pt, Top.bb) \cup {k})
        /\ Own(c, f, k)
    BY <1>1, <1>2, <1>4, InFlow
  <2>4. /\ Lower \cup PutsOf(p, Top.bb) = {}
        /\ LowerOpen \cup OwesOf(p, Top.pt, Top.bb) \cup {k} = Q
    BY <1>2, <2>1, <2>2
  <2> QED
    BY <2>3, <2>4
<1>6. CASE tree[p].type = "void" /\ ~EndsInReturn(b)
  <2>1. PICK x : x = Instr("end", At, <<>>, NoSite)
    OBVIOUS
  <2>2. x.op = "end" /\ DOMAIN x.to = {}
    BY <2>1 DEF Instr
  <2>3. /\ x.op \in Terminators /\ x.op # "unreachable"
        /\ \A i \in DOMAIN x.to : Leads(c, f, {}, x.to[i])
    BY <2>2 DEF Terminators
  <2>4. PICK d : d = Emit(c, k, x)
    OBVIOUS
  <2>5. Sane(d, f, {}, Q \ {k})
    BY <1>5, <2>3, <2>4, SaneEmit
  <2>6. JumpOK(d, f, {}) /\ ClosedBut(d, {})
    BY <1>2, <2>5 DEF Sane, ClosedBut
  <2>7. code' = d
    BY <1>1, <1>2, <1>6, <2>1, <2>4
  <2> QED
    BY <1>1, <2>6, <2>7, FlowAtTop DEF AtTop
<1>7. CASE ~(tree[p].type = "void" /\ ~EndsInReturn(b))
  <2>1. tree[f].type = tree[p].type /\ c[k].fn = f
    BY <1>1, <1>2, <1>4, <1>5, TopVisit DEF FlowInv, BodyInv, At, Own
  <2>2. tree[p].type = "void" => Closed(c, k)
    <3>1. SUFFICES ASSUME EndsInReturn(b) PROVE Closed(c, k)
      BY <1>7
    <3>2. Top.pt > 0 /\ Ends(Child(At, Top.pt))
      BY <1>1, <1>2, <1>3, <3>1 DEF Ends
    <3> QED
      BY <1>2, <3>2 DEF FlowInv
  <2>3. ClosedBut(c, {})
    BY <1>2, <1>5, <2>1, <2>2 DEF ClosedBut, Sane
  <2>4. JumpOK(c, f, {})
    BY <1>5 DEF Sane
  <2>5. code' = c
    BY <1>1, <1>2, <1>7
  <2> QED
    BY <1>1, <2>3, <2>4, <2>5, FlowAtTop DEF AtTop
<1> QED
  BY <1>6, <1>7

-----------------------------------------------------------------------------
(* Blocks reached turn by turn.                                            *)
Targets(b) == {Ending(b).to[k] : k \in DOMAIN Ending(b).to}
Onward(now, shut) == now \cup UNION {Targets(b) : b \in now \ shut}
Spreads(w, bs, shut) == w = [n \in Nat |-> IF n = 0 THEN bs ELSE Onward(w[n - 1], shut)]
Spread(r, bs, shut, n) == r = [i \in 0..n |-> IF i = 0 THEN bs ELSE Onward(r[i - 1], shut)]

LEMMA ReachedIs ==
  ASSUME NEW bs, NEW shut
  PROVE  Reached(bs, shut) = (CHOOSE w : Spreads(w, bs, shut))[Cardinality(Blocks)]
BY DEF Reached, Spreads, Onward, Targets

LEMMA SpreadExists ==
  ASSUME NEW bs, NEW shut, NEW n \in Nat
  PROVE  \E r : Spread(r, bs, shut, n)
<1> DEFINE T == {m \in Nat : ~\E r : Spread(r, bs, shut, m)}
<1>1. SUFFICES ASSUME T # {} PROVE FALSE
  OBVIOUS
<1>2. PICK m \in T : \A k \in T : m <= k
  BY <1>1, LeastExists
<1>3. CASE m = 0
  <2> DEFINE r == [i \in 0..0 |-> bs]
  <2>1. Spread(r, bs, shut, 0)
    BY DEF Spread
  <2> QED
    BY <1>3, <2>1
<1>4. CASE m > 0
  <2>1. m - 1 \in Nat /\ m - 1 \notin T
    BY <1>2, <1>4
  <2>2. PICK q : Spread(q, bs, shut, m - 1)
    BY <2>1
  <2> DEFINE r == [i \in 0..m |-> IF i = 0 THEN bs ELSE Onward(q[i - 1], shut)]
  <2>3. \A i \in 0..(m - 1) : r[i] = q[i]
    BY <2>1, <2>2 DEF Spread
  <2>4. \A i \in 0..m : i # 0 => i - 1 \in 0..(m - 1)
    BY <2>1
  <2>5. \A i \in 0..m : i # 0 => r[i - 1] = q[i - 1]
    BY <2>3, <2>4
  <2>6. r = [i \in 0..m |-> IF i = 0 THEN bs ELSE Onward(r[i - 1], shut)]
    <3>1. \A i \in 0..m : (IF i = 0 THEN bs ELSE Onward(q[i - 1], shut))
                            = IF i = 0 THEN bs ELSE Onward(r[i - 1], shut)
      BY <2>5
    <3> QED
      BY <3>1, Zenon
  <2>7. Spread(r, bs, shut, m)
    BY <2>6 DEF Spread
  <2> QED
    BY <2>7
<1> QED
  BY <1>2, <1>3, <1>4

LEMMA SpreadsAgree ==
  ASSUME NEW bs, NEW shut, NEW n \in Nat, NEW m \in Nat, n <= m,
         NEW r, Spread(r, bs, shut, n), NEW q, Spread(q, bs, shut, m)
  PROVE  \A i \in 0..n : r[i] = q[i]
<1> DEFINE T == {i \in 0..n : r[i] # q[i]}
<1>1. SUFFICES ASSUME T # {} PROVE FALSE
  OBVIOUS
<1>2. T \subseteq Nat
  OBVIOUS
<1>3. PICK i \in T : \A k \in T : i <= k
  BY <1>1, <1>2, LeastExists
<1>4. CASE i = 0
  BY <1>3, <1>4 DEF Spread
<1>5. CASE i > 0
  <2>1. i - 1 \in 0..n /\ i - 1 \notin T
    BY <1>3, <1>5
  <2>2. r[i - 1] = q[i - 1]
    BY <2>1
  <2>3. i \in 0..n /\ i \in 0..m /\ i # 0
    BY <1>3, <1>5
  <2>4. r[i] = Onward(r[i - 1], shut) /\ q[i] = Onward(q[i - 1], shut)
    BY <2>3 DEF Spread
  <2> QED
    BY <1>3, <2>2, <2>4
<1> QED
  BY <1>3, <1>4, <1>5

LEMMA SpreadsExists ==
  ASSUME NEW bs, NEW shut
  PROVE  \E w : Spreads(w, bs, shut)
<1> DEFINE R(n) == CHOOSE r : Spread(r, bs, shut, n)
           w == [n \in Nat |-> R(n)[n]]
<1>1. \A n \in Nat : Spread(R(n), bs, shut, n)
  BY SpreadExists
<1> HIDE DEF R
<1>2. ASSUME NEW n \in Nat, n # 0 PROVE n - 1 \in Nat /\ R(n)[n] = Onward(R(n - 1)[n - 1], shut)
  <2>1. PICK k \in Nat : k = n - 1 /\ k <= n /\ k \in 0..k
    BY <1>2
  <2>2. R(k)[k] = R(n)[k]
    BY <1>1, <2>1, SpreadsAgree
  <2>3. R(n)[n] = Onward(R(n)[n - 1], shut)
    BY <1>1, <1>2 DEF Spread
  <2> QED
    BY <2>1, <2>2, <2>3
<1>3. \A n \in Nat : R(n)[n] = IF n = 0 THEN bs ELSE Onward(w[n - 1], shut)
  <2>1. R(0)[0] = bs
    BY <1>1 DEF Spread
  <2> QED
    BY <1>2, <2>1
<1>4. w = [n \in Nat |-> IF n = 0 THEN bs ELSE Onward(w[n - 1], shut)]
  BY <1>3, Zenon
<1> QED
  BY <1>4 DEF Spreads

(* Blocks that lead to each other only are not left.                       *)
LEMMA StaysWithin ==
  ASSUME NEW bs, NEW shut, NEW S, bs \subseteq S,
         \A b \in S : b \notin shut => Targets(b) \subseteq S, Cardinality(Blocks) \in Nat
  PROVE  Reached(bs, shut) \subseteq S
<1> DEFINE w == CHOOSE v : Spreads(v, bs, shut)
<1>1. Spreads(w, bs, shut)
  BY SpreadsExists
<1>2. Reached(bs, shut) = w[Cardinality(Blocks)]
  BY ReachedIs
<1> HIDE DEF w
<1>3. /\ w[0] = bs
      /\ \A n \in Nat : n # 0 => w[n] = Onward(w[n - 1], shut)
  BY <1>1 DEF Spreads
<1> DEFINE T == {n \in Nat : ~(w[n] \subseteq S)}
<1>4. ASSUME T # {} PROVE FALSE
  <2>1. PICK n \in T : \A k \in T : n <= k
    BY <1>4, LeastExists
  <2>2. n # 0
    BY <1>3, <2>1
  <2>3. PICK k \in Nat : k = n - 1 /\ k \notin T
    BY <2>1, <2>2
  <2>4. w[k] \subseteq S /\ w[n] = Onward(w[k], shut)
    BY <1>3, <2>2, <2>3
  <2>5. \A b \in w[k] \ shut : Targets(b) \subseteq S
    BY <2>4
  <2>6. Onward(w[k], shut) \subseteq S
    BY <2>4, <2>5, Zenon DEF Onward
  <2> QED
    BY <2>4, <2>6
<1> QED
  BY <1>2, <1>4

-----------------------------------------------------------------------------
(* The end of the walk.                                                    *)

LEMMA StrippedIs ==
  ASSUME NEW ins, IsSeq(ins), \A i \in 1..Len(ins) : ins[i].op # "unreachable",
         NEW s, s = Stripped(ins)
  PROVE  /\ IsSeq(s) /\ Len(s) \in Nat /\ Len(s) >= 1
         /\ \A i \in 1..Len(s) : s[i].op \in Terminators <=> i = Len(s)
         /\ \A t : Aims(s[Len(s)], t) => \E i \in 1..Len(ins) : Aims(ins[i], t)
         /\ (\E i \in 1..Len(ins) : ins[i].op \in Terminators) => s[Len(s)].op # "unreachable"
         /\ \A i \in 1..Len(s) : i \in 1..Len(ins) => s[i] = ins[i]
         /\ \A i \in 1..Len(s) :
              i \notin 1..Len(ins) => s[i].op = "unreachable" /\ DOMAIN s[i].to = {}
<1> DEFINE ends == {i \in DOMAIN ins : ins[i].op \in Terminators}
<1>1. DOMAIN ins = 1..Len(ins) /\ Len(ins) \in Nat
  BY SeqFacts
<1>2. CASE ends = {}
  <2>1. PICK stop : stop = Instr("unreachable", Root, <<>>, NoSite)
    OBVIOUS
  <2>2. stop.op = "unreachable" /\ DOMAIN stop.to = {}
    BY <2>1 DEF Instr
  <2>3. s = Append(ins, stop)
    BY <1>2, <2>1 DEF Stripped
  <2>4. /\ IsSeq(s) /\ Len(s) = Len(ins) + 1
        /\ \A k \in 1..Len(ins) : s[k] = ins[k]
        /\ s[Len(ins) + 1] = stop
    BY <2>3, Appended
  <2>5. /\ \A k \in 1..(Len(ins) + 1) : k \in 1..Len(ins) \/ k = Len(ins) + 1
        /\ \A k \in 1..Len(ins) : k # Len(ins) + 1
        /\ Len(ins) + 1 >= 1 /\ Len(ins) + 1 \in Nat
    BY <1>1
  <2>6. \A i \in 1..Len(ins) : ins[i].op \notin Terminators
    BY <1>1, <1>2
  <2>7. \A t : ~Aims(stop, t)
    BY <2>2 DEF Aims
  <2>8. stop.op \in Terminators
    BY <2>2 DEF Terminators
  <2> HIDE DEF ends
  <2> QED
    BY <2>2, <2>4, <2>5, <2>6, <2>7, <2>8
<1>3. CASE ends # {}
  <2>1. ends \subseteq Nat
    BY <1>1
  <2>2. \E i \in ends : \A j \in ends : i <= j
    BY <1>3, <2>1, LeastExists
  <2>3. PICK i \in ends : i = CHOOSE k \in ends : \A j \in ends : k <= j
    BY <2>2
  <2>4. s = SubSeq(ins, 1, i)
    BY <1>3, <2>3 DEF Stripped
  <2>5. /\ i \in 1..Len(ins) /\ i \in Nat /\ i >= 1 /\ ins[i].op \in Terminators
        /\ \A j \in 1..Len(ins) : ins[j].op \in Terminators => i <= j
    BY <1>1, <2>2, <2>3
  <2> HIDE DEF ends
  <2> DEFINE T == {ins[k] : k \in DOMAIN ins}
  <2>6. \A k \in 1..i : ins[k] \in T
    BY <1>1, <2>5
  <2> HIDE DEF T
  <2>7. /\ SubSeq(ins, 1, i) \in Seq(T)
        /\ Len(SubSeq(ins, 1, i)) = i - 1 + 1
        /\ \A k \in 1..(i - 1 + 1) : SubSeq(ins, 1, i)[k] = ins[1 + k - 1]
    BY <2>5, <2>6, SubSeqProperties
  <2>8. i - 1 + 1 = i /\ \A k \in 1..i : 1 + k - 1 = k /\ k \in 1..Len(ins)
    BY <1>1, <2>5
  <2>9. IsSeq(s) /\ Len(s) = i /\ \A k \in 1..i : s[k] = ins[k] /\ k \in 1..Len(ins)
    BY <2>4, <2>7, <2>8, SeqIsSeq
  <2>10. i \in 1..i /\ \A k \in 1..i : i <= k => k = i
    BY <2>5
  <2>11. \A k \in 1..i : s[k].op \in Terminators <=> k = i
    BY <2>5, <2>9, <2>10
  <2> QED
    BY <2>5, <2>9, <2>10, <2>11
<1> QED
  BY <1>2, <1>3

LEMMA FinishIs ==
  ASSUME IInv, Finish
  PROVE  /\ Len(code) \in Nat /\ Len(code') = Len(code)
         /\ \A b \in 1..Len(code) :
              /\ code'[b].fn = code[b].fn
              /\ IF code[b].fn = Detached THEN code'[b] = code[b]
                 ELSE code'[b].ins = Stripped(code[b].ins)
<1> DEFINE F(b) == IF code[b].fn = Detached THEN code[b]
                   ELSE [code[b] EXCEPT !.ins = Stripped(@)]
<1>1. code' = [b \in DOMAIN code |-> F(b)]
  BY DEF Finish
<1>2. PICK c, n : /\ c = code /\ n = Len(code) /\ n \in Nat
                  /\ DOMAIN code = 1..n /\ CodeOK(c, n)
  BY SeqFacts DEF IInv, CodeInv, CodeOK
<1>3. ASSUME NEW b \in 1..n
      PROVE  /\ F(b).fn = c[b].fn
             /\ IF c[b].fn = Detached THEN F(b) = c[b] ELSE F(b).ins = Stripped(c[b].ins)
  BY <1>2 DEF CodeOK, BasicBlockOK
<1> HIDE DEF F
<1>4. PICK d : d = code' /\ DOMAIN d = 1..n /\ \A b \in 1..n : d[b] = F(b)
  BY <1>1, <1>2
<1>5. Len(d) = n
  <2> DEFINE T == {d[b] : b \in 1..n}
  <2>1. d \in [1..n -> T]
    BY <1>1, <1>2, <1>4
  <2>2. d \in Seq(T)
    BY <1>2, <2>1, SeqDef
  <2> QED
    BY <1>2, <1>4, <2>2, LenProperties
<1> QED
  BY <1>2, <1>3, <1>4, <1>5

LEMMA FlowIsOver ==
  ASSUME IInv, FlowInv, Finish
  PROVE  Finished(code')
<1>1. Running /\ At = Root
  BY DEF Finish, Running
<1>2. PICK c, d, n : c = code /\ d = code' /\ n = Len(code) /\ n \in Nat /\ CodeOK(c, n)
  BY SeqFacts DEF IInv, CodeInv, CodeOK
<1>3. /\ Len(d) = n
      /\ \A b \in 1..n : /\ d[b].fn = c[b].fn
                         /\ c[b].fn # Detached => d[b].ins = Stripped(c[b].ins)
  BY <1>2, FinishIs
<1>4. JumpOK(c, Func, {}) /\ ClosedBut(c, {})
  <2>1. Len(visits) = 1
    BY <1>1, TopVisit
  <2>2. Len(visits) <= 2 /\ ~(Len(visits) >= 2)
    BY <2>1
  <2>3. IInv /\ Running /\ FlowInv /\ Len(visits) <= 2 /\ ~InBody
    BY <1>1, <2>2 DEF InBody
  <2> QED
    BY <1>2, <2>3, Calm
<1>5. ASSUME NEW b \in 1..n, d[b].fn # Detached
      PROVE  FinishedBlock(d, b)
  <2>1. PICK ins, s, f : ins = c[b].ins /\ s = Stripped(ins) /\ f = c[b].fn
    OBVIOUS
  <2>2. s = d[b].ins /\ f = d[b].fn /\ f # Detached
    BY <1>3, <1>5, <2>1
  <2>3. IsSeq(ins) /\ \A i \in 1..Len(ins) : ins[i].op # "unreachable"
    BY <1>2, <1>4, <2>1 DEF CodeOK, BasicBlockOK, ClosedBut
  <2>4. /\ IsSeq(s) /\ Len(s) \in Nat /\ Len(s) >= 1
        /\ \A i \in 1..Len(s) : s[i].op \in Terminators <=> i = Len(s)
        /\ \A t : Aims(s[Len(s)], t) => \E i \in 1..Len(ins) : Aims(ins[i], t)
        /\ (\E i \in 1..Len(ins) : ins[i].op \in Terminators) => s[Len(s)].op # "unreachable"
    <3>1. /\ IsSeq(ins) /\ \A i \in 1..Len(ins) : ins[i].op # "unreachable"
          /\ s = Stripped(ins)
      BY <2>1, <2>3
    <3> QED
      BY <3>1, StrippedIs
  <2>5. ASSUME NEW t, Aims(s[Len(s)], t)
        PROVE  t \in 1..n /\ d[t].fn = f /\ Later(d, t, f)
    <3>1. Goes(c, b, t)
      <4>1. PICK i \in 1..Len(ins) : Aims(ins[i], t)
        BY <2>4, <2>5
      <4> QED
        BY <2>1, <4>1 DEF Goes, Aims
    <3>2. t \in 1..n
      BY <1>2, <3>1, GoesWhere
    <3>3. Later(c, t, f) /\ c[t].fn = f
      BY <1>2, <1>4, <2>1, <3>1, <3>2 DEF JumpOK
    <3> QED
      BY <1>2, <1>3, <3>2, <3>3 DEF Later
  <2>6. tree[f].type = "void" => s[Len(s)].op # "unreachable"
    <3>1. tree[f].type = "void" => Closed(c, b)
      BY <1>2, <1>4, <2>1, <2>2 DEF ClosedBut
    <3> QED
      BY <2>1, <2>4, <3>1 DEF Closed
  <2> QED
    BY <1>3, <2>2, <2>4, <2>5, <2>6 DEF FinishedBlock
<1> QED
  BY <1>2, <1>3, <1>5 DEF Finished

LEMMA FlowBegins == Init => BInv
<1> SUFFICES ASSUME Init PROVE BInv
  OBVIOUS
<1>1. /\ IInv /\ Running /\ result = "running"
      /\ code = <<>> /\ visits = <<Visit(Root)>>
  BY InitInductive DEF Init, Running
<1>2. /\ Len(visits) = 1 /\ visits[1].at = Root /\ visits[1].pt = 0 /\ visits[1].bb = <<>>
      /\ Top = visits[1] /\ \A i \in 1..1 : i = 1
  BY <1>1, TopVisit DEF Visit
<1>3. Len(code) = 0 /\ Len(<<>>) = 0 /\ \A i : ~(i \in 1..0)
  BY <1>1, NothingIsSeq
<1>4. JumpOK(code, Func, Promised) /\ ClosedBut(code, Open)
  BY <1>3 DEF JumpOK, ClosedBut
<1>5. BodyInv
  BY <1>2 DEF BodyInv, InBody
<1>6. HoldsAt(1) /\ StandsOK(1)
  <2>1. Kind(Root) = "root"
    BY <1>1, TreeFacts DEF IInv
  <2>2. Kind(Root) \notin Controls
    BY <2>1 DEF Controls
  <2> QED
    BY <1>2, <1>3, <2>2, NoneOwed DEF HoldsAt, Holds, StandsOK
<1> QED
  BY <1>1, <1>2, <1>4, <1>5, <1>6 DEF BInv, FlowInv, Generated

LEMMA FinishedSame ==
  ASSUME tree' = tree, NEW CONSTANT c, c = code', Finished(c)
  PROVE  Finished(code)'
<1>1. ASSUME NEW CONSTANT b \in 1..Len(c), c[b].fn # Detached
      PROVE  FinishedBlock(code, b)'
  <2>1. FinishedBlock(c, b)
    BY <1>1 DEF Finished
  <2>2. FinishedBlock(code, b)' <=> FinishedBlock(c, b)
    BY DEF FinishedBlock, Aims, Later, Terminators, IsSeq
  <2> QED
    BY <2>1, <2>2
<1> QED
  BY <1>1 DEF Finished, Detached, Root

LEMMA FlowStutters ==
  ASSUME FlowInv, UNCHANGED vars
  PROVE  FlowInv'
<1>1. tree' = tree /\ visits' = visits /\ code' = code /\ cur' = cur
  BY DEF vars
<1>2. /\ \A i : Begun(i)' = Begun(i)
      /\ \A p : Kind(p)' = Kind(p) /\ HasElse(p)' = HasElse(p) /\ Ends(p)' = Ends(p)
      /\ Top' = Top /\ At' = At /\ Func' = Func
  BY <1>1 DEF Begun, Kind, HasElse, Child, Ends, EndsInReturn, Kids, Top, At, Func
<1>3. \A i : Puts(i)' = Puts(i) /\ Owes(i)' = Owes(i)
  BY <1>1, <1>2 DEF Puts, Owes, PutsOf, OwesOf
<1>4. Promised' = Promised
  BY <1>1, <1>3 DEF Promised
<1>5. (InBody' <=> InBody) /\ BodyInv'
  BY <1>1, <1>2 DEF FlowInv, BodyInv, InBody, Detached, Root
<1>6. Open' = Open
  BY <1>1, <1>3, <1>5 DEF Open, Owing, Current
<1>7. \A i : HoldsAt(i)' <=> HoldsAt(i)
  BY <1>1, <1>2 DEF HoldsAt, Holds, Later, Detached, Root
<1>8. \A i : StandsOK(i)' <=> StandsOK(i)
  BY <1>1, <1>2 DEF StandsOK
<1>9. JumpOK(code, Func, Promised)' <=> JumpOK(code, Func, Promised)
  BY <1>1, <1>2, <1>4 DEF JumpOK, Later, Goes, Detached, Root
<1>10. ClosedBut(code, Open)'
  BY <1>1, <1>6, ClosedSame DEF FlowInv
<1>11. (Top.pt > 0 /\ Ends(Child(At, Top.pt)) => Closed(code, cur))'
  BY <1>1, <1>2 DEF FlowInv, Closed, Child, Terminators
<1> QED
  BY <1>1, <1>5, <1>7, <1>8, <1>9, <1>10, <1>11 DEF FlowInv

LEMMA FlowKept ==
  ASSUME IInv, NInv, BInv, [Next]_vars
  PROVE  BInv'
<1>1. CASE UNCHANGED vars
  <2>1. /\ tree' = tree /\ code' = code /\ (Running' <=> Running) /\ (Generated' <=> Generated)
    BY <1>1 DEF vars, Running, Generated
  <2>2. Running => FlowInv'
    BY <1>1, FlowStutters DEF BInv
  <2>3. PICK c : c = code
    OBVIOUS
  <2>4. Generated => Finished(code)'
    BY <2>1, <2>3, FinishedSame DEF BInv
  <2> QED
    BY <2>1, <2>2, <2>4 DEF BInv
<1>2. Running => FlowInv /\ ChainInv
  BY DEF BInv, NInv, WalkInv
<1>3. ASSUME Running, Walking, FlowInv' PROVE BInv'
  BY <1>3 DEF BInv, Running, Generated, Walking
<1>4. CASE Finish
  <2>1. Running /\ tree' = tree /\ result' = "generated"
    BY <1>4 DEF Finish, Running
  <2>2. PICK c : c = code' /\ Finished(c)
    BY <1>2, <1>4, <2>1, FlowIsOver
  <2>3. Finished(code)'
    BY <2>1, <2>2, FinishedSame
  <2> QED
    BY <2>1, <2>3 DEF BInv, Running
<1>5. CASE Diagnose \/ Misuse \/ Refuse
  <2>1. result' \in {"rejected", "undefined"}
    BY <1>5 DEF Diagnose, Misuse, Refuse, GiveUp
  <2> QED
    BY <2>1 DEF BInv, Running, Generated
<1>6. CASE \/ TopLevel \/ DefineGlobal \/ Declare \/ BeginFunction \/ EndFunction
           \/ Parameter \/ Evaluate \/ Call \/ Empty \/ DefineVariable \/ ReturnStatement
           \/ EndBlock \/ NextOfFunction \/ Operand \/ NextOfBlock
  <2>1. Running /\ Walking
    BY <1>6 DEF TopLevel, DefineGlobal, Declare, BeginFunction, EndFunction, Parameter, Evaluate,
       Call, Empty, DefineVariable, ReturnStatement, EndBlock, NextOfFunction, Operand,
       NextOfBlock, Visiting, Running
  <2>2. FlowInv'
    BY <1>2, <1>6, <2>1, FlowDeclares, FlowDeclared, FlowOpensBody, FlowClosesBody, FlowSimple,
       FlowFurther
  <2> QED
    BY <1>3, <2>1, <2>2
<1>7. CASE \/ BeginIf \/ AfterCondition \/ AfterThen \/ AfterElse
           \/ BeginWhile \/ WhileBody \/ EndWhile
           \/ BeginFor \/ NextOfFor \/ ForStep \/ EndFor
  <2>1. Running /\ Walking
    BY <1>7 DEF BeginIf, AfterCondition, AfterThen, AfterElse, BeginWhile, WhileBody,
       EndWhile, BeginFor, NextOfFor, ForStep, EndFor, Merge, Visiting, Running
  <2>2. FlowInv'
    BY <1>2, <1>7, <2>1, FlowFurther, FlowCondition, FlowElse, FlowMerge, FlowLoopBegins,
       FlowLoopGoesOn, FlowWhileEnds, FlowForEnds
  <2> QED
    BY <1>3, <2>1, <2>2
<1> QED
  BY <1>1, <1>4, <1>5, <1>6, <1>7 DEF Next, Ended

LEMMA FinishedIs ==
  ASSUME IInv, Finished(code)
  PROVE  /\ Cardinality(Blocks) \in Nat
         /\ \A b \in Blocks :
              /\ b \in 1..Len(code) /\ FinishedBlock(code, b) /\ Len(Ins(b)) \in 1..Len(Ins(b))
              /\ DOMAIN Ins(b) = 1..Len(Ins(b)) /\ Ending(b) = Ins(b)[Len(Ins(b))]
              /\ \A t \in Targets(b) :
                   /\ t \in Blocks /\ code[t].fn = code[b].fn
                   /\ Later(code, t, code[b].fn)
              /\ Entry(code[b].fn) \in Blocks /\ code[Entry(code[b].fn)].fn = code[b].fn
              /\ \A t : Later(code, t, code[b].fn) => t # Entry(code[b].fn)
<1>1. PICK n \in Nat : n = Len(code) /\ DOMAIN code = 1..n
  BY SeqFacts DEF IInv, CodeInv, CodeOK
<1>2. ASSUME NEW b \in Blocks
      PROVE  /\ b \in 1..n /\ FinishedBlock(code, b) /\ Len(Ins(b)) \in 1..Len(Ins(b))
             /\ DOMAIN Ins(b) = 1..Len(Ins(b)) /\ Ending(b) = Ins(b)[Len(Ins(b))]
  <2>1. b \in 1..n /\ code[b].fn # Detached
    BY <1>1 DEF Blocks
  <2>2. FinishedBlock(code, b)
    BY <1>1, <2>1 DEF Finished
  <2>3. IsSeq(Ins(b)) /\ Len(Ins(b)) >= 1
    BY <2>2 DEF FinishedBlock, Ins
  <2> QED
    BY <2>1, <2>2, <2>3, SeqFacts DEF Ending, Last
<1>3. ASSUME NEW b \in Blocks, NEW t \in Targets(b)
      PROVE  t \in Blocks /\ code[t].fn = code[b].fn /\ Later(code, t, code[b].fn)
  <2>1. Aims(Ending(b), t)
    BY DEF Targets, Aims
  <2>2. t \in 1..n /\ code[t].fn = code[b].fn /\ Later(code, t, code[b].fn)
    BY <1>1, <1>2, <2>1 DEF FinishedBlock, Ins
  <2> QED
    BY <1>1, <2>2 DEF Blocks
<1>4. ASSUME NEW b \in Blocks
      PROVE  /\ Entry(code[b].fn) \in Blocks /\ code[Entry(code[b].fn)].fn = code[b].fn
             /\ \A t : Later(code, t, code[b].fn) => t # Entry(code[b].fn)
  <2>1. PICK f : f = code[b].fn /\ f # Detached
    BY DEF Blocks
  <2> DEFINE T == {a \in Blocks : code[a].fn = f}
  <2>2. T \subseteq Nat /\ T # {}
    BY <1>2, <2>1
  <2>3. \E a \in T : \A c \in T : a <= c
    BY <2>2, LeastExists
  <2>4. \E a \in Blocks : code[a].fn = f /\ \A c \in Blocks : code[c].fn = f => a <= c
    BY <2>3
  <2>5. PICK e : e = Entry(f)
    OBVIOUS
  <2>6. e \in Blocks /\ code[e].fn = f /\ \A c \in Blocks : code[c].fn = f => e <= c
    BY <2>4, <2>5 DEF Entry
  <2>7. ASSUME NEW t, Later(code, t, f) PROVE t # e
    <3>1. PICK a \in 1..n : a < t /\ code[a].fn = f
      BY <1>1, <2>7 DEF Later
    <3>2. a \in Blocks
      BY <1>1, <2>1, <3>1 DEF Blocks
    <3>3. e <= a /\ e \in 1..n
      BY <1>2, <2>6, <3>1, <3>2
    <3> QED
      BY <3>1, <3>3
  <2> QED
    BY <2>1, <2>5, <2>6, <2>7
<1>5. Cardinality(Blocks) \in Nat
  <2>1. IsFiniteSet(1..n) /\ Blocks \subseteq 1..n
    BY <1>2, FS_Interval
  <2>2. IsFiniteSet(Blocks)
    BY <2>1, FS_Subset
  <2> QED
    BY <2>2, FS_CardinalityType
<1> QED
  BY <1>1, <1>2, <1>3, <1>4, <1>5

LEMMA FinishedIsWellFormed ==
  ASSUME IInv, Finished(code)
  PROVE  WellFormedCode
<1>1. \A b \in Blocks : \A i \in DOMAIN Ins(b) : Ins(b)[i].op \in Terminators <=> i = Len(Ins(b))
  BY FinishedIs DEF FinishedBlock, Ins
<1>2. \A b \in Blocks : \A k \in DOMAIN Ending(b).to :
        LET t == Ending(b).to[k]
        IN code[t].fn = code[b].fn /\ t # Entry(code[b].fn)
  <2>1. \A b \in Blocks : \A k \in DOMAIN Ending(b).to : Ending(b).to[k] \in Targets(b)
    BY DEF Targets
  <2> QED
    BY <2>1, FinishedIs
<1>3. ASSUME NEW f \in Functions, tree[f].type = "void",
             NEW b \in Reached({Entry(f)}, {})
      PROVE  Ending(b).op # "unreachable"
  <2> DEFINE S == {a \in Blocks : code[a].fn = f}
  <2>1. Entry(f) \in S
    <3>1. PICK a \in Blocks : f = code[a].fn
      BY DEF Functions
    <3> QED
      BY <3>1, FinishedIs
  <2>2. \A a \in S : a \notin {} => Targets(a) \subseteq S
    BY FinishedIs
  <2>3. Cardinality(Blocks) \in Nat
    BY FinishedIs
  <2> HIDE DEF S
  <2>4. Reached({Entry(f)}, {}) \subseteq S
    BY <2>1, <2>2, <2>3, StaysWithin
  <2>5. b \in Blocks /\ code[b].fn = f
    BY <2>4 DEF S
  <2> QED
    BY <1>3, <2>5, FinishedIs DEF FinishedBlock, Ins
<1> QED
  BY <1>1, <1>2, <1>3 DEF WellFormedCode

(* The generated code is what LLVM's verifier asks for: every block ends   *)
(* in its only terminator, branches stay in their function and off its     *)
(* entry, and a function without a result never runs into "unreachable" -  *)
(* whatever statements are nested in each other, and although IfStmt,      *)
(* WhileStmt and ForStmt leave blocks open, or out of the function, while  *)
(* the visits of their kids move the insertion point.                      *)
THEOREM CodeIsWellFormed == Spec => []WellFormedCode
<1>1. IInv /\ BInv => WellFormedCode
  <2> SUFFICES ASSUME IInv, BInv PROVE WellFormedCode
    OBVIOUS
  <2>1. CASE Generated
    BY <2>1, FinishedIsWellFormed DEF BInv
  <2>2. CASE ~Generated
    BY <2>2 DEF WellFormedCode
  <2> QED
    BY <2>1, <2>2
<1>2. IInv /\ NInv /\ [Next]_vars => NInv'
  BY NamesKept
<1>3. IInv /\ NInv /\ BInv /\ [Next]_vars => BInv'
  BY FlowKept
<1> QED
  BY <1>1, <1>2, <1>3, NamesInit, FlowBegins, Invariance, PTL DEF Spec

-----------------------------------------------------------------------------
(* Variables.                                                              *)

(* A variable of a function; not the then-branch of an if, which is        *)
(* visible in the else-branch without having run.                          *)
Lasting(d) ==
  /\ Kind(d) \in {"let", "param"}
  /\ ~(Kind(d) = "let" /\ Kind(Parent(d)) = "if" /\ Rank(d) = 2)

(* The variables that have been stored to when the walk, or the program    *)
(* that runs, is at p.                                                     *)
Locals(p) == {d \in Vis(p) : Lasting(d)}

(* Of the variable d it is known that it has been stored to: on entry to b *)
(* (In), by the instructions before the i-th, or by any of them.           *)
StoresAt(c, b, j, d) == c[b].ins[j].op = "store" /\ c[b].ins[j].at = d
Known(c, In, b, i, d) ==
  d \in In[b] \/ \E j \in 1..Len(c[b].ins) : j < i /\ StoresAt(c, b, j, d)
Held(c, In, b, d) == d \in In[b] \/ \E j \in 1..Len(c[b].ins) : StoresAt(c, b, j, d)

Needs(x) ==
  /\ x.op = "eval" /\ x.site # NoSite /\ Kind(x.site) \in {"let", "param"}
  /\ ~LeaksIntoElse(x.site, x.at)
InstrOK(c, In, b, i) ==
  /\ \A k \in DOMAIN c[b].ins[i].to : \A d \in In[c[b].ins[i].to[k]] : Known(c, In, b, i, d)
  /\ Needs(c[b].ins[i]) => Known(c, In, b, i, c[b].ins[i].site)
CodeFed(c, In) ==
  \A b \in 1..Len(c) :
    /\ \A i \in 1..Len(c[b].ins) : InstrOK(c, In, b, i)
    /\ c[b].fn # Detached => In[b] = {} \/ Later(c, b, c[b].fn)

(* What a visit at its e-th kid, with pt of them done, has saved: branches *)
(* that are still to be emitted, and what is known where it branches to.   *)
Feeds(kind, e) ==
  CASE kind \in {"while", "for"} /\ e = 2 -> {<<1, 2>>}
    [] kind = "for" /\ e = 3 -> {<<1, 2>>, <<2, 3>>}
    [] kind = "for" /\ e = 4 -> {<<1, 2>>, <<2, 3>>, <<4, 5>>}
    [] OTHER -> {}
FrameFed(c, In, p, pt, e, bb) ==
  /\ \A w \in Feeds(Kind(p), e) : \A d \in In[bb[w[2]]] : Held(c, In, bb[w[1]], d)
  /\ Kind(p) = "if" /\ e >= 2 => In[bb[2]] = Locals(p)
  /\ Kind(p) = "if" /\ e = 2 => Locals(Append(p, pt + 1)) \subseteq In[bb[1]]
  /\ Kind(p) = "while" /\ e >= 1 => In[bb[1]] = Locals(p)
  /\ Kind(p) = "for" /\ e >= 2 => In[bb[2]] = Locals(Append(p, 2))
FrameAt(In, i) == FrameFed(code, In, visits[i].at, visits[i].pt, Begun(i), visits[i].bb)

Feeding(In) ==
  /\ CodeFed(code, In)
  /\ InBody => \A d \in Locals(Pos) : Held(code, In, cur, d)
  /\ \A i \in 1..Len(visits) : FrameAt(In, i)

SInv == /\ Running => \E In : Feeding(In)
        /\ Generated => \E In : CodeFed(code, In)

-----------------------------------------------------------------------------
(* What New, Emit and Attach do to what is known of the blocks.            *)

(* What was known of the blocks of c still is.                             *)
Still(c, d, In) ==
  /\ Len(c) \in Nat /\ Len(d) \in Nat /\ Len(c) <= Len(d)
  /\ \A b \in 1..Len(c) : \A v : Held(c, In, b, v) => Held(d, In, b, v)

LEMMA StillOn ==
  ASSUME NEW c, NEW d, NEW e, NEW In, Still(c, d, In), Still(d, e, In)
  PROVE  Still(c, e, In)
<1>1. \A b \in 1..Len(c) : b \in 1..Len(d)
  BY DEF Still
<1> QED
  BY <1>1 DEF Still

LEMMA FedSame ==
  ASSUME NEW c, CodeOK(c, Len(c)), NEW In, NEW Jn, \A b \in 1..Len(c) : Jn[b] = In[b],
         CodeFed(c, In)
  PROVE  CodeFed(c, Jn) /\ \A b \in 1..Len(c) : \A v : Held(c, Jn, b, v) <=> Held(c, In, b, v)
<1>1. ASSUME NEW b \in 1..Len(c), NEW i \in 1..Len(c[b].ins) PROVE InstrOK(c, Jn, b, i)
  <2>1. InstrOK(c, In, b, i)
    BY DEF CodeFed
  <2>2. \A k \in DOMAIN c[b].ins[i].to : c[b].ins[i].to[k] \in 1..Len(c)
    BY DEF CodeOK, BasicBlockOK, TargetsOK
  <2>3. \A v : Known(c, Jn, b, i, v) <=> Known(c, In, b, i, v)
    BY DEF Known
  <2>4. \A k \in DOMAIN c[b].ins[i].to : Jn[c[b].ins[i].to[k]] = In[c[b].ins[i].to[k]]
    BY <2>2
  <2> QED
    BY <2>1, <2>3, <2>4 DEF InstrOK
<1>2. \A b \in 1..Len(c) : \A v : Held(c, Jn, b, v) <=> Held(c, In, b, v)
  BY DEF Held
<1> QED
  BY <1>1, <1>2 DEF CodeFed

LEMMA FedNew ==
  ASSUME NEW c, NEW n, CodeOK(c, n), NEW In, CodeFed(c, In), NEW f,
         f = Detached \/ In[Len(c) + 1] = {} \/ \E a \in 1..Len(c) : c[a].fn = f
  PROVE  CodeFed(New(c, f), In) /\ Still(c, New(c, f), In)
<1> DEFINE d == New(c, f)
<1>1. /\ Len(c) \in Nat /\ Len(d) = Len(c) + 1
      /\ \A b \in 1..Len(c) : d[b] = c[b]
      /\ d[Len(c) + 1].fn = f /\ Len(d[Len(c) + 1].ins) = 0
  BY NewIs
<1> HIDE DEF d
<1>2. \A b \in 1..(Len(c) + 1) : b \in 1..Len(c) \/ b = Len(c) + 1
  BY <1>1
<1>3. \A b \in 1..Len(c) : b \in 1..Len(d) /\ b < Len(c) + 1
  BY <1>1
<1>4. \A b \in 1..Len(c) : \A i, v : Known(c, In, b, i, v) <=> Known(d, In, b, i, v)
  BY <1>1 DEF Known, StoresAt
<1>5. \A b \in 1..Len(c) : \A i : InstrOK(c, In, b, i) => InstrOK(d, In, b, i)
  BY <1>1, <1>4 DEF InstrOK
<1>6. \A b \in 1..Len(c) : \A g : Later(c, b, g) => Later(d, b, g)
  BY <1>1, <1>3 DEF Later
<1>7. ASSUME NEW b \in 1..Len(c)
      PROVE  /\ \A i \in 1..Len(d[b].ins) : InstrOK(d, In, b, i)
             /\ d[b].fn # Detached => In[b] = {} \/ Later(d, b, d[b].fn)
  BY <1>1, <1>5, <1>6 DEF CodeFed
<1>8. ASSUME NEW b, b = Len(c) + 1
      PROVE  /\ \A i \in 1..Len(d[b].ins) : InstrOK(d, In, b, i)
             /\ d[b].fn # Detached => In[b] = {} \/ Later(d, b, d[b].fn)
  <2>1. \A i : ~(i \in 1..Len(d[b].ins))
    BY <1>1, <1>8
  <2>2. (\E a \in 1..Len(c) : c[a].fn = f) => Later(d, b, f)
    BY <1>1, <1>3, <1>8 DEF Later
  <2> QED
    BY <1>1, <1>8, <2>1, <2>2
<1>9. CodeFed(d, In)
  BY <1>1, <1>2, <1>7, <1>8 DEF CodeFed
<1>10. Still(c, d, In)
  BY <1>1 DEF Still, Held, StoresAt
<1> QED
  BY <1>9, <1>10 DEF d

LEMMA FedEmit ==
  ASSUME NEW c, NEW n, CodeOK(c, n), NEW In, CodeFed(c, In), NEW b \in 1..Len(c), NEW x,
         \A k \in DOMAIN x.to : \A v \in In[x.to[k]] : Held(c, In, b, v),
         Needs(x) => Held(c, In, b, x.site)
  PROVE  /\ CodeFed(Emit(c, b, x), In) /\ Still(c, Emit(c, b, x), In)
         /\ x.op = "store" => Held(Emit(c, b, x), In, b, x.at)
<1> DEFINE d == Emit(c, b, x)
<1>1. /\ Len(c) \in Nat /\ Len(d) = Len(c)
      /\ \A j \in 1..Len(c) : d[j].fn = c[j].fn
      /\ \A j \in 1..Len(c) : j # b => d[j] = c[j]
      /\ Len(c[b].ins) \in Nat /\ Len(d[b].ins) = Len(c[b].ins) + 1
      /\ \A i \in 1..Len(c[b].ins) : d[b].ins[i] = c[b].ins[i]
      /\ d[b].ins[Len(c[b].ins) + 1] = x
  BY EmitIs
<1> HIDE DEF d
<1>2. PICK m : m = Len(c[b].ins)
  OBVIOUS
<1>3. /\ \A i \in 1..(m + 1) : i \in 1..m \/ i = m + 1
      /\ \A i \in 1..m : i < m + 1 /\ i \in 1..(m + 1)
      /\ m + 1 \in 1..(m + 1)
  BY <1>1, <1>2
<1>4. \A i, v : Known(c, In, b, i, v) => Known(d, In, b, i, v)
  BY <1>1, <1>2, <1>3 DEF Known, StoresAt
<1>5. \A v : Held(c, In, b, v) => Known(d, In, b, m + 1, v)
  BY <1>1, <1>2, <1>3 DEF Known, StoresAt, Held
<1>6. ASSUME NEW i \in 1..Len(d[b].ins) PROVE InstrOK(d, In, b, i)
  <2>1. CASE i \in 1..m
    <3>1. InstrOK(c, In, b, i) /\ d[b].ins[i] = c[b].ins[i]
      BY <1>1, <1>2, <2>1 DEF CodeFed
    <3> QED
      BY <1>4, <3>1 DEF InstrOK
  <2>2. CASE i = m + 1
    <3>1. d[b].ins[i] = x
      BY <1>1, <1>2, <2>2
    <3> QED
      BY <1>5, <2>2, <3>1 DEF InstrOK
  <2> QED
    BY <1>1, <1>2, <1>3, <2>1, <2>2
<1>7. ASSUME NEW j \in 1..Len(c), j # b, NEW i \in 1..Len(d[j].ins) PROVE InstrOK(d, In, j, i)
  <2>1. d[j] = c[j]
    BY <1>1, <1>7
  <2>2. InstrOK(c, In, j, i)
    BY <1>7, <2>1 DEF CodeFed
  <2> QED
    BY <2>1, <2>2 DEF InstrOK, Known, StoresAt
<1>8. \A j \in 1..Len(c) : \A g : Later(c, j, g) => Later(d, j, g)
  BY <1>1 DEF Later
<1>9. CodeFed(d, In)
  <2>1. \A j \in 1..Len(c) : d[j].fn # Detached => In[j] = {} \/ Later(d, j, d[j].fn)
    BY <1>1, <1>8 DEF CodeFed
  <2> QED
    BY <1>1, <1>6, <1>7, <2>1 DEF CodeFed
<1>10. Still(c, d, In)
  <2>1. \A v : Held(c, In, b, v) => Held(d, In, b, v)
    BY <1>1, <1>2, <1>3 DEF Held, StoresAt
  <2>2. \A j \in 1..Len(c) : j # b => \A v : Held(c, In, j, v) => Held(d, In, j, v)
    BY <1>1 DEF Held, StoresAt
  <2> QED
    BY <1>1, <2>1, <2>2 DEF Still
<1>11. x.op = "store" => Held(d, In, b, x.at)
  BY <1>1, <1>2, <1>3 DEF Held, StoresAt
<1> QED
  BY <1>9, <1>10, <1>11 DEF d

LEMMA FedAttach ==
  ASSUME NEW c, NEW n, CodeOK(c, n), NEW In, CodeFed(c, In), NEW b \in 1..Len(c), NEW f,
         Later(c, b, f), c[b].fn \in {Detached, f}
  PROVE  CodeFed(Attach(c, b, f), In) /\ Still(c, Attach(c, b, f), In)
<1> DEFINE d == Attach(c, b, f)
<1>1. /\ Len(c) \in Nat /\ Len(d) = Len(c)
      /\ \A j \in 1..Len(c) : /\ d[j].fn = IF j = b THEN f ELSE c[j].fn
                              /\ d[j].ins = c[j].ins
  BY AttachIs
<1> HIDE DEF d
<1>2. \A j \in 1..Len(c) : \A i, v : Known(c, In, j, i, v) => Known(d, In, j, i, v)
  BY <1>1 DEF Known, StoresAt
<1>3. \A j \in 1..Len(c) : \A i : InstrOK(c, In, j, i) => InstrOK(d, In, j, i)
  BY <1>1, <1>2 DEF InstrOK
<1>4. \A j : \A g : g # Detached /\ Later(c, j, g) => Later(d, j, g)
  BY <1>1 DEF Later
<1>5. \A j \in 1..Len(c) : d[j].fn # Detached => In[j] = {} \/ Later(d, j, d[j].fn)
  BY <1>1, <1>4 DEF CodeFed
<1>6. CodeFed(d, In)
  BY <1>1, <1>3, <1>5 DEF CodeFed
<1>7. Still(c, d, In)
  BY <1>1 DEF Still, Held, StoresAt
<1> QED
  BY <1>6, <1>7 DEF d

-----------------------------------------------------------------------------
(* The variables stored to, from one place to the next.                    *)

LEMMA LocalsWithin ==
  ASSUME tree \in Programs, NEW p \in Paths
  PROVE  /\ Locals(Append(p, 1)) = Locals(p)
         /\ \A j, k \in Nat : 1 <= j /\ j <= k => Locals(Append(p, j)) \subseteq Locals(Append(p, k))
         /\ \A k \in Nat : 1 <= k => Locals(p) \subseteq Locals(Append(p, k))
<1>1. Locals(Append(p, 1)) = Locals(p)
  <2>1. Vis(Append(p, 1)) = Within(p)
    BY VisWithin
  <2>2. IsFunction(p) => ~Lasting(p)
    BY DEF IsFunction, Lasting
  <2> QED
    BY <2>1, <2>2 DEF Within, Locals
<1>2. ASSUME NEW j \in Nat, NEW k \in Nat, j <= k, NEW d, d \in Vis(Append(p, j))
      PROVE  d \in Vis(Append(p, k))
  <2>1. p \in Seq(Nat) /\ Append(p, j) \in Seq(Nat) /\ Append(p, k) \in Seq(Nat)
    BY PathFacts, AppendProperties
  <2>2. d \in Paths /\ Declares(d) /\ Seen(d, Append(p, j)) /\ ScopeOf(d) \in Scopes(Append(p, j))
    BY <1>2, <2>1, VisIs
  <2>3. Scopes(Append(p, k)) = Scopes(Append(p, j))
    BY <2>1, ScopesAppend
  <2>4. d \in Seq(Nat) /\ Len(p) \in Nat /\ Len(d) \in Nat
    BY <2>1, <2>2, PathFacts
  <2>5. Below(d, p) => d[Len(p) + 1] \in Nat
    <3> SUFFICES ASSUME Below(d, p) PROVE d[Len(p) + 1] \in Nat
      OBVIOUS
    <3>1. Len(p) + 1 \in 1..Len(d)
      BY <2>4 DEF Below
    <3> QED
      BY <2>4, <3>1, ElementOfSeq
  <2>6. Seen(d, Append(p, k))
    BY <1>2, <2>2, <2>5, SeenWithin
  <2> QED
    BY <2>1, <2>2, <2>3, <2>6, VisIs
<1>3. \A j, k \in Nat : 1 <= j /\ j <= k => Locals(Append(p, j)) \subseteq Locals(Append(p, k))
  BY <1>2 DEF Locals
<1>4. \A k \in Nat : 1 <= k => Locals(Append(p, 1)) \subseteq Locals(Append(p, k))
  BY <1>3
<1> QED
  BY <1>1, <1>3, <1>4

LEMMA LocalsBehind ==
  ASSUME tree \in Programs, NEW q \in Seq(Nat), NEW k \in Nat, Append(q, k) \in Paths,
         Kind(Append(q, k)) \in Walked
  PROVE  \A d \in Locals(Append(q, k + 1)) :
           d \in Locals(Append(q, k)) \/ (d = Append(q, k) /\ Lasting(d))
<1>1. Vis(Append(q, k + 1)) = Behind(Append(q, k))
  BY VisBehind
<1> QED
  BY <1>1 DEF Locals, Behind

(* A node's parent.                                                        *)
LEMMA ParentIs ==
  ASSUME tree \in Programs, NEW d \in Paths, d # Root
  PROVE  \E q \in Paths, x \in Nat :
           /\ q \in Seq(Nat) /\ Len(q) \in Nat /\ x \in 1..Kids(q)
           /\ d = Append(q, x) /\ Len(d) = Len(q) + 1 /\ d[Len(q) + 1] = x
           /\ Parent(d) = q /\ Rank(d) = x /\ Below(d, q)
<1>1. d \in Seq(Nat) /\ Len(d) \in Nat
  BY PathFacts
<1>2. Len(d) # 0
  BY <1>1, EmptySeq DEF Root
<1>3. PICK m \in Nat : m + 1 = Len(d)
  <2>1. Len(d) - 1 \in Nat /\ (Len(d) - 1) + 1 = Len(d)
    BY <1>1, <1>2
  <2> QED
    BY <2>1
<1>4. m \in 0..(Len(d) - 1) /\ m <= Len(d) /\ Len(d) - 1 = m
  BY <1>3
<1>5. SubSeq(d, 1, m) \in Paths /\ d[m + 1] \in 1..Kids(SubSeq(d, 1, m))
  BY <1>4, PathFacts
<1>6. /\ SubSeq(d, 1, m) \in Seq(Nat) /\ Len(SubSeq(d, 1, m)) = m
      /\ \A i \in 1..m : SubSeq(d, 1, m)[i] = d[i]
  BY <1>1, <1>4, PrefixFacts
<1>7. PICK q, x : q = SubSeq(d, 1, m) /\ x = d[m + 1]
  OBVIOUS
<1>8. q \in Paths /\ x \in 1..Kids(q) /\ x \in Nat
  BY <1>5, <1>7, TreeFacts
<1>9. q \in Seq(Nat) /\ Len(q) = m /\ \A i \in 1..m : q[i] = d[i]
  BY <1>6, <1>7
<1>10. d = Append(q, x)
  <2>1. /\ Append(q, x) \in Seq(Nat) /\ Len(Append(q, x)) = m + 1 /\ Append(q, x)[m + 1] = x
        /\ \A i \in 1..m : Append(q, x)[i] = q[i]
    BY <1>8, <1>9, AppendProperties
  <2>2. \A i \in 1..(m + 1) : i \in 1..m \/ i = m + 1
    BY <1>3
  <2>3. \A i \in 1..(m + 1) : d[i] = Append(q, x)[i]
    BY <1>7, <1>9, <2>1, <2>2
  <2> QED
    BY <1>1, <1>3, <2>1, <2>3, SeqEqual
<1>11. Parent(d) = q /\ Rank(d) = x
  BY <1>3, <1>4, <1>7 DEF Parent, Rank, Front, Last
<1>12. Below(d, q)
  BY <1>3, <1>9 DEF Below
<1> QED
  BY <1>3, <1>7, <1>8, <1>9, <1>10, <1>11, <1>12

(* No variable of a function is visible at the top.                        *)
LEMMA LocalsAtTop ==
  ASSUME tree \in Programs, NEW p \in Paths, Kind(p) \in AtTop
  PROVE  Locals(p) = {}
<1> SUFFICES ASSUME NEW d \in Locals(p) PROVE FALSE
  OBVIOUS
<1>1. p \in Seq(Nat) /\ d \in Vis(p) /\ Kind(d) \in {"let", "param"}
  BY PathFacts DEF Locals, Lasting
<1>2. d \in Paths /\ Declares(d) /\ ScopeOf(d) \in Scopes(p)
  BY <1>1, VisIs
<1>3. /\ d \in Seq(Nat) /\ Len(d) \in Nat /\ d # Root
      /\ Root \in Paths /\ Root \in Seq(Nat) /\ Len(Root) = 0
  BY <1>1, <1>2, TreeFacts, PathFacts, EmptySeq DEF Root
<1>4. Below(d, Root)
  <2>1. Len(d) # 0
    BY <1>3, EmptySeq DEF Root
  <2> QED
    BY <1>3, <2>1 DEF Below
<1>5. PICK r \in Paths : (d = r \/ Below(d, r)) /\ Kind(r) \in AtTop /\ r # Root
  <2>1. d[Len(Root) + 1] \in 1..Kids(Root) /\ Child(Root, d[Len(Root) + 1]) \in Paths
        /\ (d = Child(Root, d[Len(Root) + 1]) \/ Below(d, Child(Root, d[Len(Root) + 1])))
    BY <1>2, <1>3, <1>4, KidAbove
  <2> QED
    BY <1>3, <2>1, TreeFacts
<1>6. Below(d, r)
  BY <1>1, <1>5 DEF AtTop
<1>7. ASSUME NEW t \in Paths, Kind(t) \in AtTop
      PROVE  t \in Seq(Nat) /\ Len(t) = 1
  <2>1. t # Root
    BY <1>7, TreeFacts DEF AtTop
  <2>2. PICK q \in Paths, x \in Nat :
          Len(q) \in Nat /\ x \in 1..Kids(q) /\ t = Append(q, x) /\ Len(t) = Len(q) + 1
    BY <2>1, ParentIs
  <2>3. q = Root
    BY <1>7, <2>2, TreeFacts DEF Child
  <2> QED
    BY <1>3, <2>2, <2>3, PathFacts
<1>8. Scopes(r) = Scopes(p)
  <2>1. Len(r) = 1 /\ Len(p) = 1 /\ r \in Seq(Nat)
    BY <1>5, <1>7
  <2>2. ASSUME NEW s \in Seq(Nat), NEW t \in Seq(Nat), Len(t) = 1
        PROVE  Below(t, s) <=> s = Root
    <3>1. Len(s) \in Nat /\ (Len(s) = 0 <=> s = Root)
      BY <1>3, LenProperties, EmptySeq DEF Root
    <3>2. Len(s) < 1 <=> Len(s) = 0
      BY <3>1
    <3>3. Len(s) = 0 => \A i \in 1..Len(s) : FALSE
      OBVIOUS
    <3> QED
      BY <2>2, <3>1, <3>2, <3>3 DEF Below
  <2> QED
    BY <1>1, <2>1, <2>2, ScopesFacts
<1>9. Kind(r) \in Walked
  BY <1>5 DEF AtTop, Walked, Scoped
<1> QED
  BY <1>2, <1>6, <1>8, <1>9, NothingEscapes

(* A variable that is visible where it has not run is the one that         *)
(* StoredBeforeRead leaves out.                                            *)
LEMMA LastingOrLeaking ==
  ASSUME tree \in Programs, NEW p \in Paths, NEW d \in Vis(p),
         Kind(d) \in {"let", "param"}, ~LeaksIntoElse(d, p)
  PROVE  d \in Locals(p)
<1> SUFFICES ASSUME Kind(d) = "let", Kind(Parent(d)) = "if", Rank(d) = 2
             PROVE  FALSE
  BY DEF Locals, Lasting
<1>1. /\ p \in Seq(Nat) /\ d \in Paths /\ d \in Seq(Nat) /\ Len(p) \in Nat
      /\ Seen(d, p) /\ ScopeOf(d) \in Scopes(p) /\ d # Root
  BY PathFacts, VisIs, TreeFacts
<1>2. PICK q \in Paths, x \in Nat :
        /\ q \in Seq(Nat) /\ Len(q) \in Nat /\ Len(d) = Len(q) + 1 /\ d[Len(q) + 1] = x
        /\ Parent(d) = q /\ Rank(d) = x /\ Below(d, q)
  BY <1>1, ParentIs
<1>3. PICK m \in Nat : m = Len(q)
  BY <1>2
<1>4. Kind(q) = "if" /\ Kids(q) = 3 /\ d[m + 1] = 2
  BY <1>2, <1>3, TreeFacts
<1>5. ScopeOf(d) = q
  <2>1. q \in Scopes(d)
    BY <1>1, <1>2, <1>4, ScopesFacts DEF Scoped
  <2>2. Below(d, ScopeOf(d)) /\ Len(ScopeOf(d)) \in Nat /\ Len(q) <= Len(ScopeOf(d))
        /\ ScopeOf(d) \in Seq(Nat)
    BY <1>1, <2>1, ScopeIs
  <2>3. Len(ScopeOf(d)) = m
    BY <1>2, <1>3, <2>2 DEF Below
  <2> QED
    BY <1>2, <1>3, <2>2, <2>3, SeqEqual DEF Below
<1>6. Below(p, q)
  BY <1>1, <1>5, ScopesFacts
<1>7. Past(d, p)
  BY <1>1 DEF Seen, IsFunction
<1>8. p[m + 1] \in 1..Kids(q) /\ Child(q, p[m + 1]) \in Paths
      /\ (p = Child(q, p[m + 1]) \/ Below(p, Child(q, p[m + 1])))
  BY <1>3, <1>6, KidAbove
<1>9. p[m + 1] > 2
  <2>1. PICK i \in 1..Len(d) : i <= Len(p) /\ d[i] < p[i] /\ \A j \in 1..(i - 1) : d[j] = p[j]
    BY <1>7 DEF Past
  <2>2. \A j \in 1..m : d[j] = p[j]
    BY <1>2, <1>3, <1>6 DEF Below
  <2>3. \A j \in 1..m : d[j] \in Nat
    BY <1>1, <1>2, <1>3, ElementOfSeq
  <2>4. i \notin 1..m
    BY <2>1, <2>2, <2>3
  <2>5. i = m + 1
    BY <1>2, <1>3, <2>1, <2>4
  <2> QED
    BY <1>4, <2>1, <2>5
<1>10. p[m + 1] = 3
  BY <1>4, <1>8, <1>9
<1>11. Inside(p, Child(q, 3))
  BY <1>1, <1>2, <1>8, <1>10, PrefixIs, AppendProperties DEF Inside, Child
<1> QED
  BY <1>2, <1>11 DEF LeaksIntoElse

-----------------------------------------------------------------------------
(* From one place of the walk to the next.                                 *)

LEMMA SameLocals ==
  ASSUME tree' = tree, NEW CONSTANT x
  PROVE  Locals(x)' = Locals(x) /\ (Lasting(x)' <=> Lasting(x))
<1>1. Vis(x)' = Vis(x)
  BY SameTree
<1>2. \A d : Lasting(d)' <=> Lasting(d)
  BY DEF Lasting, Kind, Parent, Rank
<1> QED
  BY <1>1, <1>2 DEF Locals

LEMMA FedPrimed ==
  ASSUME tree' = tree, NEW CONSTANT c, c = code', NEW CONSTANT In, CodeFed(c, In)
  PROVE  CodeFed(code, In)'
<1>1. \A x : Needs(x)' <=> Needs(x)
  BY DEF Needs, Kind, LeaksIntoElse, Parent, Rank, Inside, Child, NoSite
<1>2. \A b, i : InstrOK(code, In, b, i)' <=> InstrOK(c, In, b, i)
  BY <1>1 DEF InstrOK, Known, StoresAt
<1> QED
  BY <1>2 DEF CodeFed, Later, Detached, Root

LEMMA FramePrimed ==
  ASSUME tree' = tree, NEW CONSTANT In, NEW CONSTANT i, NEW CONSTANT p, NEW CONSTANT pt,
         NEW CONSTANT e, NEW CONSTANT bb, NEW CONSTANT c, c = code',
         visits'[i].at = p, visits'[i].pt = pt, visits'[i].bb = bb, Begun(i)' = e,
         FrameFed(c, In, p, pt, e, bb)
  PROVE  FrameAt(In, i)'
<1>1. Kind(p)' = Kind(p)
  BY DEF Kind
<1>2. \A x : Locals(x)' = Locals(x)
  BY SameLocals
<1>3. FrameFed(code, In, p, pt, e, bb)'
  BY <1>1, <1>2 DEF FrameFed, Feeds, Held, StoresAt
<1> QED
  BY <1>3 DEF FrameAt

LEMMA FrameStill ==
  ASSUME NEW c, NEW d, NEW In, NEW Jn, Still(c, d, Jn), \A b \in 1..Len(c) : Jn[b] = In[b],
         NEW p, NEW pt, NEW e, NEW bb, FrameFed(c, In, p, pt, e, bb),
         Len(bb) \in Nat, e \in Nat, Kind(p) = "if" => e <= 3, BlocksSaved(Kind(p), e, Len(bb)),
         Kind(p) = "while" => e <= 2, Kind(p) = "for" => e <= 4,
         \A k \in 1..Len(bb) : bb[k] \in 1..Len(c)
  PROVE  FrameFed(d, Jn, p, pt, e, bb)
<1>1. \A b \in 1..Len(c) : \A v : Held(c, In, b, v) => Held(d, Jn, b, v)
  BY DEF Still, Held
<1>0. /\ Kind(p) = "if" /\ e >= 2 => Len(bb) = 2
      /\ Kind(p) = "while" /\ e >= 1 => Len(bb) = e
      /\ Kind(p) = "for" /\ e >= 1 /\ e <= 3 => Len(bb) = e
      /\ Kind(p) = "for" /\ e = 4 => Len(bb) = 5
  <2>1. e \in Nat /\ (e >= 1 /\ e <= 2 => e \in {1, 2}) /\ (e >= 1 /\ e <= 3 => e \in {1, 2, 3})
    OBVIOUS
  <2>2. BlocksSaved(Kind(p), e, Len(bb))
    OBVIOUS
  <2> QED
    BY <2>1, <2>2 DEF BlocksSaved
<1>2. \A w \in Feeds(Kind(p), e) : w[1] \in 1..Len(bb) /\ w[2] \in 1..Len(bb)
  <2> SUFFICES ASSUME NEW w \in Feeds(Kind(p), e)
               PROVE  w[1] \in 1..Len(bb) /\ w[2] \in 1..Len(bb)
    OBVIOUS
  <2>1. CASE Kind(p) \in {"while", "for"} /\ e = 2
    <3>1. w = <<1, 2>> /\ Len(bb) = 2
      BY <1>0, <2>1 DEF Feeds
    <3> QED
      BY <3>1
  <2>2. CASE Kind(p) = "for" /\ e = 3
    <3>1. w \in {<<1, 2>>, <<2, 3>>} /\ Len(bb) = 3
      BY <1>0, <2>2 DEF Feeds
    <3> QED
      BY <3>1
  <2>3. CASE Kind(p) = "for" /\ e = 4
    <3>1. w \in {<<1, 2>>, <<2, 3>>, <<4, 5>>} /\ Len(bb) = 5
      BY <1>0, <2>3 DEF Feeds
    <3> QED
      BY <3>1
  <2> QED
    BY <2>1, <2>2, <2>3 DEF Feeds
<1>3. \A w \in Feeds(Kind(p), e) : \A v \in Jn[bb[w[2]]] : Held(d, Jn, bb[w[1]], v)
  <2> SUFFICES ASSUME NEW w \in Feeds(Kind(p), e), NEW v \in Jn[bb[w[2]]]
               PROVE  Held(d, Jn, bb[w[1]], v)
    OBVIOUS
  <2>1. v \in In[bb[w[2]]]
    BY <1>2
  <2>2. Held(c, In, bb[w[1]], v)
    BY <2>1 DEF FrameFed
  <2> QED
    BY <1>1, <1>2, <2>2
<1>4. /\ Kind(p) = "if" /\ e >= 2 => 1 \in 1..Len(bb) /\ 2 \in 1..Len(bb)
      /\ Kind(p) = "while" /\ e >= 1 => 1 \in 1..Len(bb)
      /\ Kind(p) = "for" /\ e >= 2 => 2 \in 1..Len(bb)
  BY <1>0
<1>5. \A k \in 1..Len(bb) : Jn[bb[k]] = In[bb[k]]
  OBVIOUS
<1>6. /\ Kind(p) = "if" /\ e >= 2 => Jn[bb[2]] = Locals(p)
      /\ Kind(p) = "if" /\ e = 2 => Locals(Append(p, pt + 1)) \subseteq Jn[bb[1]]
      /\ Kind(p) = "while" /\ e >= 1 => Jn[bb[1]] = Locals(p)
      /\ Kind(p) = "for" /\ e >= 2 => Jn[bb[2]] = Locals(Append(p, 2))
  BY <1>4, <1>5 DEF FrameFed
<1> QED
  BY <1>3, <1>6 DEF FrameFed

LEMMA LocalsHere ==
  ASSUME IInv, Running
  PROVE  /\ Locals(Append(At, Top.pt + 1)) = Locals(Pos)
         /\ Locals(At) \subseteq Locals(Pos)
         /\ \A k \in Nat : 1 <= k /\ k <= Top.pt + 1 => Locals(Append(At, k)) \subseteq Locals(Pos)
<1>1. PICK p, x : p = At /\ x = Top.pt + 1
  OBVIOUS
<1>2. /\ tree \in Programs /\ p \in Paths /\ x \in Nat /\ 1 <= x
      /\ Pos = IF Top.pt = 0 /\ p # Root THEN p ELSE Append(p, x)
      /\ Top.pt = 0 <=> x = 1
  BY <1>1, Here
<1>3. Locals(Append(p, x)) = Locals(Pos)
  BY <1>2, LocalsWithin
<1> QED
  BY <1>1, <1>2, <1>3, LocalsWithin

(* What a visit may rely on.                                               *)
LEMMA VisitIs ==
  ASSUME IInv, Running, NEW i \in 1..Len(visits)
  PROVE  /\ Len(visits[i].bb) \in Nat /\ Begun(i) \in Nat
         /\ Kind(visits[i].at) = "if" => Begun(i) <= 3
         /\ Kind(visits[i].at) = "while" => Begun(i) <= 2
         /\ Kind(visits[i].at) = "for" => Begun(i) <= 4
         /\ BlocksSaved(Kind(visits[i].at), Begun(i), Len(visits[i].bb))
         /\ \A k \in 1..Len(visits[i].bb) : visits[i].bb[k] \in 1..Len(code)
<1>1. VisitOK(i) /\ tree \in Programs
  BY DEF IInv, VisitsInv
<1>2. visits[i].at \in Paths /\ visits[i].pt \in Nat /\ Begun(i) <= Kids(visits[i].at)
  BY <1>1 DEF VisitOK
<1>3. Begun(i) \in Nat
  BY <1>2 DEF Begun
<1>4. Len(visits[i].bb) \in Nat
  BY <1>1, SeqFacts DEF VisitOK
<1> QED
  BY <1>1, <1>2, <1>3, <1>4, TreeFacts DEF VisitOK

LEMMA FedEnters ==
  ASSUME IInv, Running, tree' = tree, NEW CONSTANT In, Feeding(In),
         Top.pt < Kids(At), NEW CONSTANT bb, Enter(Top.pt + 1, bb),
         NEW CONSTANT d, code' = d, NEW CONSTANT Jn, CodeFed(d, Jn),
         Still(code, d, Jn), \A b \in 1..Len(code) : Jn[b] = In[b],
         FrameFed(d, Jn, At, Top.pt, Top.pt + 1, bb),
         InBody' => \A v \in Locals(Pos) : Held(d, Jn, cur', v)
  PROVE  Feeding(Jn)'
<1>1. PICK n \in Nat \ {0} : n = Len(visits) /\ Top = visits[n]
  BY TopVisit
<1>2. /\ Len(visits') = n + 1
      /\ \A i \in 1..(n - 1) : visits'[i] = visits[i] /\ Begun(i)' = Begun(i)
      /\ visits'[n].at = At /\ visits'[n].bb = bb /\ Begun(n)' = Top.pt + 1
      /\ visits'[n + 1].at = Child(At, Top.pt + 1) /\ Begun(n + 1)' = 0
      /\ visits'[n + 1].bb = <<>> /\ visits'[n + 1].pt = 0
  BY <1>1, EnterFrames
<1>3. /\ \A i \in 1..Len(visits) : visits'[i].at = visits[i].at /\ visits'[i].pt = visits[i].pt
      /\ Top'.at = Append(At, Top.pt + 1) /\ Top'.pt = 0 /\ Append(At, Top.pt + 1) # Root
  BY EnterPlace
<1>4. CodeFed(code, Jn)'
  BY FedPrimed
<1>5. (InBody => \A v \in Locals(Pos) : Held(code, Jn, cur, v))'
  <2>1. PICK x : x = Append(At, Top.pt + 1)
    OBVIOUS
  <2>2. Pos' = x
    BY <1>3, <2>1 DEF Pos, At, Root
  <2>3. Locals(Pos)' = Locals(x)
    <3>1. Locals(Pos)' = Locals(x)'
      BY <2>2 DEF Locals, Vis, Visible
    <3> QED
      BY <3>1, SameLocals
  <2>4. Locals(x) = Locals(Pos)
    BY <2>1, LocalsHere
  <2> QED
    BY <2>3, <2>4 DEF Held, StoresAt
<1>6. ASSUME NEW CONSTANT i \in 1..(n - 1) PROVE FrameAt(Jn, i)'
  <2>1. PICK p, pt, e, sv, c : /\ p = visits[i].at /\ pt = visits[i].pt /\ e = Begun(i)
                               /\ sv = visits[i].bb /\ c = code
    OBVIOUS
  <2>2. i \in 1..Len(visits)
    BY <1>1
  <2>3. FrameFed(c, In, p, pt, e, sv)
    BY <2>1, <2>2 DEF Feeding, FrameAt
  <2>4. /\ Len(sv) \in Nat /\ e \in Nat /\ (Kind(p) = "if" => e <= 3)
        /\ (Kind(p) = "while" => e <= 2) /\ (Kind(p) = "for" => e <= 4)
        /\ BlocksSaved(Kind(p), e, Len(sv)) /\ \A k \in 1..Len(sv) : sv[k] \in 1..Len(c)
    BY <2>1, <2>2, VisitIs
  <2>5. Still(c, d, Jn) /\ \A b \in 1..Len(c) : Jn[b] = In[b]
    BY <2>1
  <2>6. FrameFed(d, Jn, p, pt, e, sv)
    BY <2>3, <2>4, <2>5, FrameStill
  <2>7. visits'[i].at = p /\ visits'[i].pt = pt /\ visits'[i].bb = sv /\ Begun(i)' = e
    BY <1>2, <2>1
  <2> QED
    BY <2>6, <2>7, FramePrimed
<1>7. FrameAt(Jn, n)'
  <2>1. PICK p, pt, e : p = At /\ pt = Top.pt /\ e = Top.pt + 1
    OBVIOUS
  <2>2. FrameFed(d, Jn, p, pt, e, bb)
    BY <2>1
  <2>3. visits'[n].at = p /\ visits'[n].pt = pt /\ visits'[n].bb = bb /\ Begun(n)' = e
    BY <1>1, <1>2, <1>3, <2>1
  <2> QED
    BY <2>2, <2>3, FramePrimed
<1>8. FrameAt(Jn, n + 1)'
  <2>1. PICK p, m : p = Child(At, Top.pt + 1) /\ m = n + 1
    OBVIOUS
  <2>2. FrameFed(d, Jn, p, 0, 0, <<>>)
    BY DEF FrameFed, Feeds
  <2>3. visits'[m].at = p /\ visits'[m].pt = 0 /\ visits'[m].bb = <<>> /\ Begun(m)' = 0
    BY <1>2, <2>1
  <2> QED
    BY <2>1, <2>2, <2>3, FramePrimed
<1>9. \A i \in 1..(n + 1) : i \in 1..(n - 1) \/ i = n \/ i = n + 1
  BY <1>1
<1> QED
  BY <1>2, <1>4, <1>5, <1>6, <1>7, <1>8, <1>9 DEF Feeding

LEMMA FedLeaves ==
  ASSUME IInv, Running, ChainInv, tree' = tree, NEW CONSTANT In, Feeding(In),
         Return, Len(visits) > 1, Kind(At) \in Walked,
         NEW CONSTANT d, code' = d, NEW CONSTANT Jn, CodeFed(d, Jn),
         Still(code, d, Jn), \A b \in 1..Len(code) : Jn[b] = In[b],
         InBody /\ Len(visits) >= 3 =>
           /\ \A v \in Locals(At) : Held(d, Jn, cur', v)
           /\ Lasting(At) => Held(d, Jn, cur', At)
  PROVE  Feeding(Jn)'
<1>1. PICK q \in Paths, k \in Nat, n \in Nat :
        /\ At = Append(q, k) /\ q \in Seq(Nat) /\ k >= 1 /\ Len(visits) = n + 1 /\ n >= 1
        /\ Len(visits') = n
        /\ \A i \in 1..n : visits'[i].at = visits[i].at
        /\ \A i \in 1..(n - 1) : visits'[i].pt = visits[i].pt
        /\ Top'.at = q /\ Top'.pt = k
  BY ReturnPlace
<1>2. /\ \A i \in 1..n : /\ visits'[i].bb = visits[i].bb /\ Begun(i)' = Begun(i)
      /\ Top' = visits'[n] /\ visits'[n].pt = visits[n].pt + 1
  BY <1>1, ReturnFrames
<1>3. PICK p, x : /\ p = At /\ x = Append(q, k + 1)
                  /\ p \in Paths /\ p # Root /\ tree \in Programs
  <2>1. At \in Paths /\ tree \in Programs
    BY Here
  <2>2. Append(q, k) # <<>>
    BY <1>1, AppendProperties
  <2> QED
    BY <1>1, <2>1, <2>2 DEF Root
<1>4. CodeFed(code, Jn)'
  BY FedPrimed
<1>5. \A v \in Locals(x) : v \in Locals(p) \/ (v = p /\ Lasting(p))
  BY <1>1, <1>3, LocalsBehind
<1>6. (InBody => \A v \in Locals(Pos) : Held(code, Jn, cur, v))'
  <2>1. Pos' = x
    BY <1>1, <1>3 DEF Pos, At
  <2>2. Locals(Pos)' = Locals(x)
    <3>1. Locals(Pos)' = Locals(x)'
      BY <2>1 DEF Locals, Vis, Visible
    <3> QED
      BY <3>1, SameLocals
  <2>3. InBody' => InBody /\ Len(visits) >= 3
    <3> SUFFICES ASSUME InBody' PROVE InBody /\ Len(visits) >= 3
      OBVIOUS
    <3>1. n >= 2
      BY <1>1 DEF InBody
    <3>2. 2 \in 1..n /\ n + 1 >= 3 /\ n + 1 >= 2
      BY <3>1
    <3> QED
      BY <1>1, <1>2, <3>2 DEF InBody, Kind
  <2> QED
    BY <1>3, <1>5, <2>2, <2>3 DEF Held, StoresAt
<1>7. ASSUME NEW CONSTANT i \in 1..n PROVE FrameAt(Jn, i)'
  <2>1. PICK r, pt, e, sv, c : /\ r = visits[i].at /\ pt = visits[i].pt /\ e = Begun(i)
                               /\ sv = visits[i].bb /\ c = code
    OBVIOUS
  <2>2. i \in 1..Len(visits)
    BY <1>1
  <2>3. FrameFed(c, In, r, pt, e, sv)
    BY <2>1, <2>2 DEF Feeding, FrameAt
  <2>4. /\ Len(sv) \in Nat /\ e \in Nat /\ (Kind(r) = "if" => e <= 3)
        /\ (Kind(r) = "while" => e <= 2) /\ (Kind(r) = "for" => e <= 4)
        /\ BlocksSaved(Kind(r), e, Len(sv)) /\ \A j \in 1..Len(sv) : sv[j] \in 1..Len(c)
    BY <2>1, <2>2, VisitIs
  <2>5. Still(c, d, Jn) /\ \A b \in 1..Len(c) : Jn[b] = In[b]
    BY <2>1
  <2>6. FrameFed(d, Jn, r, pt, e, sv)
    BY <2>3, <2>4, <2>5, FrameStill
  <2>7. visits'[i].at = r /\ visits'[i].bb = sv /\ Begun(i)' = e
    BY <1>1, <1>2, <2>1
  <2>8. CASE i # n
    <3>1. i \in 1..(n - 1)
      BY <1>1, <2>8
    <3>2. visits'[i].pt = pt
      BY <1>1, <2>1, <3>1
    <3> QED
      BY <2>6, <2>7, <3>2, FramePrimed
  <2>9. CASE i = n
    <3>1. visits'[i].pt = k /\ r = q
      BY <1>1, <1>2, <2>7, <2>9
    <3>2. pt \in Nat /\ k = pt + 1 /\ e = pt + 1
      <4>1. VisitOK(n) /\ n < n + 1
        BY <1>1 DEF IInv, VisitsInv
      <4>2. pt \in Nat /\ k = pt + 1
        BY <1>1, <1>2, <2>1, <2>9, <4>1 DEF VisitOK
      <4>3. e = pt + 1
        BY <1>1, <2>1, <2>9, <4>1 DEF Begun
      <4> QED
        BY <4>2, <4>3
    <3>3. ASSUME Kind(q) = "if", e = 2
          PROVE  Locals(Append(q, k + 1)) \subseteq Jn[sv[1]]
      <4>1. k = 2
        BY <3>2, <3>3
      <4>2. Locals(Append(q, k)) \subseteq Jn[sv[1]]
        BY <2>6, <3>1, <3>2, <3>3 DEF FrameFed
      <4>3. ~Lasting(p)
        <5>1. PICK s \in Paths, y \in Nat :
                s \in Seq(Nat) /\ y \in 1..Kids(s) /\ p = Append(s, y) /\ Parent(p) = s /\ Rank(p) = y
          BY <1>3, ParentIs
        <5>2. s = q /\ y = 2
          <6>1. Append(s, y) = Append(q, k)
            BY <1>1, <1>3, <5>1
          <6> QED
            BY <1>1, <4>1, <5>1, <6>1, AppendInjective
        <5>3. Kind(p) # "param"
          <6>1. Parsed(tree)
            BY <1>3, ProgramsAssumption
          <6>2. KidOf(tree, s, y)
            BY <5>1, <6>1 DEF Parsed, Paths, Kids
          <6> QED
            BY <3>3, <5>1, <5>2, <6>2 DEF KidOf, Kind, Child
        <5> QED
          BY <3>3, <5>1, <5>2, <5>3 DEF Lasting
      <4> QED
        BY <1>1, <1>3, <1>5, <4>2, <4>3
    <3>4. FrameFed(d, Jn, r, k, e, sv)
      BY <2>6, <3>1, <3>2, <3>3 DEF FrameFed
    <3> QED
      BY <2>7, <3>1, <3>4, FramePrimed
  <2> QED
    BY <2>8, <2>9
<1> QED
  BY <1>1, <1>4, <1>6, <1>7 DEF Feeding

LEMMA FedGoesOn ==
  ASSUME IInv, Running, tree' = tree, code' = code, cur' = cur,
         NEW CONSTANT In, Feeding(In), Top.pt < Kids(At), Enter(Top.pt + 1, <<>>),
         Kind(At) \notin Controls \/ (Kind(At) = "if" /\ Top.pt = 0), InBody \/ ~InBody'
  PROVE  Feeding(In)'
<1>1. PICK bb, d : bb = <<>> /\ d = code
  OBVIOUS
<1>2. CodeFed(d, In) /\ Still(code, d, In)
  BY <1>1, Standing DEF Feeding, Still
<1>3. FrameFed(d, In, At, Top.pt, Top.pt + 1, bb)
  <2>1. CASE Kind(At) \notin Controls
    BY <2>1 DEF FrameFed, Feeds, Controls
  <2>2. CASE Kind(At) = "if" /\ Top.pt = 0
    BY <2>2 DEF FrameFed, Feeds
  <2> QED
    BY <2>1, <2>2
<1> QED
  BY <1>1, <1>2, <1>3, FedEnters DEF Feeding

(* Into the statements that save nothing, and back.                        *)
LEMMA FedFurther ==
  ASSUME IInv, FlowInv, NEW CONSTANT In, Feeding(In),
         NextOfFunction \/ Operand \/ NextOfBlock \/ BeginIf \/ TopLevel
  PROVE  Feeding(In)'
<1>1. Running /\ tree' = tree /\ code' = code /\ cur' = cur
  BY DEF NextOfFunction, Operand, NextOfBlock, BeginIf, TopLevel, Visiting, Running, Walking
<1>2. PICK n \in Nat : n = Kids(At) /\ tree \in Programs /\ At \in Paths /\ Top.pt \in Nat
  BY <1>1, TopVisit DEF IInv
<1>3. CASE TopLevel
  <2>1. At = Root /\ Top.pt < Kids(At) /\ Enter(Top.pt + 1, <<>>)
    BY <1>3 DEF TopLevel
  <2>2. Kind(At) \notin Controls
    BY <1>2, <2>1, TreeFacts DEF Controls
  <2>3. PICK m : m = 1 /\ m \in Nat /\ m = Len(visits)
    BY <1>1, <2>1, TopVisit
  <2>4. Len(visits') = m + 1 /\ Begun(m + 1)' = 0
    BY <1>1, <2>1, <2>3, EnterFrames
  <2>5. ~InBody'
    <3>1. m + 1 = 2
      BY <2>3
    <3>2. Begun(2)' = 0
      BY <2>4, <3>1
    <3> QED
      BY <3>2 DEF InBody
  <2> QED
    BY <1>1, <2>1, <2>2, <2>5, FedGoesOn
<1>4. CASE ~TopLevel
  <2>0. NextOfFunction \/ Operand \/ NextOfBlock \/ BeginIf
    BY <1>4
  <2>1. /\ Top.pt < n /\ Enter(Top.pt + 1, <<>>)
        /\ Kind(At) \in {"def", "let", "return", "block", "if"}
        /\ Kind(At) = "if" => Top.pt = 0
        /\ Kind(At) = "def" => Top.pt > 0
    <3>1. CASE NextOfFunction
      BY <1>2, <3>1 DEF NextOfFunction
    <3>2. CASE Operand
      <4>1. Kind(At) \in {"let", "return"} /\ Top.pt < n /\ Enter(1, <<>>)
        BY <1>2, <3>2 DEF Operand
      <4>2. n <= 1
        BY <1>2, <4>1, TreeFacts
      <4>3. Top.pt + 1 = 1
        BY <1>2, <4>1, <4>2
      <4> QED
        BY <4>1, <4>3
    <3>3. CASE NextOfBlock
      BY <1>2, <3>3 DEF NextOfBlock
    <3>4. CASE BeginIf
      <4>1. Kind(At) = "if" /\ Top.pt = 0 /\ Enter(1, <<>>)
        BY <3>4 DEF BeginIf, Visiting
      <4>2. n = 3
        BY <1>2, <4>1, TreeFacts
      <4> QED
        BY <4>1, <4>2
    <3> QED
      BY <2>0, <3>1, <3>2, <3>3, <3>4
  <2>2. InBody
    BY <1>1, <2>1, Indoors DEF AtTop
  <2>3. Kind(At) \notin Controls \/ (Kind(At) = "if" /\ Top.pt = 0)
    BY <2>1 DEF Controls
  <2> QED
    BY <1>1, <1>2, <2>1, <2>2, <2>3, FedGoesOn
<1> QED
  BY <1>3, <1>4

(* What find finds is visible.                                             *)
LEMMA FindSees ==
  ASSUME NEW S, NEW V, TableAt(scopes, S, V), NEW n, find(n) # NoSite
  PROVE  find(n) \in V
<1> DEFINE having == {i \in DOMAIN scopes : n \in DOMAIN scopes[i] /\ scopes[i][n] \in Paths}
<1>1. PICK sp : TableOK(scopes, sp, S, V)
  BY DEF TableAt
<1>2. Len(scopes) \in Nat /\ DOMAIN scopes = 1..Len(scopes)
  BY <1>1, SeqFacts DEF TableOK
<1>3. having # {}
  BY DEF find, FindIn
<1>4. having \subseteq 1..Len(scopes)
  BY <1>2
<1>5. \E i \in having : \A j \in having : j <= i
  BY <1>2, <1>3, <1>4, GreatestExists
<1>6. PICK i \in having : i = CHOOSE k \in having : \A j \in having : j <= k
  BY <1>5
<1>7. find(n) = scopes[i][n]
  BY <1>3, <1>6 DEF find, FindIn
<1>8. i \in 1..Len(scopes) /\ n \in DOMAIN scopes[i]
  BY <1>4, <1>6
<1>9. First(scopes[i][n], n, sp[i], V)
  BY <1>1, <1>8 DEF TableOK
<1> QED
  BY <1>7, <1>9 DEF First

LEMMA FedBack ==
  ASSUME IInv, Running, ChainInv, tree' = tree, NEW CONSTANT In, Feeding(In),
         Return, cur' = cur, Len(visits) > 1, Kind(At) \in Walked,
         NEW CONSTANT x, DOMAIN x.to = {}, Needs(x) => Held(code, In, cur, x.site),
         \/ code' = code
         \/ code' = Emit(code, cur, x) /\ cur \in 1..Len(code),
         InBody /\ Len(visits) >= 3 /\ Lasting(At) =>
           code' # code /\ x.op = "store" /\ x.at = At
  PROVE  Feeding(In)'
<1>1. PICK d : d = code'
  OBVIOUS
<1>2. CodeOK(code, Len(code)) /\ Len(code) \in Nat /\ CodeFed(code, In)
  BY Standing DEF Feeding
<1>3. /\ CodeFed(d, In) /\ Still(code, d, In)
      /\ code' # code /\ x.op = "store" => Held(d, In, cur, x.at)
  <2>1. CASE d = code
    BY <1>1, <1>2, <2>1 DEF Still
  <2>2. CASE d = Emit(code, cur, x) /\ cur \in 1..Len(code)
    <3>1. \A k \in DOMAIN x.to : \A v \in In[x.to[k]] : Held(code, In, cur, v)
      OBVIOUS
    <3> QED
      BY <1>2, <2>2, <3>1, FedEmit
  <2> QED
    BY <1>1, <2>1, <2>2
<1>4. ASSUME InBody, Len(visits) >= 3
      PROVE  /\ \A v \in Locals(At) : Held(d, In, cur', v)
             /\ Lasting(At) => Held(d, In, cur', At)
  <2>1. \A v \in Locals(At) : Held(code, In, cur, v)
    BY <1>4, LocalsHere DEF Feeding
  <2>2. cur # 0 /\ cur \in 0..Len(code)
    BY <1>4, Standing DEF IInv, BlockInv
  <2>3. cur \in 1..Len(code)
    BY <1>2, <2>2
  <2>4. \A v \in Locals(At) : Held(d, In, cur, v)
    BY <1>3, <2>1, <2>3 DEF Still
  <2> QED
    BY <1>3, <1>4, <2>4
<1> QED
  BY <1>1, <1>3, <1>4, FedLeaves

(* Declarations and statements that make no blocks.                        *)
LEMMA FedSimple ==
  ASSUME IInv, ChainInv, TableInv, FlowInv, NEW CONSTANT In, Feeding(In),
         \/ Parameter \/ Evaluate \/ Call \/ Empty \/ DefineVariable \/ ReturnStatement \/ EndBlock
  PROVE  Feeding(In)'
<1>1. Running /\ tree' = tree /\ Return /\ cur' = cur
  BY DEF Parameter, Evaluate, Call, Empty, DefineVariable, ReturnStatement, EndBlock, Visiting,
         Running, Walking
<1>2. Kind(At) \in {"param", "expr", "call", "empty", "let", "return", "block"}
  BY DEF Parameter, Evaluate, Call, Empty, DefineVariable, ReturnStatement, EndBlock, Visiting
<1>3. Kind(At) \notin AtTop \cup {"root"} /\ Kind(At) \in Walked
  BY <1>2 DEF AtTop, Walked, Scoped, Leaves, Expressions
<1>4. InBody /\ Len(visits) >= 3 /\ Len(visits) > 1 /\ At # Root
  BY <1>1, <1>3, Indoors, TopVisit
<1>5. cur \in 1..Len(code) /\ CodeOK(code, Len(code))
  BY <1>1, <1>4, InFlow DEF Own, Sane
<1>6. CASE Empty \/ EndBlock
  <2>1. code' = code /\ ~Lasting(At)
    BY <1>6 DEF Empty, EndBlock, Visiting, Lasting
  <2>2. PICK x : x = Instr("ret", Root, <<>>, NoSite)
    OBVIOUS
  <2>3. DOMAIN x.to = {} /\ ~Needs(x)
    BY <2>2 DEF Instr, Needs
  <2> QED
    BY <1>1, <1>3, <1>4, <2>1, <2>3, FedBack
<1>7. CASE Parameter \/ DefineVariable
  <2>1. PICK x : x = Instr("store", At, <<>>, NoSite)
    OBVIOUS
  <2>2. DOMAIN x.to = {} /\ x.op = "store" /\ x.at = At /\ ~Needs(x)
    BY <2>1 DEF Instr, Needs
  <2>3. code' = Emit(code, cur, x)
    BY <1>7, <2>1 DEF Parameter, DefineVariable
  <2>4. code' # code
    <3>1. Len(Emit(code, cur, x)[cur].ins) = Len(code[cur].ins) + 1 /\ Len(code[cur].ins) \in Nat
      BY <1>5, EmitIs
    <3> QED
      BY <2>3, <3>1
  <2> QED
    BY <1>1, <1>3, <1>4, <1>5, <2>2, <2>3, <2>4, FedBack
<1>8. CASE ReturnStatement
  <2>1. PICK x : x = Instr("ret", At, <<>>, NoSite)
    OBVIOUS
  <2>2. DOMAIN x.to = {} /\ ~Needs(x)
    BY <2>1 DEF Instr, Needs
  <2>3. code' = Emit(code, cur, x) /\ ~Lasting(At)
    BY <1>8, <2>1 DEF ReturnStatement, Visiting, Lasting
  <2> QED
    BY <1>1, <1>3, <1>4, <1>5, <2>2, <2>3, FedBack
<1>9. CASE Evaluate \/ Call
  <2>1. PICK x, s : s = find(Name(At)) /\ x = Instr("eval", At, <<>>, s)
    OBVIOUS
  <2>2. DOMAIN x.to = {} /\ x.at = At /\ x.site = s
    BY <2>1 DEF Instr
  <2>3. code' = Emit(code, cur, x) /\ ~Lasting(At) /\ Top.pt = 0
    BY <1>9, <2>1 DEF Evaluate, Call, Visiting, Lasting
  <2>4. ASSUME Needs(x) PROVE Held(code, In, cur, x.site)
    <3>1. s # NoSite /\ Kind(s) \in {"let", "param"} /\ ~LeaksIntoElse(s, At)
      BY <2>2, <2>4 DEF Needs
    <3>2. TableAt(scopes, Scopes(At), Vis(At))
      BY <1>1, <1>4, <2>3, TableHere
    <3>3. s \in Vis(At)
      BY <2>1, <3>1, <3>2, FindSees
    <3>4. s \in Locals(At)
      BY <1>1, <3>1, <3>3, Here, LastingOrLeaking
    <3> QED
      BY <1>1, <1>4, <2>2, <3>4, LocalsHere DEF Feeding
  <2> QED
    BY <1>1, <1>3, <1>4, <1>5, <2>2, <2>3, <2>4, FedBack
<1> QED
  BY <1>6, <1>7, <1>8, <1>9

(* Back at the top.                                                        *)
LEMMA FedDeclares ==
  ASSUME IInv, ChainInv, FlowInv, NEW CONSTANT In, Feeding(In),
         DefineGlobal \/ Declare \/ EndFunction
  PROVE  Feeding(In)'
<1>1. Running /\ tree' = tree /\ Return /\ cur' = cur
  BY DEF DefineGlobal, Declare, EndFunction, Visiting, Running, Walking
<1>2. Kind(At) \in AtTop /\ Kind(At) \in Walked
  BY DEF DefineGlobal, Declare, EndFunction, Visiting, AtTop, Walked, Scoped
<1>3. Len(visits) > 1 /\ ~(Len(visits) >= 3)
  <2>1. Len(visits) = 2
    BY <1>1, <1>2, TopVisit
  <2>2. 2 > 1 /\ ~(2 >= 3)
    OBVIOUS
  <2> QED
    BY <2>1, <2>2
<1>4. PICK x : x = Instr("end", At, <<>>, NoSite)
  OBVIOUS
<1>5. DOMAIN x.to = {} /\ ~Needs(x)
  BY <1>4 DEF Instr, Needs
<1>6. code' = code \/ (code' = Emit(code, cur, x) /\ cur \in 1..Len(code))
  <2>1. CASE ~EndFunction
    BY <2>1 DEF DefineGlobal, Declare
  <2>2. CASE EndFunction
    <3>1. Kind(At) = "def" /\ Top.pt = Kids(At)
      BY <2>2 DEF EndFunction, Visiting
    <3>2. Top.pt > 0
      BY <1>1, <3>1, Here, TreeFacts
    <3>3. InBody
      BY <1>1, <3>1, <3>2, Indoors
    <3>4. cur \in 1..Len(code)
      BY <1>1, <3>3, InFlow DEF Own
    <3> QED
      BY <1>4, <2>2, <3>4 DEF EndFunction
  <2> QED
    BY <2>1, <2>2
<1> QED
  BY <1>1, <1>2, <1>3, <1>5, <1>6, FedBack

-----------------------------------------------------------------------------
(* Control flow: code d under way, whose branches go to the blocks 1..n.   *)

Fine(c, n, In) == CodeOK(c, n) /\ Len(c) \in Nat /\ CodeFed(c, In)

LEMMA FineNew ==
  ASSUME NEW c, NEW n, NEW In, Fine(c, n, In), NEW m, m = Len(c), NEW f \in FnSet,
         f = Detached \/ In[m + 1] = {} \/ \E a \in 1..m : c[a].fn = f
  PROVE  /\ Fine(New(c, f), n, In) /\ Len(New(c, f)) = m + 1
         /\ Still(c, New(c, f), In)
<1>1. CodeOK(c, n) /\ CodeFed(c, In) /\ Len(c) \in Nat
  BY DEF Fine
<1>2. CodeOK(New(c, f), n) /\ Len(New(c, f)) = m + 1 /\ Len(New(c, f)) \in Nat
  BY <1>1, NewBlock
<1>3. CodeFed(New(c, f), In) /\ Still(c, New(c, f), In)
  BY <1>1, FedNew
<1> QED
  BY <1>2, <1>3 DEF Fine

LEMMA FineEmit ==
  ASSUME NEW c, NEW n, NEW In, Fine(c, n, In), NEW b \in 1..Len(c), NEW x, ~Needs(x),
         \A k \in DOMAIN x.to : x.to[k] \in 1..n /\ \A v \in In[x.to[k]] : Held(c, In, b, v)
  PROVE  /\ Fine(Emit(c, b, x), n, In) /\ Len(Emit(c, b, x)) = Len(c)
         /\ Still(c, Emit(c, b, x), In)
         /\ \A j \in 1..Len(c) : Emit(c, b, x)[j].fn = c[j].fn
<1>1. CodeOK(c, n) /\ CodeFed(c, In) /\ Len(c) \in Nat
  BY DEF Fine
<1>2. CodeOK(Emit(c, b, x), n) /\ Len(Emit(c, b, x)) = Len(c)
  BY <1>1, Emitted DEF TargetsOK
<1>3. CodeFed(Emit(c, b, x), In) /\ Still(c, Emit(c, b, x), In)
  BY <1>1, FedEmit
<1>4. \A j \in 1..Len(c) : Emit(c, b, x)[j].fn = c[j].fn
  BY <1>1, EmitIs
<1> QED
  BY <1>1, <1>2, <1>3, <1>4 DEF Fine

LEMMA FineBranch ==
  ASSUME NEW c, NEW n, NEW In, Fine(c, n, In), NEW b \in 1..Len(c),
         NEW t \in 1..n, \A v \in In[t] : Held(c, In, b, v)
  PROVE  /\ Fine(Emit(c, b, Br(t)), n, In) /\ Len(Emit(c, b, Br(t))) = Len(c)
         /\ Still(c, Emit(c, b, Br(t)), In)
         /\ \A j \in 1..Len(c) : Emit(c, b, Br(t))[j].fn = c[j].fn
<1>1. PICK x : x = Br(t)
  OBVIOUS
<1>2. ~Needs(x) /\ DOMAIN x.to = {1} /\ x.to[1] = t
  BY <1>1, BranchIs DEF Needs
<1> QED
  BY <1>1, <1>2, FineEmit

LEMMA FineBranchBoth ==
  ASSUME NEW c, NEW n, NEW In, Fine(c, n, In), NEW b \in 1..Len(c),
         NEW t \in 1..n, \A v \in In[t] : Held(c, In, b, v),
         NEW u \in 1..n, \A v \in In[u] : Held(c, In, b, v)
  PROVE  /\ Fine(Emit(c, b, CondBr(t, u)), n, In) /\ Len(Emit(c, b, CondBr(t, u))) = Len(c)
         /\ Still(c, Emit(c, b, CondBr(t, u)), In)
         /\ \A j \in 1..Len(c) : Emit(c, b, CondBr(t, u))[j].fn = c[j].fn
<1>1. PICK x : x = CondBr(t, u)
  OBVIOUS
<1>2. ~Needs(x) /\ DOMAIN x.to = {1, 2} /\ x.to[1] = t /\ x.to[2] = u
  BY <1>1, BranchIs DEF Needs
<1>3. \A k \in DOMAIN x.to : x.to[k] \in 1..n /\ \A v \in In[x.to[k]] : Held(c, In, b, v)
  BY <1>2
<1> QED
  BY <1>1, <1>2, <1>3, FineEmit

LEMMA FineAttach ==
  ASSUME NEW c, NEW n, NEW In, Fine(c, n, In), NEW b \in 1..Len(c), NEW f \in FnSet,
         Later(c, b, f), c[b].fn \in {Detached, f}
  PROVE  /\ Fine(Attach(c, b, f), n, In) /\ Len(Attach(c, b, f)) = Len(c)
         /\ Still(c, Attach(c, b, f), In)
<1>1. CodeOK(c, n) /\ CodeFed(c, In) /\ Len(c) \in Nat
  BY DEF Fine
<1>2. CodeOK(Attach(c, b, f), n) /\ Len(Attach(c, b, f)) = Len(c)
  BY <1>1, Attached
<1>3. CodeFed(Attach(c, b, f), In) /\ Still(c, Attach(c, b, f), In)
  BY <1>1, FedAttach
<1> QED
  BY <1>1, <1>2, <1>3 DEF Fine

(* More blocks are known of.                                               *)
Extends(Jn, In, n) == \A b \in 1..n : Jn[b] = In[b]

(* What is known when a visit of such a statement goes on; Jn is what will *)
(* be known, of more blocks.                                               *)
Given(c, f, k, p, e, bb, n, Jn) ==
  /\ \A m \in Nat : n <= m => Fine(c, m, Jn)
  /\ FrameFed(c, Jn, p, e, e, bb)
  /\ f \in FnSet /\ k \in 1..n /\ \E a \in 1..n : c[a].fn = f
  /\ \A v \in Locals(Append(p, e + 1)) : Held(c, Jn, k, v)
  /\ Locals(p) \subseteq Locals(Append(p, e + 1))
  /\ tree \in Programs /\ p \in Paths /\ e \in Nat

LEMMA FedReady ==
  ASSUME IInv, Running, NEW In, Feeding(In), NEW Jn,
         NEW c, NEW f, NEW k, NEW p, NEW e, NEW bb, NEW L, NEW O, NEW n,
         Ready(c, f, k, p, e, bb, L, O, n), Extends(Jn, In, n)
  PROVE  Given(c, f, k, p, e, bb, n, Jn)
<1>1. /\ c = code /\ k = cur /\ p = At /\ e = Top.pt /\ bb = Top.bb /\ n = Len(code) /\ n \in Nat
      /\ CodeOK(c, n) /\ f \in FnSet /\ k \in 1..n /\ c[k].fn = f /\ InBody
  BY DEF Ready, Sane, Own
<1>2. CodeFed(c, Jn) /\ \A b \in 1..n : \A v : Held(c, Jn, b, v) <=> Held(c, In, b, v)
  <2>1. CodeOK(c, Len(c)) /\ CodeFed(c, In) /\ \A b \in 1..Len(c) : Jn[b] = In[b]
    BY <1>1 DEF Feeding, Extends
  <2> QED
    BY <1>1, <2>1, FedSame
<1>3. \A m \in Nat : n <= m => Fine(c, m, Jn)
  BY <1>1, <1>2, Wider DEF Fine
<1>4. Still(c, c, Jn)
  BY <1>1 DEF Still
<1>5. FrameFed(c, Jn, p, e, e, bb)
  <2>1. PICK i : i = Len(visits) /\ i \in 1..Len(visits) /\ Top = visits[i]
    BY TopVisit
  <2>2. Begun(i) = e /\ visits[i].at = p /\ visits[i].bb = bb /\ visits[i].pt = e
    BY <1>1, <2>1, TopVisit DEF Begun, At
  <2>3. FrameFed(c, In, p, e, e, bb)
    BY <1>1, <2>1, <2>2 DEF Feeding, FrameAt
  <2>4. /\ Len(bb) \in Nat /\ e \in Nat /\ (Kind(p) = "if" => e <= 3)
        /\ (Kind(p) = "while" => e <= 2) /\ (Kind(p) = "for" => e <= 4)
        /\ BlocksSaved(Kind(p), e, Len(bb)) /\ \A j \in 1..Len(bb) : bb[j] \in 1..Len(c)
    BY <1>1, <2>1, <2>2, VisitIs
  <2>5. \A b \in 1..Len(c) : Jn[b] = In[b]
    BY <1>1 DEF Extends
  <2> QED
    BY <1>4, <2>3, <2>4, <2>5, FrameStill
<1>6. \A v \in Locals(Append(p, e + 1)) : Held(c, Jn, k, v)
  BY <1>1, <1>2, LocalsHere DEF Feeding
<1>7. Locals(p) \subseteq Locals(Append(p, e + 1))
  BY <1>1, LocalsHere
<1>8. tree \in Programs /\ p \in Paths /\ e \in Nat
  BY <1>1, Here
<1>9. \E a \in 1..n : c[a].fn = f
  BY <1>1
<1> QED
  BY <1>1, <1>3, <1>5, <1>6, <1>7, <1>8, <1>9 DEF Given

LEMMA FedControl ==
  ASSUME IInv, Running, tree' = tree, NEW CONSTANT In, Feeding(In), NEW CONSTANT Jn,
         NEW CONSTANT c, NEW CONSTANT f, NEW CONSTANT k, NEW CONSTANT p, NEW CONSTANT e,
         NEW CONSTANT bb, NEW CONSTANT L, NEW CONSTANT O, NEW CONSTANT n,
         Ready(c, f, k, p, e, bb, L, O, n), Extends(Jn, In, n),
         e < Kids(p), NEW CONSTANT saved, Enter(e + 1, saved),
         NEW CONSTANT d, code' = d, NEW CONSTANT h, cur' = h,
         CodeFed(d, Jn), Still(c, d, Jn),
         FrameFed(d, Jn, p, e, e + 1, saved),
         \A v \in Locals(Append(p, e + 1)) : Held(d, Jn, h, v)
  PROVE  Feeding(Jn)'
<1>1. c = code /\ p = At /\ e = Top.pt /\ n = Len(code)
  BY DEF Ready
<1>2. Locals(Append(p, e + 1)) = Locals(Pos)
  BY <1>1, LocalsHere
<1> QED
  BY <1>1, <1>2, FedEnters DEF Extends

LEMMA FedControlEnds ==
  ASSUME IInv, Running, ChainInv, tree' = tree, NEW CONSTANT In, Feeding(In), NEW CONSTANT Jn,
         NEW CONSTANT c, NEW CONSTANT f, NEW CONSTANT k, NEW CONSTANT p, NEW CONSTANT e,
         NEW CONSTANT bb, NEW CONSTANT L, NEW CONSTANT O, NEW CONSTANT n,
         Ready(c, f, k, p, e, bb, L, O, n), Extends(Jn, In, n),
         Kind(p) \in Controls, Return,
         NEW CONSTANT d, code' = d, NEW CONSTANT h, cur' = h,
         CodeFed(d, Jn), Still(c, d, Jn),
         \A v \in Locals(p) : Held(d, Jn, h, v)
  PROVE  Feeding(Jn)'
<1>1. c = code /\ p = At /\ n = Len(code) /\ Len(visits) >= 3 /\ Len(visits) > 1
  BY TopVisit DEF Ready
<1>2. Kind(At) \in Walked /\ ~Lasting(At)
  BY <1>1 DEF Controls, Walked, Scoped, Lasting
<1> QED
  BY <1>1, <1>2, FedLeaves DEF Extends

(* The condition of an if is through: three blocks.                        *)
LEMMA FedCondition ==
  ASSUME IInv, FlowInv, NEW CONSTANT In, Feeding(In), AfterCondition
  PROVE  \E Jn : Feeding(Jn)'
<1>1. /\ Running /\ tree' = tree /\ Kind(At) = "if" /\ Top.pt = 1 /\ Kind(At) \in Controls
  BY DEF AfterCondition, Visiting, Running, Walking, Controls
<1>2. PICK c, f, k, p, e, bb, L, O, n : Ready(c, f, k, p, e, bb, L, O, n)
  BY <1>1, Readiness
<1>3. PICK n1 \in Nat, n2 \in Nat, n3 \in Nat : n1 = n + 1 /\ n2 = n1 + 1 /\ n3 = n2 + 1
  BY <1>2 DEF Ready
<1>4. /\ n \in Nat /\ n1 = n + 1 /\ n2 = n + 2 /\ n3 = n + 3 /\ n = Len(c)
      /\ c = code /\ k = cur /\ Kind(p) = "if" /\ e = 1 /\ p = At
  BY <1>1, <1>2, <1>3 DEF Ready
<1>5. PICK u, saved, M, K : /\ u = (IF HasElse(p) THEN n2 ELSE n3) /\ saved = <<n2, n3>>
                            /\ M = Locals(Append(p, 2)) /\ K = Locals(p)
  OBVIOUS
<1>6. PICK Jn : Jn = [b \in Nat |-> IF b \in {n1, n2} THEN M ELSE IF b = n3 THEN K ELSE In[b]]
  OBVIOUS
<1>7. Jn[n1] = M /\ Jn[n2] = M /\ Jn[n3] = K /\ Extends(Jn, In, n)
  BY <1>4, <1>6 DEF Extends
<1>8. e + 1 = 2
  BY <1>4
<1>9. /\ Fine(c, n3, Jn) /\ f \in FnSet /\ k \in 1..n /\ \E a \in 1..n : c[a].fn = f
      /\ \A v \in M : Held(c, Jn, k, v)
      /\ K \subseteq M /\ tree \in Programs /\ p \in Paths
  <2>1. n3 \in Nat /\ n <= n3
    BY <1>4
  <2>2. Given(c, f, k, p, e, bb, n, Jn)
    BY <1>1, <1>2, <1>7, FedReady
  <2>3. Fine(c, n3, Jn)
    BY <2>1, <2>2 DEF Given
  <2> QED
    BY <1>5, <1>8, <2>2, <2>3 DEF Given
<1>10. PICK c1, c2, c3, d : /\ c1 = New(c, f) /\ c2 = New(c1, Detached) /\ c3 = New(c2, Detached)
                            /\ d = Emit(c3, k, CondBr(n1, u))
  OBVIOUS
<1>11. code' = d /\ cur' = n1 /\ Enter(2, saved)
  BY <1>2, <1>4, <1>5, <1>10 DEF AfterCondition, Ready
<1>12. Detached \in FnSet
  BY DEF FnSet
<1>13. Fine(c1, n3, Jn) /\ Len(c1) = n1 /\ Still(c, c1, Jn)
  BY <1>4, <1>9, <1>10, FineNew
<1>14. Fine(c2, n3, Jn) /\ Len(c2) = n2 /\ Still(c1, c2, Jn)
  BY <1>3, <1>10, <1>12, <1>13, FineNew
<1>15. Fine(c3, n3, Jn) /\ Len(c3) = n3 /\ Still(c2, c3, Jn)
  BY <1>3, <1>10, <1>12, <1>14, FineNew
<1>16. Still(c, c3, Jn)
  BY <1>13, <1>14, <1>15, StillOn
<1>17. \A v \in M : Held(c3, Jn, k, v)
  BY <1>4, <1>9, <1>16 DEF Still
<1>18. k \in 1..n3 /\ n1 \in 1..n3 /\ u \in 1..n3 /\ Jn[u] \subseteq M
  BY <1>4, <1>5, <1>7, <1>9
<1>19. Fine(d, n3, Jn) /\ Still(c3, d, Jn)
  BY <1>7, <1>10, <1>15, <1>17, <1>18, FineBranchBoth
<1>20. Still(c, d, Jn)
  BY <1>16, <1>19, StillOn
<1>21. FrameFed(d, Jn, p, e, e + 1, saved)
  <2>1. saved[1] = n2 /\ saved[2] = n3
    BY <1>5, PairIs
  <2>2. Feeds(Kind(p), e + 1) = {}
    BY <1>4 DEF Feeds
  <2> QED
    BY <1>4, <1>5, <1>7, <1>8, <2>1, <2>2 DEF FrameFed
<1>22. \A v \in Locals(Append(p, e + 1)) : Held(d, Jn, n1, v)
  BY <1>5, <1>7, <1>8 DEF Held
<1>23. e < Kids(p) /\ Enter(e + 1, saved)
  <2>1. Kids(p) = 3
    BY <1>4, <1>9, TreeFacts
  <2> QED
    BY <1>4, <1>8, <1>11, <2>1
<1>24. CodeFed(d, Jn)
  BY <1>19 DEF Fine
<1>25. Feeding(Jn)'
  BY <1>1, <1>2, <1>7, <1>11, <1>20, <1>21, <1>22, <1>23, <1>24, FedControl
<1> QED
  BY <1>25

(* The then-branch is through, and there is an else-branch.                *)
LEMMA FedElse ==
  ASSUME IInv, FlowInv, NEW CONSTANT In, Feeding(In), AfterThen, HasElse(At)
  PROVE  Feeding(In)'
<1>1. /\ Running /\ tree' = tree /\ Kind(At) = "if" /\ Top.pt = 2 /\ Kind(At) \in Controls
  BY DEF AfterThen, Visiting, Running, Walking, Merge, Controls
<1>2. PICK c, f, k, p, e, bb, L, O, n : Ready(c, f, k, p, e, bb, L, O, n)
  BY <1>1, Readiness
<1>3. /\ Kind(p) = "if" /\ e = 2 /\ HasElse(p) /\ n = Len(c) /\ n \in Nat /\ e + 1 = 3
  BY <1>1, <1>2 DEF Ready
<1>4. Len(bb) = 2 /\ 1 \in 1..2 /\ 2 \in 1..2 /\ bb[1] \in 1..n /\ bb[2] \in 1..n
  BY <1>2, <1>3 DEF Ready, BlocksSaved
<1>5. PICK a, b : a = bb[1] /\ b = bb[2]
  OBVIOUS
<1>6. PICK c1, d : c1 = Emit(c, k, Br(b)) /\ d = Attach(c1, a, f)
  OBVIOUS
<1>7. code' = d /\ cur' = a /\ Enter(3, bb)
  BY <1>2, <1>3, <1>5, <1>6 DEF AfterThen, Ready
<1>8. Later(c, a, f) /\ c[a].fn \in {Detached, f}
  BY <1>2, <1>3, <1>4, <1>5 DEF Ready, Holds
<1>9. /\ Fine(c, n, In) /\ f \in FnSet /\ k \in 1..n /\ FrameFed(c, In, p, e, e, bb)
      /\ \A v \in Locals(Append(p, e + 1)) : Held(c, In, k, v)
      /\ Locals(p) \subseteq Locals(Append(p, e + 1)) /\ tree \in Programs /\ p \in Paths
  <2>1. Extends(In, In, n)
    BY DEF Extends
  <2>2. n \in Nat /\ n <= n
    BY <1>3
  <2>3. Given(c, f, k, p, e, bb, n, In)
    BY <1>1, <1>2, <2>1, FedReady
  <2> QED
    BY <2>2, <2>3 DEF Given
<1>10. /\ In[b] = Locals(p) /\ Locals(Append(p, e + 1)) \subseteq In[a]
  BY <1>3, <1>5, <1>9 DEF FrameFed
<1>11. /\ Fine(c1, n, In) /\ Len(c1) = Len(c) /\ Still(c, c1, In)
       /\ \A j \in 1..Len(c) : c1[j].fn = c[j].fn
  BY <1>3, <1>4, <1>5, <1>6, <1>9, <1>10, FineBranch
<1>12. a \in 1..Len(c1) /\ Later(c1, a, f) /\ c1[a].fn \in {Detached, f}
  BY <1>3, <1>4, <1>5, <1>8, <1>11 DEF Later
<1>13. Fine(d, n, In) /\ Still(c1, d, In)
  BY <1>6, <1>9, <1>11, <1>12, FineAttach
<1>14. Still(c, d, In)
  BY <1>11, <1>13, StillOn
<1>15. FrameFed(d, In, p, e, e + 1, bb)
  <2>1. Feeds(Kind(p), e + 1) = {}
    BY <1>3 DEF Feeds
  <2> QED
    BY <1>3, <1>5, <1>10, <2>1 DEF FrameFed
<1>16. \A v \in Locals(Append(p, e + 1)) : Held(d, In, a, v)
  BY <1>10 DEF Held
<1>17. e < Kids(p) /\ Enter(e + 1, bb)
  <2>1. Kids(p) = 3
    BY <1>3, <1>9, TreeFacts
  <2> QED
    BY <1>3, <1>7, <2>1
<1>18. CodeFed(d, In)
  BY <1>13 DEF Fine
<1>19. Extends(In, In, n)
  BY DEF Extends
<1> QED
  BY <1>1, <1>2, <1>7, <1>14, <1>15, <1>16, <1>17, <1>18, <1>19, FedControl

(* The if is through.                                                      *)
LEMMA FedMerge ==
  ASSUME IInv, ChainInv, FlowInv, NEW CONSTANT In, Feeding(In),
         (AfterThen /\ ~HasElse(At)) \/ AfterElse
  PROVE  Feeding(In)'
<1>1. /\ Running /\ tree' = tree /\ Kind(At) = "if" /\ Kind(At) \in Controls
      /\ Top.pt \in {2, 3} /\ Merge(Top.bb[2])
  BY DEF AfterThen, AfterElse, Visiting, Running, Walking, Merge, Controls
<1>2. PICK c, f, k, p, e, bb, L, O, n : Ready(c, f, k, p, e, bb, L, O, n)
  BY <1>1, Readiness
<1>3. /\ Kind(p) = "if" /\ e \in {2, 3} /\ n = Len(c) /\ n \in Nat /\ Kind(p) \in Controls
  BY <1>1, <1>2 DEF Ready
<1>4. Len(bb) = 2 /\ 1 \in 1..2 /\ 2 \in 1..2 /\ bb[1] \in 1..n /\ bb[2] \in 1..n
  BY <1>2, <1>3 DEF Ready, BlocksSaved
<1>5. PICK b : b = bb[2]
  OBVIOUS
<1>6. PICK c1, d : c1 = Emit(c, k, Br(b)) /\ d = Attach(c1, b, f)
  OBVIOUS
<1>7. code' = d /\ cur' = b /\ Return
  BY <1>1, <1>2, <1>5, <1>6 DEF Merge, Ready
<1>8. Later(c, b, f) /\ c[b].fn \in {Detached, f}
  BY <1>2, <1>3, <1>4, <1>5 DEF Ready, Holds
<1>9. /\ Fine(c, n, In) /\ f \in FnSet /\ k \in 1..n /\ FrameFed(c, In, p, e, e, bb)
      /\ \A v \in Locals(Append(p, e + 1)) : Held(c, In, k, v)
      /\ Locals(p) \subseteq Locals(Append(p, e + 1))
  <2>1. Extends(In, In, n)
    BY DEF Extends
  <2>2. n \in Nat /\ n <= n
    BY <1>3
  <2>3. Given(c, f, k, p, e, bb, n, In)
    BY <1>1, <1>2, <2>1, FedReady
  <2> QED
    BY <2>2, <2>3 DEF Given
<1>10. In[b] = Locals(p)
  BY <1>3, <1>5, <1>9 DEF FrameFed
<1>11. /\ Fine(c1, n, In) /\ Len(c1) = Len(c) /\ Still(c, c1, In)
       /\ \A j \in 1..Len(c) : c1[j].fn = c[j].fn
  BY <1>3, <1>4, <1>5, <1>6, <1>9, <1>10, FineBranch
<1>12. b \in 1..Len(c1) /\ Later(c1, b, f) /\ c1[b].fn \in {Detached, f}
  BY <1>3, <1>4, <1>5, <1>8, <1>11 DEF Later
<1>13. Fine(d, n, In) /\ Still(c1, d, In)
  BY <1>6, <1>9, <1>11, <1>12, FineAttach
<1>14. Still(c, d, In) /\ CodeFed(d, In)
  BY <1>11, <1>13, StillOn DEF Fine
<1>15. \A v \in Locals(p) : Held(d, In, b, v)
  BY <1>10 DEF Held
<1>16. Extends(In, In, n)
  BY DEF Extends
<1> QED
  BY <1>1, <1>2, <1>3, <1>7, <1>14, <1>15, <1>16, FedControlEnds

(* A function's body begins.                                               *)
LEMMA FedOpensBody ==
  ASSUME IInv, FlowInv, NEW CONSTANT In, Feeding(In), BeginFunction
  PROVE  \E Jn : Feeding(Jn)'
<1>1. /\ Running /\ tree' = tree /\ Kind(At) = "def" /\ Top.pt = 0 /\ Declarable
      /\ code' = New(code, Declared) /\ cur' = Len(code) + 1 /\ Enter(1, <<>>)
  BY DEF BeginFunction, Visiting, Running, Walking
<1>2. PICK n, m, f, bb, d :
        /\ n = Len(code) /\ n \in Nat /\ m = n + 1 /\ m \in Nat
        /\ f = Declared /\ bb = <<>> /\ d = New(code, f)
  <2>1. PICK n : n = Len(code) /\ n \in Nat /\ n + 1 \in Nat
    BY SeqFacts DEF IInv, CodeInv, CodeOK
  <2> QED
    BY <2>1
<1>3. f \in FnSet
  BY <1>1, <1>2, DeclaredFunction DEF IsFunction
<1>4. PICK Jn : Jn = [b \in Nat |-> IF b = m THEN {} ELSE In[b]]
  OBVIOUS
<1>5. Jn[m] = {} /\ \A b \in 1..Len(code) : Jn[b] = In[b]
  BY <1>2, <1>4
<1>6. CodeOK(code, n) /\ CodeFed(code, Jn)
  <2>1. CodeOK(code, Len(code)) /\ CodeFed(code, In)
    BY <1>1, Standing DEF Feeding
  <2> QED
    BY <1>2, <1>5, <2>1, FedSame
<1>7. CodeFed(d, Jn) /\ Still(code, d, Jn)
  BY <1>2, <1>5, <1>6, FedNew
<1>8. FrameFed(d, Jn, At, Top.pt, Top.pt + 1, bb)
  BY <1>1 DEF FrameFed, Feeds
<1>9. Locals(Pos) = {}
  <2>1. Pos = At /\ At \in Paths /\ tree \in Programs
    <3>1. At # Root
      BY <1>1, TreeFacts DEF IInv
    <3> QED
      BY <1>1, <3>1, Here DEF Pos
  <2> QED
    BY <1>1, <2>1, LocalsAtTop DEF AtTop
<1>10. Top.pt < Kids(At) /\ Enter(Top.pt + 1, bb)
  <2>1. Kids(At) >= 1 /\ Kids(At) \in Nat
    BY <1>1, TopVisit, TreeFacts DEF IInv
  <2>2. Top.pt + 1 = 1
    BY <1>1
  <2> QED
    BY <1>1, <1>2, <2>1, <2>2
<1>11. code' = d
  BY <1>1, <1>2
<1>12. \A v \in Locals(Pos) : Held(d, Jn, cur', v)
  BY <1>9
<1>13. Feeding(Jn)'
  BY <1>1, <1>5, <1>7, <1>8, <1>10, <1>11, <1>12, FedEnters
<1> QED
  BY <1>13

(* A loop begins.                                                          *)
LEMMA FedLoopBegins ==
  ASSUME IInv, FlowInv, NEW CONSTANT In, Feeding(In), BeginWhile \/ BeginFor
  PROVE  \E Jn : Feeding(Jn)'
<1>1. /\ Running /\ tree' = tree /\ Kind(At) \in {"while", "for"} /\ Top.pt = 0
      /\ Kind(At) \in Controls
  BY DEF BeginWhile, BeginFor, Visiting, Running, Walking, Controls
<1>2. PICK c, f, k, p, e, bb, L, O, n : Ready(c, f, k, p, e, bb, L, O, n)
  BY <1>1, Readiness
<1>3. PICK m, saved, K : m = n + 1 /\ saved = <<m>> /\ K = Locals(p)
  OBVIOUS
<1>4. /\ n \in Nat /\ n = Len(c) /\ e = 0 /\ e + 1 = 1 /\ Kind(p) \in {"while", "for"}
      /\ m \in Nat /\ n <= m /\ m \in 1..m /\ p = At
  BY <1>1, <1>2, <1>3 DEF Ready
<1>5. PICK Jn : Jn = [b \in Nat |-> IF b = m THEN K ELSE In[b]]
  OBVIOUS
<1>6. Jn[m] = K /\ Extends(Jn, In, n)
  BY <1>3, <1>4, <1>5 DEF Extends
<1>7. Given(c, f, k, p, e, bb, n, Jn)
  BY <1>1, <1>2, <1>6, FedReady
<1>8. PICK c1, d : c1 = Emit(c, k, Br(m)) /\ d = New(c1, f)
  OBVIOUS
<1>9. code' = d /\ cur' = m /\ Enter(1, saved)
  BY <1>2, <1>3, <1>8 DEF BeginWhile, BeginFor, Ready
<1>10. /\ Fine(c1, m, Jn) /\ Len(c1) = Len(c) /\ Still(c, c1, Jn)
       /\ \A j \in 1..Len(c) : c1[j].fn = c[j].fn
  <2>1. Fine(c, m, Jn) /\ k \in 1..Len(c) /\ m \in 1..m
    BY <1>4, <1>7 DEF Given
  <2>2. \A v \in Jn[m] : Held(c, Jn, k, v)
    BY <1>3, <1>6, <1>7 DEF Given
  <2> QED
    BY <1>8, <2>1, <2>2, FineBranch
<1>11. Fine(d, m, Jn) /\ Still(c1, d, Jn)
  <2>1. Fine(c1, m, Jn) /\ n = Len(c1) /\ f \in FnSet /\ \E a \in 1..n : c1[a].fn = f
    BY <1>4, <1>7, <1>10 DEF Given
  <2> QED
    BY <1>8, <2>1, FineNew
<1>12. Still(c, d, Jn) /\ CodeFed(d, Jn)
  BY <1>10, <1>11, StillOn DEF Fine
<1>13. FrameFed(d, Jn, p, e, e + 1, saved)
  <2>1. saved[1] = m
    BY <1>3, PairIs
  <2>2. Feeds(Kind(p), e + 1) = {}
    BY <1>4 DEF Feeds
  <2> QED
    BY <1>3, <1>4, <1>6, <2>1, <2>2 DEF FrameFed
<1>14. \A v \in Locals(Append(p, e + 1)) : Held(d, Jn, m, v)
  <2>1. Locals(Append(p, e + 1)) = K
    BY <1>3, <1>4, <1>7, LocalsWithin DEF Given
  <2> QED
    BY <1>6, <2>1 DEF Held
<1>15. e < Kids(p) /\ Enter(e + 1, saved)
  <2>1. Kids(p) = 2 \/ Kids(p) = 4
    BY <1>4, <1>7, TreeFacts DEF Given
  <2> QED
    BY <1>4, <1>9, <2>1
<1>16. Feeding(Jn)'
  BY <1>1, <1>2, <1>6, <1>9, <1>12, <1>13, <1>14, <1>15, FedControl
<1> QED
  BY <1>16

(* On to a loop's next kid.                                                *)
LEMMA FedLoopGoesOn ==
  ASSUME IInv, FlowInv, NEW CONSTANT In, Feeding(In), WhileBody \/ NextOfFor \/ ForStep
  PROVE  \E Jn : Feeding(Jn)'
<1>1. /\ Running /\ tree' = tree /\ Kind(At) \in {"while", "for"} /\ Kind(At) \in Controls
      /\ \/ Kind(At) = "while" /\ Top.pt = 1
         \/ Kind(At) = "for" /\ Top.pt \in {1, 2, 3}
      /\ code' = New(code, Func) /\ cur' = Len(code) + 1
      /\ Enter(Top.pt + 1, IF Top.pt = 3 THEN Top.bb \o <<cur, Len(code) + 1>>
                           ELSE Append(Top.bb, Len(code) + 1))
  <2>1. CASE WhileBody
    BY <2>1 DEF WhileBody, Visiting, Running, Walking, Controls
  <2>2. CASE NextOfFor
    BY <2>2 DEF NextOfFor, Visiting, Running, Walking, Controls
  <2>3. CASE ForStep
    BY <2>3 DEF ForStep, Visiting, Running, Walking, Controls
  <2> QED
    BY <2>1, <2>2, <2>3
<1>2. PICK c, f, k, p, e, bb, L, O, n : Ready(c, f, k, p, e, bb, L, O, n)
  BY <1>1, Readiness
<1>3. /\ Kind(p) \in {"while", "for"}
      /\ n = Len(c) /\ n \in Nat /\ e \in {1, 2, 3} /\ Len(bb) = e /\ IsSeq(bb)
      /\ Kind(p) = "while" => e = 1
      /\ Stands(Kind(p), e) # 0 => k = bb[Stands(Kind(p), e)]
      /\ \A j \in 1..e : bb[j] \in 1..n
  BY <1>1, <1>2 DEF Ready, BlocksSaved
<1>4. PICK m, d, K : m = n + 1 /\ d = New(c, f) /\ K = Locals(Append(p, e + 1))
  OBVIOUS
<1>5. m \in Nat /\ n <= m
  BY <1>3, <1>4
<1>6. PICK saved : saved = IF e = 3 THEN bb \o <<k, m>> ELSE Append(bb, m)
  OBVIOUS
<1>7. code' = d /\ cur' = m /\ Enter(e + 1, saved)
  BY <1>1, <1>2, <1>4, <1>6 DEF Ready
<1>8. PICK Jn : Jn = [b \in Nat |-> IF b = m THEN K ELSE In[b]]
  OBVIOUS
<1>9. Jn[m] = K /\ Extends(Jn, In, n)
  BY <1>3, <1>4, <1>5, <1>8 DEF Extends
<1>10. Given(c, f, k, p, e, bb, n, Jn)
  BY <1>1, <1>2, <1>9, FedReady
<1>11. /\ \A j \in 1..e : saved[j] = bb[j]
       /\ e = 3 => saved[4] = k /\ saved[5] = m
       /\ e # 3 => saved[e + 1] = m
  <2>1. k \in 1..n
    BY <1>10 DEF Given
  <2> QED
    BY <1>3, <1>4, <1>5, <1>6, <2>1, MoreSaved
<1>12. CodeFed(d, Jn) /\ Still(c, d, Jn)
  <2>1. Fine(c, n, Jn) /\ f \in FnSet /\ \E a \in 1..n : c[a].fn = f
    <3>1. n <= n
      BY <1>3
    <3> QED
      BY <1>3, <1>10, <3>1 DEF Given
  <2>2. Fine(d, n, Jn) /\ Still(c, d, Jn)
    BY <1>3, <1>4, <2>1, FineNew
  <2> QED
    BY <2>2 DEF Fine
<1>13. \A b \in 1..n : \A v : Held(c, Jn, b, v) => Held(d, Jn, b, v)
  BY <1>3, <1>12 DEF Still
<1>14. /\ \A v \in K : Held(d, Jn, k, v)
       /\ \A w \in Feeds(Kind(p), e) : \A v \in Jn[bb[w[2]]] : Held(c, Jn, bb[w[1]], v)
       /\ Kind(p) = "while" /\ e >= 1 => Jn[bb[1]] = Locals(p)
       /\ Kind(p) = "for" /\ e >= 2 => Jn[bb[2]] = Locals(Append(p, 2))
  BY <1>4, <1>10, <1>13 DEF Given, FrameFed
<1>15. \A w \in Feeds(Kind(p), e + 1) : \A v \in Jn[saved[w[2]]] : Held(d, Jn, saved[w[1]], v)
  <2>1. CASE e = 1
    <3>1. Feeds(Kind(p), e + 1) = {<<1, 2>>} /\ Stands(Kind(p), e) = 1
      <4>1. e + 1 = 2
        BY <2>1
      <4> QED
        BY <1>3, <2>1, <4>1 DEF Feeds, Stands
    <3>2. saved[1] = k /\ saved[2] = m
      BY <1>3, <1>11, <2>1, <3>1
    <3>3. \A v \in Jn[saved[2]] : Held(d, Jn, saved[1], v)
      BY <1>9, <1>14, <3>2
    <3> QED
      BY <3>1, <3>3
  <2>2. CASE e = 2
    <3>1. /\ Feeds(Kind(p), e) = {<<1, 2>>} /\ Feeds(Kind(p), e + 1) = {<<1, 2>>, <<2, 3>>}
          /\ Stands(Kind(p), e) = 2
      <4>1. e + 1 = 3
        BY <2>2
      <4> QED
        BY <1>3, <2>2, <4>1 DEF Feeds, Stands
    <3>2. saved[1] = bb[1] /\ saved[2] = bb[2] /\ saved[2] = k /\ saved[3] = m /\ bb[1] \in 1..n
      BY <1>3, <1>11, <2>2, <3>1
    <3>3. \A v \in Jn[saved[3]] : Held(d, Jn, saved[2], v)
      BY <1>9, <1>14, <3>2
    <3>4. \A v \in Jn[saved[2]] : Held(d, Jn, saved[1], v)
      <4>1. \A v \in Jn[bb[2]] : Held(c, Jn, bb[1], v)
        BY <1>14, <3>1
      <4> QED
        BY <1>13, <3>2, <4>1
    <3> QED
      BY <3>1, <3>3, <3>4
  <2>3. CASE e = 3
    <3>1. /\ Feeds(Kind(p), e) = {<<1, 2>>, <<2, 3>>}
          /\ Feeds(Kind(p), e + 1) = {<<1, 2>>, <<2, 3>>, <<4, 5>>}
      <4>1. e + 1 = 4
        BY <2>3
      <4> QED
        BY <1>3, <2>3, <4>1 DEF Feeds
    <3>2. /\ saved[1] = bb[1] /\ saved[2] = bb[2] /\ saved[3] = bb[3] /\ saved[4] = k
          /\ saved[5] = m /\ bb[1] \in 1..n /\ bb[2] \in 1..n
      BY <1>3, <1>11, <2>3
    <3>3. \A v \in Jn[saved[5]] : Held(d, Jn, saved[4], v)
      BY <1>9, <1>14, <3>2
    <3>4. \A v \in Jn[saved[2]] : Held(d, Jn, saved[1], v)
      <4>1. \A v \in Jn[bb[2]] : Held(c, Jn, bb[1], v)
        BY <1>14, <3>1
      <4> QED
        BY <1>13, <3>2, <4>1
    <3>5. \A v \in Jn[saved[3]] : Held(d, Jn, saved[2], v)
      <4>1. \A v \in Jn[bb[3]] : Held(c, Jn, bb[2], v)
        BY <1>14, <3>1
      <4> QED
        BY <1>13, <3>2, <4>1
    <3> QED
      BY <3>1, <3>3, <3>4, <3>5
  <2> QED
    BY <1>3, <2>1, <2>2, <2>3
<1>16. Kind(p) = "while" => Jn[saved[1]] = Locals(p)
  BY <1>3, <1>11, <1>14
<1>17. Kind(p) = "for" => Jn[saved[2]] = Locals(Append(p, 2))
  <2>1. CASE e = 1
    <3>1. saved[2] = m /\ e + 1 = 2
      BY <1>11, <2>1
    <3> QED
      BY <1>4, <1>9, <3>1
  <2>2. CASE e # 1
    <3>1. saved[2] = bb[2] /\ e >= 2
      BY <1>3, <1>11, <2>2
    <3> QED
      BY <1>14, <3>1
  <2> QED
    BY <2>1, <2>2
<1>18. FrameFed(d, Jn, p, e, e + 1, saved)
  <2>1. Kind(p) # "if"
    BY <1>3
  <2> QED
    BY <1>15, <1>16, <1>17, <2>1 DEF FrameFed
<1>19. \A v \in Locals(Append(p, e + 1)) : Held(d, Jn, m, v)
  BY <1>4, <1>9 DEF Held
<1>20. e < Kids(p)
  <2>1. (Kind(p) = "while" => Kids(p) = 2) /\ (Kind(p) = "for" => Kids(p) = 4)
    BY <1>10, TreeFacts DEF Given
  <2> QED
    BY <1>3, <2>1
<1>21. Feeding(Jn)'
  BY <1>1, <1>2, <1>7, <1>9, <1>12, <1>18, <1>19, <1>20, FedControl
<1> QED
  BY <1>21

LEMMA FedWhileEnds ==
  ASSUME IInv, ChainInv, FlowInv, NEW CONSTANT In, Feeding(In), EndWhile
  PROVE  \E Jn : Feeding(Jn)'
<1>1. /\ Running /\ tree' = tree /\ Kind(At) = "while" /\ Top.pt = 2 /\ Kind(At) \in Controls
  BY DEF EndWhile, Visiting, Running, Walking, Controls
<1>2. PICK c, f, k, p, e, bb, L, O, n : Ready(c, f, k, p, e, bb, L, O, n)
  BY <1>1, Readiness
<1>3. /\ Kind(p) = "while" /\ e = 2 /\ n = Len(c) /\ n \in Nat /\ Len(bb) = 2
      /\ 1 \in 1..2 /\ 2 \in 1..2 /\ \A j \in 1..2 : bb[j] \in 1..n
  BY <1>1, <1>2 DEF Ready, BlocksSaved
<1>4. PICK m, condBB, bodyBB, K : m = n + 1 /\ condBB = bb[1] /\ bodyBB = bb[2] /\ K = Locals(p)
  OBVIOUS
<1>5. PICK c1, c2, d : /\ c1 = New(c, f) /\ c2 = Emit(c1, condBB, CondBr(bodyBB, m))
                       /\ d = Emit(c2, k, Br(condBB))
  OBVIOUS
<1>6. code' = d /\ cur' = m /\ Return
  BY <1>2, <1>4, <1>5 DEF EndWhile, Ready
<1>7. m \in Nat /\ n <= m /\ condBB \in 1..m /\ bodyBB \in 1..m /\ m \in 1..m
  BY <1>3, <1>4
<1>8. PICK Jn : Jn = [b \in Nat |-> IF b = m THEN K ELSE In[b]]
  OBVIOUS
<1>9. Jn[m] = K /\ Extends(Jn, In, n)
  BY <1>3, <1>4, <1>7, <1>8 DEF Extends
<1>10. Given(c, f, k, p, e, bb, n, Jn)
  BY <1>1, <1>2, <1>9, FedReady
<1>11. /\ Fine(c, m, Jn) /\ f \in FnSet /\ k \in 1..n /\ \E a \in 1..n : c[a].fn = f
       /\ \A v \in K : Held(c, Jn, k, v)
  BY <1>4, <1>7, <1>10 DEF Given
<1>12. /\ Jn[condBB] = K
       /\ \A v \in Jn[bodyBB] : Held(c, Jn, condBB, v)
  <2>1. Feeds(Kind(p), e) = {<<1, 2>>} /\ FrameFed(c, Jn, p, e, e, bb)
    BY <1>3, <1>10 DEF Feeds, Given
  <2>2. \A w \in Feeds(Kind(p), e) : \A v \in Jn[bb[w[2]]] : Held(c, Jn, bb[w[1]], v)
    BY <2>1 DEF FrameFed
  <2>3. \A v \in Jn[bb[2]] : Held(c, Jn, bb[1], v)
    BY <2>1, <2>2
  <2>4. Jn[bb[1]] = Locals(p)
    BY <1>3, <2>1 DEF FrameFed
  <2> QED
    BY <1>4, <2>3, <2>4
<1>13. Fine(c1, m, Jn) /\ Len(c1) = n + 1 /\ Still(c, c1, Jn)
  BY <1>3, <1>5, <1>11, FineNew
<1>14. /\ \A v \in Jn[bodyBB] : Held(c1, Jn, condBB, v)
       /\ \A v \in K : Held(c1, Jn, k, v)
       /\ \A v \in Jn[m] : Held(c1, Jn, condBB, v)
  BY <1>3, <1>4, <1>9, <1>11, <1>12, <1>13 DEF Still, Held
<1>15. Fine(c2, m, Jn) /\ Len(c2) = n + 1 /\ Still(c1, c2, Jn)
  <2>1. condBB \in 1..Len(c1)
    BY <1>4, <1>7, <1>13
  <2> QED
    BY <1>5, <1>7, <1>13, <1>14, <2>1, FineBranchBoth
<1>16. \A v \in Jn[condBB] : Held(c2, Jn, k, v)
  <2>1. k \in 1..Len(c1)
    BY <1>3, <1>11, <1>13
  <2> QED
    BY <1>12, <1>14, <1>15, <2>1 DEF Still
<1>17. Fine(d, m, Jn) /\ Still(c2, d, Jn)
  <2>1. k \in 1..Len(c2)
    BY <1>3, <1>11, <1>15
  <2> QED
    BY <1>5, <1>7, <1>15, <1>16, <2>1, FineBranch
<1>18. CodeFed(d, Jn) /\ Still(c, d, Jn)
  <2>1. Still(c, c2, Jn)
    BY <1>13, <1>15, StillOn
  <2> QED
    BY <1>17, <2>1, StillOn DEF Fine
<1>19. \A v \in Locals(p) : Held(d, Jn, m, v)
  BY <1>4, <1>9 DEF Held
<1>20. Kind(p) \in Controls
  BY <1>3 DEF Controls
<1>21. Feeding(Jn)'
  BY <1>1, <1>2, <1>6, <1>9, <1>18, <1>19, <1>20, FedControlEnds
<1> QED
  BY <1>21

LEMMA FedForEnds ==
  ASSUME IInv, ChainInv, FlowInv, NEW CONSTANT In, Feeding(In), EndFor
  PROVE  \E Jn : Feeding(Jn)'
<1>1. /\ Running /\ tree' = tree /\ Kind(At) = "for" /\ Top.pt = 4 /\ Kind(At) \in Controls
  BY DEF EndFor, Visiting, Running, Walking, Controls
<1>2. PICK c, f, k, p, e, bb, L, O, n : Ready(c, f, k, p, e, bb, L, O, n)
  BY <1>1, Readiness
<1>3. /\ Kind(p) = "for" /\ e = 4 /\ n = Len(c) /\ n \in Nat /\ Len(bb) = 5
      /\ \A j \in 1..5 : bb[j] \in 1..n
      /\ Stands(Kind(p), e) # 0 => k = bb[Stands(Kind(p), e)]
  BY <1>1, <1>2 DEF Ready, BlocksSaved
<1>4. PICK m, initBB, condBB, bodyBB, bodyEnd, stepBB, K :
        /\ m = n + 1 /\ initBB = bb[1] /\ condBB = bb[2] /\ bodyBB = bb[3]
        /\ bodyEnd = bb[4] /\ stepBB = bb[5] /\ K = Locals(p)
  OBVIOUS
<1>5. PICK c1, c2, c3, c4, d :
        /\ c1 = New(c, f) /\ c2 = Emit(c1, initBB, Br(condBB))
        /\ c3 = Emit(c2, condBB, CondBr(bodyBB, m)) /\ c4 = Emit(c3, bodyEnd, Br(stepBB))
        /\ d = Emit(c4, stepBB, Br(condBB))
  OBVIOUS
<1>6. code' = d /\ cur' = m /\ Return
  BY <1>2, <1>4, <1>5 DEF EndFor, Ready
<1>7. /\ initBB \in 1..n /\ condBB \in 1..n /\ bodyBB \in 1..n /\ bodyEnd \in 1..n
      /\ stepBB \in 1..n
  <2>1. 1 \in 1..5 /\ 2 \in 1..5 /\ 3 \in 1..5 /\ 4 \in 1..5 /\ 5 \in 1..5
    OBVIOUS
  <2> QED
    BY <1>3, <1>4, <2>1
<1>8. m \in Nat /\ n <= m /\ m \in 1..m /\ \A b \in 1..n : b \in 1..m
  BY <1>3, <1>4
<1>9. PICK Jn : Jn = [b \in Nat |-> IF b = m THEN K ELSE In[b]]
  OBVIOUS
<1>10. Jn[m] = K /\ Extends(Jn, In, n)
  BY <1>3, <1>4, <1>8, <1>9 DEF Extends
<1>11. Given(c, f, k, p, e, bb, n, Jn)
  BY <1>1, <1>2, <1>10, FedReady
<1>12. /\ Fine(c, m, Jn) /\ f \in FnSet /\ \E a \in 1..n : c[a].fn = f
  BY <1>8, <1>11 DEF Given
<1>13. k = stepBB
  BY <1>3, <1>4 DEF Stands
<1>14. /\ \A v \in Jn[condBB] : Held(c, Jn, initBB, v)
       /\ \A v \in Jn[bodyBB] : Held(c, Jn, condBB, v)
       /\ \A v \in Jn[m] : Held(c, Jn, condBB, v)
       /\ \A v \in Jn[stepBB] : Held(c, Jn, bodyEnd, v)
       /\ \A v \in Jn[condBB] : Held(c, Jn, stepBB, v)
  <2>1. /\ Feeds(Kind(p), e) = {<<1, 2>>, <<2, 3>>, <<4, 5>>}
        /\ FrameFed(c, Jn, p, e, e, bb) /\ e >= 2 /\ e + 1 = 5
    BY <1>3, <1>11 DEF Feeds, Given
  <2>2. \A w \in Feeds(Kind(p), e) : \A v \in Jn[bb[w[2]]] : Held(c, Jn, bb[w[1]], v)
    BY <2>1 DEF FrameFed
  <2>3. /\ \A v \in Jn[bb[2]] : Held(c, Jn, bb[1], v)
        /\ \A v \in Jn[bb[3]] : Held(c, Jn, bb[2], v)
        /\ \A v \in Jn[bb[5]] : Held(c, Jn, bb[4], v)
    BY <2>1, <2>2
  <2>4. Jn[condBB] = Locals(Append(p, 2))
    BY <1>3, <1>4, <2>1 DEF FrameFed
  <2>5. K \subseteq Locals(Append(p, 2)) /\ Locals(Append(p, 2)) \subseteq Locals(Append(p, 5))
    <3>1. 1 <= 2 /\ 2 <= 5
      OBVIOUS
    <3>2. tree \in Programs /\ p \in Paths
      BY <1>11 DEF Given
    <3> QED
      BY <1>4, <3>1, <3>2, LocalsWithin
  <2>6. \A v \in Locals(Append(p, 5)) : Held(c, Jn, k, v)
    BY <1>11, <2>1 DEF Given
  <2>7. \A v \in Jn[m] : Held(c, Jn, condBB, v)
    BY <1>10, <2>4, <2>5 DEF Held
  <2>8. \A v \in Jn[condBB] : Held(c, Jn, stepBB, v)
    BY <1>13, <2>4, <2>5, <2>6
  <2> QED
    BY <1>4, <2>3, <2>7, <2>8
<1>15. Fine(c1, m, Jn) /\ Len(c1) = n + 1 /\ Still(c, c1, Jn)
  BY <1>3, <1>5, <1>12, FineNew
<1>16. \A b \in 1..n : b \in 1..(n + 1)
  BY <1>3
<1>17. \A v \in Jn[condBB] : Held(c1, Jn, initBB, v)
  BY <1>3, <1>7, <1>14, <1>15 DEF Still
<1>18. Fine(c2, m, Jn) /\ Len(c2) = n + 1 /\ Still(c1, c2, Jn)
  <2>1. initBB \in 1..Len(c1) /\ condBB \in 1..m
    BY <1>7, <1>8, <1>15, <1>16
  <2> QED
    BY <1>5, <1>15, <1>17, <2>1, FineBranch
<1>19. Still(c, c2, Jn)
  BY <1>15, <1>18, StillOn
<1>20. /\ \A v \in Jn[bodyBB] : Held(c2, Jn, condBB, v)
       /\ \A v \in Jn[m] : Held(c2, Jn, condBB, v)
  BY <1>3, <1>7, <1>14, <1>19 DEF Still
<1>21. Fine(c3, m, Jn) /\ Len(c3) = n + 1 /\ Still(c2, c3, Jn)
  <2>1. condBB \in 1..Len(c2) /\ bodyBB \in 1..m
    BY <1>7, <1>8, <1>16, <1>18
  <2> QED
    BY <1>5, <1>8, <1>18, <1>20, <2>1, FineBranchBoth
<1>22. Still(c, c3, Jn)
  BY <1>19, <1>21, StillOn
<1>23. \A v \in Jn[stepBB] : Held(c3, Jn, bodyEnd, v)
  BY <1>3, <1>7, <1>14, <1>22 DEF Still
<1>24. Fine(c4, m, Jn) /\ Len(c4) = n + 1 /\ Still(c3, c4, Jn)
  <2>1. bodyEnd \in 1..Len(c3) /\ stepBB \in 1..m
    BY <1>7, <1>8, <1>16, <1>21
  <2> QED
    BY <1>5, <1>21, <1>23, <2>1, FineBranch
<1>25. Still(c, c4, Jn)
  BY <1>22, <1>24, StillOn
<1>26. \A v \in Jn[condBB] : Held(c4, Jn, stepBB, v)
  BY <1>3, <1>7, <1>14, <1>25 DEF Still
<1>27. Fine(d, m, Jn) /\ Still(c4, d, Jn)
  <2>1. stepBB \in 1..Len(c4) /\ condBB \in 1..m
    BY <1>7, <1>8, <1>16, <1>24
  <2> QED
    BY <1>5, <1>24, <1>26, <2>1, FineBranch
<1>28. CodeFed(d, Jn) /\ Still(c, d, Jn)
  BY <1>25, <1>27, StillOn DEF Fine
<1>29. \A v \in Locals(p) : Held(d, Jn, m, v)
  BY <1>4, <1>10 DEF Held
<1>30. Kind(p) \in Controls
  BY <1>3 DEF Controls
<1>31. Feeding(Jn)'
  BY <1>1, <1>2, <1>6, <1>10, <1>28, <1>29, <1>30, FedControlEnds
<1> QED
  BY <1>31

-----------------------------------------------------------------------------
(* The whole walk.                                                         *)

LEMMA FedIsOver ==
  ASSUME IInv, FlowInv, NEW In, CodeFed(code, In), Finish
  PROVE  CodeFed(code', In)
<1>1. PICK c, d, n : c = code /\ d = code' /\ n = Len(code)
  OBVIOUS
<1>2. /\ n \in Nat /\ Len(d) = n
      /\ \A b \in 1..n : /\ d[b].fn = c[b].fn
                         /\ c[b].fn = Detached => d[b] = c[b]
                         /\ c[b].fn # Detached => d[b].ins = Stripped(c[b].ins)
  BY <1>1, FinishIs
<1>3. ASSUME NEW b \in 1..n
      PROVE  \A i \in 1..Len(d[b].ins) : InstrOK(d, In, b, i)
  <2>0. \A i \in 1..Len(c[b].ins) : InstrOK(c, In, b, i)
    BY <1>1 DEF CodeFed
  <2>1. CASE c[b].fn = Detached
    <3>1. d[b] = c[b]
      BY <1>2, <2>1
    <3> QED
      BY <2>0, <3>1 DEF InstrOK, Known, StoresAt
  <2>2. CASE c[b].fn # Detached
    <3>1. PICK ins, s : ins = c[b].ins /\ s = Stripped(ins)
      OBVIOUS
    <3>2. s = d[b].ins
      BY <1>2, <2>2, <3>1
    <3>3. IsSeq(ins) /\ \A i \in 1..Len(ins) : ins[i].op # "unreachable"
      BY <1>1, <3>1 DEF IInv, CodeInv, CodeOK, BasicBlockOK, FlowInv, ClosedBut
    <3>4. /\ Len(s) \in Nat
          /\ \A i \in 1..Len(s) : i \in 1..Len(ins) => s[i] = ins[i]
          /\ \A i \in 1..Len(s) :
               i \notin 1..Len(ins) => s[i].op = "unreachable" /\ DOMAIN s[i].to = {}
      BY <3>1, <3>3, StrippedIs
    <3> TAKE i \in 1..Len(d[b].ins)
    <3>5. CASE i \in 1..Len(ins)
      <4>1. InstrOK(c, In, b, i) /\ s[i] = ins[i]
        BY <2>0, <3>1, <3>2, <3>4, <3>5
      <4>2. \A j \in 1..Len(ins) : j < i => j \in 1..Len(s) /\ s[j] = ins[j]
        BY <3>2, <3>4, <3>5
      <4>3. \A v : Known(c, In, b, i, v) => Known(d, In, b, i, v)
        BY <3>1, <3>2, <4>2 DEF Known, StoresAt
      <4> QED
        BY <3>1, <3>2, <4>1, <4>3 DEF InstrOK
    <3>6. CASE i \notin 1..Len(ins)
      <4>1. d[b].ins[i].op = "unreachable" /\ DOMAIN d[b].ins[i].to = {}
        BY <3>2, <3>4, <3>6
      <4> QED
        BY <4>1 DEF InstrOK, Needs
    <3> QED
      BY <3>5, <3>6
  <2> QED
    BY <2>1, <2>2
<1>4. ASSUME NEW b \in 1..n, d[b].fn # Detached
      PROVE  In[b] = {} \/ Later(d, b, d[b].fn)
  <2>1. In[b] = {} \/ Later(c, b, c[b].fn)
    BY <1>1, <1>2, <1>4 DEF CodeFed
  <2> QED
    BY <1>1, <1>2, <2>1 DEF Later
<1> QED
  BY <1>1, <1>2, <1>3, <1>4 DEF CodeFed

LEMMA FedBegins == Init => SInv
<1> SUFFICES ASSUME Init PROVE SInv
  OBVIOUS
<1>1. /\ IInv /\ Running /\ ~Generated /\ code = <<>> /\ visits = <<Visit(Root)>>
  BY InitInductive DEF Init, Running, Generated
<1>2. Len(visits) = 1 /\ visits[1].at = Root /\ \A i \in 1..1 : i = 1
  BY <1>1 DEF Visit
<1>3. Len(code) = 0 /\ \A i : ~(i \in 1..0)
  BY <1>1, NothingIsSeq
<1>4. PICK In : In = [b \in Nat |-> {}]
  OBVIOUS
<1>5. CodeFed(code, In)
  BY <1>3 DEF CodeFed
<1>6. ~InBody
  <2>1. ~(1 >= 2)
    OBVIOUS
  <2> QED
    BY <1>2, <2>1 DEF InBody
<1>7. FrameAt(In, 1)
  <2>1. Kind(visits[1].at) = "root"
    BY <1>1, <1>2, TreeFacts DEF IInv
  <2> QED
    BY <2>1 DEF FrameAt, FrameFed, Feeds
<1>8. Feeding(In)
  BY <1>2, <1>5, <1>6, <1>7 DEF Feeding
<1> QED
  BY <1>1, <1>8 DEF SInv

LEMMA FedStutters ==
  ASSUME UNCHANGED vars, NEW CONSTANT In, Feeding(In)
  PROVE  Feeding(In)'
<1>1. tree' = tree /\ visits' = visits /\ code' = code /\ cur' = cur
  BY DEF vars
<1>2. PICK c, x : c = code /\ x = Pos
  OBVIOUS
<1>3. CodeFed(code, In)'
  BY <1>1, <1>2, FedPrimed DEF Feeding
<1>4. (InBody => \A d \in Locals(Pos) : Held(code, In, cur, d))'
  <2>1. (InBody' <=> InBody) /\ Pos' = x
    BY <1>1, <1>2 DEF InBody, Begun, Kind, Pos, Top, At, Root
  <2>2. Locals(Pos)' = Locals(x)
    <3>1. Locals(Pos)' = Locals(x)'
      BY <2>1 DEF Locals, Vis, Visible
    <3> QED
      BY <1>1, <3>1, SameLocals
  <2> QED
    BY <1>1, <1>2, <2>1, <2>2 DEF Feeding, Held, StoresAt
<1>5. ASSUME NEW CONSTANT i \in 1..Len(visits) PROVE FrameAt(In, i)'
  <2>1. PICK p, pt, e, bb : /\ p = visits[i].at /\ pt = visits[i].pt /\ e = Begun(i)
                            /\ bb = visits[i].bb
    OBVIOUS
  <2>2. FrameFed(c, In, p, pt, e, bb)
    BY <1>2, <2>1 DEF Feeding, FrameAt
  <2>3. /\ visits'[i].at = p /\ visits'[i].pt = pt /\ visits'[i].bb = bb /\ Begun(i)' = e
        /\ c = code'
    BY <1>1, <1>2, <2>1 DEF Begun
  <2> QED
    BY <1>1, <2>2, <2>3, FramePrimed
<1> QED
  BY <1>1, <1>3, <1>4, <1>5 DEF Feeding

LEMMA FedKept ==
  ASSUME IInv, NInv, BInv, SInv, [Next]_vars
  PROVE  SInv'
<1>1. Running => FlowInv /\ ChainInv /\ TableInv
  BY DEF BInv, NInv, WalkInv
<1>2. ASSUME UNCHANGED vars PROVE SInv'
  <2>1. tree' = tree /\ code' = code /\ (Running' <=> Running) /\ (Generated' <=> Generated)
    BY <1>2 DEF vars, Running, Generated
  <2>2. Running => \E In : Feeding(In)'
    BY <1>2, FedStutters DEF SInv
  <2>3. PICK c : c = code
    OBVIOUS
  <2>4. Generated => \E In : CodeFed(code, In)'
    BY <2>1, <2>3, FedPrimed DEF SInv
  <2> QED
    BY <2>1, <2>2, <2>4 DEF SInv
<1>3. ASSUME Running, Walking, \E In : Feeding(In)' PROVE SInv'
  BY <1>3 DEF SInv, Running, Generated, Walking
<1>4. CASE Finish
  <2>1. Running /\ tree' = tree /\ result' = "generated"
    BY <1>4 DEF Finish, Running
  <2>2. PICK In : Feeding(In)
    BY <2>1 DEF SInv
  <2>3. PICK c : c = code' /\ CodeFed(c, In)
    BY <1>1, <1>4, <2>1, <2>2, FedIsOver DEF Feeding
  <2>4. CodeFed(code, In)'
    BY <2>1, <2>3, FedPrimed
  <2> QED
    BY <2>1, <2>4 DEF SInv, Running
<1>5. CASE Diagnose \/ Misuse \/ Refuse
  <2>1. result' \in {"rejected", "undefined"}
    BY <1>5 DEF Diagnose, Misuse, Refuse, GiveUp
  <2> QED
    BY <2>1 DEF SInv, Running, Generated
<1>6. CASE \/ TopLevel \/ DefineGlobal \/ Declare \/ BeginFunction \/ EndFunction
           \/ Parameter \/ Evaluate \/ Call \/ Empty \/ DefineVariable \/ ReturnStatement
           \/ EndBlock \/ NextOfFunction \/ Operand \/ NextOfBlock
  <2>1. Running /\ Walking
    BY <1>6 DEF TopLevel, DefineGlobal, Declare, BeginFunction, EndFunction, Parameter, Evaluate,
       Call, Empty, DefineVariable, ReturnStatement, EndBlock, NextOfFunction, Operand,
       NextOfBlock, Visiting, Running
  <2>2. PICK In : Feeding(In)
    BY <2>1 DEF SInv
  <2>3. \E Jn : Feeding(Jn)'
    BY <1>1, <1>6, <2>1, <2>2, FedDeclares, FedOpensBody, FedSimple, FedFurther
  <2> QED
    BY <1>3, <2>1, <2>3
<1>7. CASE \/ BeginIf \/ AfterCondition \/ AfterThen \/ AfterElse
           \/ BeginWhile \/ WhileBody \/ EndWhile
           \/ BeginFor \/ NextOfFor \/ ForStep \/ EndFor
  <2>1. Running /\ Walking
    BY <1>7 DEF BeginIf, AfterCondition, AfterThen, AfterElse, BeginWhile, WhileBody,
       EndWhile, BeginFor, NextOfFor, ForStep, EndFor, Merge, Visiting, Running
  <2>2. PICK In : Feeding(In)
    BY <2>1 DEF SInv
  <2>3. \E Jn : Feeding(Jn)'
    BY <1>1, <1>7, <2>1, <2>2, FedFurther, FedCondition, FedElse, FedMerge, FedLoopBegins,
       FedLoopGoesOn, FedWhileEnds, FedForEnds
  <2> QED
    BY <1>3, <2>1, <2>3
<1> QED
  BY <1>1, <1>2, <1>4, <1>5, <1>6, <1>7 DEF Next, Ended

LEMMA FedIsStored ==
  ASSUME IInv, Finished(code), NEW In, CodeFed(code, In)
  PROVE  StoredBeforeRead
<1>1. ASSUME NEW b \in Blocks, NEW i \in 1..Len(Ins(b)), Needs(Ins(b)[i])
      PROVE  \/ \E j \in 1..Len(Ins(b)) : j < i /\ StoresAt(code, b, j, Ins(b)[i].site)
             \/ \A storing : {c \in Blocks : \E j \in 1..Len(Ins(c)) :
                                StoresAt(code, c, j, Ins(b)[i].site)} = storing
                  => b \notin Reached({Entry(code[b].fn)}, storing)
  <2>1. PICK d, f : d = Ins(b)[i].site /\ f = code[b].fn
    OBVIOUS
  <2>2. Known(code, In, b, i, d)
    BY <1>1, <2>1, FinishedIs DEF CodeFed, InstrOK, Ins
  <2> SUFFICES ASSUME d \in In[b], NEW storing,
                      storing = {c \in Blocks : \E j \in 1..Len(Ins(c)) : StoresAt(code, c, j, d)}
               PROVE  b \notin Reached({Entry(f)}, storing)
    BY <2>1, <2>2 DEF Known, Ins
  <2> DEFINE S == {c \in Blocks : d \notin In[c]}
  <2>3. {Entry(f)} \subseteq S
    <3>1. PICK e : e = Entry(f) /\ e \in Blocks /\ code[e].fn = f
                   /\ e \in 1..Len(code) /\ ~Later(code, e, f)
      BY <2>1, FinishedIs
    <3>2. code[e].fn # Detached
      BY <3>1 DEF Blocks
    <3>3. In[e] = {}
      BY <3>1, <3>2 DEF CodeFed
    <3> QED
      BY <3>1, <3>3
  <2>4. ASSUME NEW c \in S, c \notin storing PROVE Targets(c) \subseteq S
    <3>1. PICK n : n = Len(Ins(c)) /\ n \in 1..Len(Ins(c)) /\ Ending(c) = Ins(c)[n]
                   /\ c \in 1..Len(code)
      BY FinishedIs
    <3>2. InstrOK(code, In, c, n)
      BY <3>1 DEF CodeFed, Ins
    <3> SUFFICES ASSUME NEW t, t \in Targets(c) PROVE t \in Blocks /\ d \notin In[t]
      OBVIOUS
    <3>3. t \in Blocks
      <4>1. c \in Blocks
        OBVIOUS
      <4> QED
        BY <4>1, FinishedIs
    <3>4. \A v \in In[t] : Known(code, In, c, n, v)
      BY <3>1, <3>2 DEF InstrOK, Targets, Ins
    <3>5. ~Known(code, In, c, n, d)
      BY <2>4 DEF Known, Ins
    <3> QED
      BY <3>3, <3>4, <3>5
  <2>5. Cardinality(Blocks) \in Nat
    BY FinishedIs
  <2> HIDE DEF S
  <2>6. Reached({Entry(f)}, storing) \subseteq S
    BY <2>3, <2>4, <2>5, StaysWithin
  <2> QED
    BY <2>6 DEF S
<1>2. \A c \in Blocks : DOMAIN Ins(c) = 1..Len(Ins(c))
  BY FinishedIs
<1>3. ASSUME NEW b \in Blocks, NEW i \in DOMAIN Ins(b), NEW d, d = Ins(b)[i].site,
             Ins(b)[i].op = "eval", d # NoSite, Kind(d) \in {"let", "param"},
             ~LeaksIntoElse(d, Ins(b)[i].at)
      PROVE  LET stores(c) == {j \in DOMAIN Ins(c) : Ins(c)[j].op = "store" /\ Ins(c)[j].at = d}
                 storing == {c \in Blocks : stores(c) # {}}
             IN \/ \E j \in stores(b) : j < i
                \/ b \notin Reached({Entry(code[b].fn)}, storing)
  <2> DEFINE stores(c) == {j \in DOMAIN Ins(c) : Ins(c)[j].op = "store" /\ Ins(c)[j].at = d}
             storing == {c \in Blocks : stores(c) # {}}
  <2>1. storing = {c \in Blocks : \E j \in 1..Len(Ins(c)) : StoresAt(code, c, j, d)}
    BY <1>2 DEF StoresAt, Ins
  <2>2. Needs(Ins(b)[i]) /\ i \in 1..Len(Ins(b))
    BY <1>2, <1>3 DEF Needs
  <2>3. \/ \E j \in 1..Len(Ins(b)) : j < i /\ StoresAt(code, b, j, d)
        \/ b \notin Reached({Entry(code[b].fn)}, storing)
    BY <1>1, <1>3, <2>1, <2>2
  <2>4. \A j \in 1..Len(Ins(b)) : StoresAt(code, b, j, d) => j \in stores(b)
    BY <1>2 DEF StoresAt, Ins
  <2> HIDE DEF stores, storing
  <2>5. (\E j \in stores(b) : j < i) \/ b \notin Reached({Entry(code[b].fn)}, storing)
    BY <2>3, <2>4
  <2> QED
    BY <2>5 DEF stores, storing
<1> QED
  BY <1>3 DEF StoredBeforeRead

(* No variable is read before its value is stored: on every path from a    *)
(* function's entry to a read of a parameter or of a "let", around loops   *)
(* and through both branches of an if, there is its store - the then-      *)
(* branch's own definition, which the else-branch sees, aside.             *)
THEOREM ReadsAreStored == Spec => []StoredBeforeRead
<1>1. IInv /\ BInv /\ SInv => StoredBeforeRead
  <2> SUFFICES ASSUME IInv, BInv, SInv PROVE StoredBeforeRead
    OBVIOUS
  <2>1. CASE Generated
    BY <2>1, FedIsStored DEF BInv, SInv
  <2>2. CASE ~Generated
    BY <2>2 DEF StoredBeforeRead
  <2> QED
    BY <2>1, <2>2
<1>2. IInv /\ NInv /\ [Next]_vars => NInv'
  BY NamesKept
<1>3. IInv /\ NInv /\ BInv /\ [Next]_vars => BInv'
  BY FlowKept
<1>4. IInv /\ NInv /\ BInv /\ SInv /\ [Next]_vars => SInv'
  BY FedKept
<1> QED
  BY <1>1, <1>2, <1>3, <1>4, NamesInit, FlowBegins, FedBegins, Invariance, PTL DEF Spec
=============================================================================

-------------------------- MODULE ExprParserProofs --------------------------
(***************************************************************************)
(* Proofs about parseExpression, for every list of tokens: its state has   *)
(* its type, the operator stack of every call is sorted by precedence, the *)
(* counter of parentheses counts those on the stack while the call scans,  *)
(* and a call that failed has reported an error.  The four facts need each *)
(* other, and every frame of the nested calls, so they are one invariant:  *)
(* FrameOK says them of one call, FramesInv of all of them.                *)
(***************************************************************************)
EXTENDS ExprParser, StackFacts, FiniteSetTheorems, TLAPS

-----------------------------------------------------------------------------
(* The invariant.                                                          *)

Field == {"caller", "begin", "at", "kids", "typed", "ops", "opnds", "parens", "mode"}

Sorted(ops) ==
  \A j \in 1..(Len(ops) - 1) :
    isBinaryOperator(ops[j].op) /\ isBinaryOperator(ops[j + 1].op)
    => ~Reduces(ops[j + 1].op, ops[j].op)

OpsOK(ops) ==
  /\ IsSeq(ops) /\ Sorted(ops)
  /\ \A j \in DOMAIN ops : ops[j].op \in StackSymbol /\ ops[j].at \in 1..Len(toks)

Parens(ops) == {j \in DOMAIN ops : ops[j].op = "("}

FrameOK(f) ==
  /\ DOMAIN f = Field
  /\ f.caller \in {"statement", "argument", "subscript", "let"}
  /\ f.mode \in {"scan", "define", "final", "failed"}
  /\ f.begin \in 1..Len(toks)
  /\ f.parens \in Nat
  /\ OpsOK(f.ops)
  /\ f.mode = "scan" => f.parens = Cardinality(Parens(f.ops))

(* Only the first frame was called by a statement, so a frame that returns *)
(* anything else has one below it; and a frame that failed has reported.   *)
FramesInv ==
  /\ IsSeq(frames)
  /\ \A k \in 1..Len(frames) :
       /\ FrameOK(frames[k])
       /\ frames[k].caller = "statement" <=> k = 1
       /\ frames[k].mode = "failed" => error

IInv ==
  /\ toks \in Inputs
  /\ it \in 1..(Len(toks) + 1)
  /\ FramesInv
  /\ error \in BOOLEAN
  /\ outcome \in Outcome
  /\ outcome \in {"parsed", "null"} <=> frames = <<>>
  /\ outcome = "parsed" <=> tree # <<>>
  /\ NullMeansError

-----------------------------------------------------------------------------
(* Operators, and stacks of them.                                          *)

LEMMA Binaries ==
  /\ DOMAIN BinaryPrecedence = {".", "as", "*", "+", "-", "<", "==", "and", "or", "="}
  /\ \A t \in DOMAIN BinaryPrecedence :
       BinaryPrecedence[t] \in {90, 80, 70, 60, 50, 40, 30, 20, 10}
<1>1. DOMAIN BinaryPrecedence = {".", "as", "*", "+", "-", "<", "==", "and", "or", "="}
  BY DEF BinaryPrecedence
<1>2. BinaryPrecedence["."] = 90 /\ BinaryPrecedence["as"] = 80 /\ BinaryPrecedence["*"] = 70
  BY Zenon DEF BinaryPrecedence
<1>3. BinaryPrecedence["+"] = 60 /\ BinaryPrecedence["-"] = 60 /\ BinaryPrecedence["<"] = 50
  BY Zenon DEF BinaryPrecedence
<1>4. BinaryPrecedence["=="] = 40 /\ BinaryPrecedence["and"] = 30
  BY Zenon DEF BinaryPrecedence
<1>5. BinaryPrecedence["or"] = 20 /\ BinaryPrecedence["="] = 10
  BY Zenon DEF BinaryPrecedence
<1> QED
  BY <1>1, <1>2, <1>3, <1>4, <1>5

LEMMA Symbols ==
  /\ \A t : isBinaryOperator(t) => t \in DOMAIN BinaryPrecedence
  /\ \A t : isBinaryOperator(t) => t \in StackSymbol /\ t # "(" /\ ~Reduces(t, "(")
  /\ \A t \in {"pos", "neg", "not", "("} : t \in StackSymbol /\ ~isBinaryOperator(t)
<1>1. \A t : isBinaryOperator(t) => t \in DOMAIN BinaryPrecedence
  BY DEF isBinaryOperator, getBinOpPrecedence
<1>2. \A t \in {"pos", "neg", "not", "("} : getBinOpPrecedence(t) = -1
  BY Binaries DEF getBinOpPrecedence
<1>3. \A t \in DOMAIN BinaryPrecedence : getBinOpPrecedence(t) \in 10..90
  BY Binaries DEF getBinOpPrecedence
<1> QED
  BY <1>1, <1>2, <1>3, Binaries DEF isBinaryOperator, Reduces, StackSymbol

LEMMA EmptyStack == OpsOK(<<>>) /\ Cardinality(Parens(<<>>)) = 0
<1>1. <<>> \in Seq({}) /\ DOMAIN <<>> = {} /\ Len(<<>>) = 0
  BY EmptySeq
<1>2. Parens(<<>>) = {}
  BY <1>1 DEF Parens
<1>3. Cardinality(Parens(<<>>)) = 0
  BY <1>2, FS_EmptySet
<1>4. IsSeq(<<>>)
  BY <1>1, SeqIsSeq
<1>5. Sorted(<<>>)
  BY <1>1 DEF Sorted
<1> QED
  BY <1>1, <1>3, <1>4, <1>5 DEF OpsOK

LEMMA ParensFinite ==
  ASSUME NEW ops, IsSeq(ops)
  PROVE  IsFiniteSet(Parens(ops)) /\ Cardinality(Parens(ops)) \in Nat
<1>1. Parens(ops) \subseteq 1..Len(ops) /\ Len(ops) \in Int /\ 1 \in Int
  BY SeqFacts DEF Parens
<1>2. IsFiniteSet(1..Len(ops))
  BY <1>1, FS_Interval
<1> QED
  BY <1>1, <1>2, FS_Subset, FS_CardinalityType

(* What a push does.                                                       *)
LEMMA Pushed ==
  ASSUME NEW ops, OpsOK(ops), NEW op \in StackSymbol, NEW at \in 1..Len(toks),
         ops # <<>> /\ isBinaryOperator(op) => ~Reduces(op, Last(ops).op)
  PROVE  LET new == Append(ops, [op |-> op, at |-> at])
         IN  /\ OpsOK(new)
             /\ Cardinality(Parens(new)) =
                  IF op = "(" THEN Cardinality(Parens(ops)) + 1 ELSE Cardinality(Parens(ops))
<1> DEFINE o == [op |-> op, at |-> at]
           new == Append(ops, o)
<1>1. o.op = op /\ o.at = at
  OBVIOUS
<1> HIDE DEF o
<1>2. IsSeq(ops) /\ Len(ops) \in Nat /\ DOMAIN ops = 1..Len(ops)
  BY SeqFacts DEF OpsOK
<1>3. /\ IsSeq(new) /\ Len(new) = Len(ops) + 1
      /\ \A k \in 1..Len(ops) : new[k] = ops[k]
      /\ new[Len(ops) + 1] = o
  BY <1>2, Appended
<1>4. DOMAIN new = 1..(Len(ops) + 1)
  BY <1>3, SeqFacts
<1> HIDE DEF new
<1>5. \A j \in DOMAIN new : new[j].op \in StackSymbol /\ new[j].at \in 1..Len(toks)
  <2> TAKE j \in DOMAIN new
  <2>1. CASE j \in 1..Len(ops)
    BY <1>2, <1>3, <2>1 DEF OpsOK
  <2>2. CASE j = Len(ops) + 1
    BY <1>1, <1>3, <2>2
  <2> QED
    BY <1>2, <1>4, <2>1, <2>2
<1>6. Sorted(new)
  <2> SUFFICES ASSUME NEW j \in 1..(Len(new) - 1), isBinaryOperator(new[j].op),
                      isBinaryOperator(new[j + 1].op)
               PROVE  ~Reduces(new[j + 1].op, new[j].op)
    BY DEF Sorted
  <2>1. CASE j \in 1..(Len(ops) - 1)
    <3>1. new[j] = ops[j] /\ new[j + 1] = ops[j + 1]
      BY <1>2, <1>3, <2>1
    <3> QED
      BY <2>1, <3>1 DEF OpsOK, Sorted
  <2>2. CASE j = Len(ops)
    <3>1. new[j] = Last(ops) /\ new[j + 1].op = op /\ ops # <<>>
      BY <1>1, <1>2, <1>3, <2>2, EmptySeq DEF Last
    <3> QED
      BY <3>1
  <2>3. j \in 1..(Len(ops) - 1) \/ j = Len(ops)
    <3>1. Len(new) - 1 = Len(ops)
      BY <1>2, <1>3
    <3>2. j \in 1..Len(ops)
      BY <3>1
    <3>3. Len(ops) \in Nat
      BY <1>2
    <3> QED
      BY <3>2, <3>3
  <2> QED
    BY <2>1, <2>2, <2>3
<1>7. CASE op = "("
  <2>1. Parens(new) = Parens(ops) \cup {Len(ops) + 1} /\ Len(ops) + 1 \notin Parens(ops)
    BY <1>1, <1>2, <1>3, <1>4, <1>7 DEF Parens
  <2> QED
    BY <1>2, <1>3, <1>5, <1>6, <1>7, <2>1, ParensFinite, FS_AddElement DEF OpsOK, new, o
<1>8. CASE op # "("
  <2>1. Parens(new) = Parens(ops)
    BY <1>1, <1>2, <1>3, <1>4, <1>8 DEF Parens
  <2> QED
    BY <1>3, <1>5, <1>6, <1>8, <2>1 DEF OpsOK, new, o
<1> QED
  BY <1>7, <1>8

(* What a pop does.                                                        *)
LEMMA Popped ==
  ASSUME NEW ops, OpsOK(ops), ops # <<>>
  PROVE  /\ OpsOK(Front(ops))
         /\ Cardinality(Parens(ops)) =
              IF Last(ops).op = "(" THEN Cardinality(Parens(Front(ops))) + 1
              ELSE Cardinality(Parens(Front(ops)))
<1> DEFINE new == Front(ops)
<1>1. IsSeq(ops) /\ Len(ops) \in Nat /\ DOMAIN ops = 1..Len(ops) /\ Len(ops) > 0
  BY SeqFacts DEF OpsOK
<1>2. /\ IsSeq(new) /\ Len(new) = Len(ops) - 1
      /\ \A k \in 1..(Len(ops) - 1) : new[k] = ops[k]
  BY <1>1, Shortened
<1>3. DOMAIN new = 1..(Len(ops) - 1)
  BY <1>2, SeqFacts
<1> HIDE DEF new
<1>4. \A j \in DOMAIN new : new[j].op \in StackSymbol /\ new[j].at \in 1..Len(toks)
  BY <1>1, <1>2, <1>3 DEF OpsOK
<1>5. Sorted(new)
  <2> SUFFICES ASSUME NEW j \in 1..(Len(new) - 1), isBinaryOperator(new[j].op),
                      isBinaryOperator(new[j + 1].op)
               PROVE  ~Reduces(new[j + 1].op, new[j].op)
    BY DEF Sorted
  <2>1. new[j] = ops[j] /\ new[j + 1] = ops[j + 1] /\ j \in 1..(Len(ops) - 1)
    BY <1>1, <1>2
  <2> QED
    BY <2>1 DEF OpsOK, Sorted
<1>6. CASE Last(ops).op = "("
  <2>1. Parens(ops) = Parens(new) \cup {Len(ops)} /\ Len(ops) \notin Parens(new)
    BY <1>1, <1>2, <1>3, <1>6 DEF Parens, Last
  <2> QED
    BY <1>2, <1>4, <1>5, <1>6, <2>1, ParensFinite, FS_AddElement DEF OpsOK, new
<1>7. CASE Last(ops).op # "("
  <2>1. Parens(ops) = Parens(new)
    BY <1>1, <1>2, <1>3, <1>7 DEF Parens, Last
  <2> QED
    BY <1>2, <1>4, <1>5, <1>7, <2>1 DEF OpsOK, new
<1> QED
  BY <1>6, <1>7

-----------------------------------------------------------------------------
(* The stack of frames.                                                    *)

Known ==
  /\ IInv /\ outcome = "running"

LEMMA TopFrame ==
  ASSUME Known
  PROVE  /\ frames # <<>> /\ Len(frames) \in Nat /\ Len(frames) > 0
         /\ DOMAIN frames = 1..Len(frames) /\ F = frames[Len(frames)]
         /\ FrameOK(F)
         /\ F.caller = "statement" <=> Len(frames) = 1
         /\ F.mode = "failed" => error
         /\ tree = <<>>
<1>1. frames # <<>> /\ IsSeq(frames) /\ tree = <<>>
  BY DEF Known, IInv, FramesInv
<1>2. Len(frames) \in Nat /\ Len(frames) > 0 /\ DOMAIN frames = 1..Len(frames)
  BY <1>1, SeqFacts
<1>3. F = frames[Len(frames)]
  BY DEF F, Last
<1>4. Len(frames) \in 1..Len(frames)
  BY <1>2
<1> QED
  BY <1>1, <1>2, <1>3, <1>4 DEF Known, IInv, FramesInv

(* A step on the last frame, ...                                           *)
LEMMA FrameReplaced ==
  ASSUME Known, NEW f, FrameOK(f), f.caller = F.caller,
         frames' = Append(Front(frames), f), toks' = toks,
         f.mode = "failed" => error', error => error'
  PROVE  FramesInv' /\ frames' # <<>>
<1>1. /\ IsSeq(frames) /\ frames # <<>> /\ Len(frames) \in Nat /\ Len(frames) > 0
      /\ F.caller = "statement" <=> Len(frames) = 1
  BY TopFrame DEF Known, IInv, FramesInv
<1>2. /\ IsSeq(frames') /\ Len(frames') = Len(frames) /\ frames' # <<>>
      /\ \A k \in 1..(Len(frames) - 1) : frames'[k] = frames[k]
      /\ frames'[Len(frames)] = f
  BY <1>1, Replaced
<1>3. ASSUME NEW k \in 1..Len(frames)
      PROVE  /\ FrameOK(frames[k])'
             /\ frames'[k].caller = "statement" <=> k = 1
             /\ frames'[k].mode = "failed" => error'
  <2>1. CASE k = Len(frames)
    BY <1>1, <1>2, <2>1 DEF FrameOK, OpsOK
  <2>2. CASE k \in 1..(Len(frames) - 1)
    <3>1. frames'[k] = frames[k]
      BY <1>2, <2>2
    <3>2. /\ FrameOK(frames[k])
          /\ frames[k].caller = "statement" <=> k = 1
          /\ frames[k].mode = "failed" => error
      BY DEF Known, IInv, FramesInv
    <3> QED
      BY <3>1, <3>2 DEF FrameOK, OpsOK
  <2>3. k = Len(frames) \/ k \in 1..(Len(frames) - 1)
    <3>1. Len(frames) \in Nat
      BY <1>1
    <3> QED
      BY <3>1
  <2> QED
    BY <2>1, <2>2, <2>3
<1> QED
  BY <1>2, <1>3 DEF FramesInv

(* ... a call, ...                                                         *)
LEMMA FrameCalled ==
  ASSUME Known, NEW f, FrameOK(f), f.caller # "statement", f.mode # "failed",
         frames' = Append(frames, f), toks' = toks, error' = error
  PROVE  FramesInv' /\ frames' # <<>>
<1>1. IsSeq(frames) /\ Len(frames) \in Nat /\ Len(frames) > 0
  BY TopFrame DEF Known, IInv, FramesInv
<1>2. /\ IsSeq(frames') /\ Len(frames') = Len(frames) + 1 /\ frames' # <<>>
      /\ \A k \in 1..Len(frames) : frames'[k] = frames[k]
      /\ frames'[Len(frames) + 1] = f
  BY <1>1, Appended
<1>3. ASSUME NEW k \in 1..(Len(frames) + 1)
      PROVE  /\ FrameOK(frames[k])'
             /\ frames'[k].caller = "statement" <=> k = 1
             /\ frames'[k].mode = "failed" => error'
  <2>1. CASE k = Len(frames) + 1
    BY <1>1, <1>2, <2>1 DEF FrameOK, OpsOK
  <2>2. CASE k \in 1..Len(frames)
    <3>1. /\ FrameOK(frames[k])
          /\ frames[k].caller = "statement" <=> k = 1
          /\ frames[k].mode = "failed" => error
      BY <2>2 DEF Known, IInv, FramesInv
    <3> QED
      BY <1>2, <2>2, <3>1 DEF FrameOK, OpsOK
  <2> QED
    BY <1>1, <2>1, <2>2
<1> QED
  BY <1>2, <1>3 DEF FramesInv

(* ... and a return to the frame below.                                    *)
LEMMA FrameReturned ==
  ASSUME Known, Len(frames) # 1, NEW f, FrameOK(f),
         f.caller = Last(Front(frames)).caller,
         frames' = Append(Front(Front(frames)), f), toks' = toks,
         f.mode = "failed" => error', error => error'
  PROVE  FramesInv' /\ frames' # <<>>
<1> PICK low : low = Front(frames)
  OBVIOUS
<1>1. IsSeq(frames) /\ frames # <<>> /\ Len(frames) \in Nat /\ Len(frames) > 1
  BY TopFrame DEF Known, IInv, FramesInv
<1>2. /\ IsSeq(low) /\ Len(low) = Len(frames) - 1
      /\ \A k \in 1..(Len(frames) - 1) : low[k] = frames[k]
  BY <1>1, Shortened
<1>3. low # <<>>
  BY <1>1, <1>2, EmptySeq
<1>4. frames' = Append(Front(low), f)
  OBVIOUS
<1>5. /\ IsSeq(frames') /\ Len(frames') = Len(low) /\ frames' # <<>>
      /\ \A k \in 1..(Len(low) - 1) : frames'[k] = low[k]
      /\ frames'[Len(low)] = f
  BY <1>2, <1>3, <1>4, Replaced
<1>6. Len(low) \in Nat /\ Len(low) > 0
  BY <1>1, <1>2
<1>7. ASSUME NEW k \in 1..Len(low)
      PROVE  /\ FrameOK(frames[k])'
             /\ frames'[k].caller = "statement" <=> k = 1
             /\ frames'[k].mode = "failed" => error'
  <2>1. k \in 1..(Len(frames) - 1) /\ k \in 1..Len(frames)
    BY <1>1, <1>2
  <2>2. /\ FrameOK(low[k])
        /\ low[k].caller = "statement" <=> k = 1
        /\ low[k].mode = "failed" => error
    BY <1>2, <2>1 DEF Known, IInv, FramesInv
  <2>3. CASE k = Len(low)
    BY <1>5, <2>2, <2>3 DEF FrameOK, OpsOK, Last
  <2>4. CASE k # Len(low)
    <3>1. k \in 1..(Len(low) - 1)
      BY <1>6, <2>4
    <3> QED
      BY <1>5, <2>2, <3>1 DEF FrameOK, OpsOK
  <2> QED
    BY <2>3, <2>4
<1> QED
  BY <1>5, <1>7 DEF FramesInv

LEMMA FrameBelow ==
  ASSUME Known, F.caller # "statement"
  PROVE  /\ Len(frames) # 1
         /\ FrameOK(Last(Front(frames)))
         /\ Last(Front(frames)).mode = "failed" => error
<1>1. IsSeq(frames) /\ frames # <<>> /\ Len(frames) \in Nat /\ Len(frames) > 1
  BY TopFrame DEF Known, IInv, FramesInv
<1>2. /\ Len(Front(frames)) = Len(frames) - 1
      /\ \A k \in 1..(Len(frames) - 1) : Front(frames)[k] = frames[k]
  BY <1>1, Shortened
<1>3. Len(frames) - 1 \in 1..(Len(frames) - 1) /\ Len(frames) - 1 \in 1..Len(frames)
  BY <1>1
<1>4. Last(Front(frames)) = frames[Len(frames) - 1]
  BY <1>2, <1>3 DEF Last
<1> QED
  BY <1>1, <1>3, <1>4 DEF Known, IInv, FramesInv

-----------------------------------------------------------------------------
(* Frames.                                                                 *)

LEMMA NewFrame ==
  ASSUME NEW caller \in {"argument", "subscript", "let"}, NEW begin \in 1..Len(toks),
         NEW at, NEW kids, NEW typed
  PROVE  /\ FrameOK(Frame(caller, begin, at, kids, typed))
         /\ Frame(caller, begin, at, kids, typed).caller = caller
         /\ Frame(caller, begin, at, kids, typed).mode = "scan"
BY EmptyStack DEF FrameOK, Frame, Field

(* Taking a node and refusing one keep the stacks.                         *)
LEMMA NodeTaken ==
  ASSUME NEW f, FrameOK(f), NEW n
  PROVE  LET g == [f EXCEPT !.opnds = Append(@, n),
                            !.mode = IF @ = "define" THEN "final" ELSE @]
         IN  /\ FrameOK(g) /\ g.caller = f.caller
             /\ g.mode = "failed" => f.mode = "failed"
BY DEF FrameOK, Field

LEMMA NodeRefused ==
  ASSUME NEW f, FrameOK(f)
  PROVE  FrameOK(Refuse(f)) /\ Refuse(f).caller = f.caller
BY DEF FrameOK, Field, Refuse

LEMMA ModeChanged ==
  ASSUME NEW f, FrameOK(f), NEW m \in {"final", "failed"}
  PROVE  LET g == [f EXCEPT !.mode = m]
         IN  FrameOK(g) /\ g.caller = f.caller /\ g.mode = m
BY DEF FrameOK, Field

(* Applying an operator that is not a parenthesis.                         *)
LEMMA OperatorApplied ==
  ASSUME Known, F.ops # <<>>, F.mode = "scan" => Top.op # "(", NEW n
  PROVE  /\ FrameOK(Applied(n))
         /\ Applied(n).caller = F.caller /\ Applied(n).mode = F.mode
<1>1. FrameOK(F)
  BY TopFrame
<1>2. /\ OpsOK(Front(F.ops))
      /\ F.mode = "scan" => Cardinality(Parens(Front(F.ops))) = Cardinality(Parens(F.ops))
  BY <1>1, Popped DEF FrameOK, Top
<1>3. \A o, p : LET g == [F EXCEPT !.ops = o, !.opnds = p]
                IN  /\ g.ops = o /\ DOMAIN g = Field /\ g.caller = F.caller
                    /\ g.mode = F.mode /\ g.begin = F.begin /\ g.parens = F.parens
  BY <1>1 DEF FrameOK, Field
<1> QED
  BY <1>1, <1>2, <1>3 DEF FrameOK, Applied

(* Pushing one.                                                            *)
LEMMA OperatorPushed ==
  ASSUME Known, it \in 1..Len(toks), NEW op \in StackSymbol \ {"("},
         F.ops # <<>> /\ isBinaryOperator(op) => ~Reduces(op, Top.op)
  PROVE  LET g == [F EXCEPT !.ops = Append(@, [op |-> op, at |-> it])]
         IN  FrameOK(g) /\ g.caller = F.caller /\ g.mode = F.mode
<1>1. FrameOK(F) /\ OpsOK(F.ops)
  BY TopFrame DEF FrameOK
<1> DEFINE new == Append(F.ops, [op |-> op, at |-> it])
<1>2. OpsOK(new) /\ Cardinality(Parens(new)) = Cardinality(Parens(F.ops))
  BY <1>1, Pushed DEF Top
<1> HIDE DEF new
<1>3. FrameOK([F EXCEPT !.ops = new]) 
  BY <1>1, <1>2 DEF FrameOK, Field
<1> QED
  BY <1>1, <1>3 DEF FrameOK, Field, new

LEMMA ParenPushed ==
  ASSUME Known, it \in 1..Len(toks)
  PROVE  LET g == [F EXCEPT !.ops = Append(@, [op |-> "(", at |-> it]), !.parens = @ + 1]
         IN  FrameOK(g) /\ g.caller = F.caller /\ g.mode = F.mode
<1>1. FrameOK(F) /\ OpsOK(F.ops) /\ IsSeq(F.ops)
  BY TopFrame DEF FrameOK, OpsOK
<1> DEFINE new == Append(F.ops, [op |-> "(", at |-> it])
<1>2. OpsOK(new) /\ Cardinality(Parens(new)) = Cardinality(Parens(F.ops)) + 1
  BY <1>1, Pushed, Symbols
<1> HIDE DEF new
<1>3. FrameOK([F EXCEPT !.ops = new, !.parens = @ + 1])
  BY <1>1, <1>2 DEF FrameOK, Field
<1> QED
  BY <1>1, <1>3 DEF FrameOK, Field, new

(* Closing a parenthesis.                                                  *)
LEMMA ParenPopped ==
  ASSUME Known, F.ops # <<>>, Top.op = "(", F.mode = "scan", F.parens > 0
  PROVE  LET g == [F EXCEPT !.ops = Front(@), !.parens = @ - 1]
         IN  FrameOK(g) /\ g.caller = F.caller /\ g.mode = F.mode
<1>1. FrameOK(F) /\ OpsOK(F.ops) /\ F.parens \in Nat
  BY TopFrame DEF FrameOK
<1> DEFINE new == Front(F.ops)
<1>2. OpsOK(new) /\ Cardinality(Parens(F.ops)) = Cardinality(Parens(new)) + 1
  BY <1>1, Popped DEF Top
<1>3. Cardinality(Parens(new)) \in Nat
  BY <1>2, ParensFinite DEF OpsOK
<1> HIDE DEF new
<1>4. F.parens - 1 \in Nat /\ F.parens - 1 = Cardinality(Parens(new))
  BY <1>1, <1>2, <1>3 DEF FrameOK
<1>5. FrameOK([F EXCEPT !.ops = new, !.parens = @ - 1])
  BY <1>1, <1>2, <1>4 DEF FrameOK, Field
<1> QED
  BY <1>1, <1>5 DEF FrameOK, Field, new

-----------------------------------------------------------------------------
(* The token list ends with its only EOF, so a token that is not EOF has a *)
(* token after it.                                                         *)

LEMMA Tokens ==
  ASSUME Known
  PROVE  /\ toks \in Seq(TokenClass) /\ Len(toks) \in Nat
         /\ it \in 1..(Len(toks) + 1)
         /\ \A j \in 1..Len(toks) : toks[j] # "EOF" => j + 1 \in 1..Len(toks)
<1>1. /\ toks \in Seq(TokenClass)
      /\ \A j \in DOMAIN toks : toks[j] = "EOF" <=> j = Len(toks)
  BY InputsAssumption DEF Known, IInv
<1>2. Len(toks) \in Nat
  BY <1>1, LenProperties
<1>3. DOMAIN toks = 1..Len(toks)
  BY <1>1, LenProperties
<1>4. ASSUME NEW j \in 1..Len(toks), toks[j] # "EOF" PROVE j + 1 \in 1..Len(toks)
  <2>1. j # Len(toks)
    BY <1>1, <1>3, <1>4
  <2> QED
    BY <1>2, <2>1
<1> QED
  BY <1>1, <1>2, <1>4 DEF Known, IInv

(* A step that goes on.                                                    *)
LEMMA GoesOn ==
  ASSUME Known, FramesInv', frames' # <<>>, toks' = toks, outcome' = outcome, tree' = tree,
         it' \in 1..(Len(toks) + 1), error' \in BOOLEAN
  PROVE  IInv'
BY DEF Known, IInv, NullMeansError

LEMMA UndefinedStep ==
  ASSUME Known, Undefined
  PROVE  IInv'
BY TopFrame DEF Known, IInv, NullMeansError, Undefined, FramesInv, FrameOK, OpsOK, Outcome

LEMMA PlacesStep ==
  ASSUME Known, it <= Len(toks)
  PROVE  it \in 1..Len(toks) /\ it + 1 \in 1..(Len(toks) + 1)
BY Tokens

(* A step that puts f in place of the last frame.                          *)
LEMMA Replacing ==
  ASSUME Known, NEW f, FrameOK(f), f.caller = F.caller, Replace(f), Fixed,
         f.mode = "failed" => error', error => error',
         it' \in 1..(Len(toks) + 1), error' \in BOOLEAN
  PROVE  IInv'
BY FrameReplaced, GoesOn DEF Replace, Fixed

LEMMA Failing ==
  ASSUME Known, parserError, Fixed, it' \in 1..(Len(toks) + 1)
  PROVE  IInv'
BY TopFrame, ModeChanged, Replacing DEF parserError

LEMMA Breaking ==
  ASSUME Known, BreakLoop, Fixed, it' \in 1..(Len(toks) + 1), error' = error
  PROVE  IInv'
<1>1. error \in BOOLEAN
  BY DEF Known, IInv
<1> QED
  BY <1>1, TopFrame, ModeChanged, Replacing DEF BreakLoop

-----------------------------------------------------------------------------
(* Every step keeps the invariant.  First the turns of the loop that work  *)
(* on one frame.                                                           *)

LEMMA ReduceStep ==
  ASSUME Known, F.ops # <<>>, F.mode = "scan" => Top.op # "(", ReduceUnchecked
  PROVE  IInv'
<1>1. CASE Undefined
  BY <1>1, UndefinedStep
<1>2. CASE Replace(Applied(2)) /\ UNCHANGED <<it, error>> /\ Fixed
  BY <1>2, OperatorApplied, Replacing, TopFrame, Tokens DEF Known, IInv
<1> QED
  BY <1>1, <1>2 DEF ReduceUnchecked

LEMMA OperatorStep ==
  ASSUME Known,
         OpenParen \/ ReduceInParens \/ CloseParen \/ PushSign \/ ReduceBinary \/ PushBinary
         \/ PushPrefix
  PROVE  IInv'
<1>1. error \in BOOLEAN /\ (F.mode = "failed" => error)
  BY TopFrame DEF Known, IInv
<1>2. CASE OpenParen
  BY <1>1, <1>2, ParenPushed, Replacing, PlacesStep DEF OpenParen, Scanning, Advance
<1>3. CASE ReduceInParens
  BY <1>3, ReduceStep DEF ReduceInParens, Closing, Scanning
<1>4. CASE CloseParen
  BY <1>1, <1>4, ParenPopped, Replacing, PlacesStep DEF CloseParen, Closing, Scanning, Advance
<1>5. CASE PushSign
  <2>1. \A op \in {"pos", "neg"} : op \in StackSymbol \ {"("} /\ ~isBinaryOperator(op)
    BY Symbols
  <2> QED
    BY <1>1, <1>5, <2>1, OperatorPushed, Replacing, PlacesStep
    DEF PushSign, Push, Scanning, Advance
<1>6. CASE ReduceBinary
  <2>1. isBinaryOperator(Token) /\ Reduces(Token, Top.op) /\ F.ops # <<>> /\ ReduceUnchecked
    BY <1>6 DEF ReduceBinary, AtBinary
  <2>2. Top.op # "("
    BY <2>1, Symbols
  <2> QED
    BY <2>1, <2>2, ReduceStep
<1>7. CASE PushBinary
  <2>1. Token \in StackSymbol \ {"("}
    BY <1>7, Symbols DEF PushBinary, AtBinary
  <2> QED
    BY <1>1, <1>7, <2>1, OperatorPushed, Replacing, PlacesStep
    DEF PushBinary, AtBinary, Push, Scanning, Advance
<1>8. CASE PushPrefix
  <2>1. "not" \in StackSymbol \ {"("} /\ ~isBinaryOperator("not")
    BY Symbols
  <2> QED
    BY <1>1, <1>8, <2>1, OperatorPushed, Replacing, PlacesStep
    DEF PushPrefix, Push, Scanning, Advance
<1> QED
  BY <1>2, <1>3, <1>4, <1>5, <1>6, <1>7, <1>8

LEMMA StopStep ==
  ASSUME Known,
         StopAtParen \/ StopAtDelimiter \/ UnexpectedEof \/ Unrecognized \/ StopAtEnd
         \/ ReduceFinal \/ BadLiteral
  PROVE  IInv'
<1>1. error \in BOOLEAN /\ it \in 1..(Len(toks) + 1)
  BY DEF Known, IInv
<1>2. CASE StopAtParen
  BY <1>1, <1>2, Breaking DEF StopAtParen
<1>3. CASE StopAtDelimiter
  BY <1>1, <1>3, Breaking DEF StopAtDelimiter
<1>4. CASE UnexpectedEof
  BY <1>1, <1>4, Failing DEF UnexpectedEof
<1>5. CASE Unrecognized
  BY <1>1, <1>5, Breaking, Failing DEF Unrecognized
<1>6. CASE StopAtEnd
  BY <1>1, <1>6, Breaking DEF StopAtEnd
<1>7. CASE ReduceFinal
  <2>1. F.mode = "final" /\ F.ops # <<>>
    BY <1>7 DEF ReduceFinal
  <2>2. ASSUME NEW n, Replace(Applied(n)), UNCHANGED error, UNCHANGED it, Fixed
        PROVE  IInv'
    BY <1>1, <2>1, <2>2, OperatorApplied, Replacing
  <2>3. Undefined => IInv'
    BY UndefinedStep
  <2> QED
    BY <1>1, <1>7, <2>2, <2>3, Failing DEF ReduceFinal
<1>8. CASE BadLiteral
  BY <1>8, NodeRefused, TopFrame, Replacing, PlacesStep DEF BadLiteral, Scanning, Advance
<1> QED
  BY <1>2, <1>3, <1>4, <1>5, <1>6, <1>7, <1>8

(* A node for the last frame.                                              *)
LEMMA Delivering ==
  ASSUME Known, NEW n, frames' = Deliver(frames, n), Fixed, error' = error,
         it' \in 1..(Len(toks) + 1)
  PROVE  IInv'
<1>1. FrameOK(F) /\ error \in BOOLEAN /\ (F.mode = "failed" => error)
  BY TopFrame DEF Known, IInv
<1> DEFINE g == [F EXCEPT !.opnds = Append(@, n),
                          !.mode = IF @ = "define" THEN "final" ELSE @]
<1>2. FrameOK(g) /\ g.caller = F.caller /\ (g.mode = "failed" => F.mode = "failed")
  BY <1>1, NodeTaken
<1>3. frames' = Append(Front(frames), g)
  BY DEF Deliver, F
<1> HIDE DEF g
<1> QED
  BY <1>1, <1>2, <1>3, Replacing DEF Replace

(* A node for the frame below it, from a call that returns.                *)
LEMMA Handing ==
  ASSUME Known, F.caller # "statement", NEW n, frames' = Deliver(Front(frames), n), Fixed,
         error' = error, it' \in 1..(Len(toks) + 1)
  PROVE  IInv'
<1>1. IsSeq(frames) /\ frames # <<>> /\ Len(frames) # 1 /\ error \in BOOLEAN
  BY FrameBelow, TopFrame DEF Known, IInv, FramesInv
<1> DEFINE f == Last(Front(frames))
           g == [f EXCEPT !.opnds = Append(@, n),
                          !.mode = IF @ = "define" THEN "final" ELSE @]
<1>2. FrameOK(f) /\ (f.mode = "failed" => error)
  BY FrameBelow
<1>3. FrameOK(g) /\ g.caller = f.caller /\ (g.mode = "failed" => f.mode = "failed")
  BY <1>2, NodeTaken
<1>4. frames' = Append(Front(Front(frames)), g)
  BY DEF Deliver
<1> HIDE DEF f, g
<1>5. FramesInv' /\ frames' # <<>>
  BY <1>1, <1>2, <1>3, <1>4, FrameReturned DEF Fixed, f
<1> QED
  BY <1>1, <1>5, GoesOn DEF Fixed

(* A call.                                                                 *)
LEMMA Calling ==
  ASSUME Known, NEW caller \in {"argument", "subscript", "let"}, NEW begin \in 1..Len(toks),
         NEW at, NEW kids, NEW typed, Call(Frame(caller, begin, at, kids, typed)), Fixed,
         error' = error, it' \in 1..(Len(toks) + 1)
  PROVE  IInv'
<1>1. error \in BOOLEAN
  BY DEF Known, IInv
<1> QED
  BY <1>1, NewFrame, FrameCalled, GoesOn DEF Call, Fixed

(* Identifiers: nothing is read beyond EOF.                                *)
LEMMA LeafStep ==
  ASSUME Known, Literal \/ Variable \/ EmptyCall \/ BeginSubscript \/ BeginCall
  PROVE  IInv'
<1>1. it \in 1..Len(toks) /\ it + 1 \in 1..(Len(toks) + 1) /\ Len(toks) \in Nat
  BY PlacesStep, Tokens DEF Literal, Variable, EmptyCall, BeginSubscript, BeginCall, Scanning
<1>2. Token = "x" => it + 1 \in 1..Len(toks)
  BY <1>1, Tokens DEF Token
<1>3. Token = "x" /\ toks[it + 1] # "EOF" => it + 2 \in 1..Len(toks)
  <2>1. it + 1 + 1 = it + 2
    BY <1>1
  <2> QED
    BY <1>2, <2>1, Tokens
<1>4. CASE Literal \/ Variable
  BY <1>1, <1>4, Delivering DEF Literal, Variable, Advance
<1>5. CASE EmptyCall
  <2>1. it + 2 \in 1..Len(toks)
    BY <1>3, <1>5 DEF EmptyCall
  <2>2. it + 3 \in 1..(Len(toks) + 1)
    BY <1>1, <2>1
  <2> QED
    BY <1>5, <2>2, Delivering DEF EmptyCall, Advance
<1>6. CASE BeginSubscript \/ BeginCall
  <2>1. it + 2 \in 1..Len(toks)
    BY <1>3, <1>6 DEF BeginSubscript, BeginCall
  <2>2. it + 2 \in 1..(Len(toks) + 1)
    BY <1>1, <2>1
  <2> QED
    BY <1>6, <2>1, <2>2, Calling DEF BeginSubscript, BeginCall, Advance
<1> QED
  BY <1>4, <1>5, <1>6

LEMMA LetStep ==
  ASSUME Known, Let
  PROVE  IInv'
<1> DEFINE name == IF toks[it + 1] = "mut" THEN it + 2 ELSE it + 1
           typed == toks[name + 1] = ":"
           rest == IF typed THEN name + 3 ELSE name + 1
           wrong(at) == Replace(Refuse(F)) /\ it' = at /\ error' = TRUE
<1>1. Len(toks) \in Nat /\ it \in 1..Len(toks) /\ it + 1 \in 1..Len(toks)
  <2>1. CASE Scanning /\ Token = "let"
    BY <2>1, Tokens, PlacesStep DEF Scanning, Token
  <2>2. CASE it < Len(toks)
    BY <2>2, Tokens
  <2> QED
    BY <2>1, <2>2 DEF Let
<1>2. name \in 1..Len(toks)
  <2>1. it + 1 + 1 = it + 2
    BY <1>1
  <2> QED
    BY <1>1, <2>1, Tokens
<1> HIDE DEF name
<1>3. toks[name] = "x" => name + 1 \in 1..Len(toks)
  BY <1>2, Tokens
<1>4. toks[name] = "x" /\ typed => name + 2 \in 1..Len(toks)
  <2>1. name + 1 + 1 = name + 2
    BY <1>1, <1>2
  <2> QED
    BY <1>3, <2>1, Tokens
<1>5. toks[name] = "x" /\ (typed => toks[name + 2] = "x") => rest \in 1..Len(toks)
  <2>1. name + 2 + 1 = name + 3
    BY <1>1, <1>2
  <2> QED
    BY <1>3, <1>4, <2>1, Tokens
<1> HIDE DEF typed, rest
<1>6. \A j \in 1..Len(toks) : j \in 1..(Len(toks) + 1)
  BY <1>1
<1>7. ASSUME NEW at \in 1..Len(toks), wrong(at), Fixed PROVE IInv'
  BY <1>6, <1>7, NodeRefused, TopFrame, Replacing
<1>8. CASE toks[name] # "x" /\ wrong(name)
  BY <1>2, <1>7, <1>8 DEF Let
<1>9. CASE toks[name] = "x" /\ typed /\ toks[name + 2] # "x" /\ wrong(name + 2)
  BY <1>4, <1>7, <1>9 DEF Let
<1>10. CASE /\ toks[name] = "x" /\ (typed => toks[name + 2] = "x")
            /\ \/ /\ toks[rest] = "="
                  /\ Call(Frame("let", rest + 1, it, <<>>, typed))
                  /\ it' = rest + 1
                  /\ UNCHANGED error
               \/ /\ toks[rest] # "=" /\ typed
                  /\ frames' = Deliver(frames, Node("let", it, <<Empty(rest)>>))
                  /\ it' = rest
                  /\ UNCHANGED error
               \/ toks[rest] # "=" /\ ~typed /\ wrong(rest)
  <2>1. rest \in 1..Len(toks)
    BY <1>5, <1>10
  <2>2. toks[rest] = "=" => rest + 1 \in 1..Len(toks)
    BY <2>1, Tokens
  <2>3. CASE /\ toks[rest] = "="
             /\ Call(Frame("let", rest + 1, it, <<>>, typed))
             /\ it' = rest + 1
             /\ UNCHANGED error
    BY <1>6, <2>2, <2>3, Calling DEF Let
  <2>4. CASE /\ frames' = Deliver(frames, Node("let", it, <<Empty(rest)>>))
             /\ it' = rest
             /\ UNCHANGED error
    BY <1>6, <2>1, <2>4, Delivering DEF Let
  <2>5. CASE wrong(rest)
    BY <1>7, <2>1, <2>5 DEF Let
  <2> QED
    BY <1>10, <2>3, <2>4, <2>5
<1> QED
  BY <1>8, <1>9, <1>10 DEF Let, name, typed, rest

(* Returns.                                                                *)
LEMMA ReturnStep ==
  ASSUME Known, ReturnSubscript \/ ReturnArgument \/ ReturnInitialiser
  PROVE  IInv'
<1>1. error \in BOOLEAN /\ it \in 1..(Len(toks) + 1) /\ Len(toks) \in Nat
  BY Tokens DEF Known, IInv
<1>2. CASE ReturnSubscript
  <2>1. it + 1 \in 1..(Len(toks) + 1)
    BY <1>2, PlacesStep DEF ReturnSubscript
  <2>2. F.caller # "statement"
    BY <1>2 DEF ReturnSubscript
  <2>3. CASE Token = "]"
    BY <1>2, <2>1, <2>2, <2>3, Handing DEF ReturnSubscript, Advance
  <2>4. CASE Token # "]"
    BY <1>1, <1>2, <2>4, Failing DEF ReturnSubscript
  <2> QED
    BY <2>3, <2>4
<1>3. CASE ReturnArgument
  <2>1. it \in 1..Len(toks) /\ it + 1 \in 1..(Len(toks) + 1) /\ F.caller = "argument"
    BY <1>3, PlacesStep DEF ReturnArgument
  <2>2. Token = "," => it + 1 \in 1..Len(toks) /\ it + 2 \in 1..(Len(toks) + 1)
    <3>1. Token = "," => it + 1 \in 1..Len(toks)
      BY <2>1, Tokens DEF Token
    <3>2. it + 1 \in 1..Len(toks) => it + 2 \in 1..(Len(toks) + 1)
      <4>1. it \in Int /\ Len(toks) \in Int
        BY <1>1
      <4> QED
        BY <4>1
    <3> QED
      BY <3>1, <3>2
  <2> DEFINE kids == Append(F.kids, Value)
             end(n) == /\ frames' = Deliver(Front(frames), Node("call", F.at, kids))
                       /\ Advance(n) /\ UNCHANGED error
  <2>3. CASE Token = ")" /\ end(1)
    BY <1>3, <2>1, <2>3, Handing DEF ReturnArgument, Advance
  <2>4. CASE Token = "," /\ end(2)
    BY <1>3, <2>1, <2>2, <2>4, Handing DEF ReturnArgument, Advance
  <2>5. CASE /\ Token = ","
             /\ Replace(Frame("argument", it + 1, F.at, kids, FALSE))
             /\ Advance(1) /\ UNCHANGED error
    <3>1. FrameOK(Frame("argument", it + 1, F.at, kids, FALSE))
      BY <2>2, <2>5, NewFrame
    <3> QED
      BY <1>1, <1>3, <2>1, <2>5, <3>1, NewFrame, Replacing
      DEF ReturnArgument, Advance, Frame
  <2>6. CASE parserError /\ UNCHANGED it
    BY <1>1, <1>3, <2>6, Failing DEF ReturnArgument
  <2> QED
    BY <1>3, <2>3, <2>4, <2>5, <2>6 DEF ReturnArgument
<1>4. CASE ReturnInitialiser
  <2>1. F.caller # "statement"
    BY <1>4 DEF ReturnInitialiser
  <2>2. CASE ~F.typed /\ Value.op = "empty"
    BY <1>1, <1>4, <2>2, Failing DEF ReturnInitialiser
  <2>3. CASE ~(~F.typed /\ Value.op = "empty")
    BY <1>1, <1>4, <2>1, <2>3, Handing DEF ReturnInitialiser
  <2> QED
    BY <2>2, <2>3
<1> QED
  BY <1>2, <1>3, <1>4

(* The way down of a null result: whoever is told has been told of an      *)
(* error as well.                                                          *)
LEMMA NullStep ==
  ASSUME Known, ReturnNull
  PROVE  IInv'
<1>1. error = TRUE /\ F.mode = "failed"
  BY TopFrame DEF Known, IInv, ReturnNull
<1>2. CASE F.caller = "statement"
  <2>1. IsSeq(<<>>) /\ Len(<<>>) = 0
    BY EmptySeq, SeqIsSeq
  <2>2. FramesInv'
    BY <1>2, <2>1 DEF ReturnNull, FramesInv
  <2> QED
    BY <1>1, <1>2, <2>2, TopFrame DEF ReturnNull, Known, IInv, NullMeansError, Outcome
<1>3. CASE F.caller # "statement"
  <2> DEFINE f == Last(Front(frames))
             g == IF F.caller = "let" THEN Refuse(f) ELSE [f EXCEPT !.mode = "failed"]
  <2>1. FrameOK(f) /\ Len(frames) # 1
    BY <1>3, FrameBelow
  <2>2. FrameOK(g) /\ g.caller = f.caller
    BY <2>1, NodeRefused, ModeChanged
  <2>3. /\ frames' = Append(Front(Front(frames)), g) /\ error' = TRUE
        /\ UNCHANGED <<toks, it, tree, outcome>>
    BY <1>1, <1>3 DEF ReturnNull
  <2> HIDE DEF f, g
  <2>4. FramesInv' /\ frames' # <<>>
    BY <1>1, <2>1, <2>2, <2>3, FrameReturned DEF f
  <2> QED
    BY <2>3, <2>4, Tokens, GoesOn
<1> QED
  BY <1>2, <1>3

LEMMA StatementStep ==
  ASSUME Known, ReturnStatement
  PROVE  IInv'
<1>1. IsSeq(<<>>) /\ Len(<<>>) = 0
  BY EmptySeq, SeqIsSeq
<1>2. FramesInv' /\ frames' = <<>>
  BY <1>1 DEF ReturnStatement, FramesInv
<1>3. tree' # <<>>
  BY DEF ReturnStatement
<1> QED
  BY <1>2, <1>3 DEF ReturnStatement, Known, IInv, NullMeansError, Outcome

-----------------------------------------------------------------------------
(* The theorems.                                                           *)

LEMMA InitInductive == Init => IInv
<1> SUFFICES ASSUME Init PROVE IInv
  OBVIOUS
<1>1. toks \in Inputs /\ toks \in Seq(TokenClass) /\ toks # <<>>
  BY InputsAssumption DEF Init
<1>2. Len(toks) \in Nat /\ Len(toks) > 0
  BY <1>1, EmptySeq
<1>3. 1 \in 1..Len(toks) /\ 1 \in 1..(Len(toks) + 1)
  BY <1>2
<1>4. FrameOK(Frame("statement", 1, 0, <<>>, FALSE))
  BY <1>3, EmptyStack DEF FrameOK, Frame, Field
<1>5. FramesInv
  <2> DEFINE f == Frame("statement", 1, 0, <<>>, FALSE)
  <2>1. f.caller = "statement" /\ f.mode = "scan"
    BY DEF Frame
  <2> HIDE DEF f
  <2>2. <<f>> \in Seq({f}) /\ Len(<<f>>) = 1 /\ <<f>>[1] = f
    OBVIOUS
  <2>3. IsSeq(<<f>>)
    BY <2>2, SeqIsSeq
  <2>4. frames = <<f>> /\ FrameOK(f)
    BY <1>4 DEF Init, f
  <2>5. \A k \in 1..Len(frames) : k = 1 /\ frames[k] = f
    BY <2>2, <2>4
  <2> QED
    BY <2>1, <2>3, <2>4, <2>5 DEF FramesInv
<1> QED
  BY <1>1, <1>3, <1>5 DEF Init, IInv, NullMeansError, Outcome

LEMMA StepRuns == Step => outcome = "running"
BY DEF Step, OpenParen, StopAtParen, ReduceInParens, CloseParen, PushSign,
   ReduceBinary, PushBinary, PushPrefix, Literal, BadLiteral, Variable, BeginSubscript,
   EmptyCall, BeginCall, Let, StopAtDelimiter, UnexpectedEof, Unrecognized, StopAtEnd,
   ReduceFinal, Lost, ReturnStatement, ReturnSubscript, ReturnArgument,
   ReturnInitialiser, ReturnNull, Closing, AtBinary, Scanning, Returning

LEMMA StepInductive == IInv /\ [Next]_vars => IInv'
<1> SUFFICES ASSUME IInv, [Next]_vars PROVE IInv'
  OBVIOUS
<1>1. CASE UNCHANGED vars
  BY <1>1 DEF vars, IInv, FramesInv, FrameOK, OpsOK, NullMeansError
<1>2. CASE Step
  <2>1. Known
    BY <1>2, StepRuns DEF Known
  <2>2. Lost => IInv'
    BY <2>1, UndefinedStep DEF Lost
  <2> QED
    BY <1>2, <2>1, <2>2, OperatorStep, StopStep, LeafStep, LetStep, ReturnStep, NullStep,
       StatementStep DEF Step
<1> QED
  BY <1>1, <1>2 DEF Next, Ended

LEMMA Invariance == Spec => []IInv
BY InitInductive, StepInductive, PTL DEF Spec

(* The cursor never passes the place after EOF, whatever look-ahead the    *)
(* parsers of calls, subscripts and definitions take, and a frame's        *)
(* operators are those of tokens read.                                     *)
THEOREM TypeCorrect == Spec => []TypeOK
<1>1. IInv => TypeOK
  <2> SUFFICES ASSUME IInv PROVE TypeOK
    OBVIOUS
  <2>1. toks \in Seq(TokenClass)
    BY InputsAssumption DEF IInv
  <2>2. DOMAIN frames = 1..Len(frames)
    BY SeqFacts DEF IInv, FramesInv
  <2>3. \A k \in DOMAIN frames : FrameOK(frames[k])
    BY <2>2 DEF IInv, FramesInv
  <2> QED
    BY <2>1, <2>3 DEF IInv, TypeOK, FrameOK, OpsOK
<1> QED
  BY <1>1, Invariance, PTL

(* parenCount is the number of parentheses on the operator stack of the    *)
(* same call, so popping up to "(" always finds one.                       *)
THEOREM ParensAreCounted == Spec => []ParensCounted
<1>1. IInv => ParensCounted
  BY SeqFacts DEF IInv, FramesInv, FrameOK, Parens, ParensCounted
<1> QED
  BY <1>1, Invariance, PTL

(* The operator stack of every call is sorted between its parentheses, the *)
(* invariant that operator-precedence parsing rests on.                    *)
THEOREM StacksAreSorted == Spec => []StackSorted
<1>1. IInv => StackSorted
  <2> SUFFICES ASSUME IInv, NEW k \in DOMAIN frames PROVE Sorted(frames[k].ops)
    BY DEF StackSorted, Sorted
  <2> QED
    BY SeqFacts DEF IInv, FramesInv, FrameOK, OpsOK
<1> QED
  BY <1>1, Invariance, PTL

(* A null result always comes with an error.                               *)
THEOREM NoSilentFailure == Spec => []NullMeansError
BY Invariance, PTL DEF IInv
-----------------------------------------------------------------------------
(* What the callers of parseExpression rely on: the cursor only moves on,  *)
(* over tokens that may be part of an expression, and an error is not      *)
(* forgotten.                                                              *)

Foreign == (Unknown \ {"]", ":", "mut"}) \cup {";", "{"}

Passes(lo, hi) == \A i \in lo..hi : toks[i] \notin Foreign

(* A definition asked for by a statement is taken in one go, its first     *)
(* token unseen.                                                           *)
Eats ==
  /\ toks' = toks /\ it' >= it /\ (error => error')
  /\ ~error' => IF F.mode = "define"
                THEN /\ it' > it + 1 /\ toks[it + 1] \in {"x", "mut"}
                     /\ Passes(it + 1, it' - 1)
                ELSE Passes(it, it' - 1)

LEMMA Familiar ==
  \A t \in {"x", "1", "str", "bad", "not", "(", ")", "[", ",", "let", "EOF", "]", ":", "mut",
            ".", "as", "*", "+", "-", "<", "==", "and", "or", "="} : t \notin Foreign
BY DEF Foreign, Unknown

(* A step that takes no token, or one, two or three.                       *)
LEMMA EatsNone ==
  ASSUME Known, it' = it, toks' = toks, error => error', F.mode # "define"
  PROVE  Eats
<1>1. it \in Int
  BY Tokens
<1> QED
  BY <1>1 DEF Eats, Passes

LEMMA EatsSome ==
  ASSUME Known, toks' = toks, error => error', F.mode # "define", toks[it] \notin Foreign,
         \/ it' = it + 1
         \/ it' = it + 2 /\ toks[it + 1] \notin Foreign
         \/ it' = it + 3 /\ toks[it + 1] \notin Foreign /\ toks[it + 2] \notin Foreign
  PROVE  Eats
<1>1. it \in Int
  BY Tokens
<1>2. it' >= it /\ \A i \in it..(it' - 1) : toks[i] \notin Foreign
  <2>1. CASE it' = it + 1
    <3>1. \A i \in it..(it' - 1) : i = it
      BY <1>1, <2>1
    <3> QED
      BY <1>1, <2>1, <3>1
  <2>2. CASE it' = it + 2 /\ toks[it + 1] \notin Foreign
    <3>1. \A i \in it..(it' - 1) : i = it \/ i = it + 1
      BY <1>1, <2>2
    <3> QED
      BY <1>1, <2>2, <3>1
  <2>3. CASE it' = it + 3 /\ toks[it + 1] \notin Foreign /\ toks[it + 2] \notin Foreign
    <3>1. \A i \in it..(it' - 1) : i = it \/ i = it + 1 \/ i = it + 2
      BY <1>1, <2>3
    <3> QED
      BY <1>1, <2>3, <3>1
  <2> QED
    BY <2>1, <2>2, <2>3
<1> QED
  BY <1>1, <1>2 DEF Eats, Passes

LEMMA LoopEats ==
  ASSUME Known,
         \/ OpenParen \/ StopAtParen \/ ReduceInParens \/ CloseParen \/ PushSign
         \/ ReduceBinary \/ PushBinary \/ PushPrefix \/ Literal \/ BadLiteral \/ Variable
         \/ StopAtDelimiter \/ UnexpectedEof \/ Unrecognized \/ StopAtEnd \/ ReduceFinal
         \/ Lost \/ ReturnStatement \/ ReturnInitialiser \/ ReturnNull
  PROVE  Eats
<1>1. it \in Int
  BY Tokens
<1>2. CASE \/ StopAtParen \/ StopAtDelimiter \/ UnexpectedEof \/ Unrecognized \/ StopAtEnd
           \/ ReduceFinal \/ Lost \/ ReturnStatement \/ ReturnInitialiser \/ ReturnNull
           \/ ReduceInParens \/ ReduceBinary
  <2>1. it' = it /\ toks' = toks /\ (error => error') /\ F.mode # "define"
    <3>1. CASE StopAtParen
      BY <3>1 DEF StopAtParen, Scanning, Fixed
    <3>5. CASE StopAtDelimiter
      BY <3>5 DEF StopAtDelimiter, Scanning, Fixed
    <3>6. CASE StopAtEnd
      BY <3>6 DEF StopAtEnd, Fixed
    <3>4. CASE UnexpectedEof \/ Unrecognized
      <4>1. it' = it /\ toks' = toks /\ F.mode = "scan" /\ (error' = error \/ error' = TRUE)
        BY <3>4 DEF UnexpectedEof, Unrecognized, Scanning, parserError, Fixed
      <4> QED
        BY <4>1
    <3>2. CASE ReduceFinal \/ Lost \/ ReturnStatement \/ ReturnInitialiser \/ ReturnNull
      BY <3>2 DEF ReduceFinal, Lost, ReturnStatement, ReturnInitialiser, ReturnNull, Returning,
                  Undefined, parserError, Fixed
    <3>3. CASE ReduceInParens \/ ReduceBinary
      BY <3>3 DEF ReduceInParens, ReduceBinary, ReduceUnchecked, Closing, AtBinary, Scanning,
                  Undefined, Fixed
    <3> QED
      BY <1>2, <3>1, <3>2, <3>3, <3>4, <3>5, <3>6
  <2> QED
    BY <2>1, EatsNone
<1>3. CASE \/ OpenParen \/ CloseParen \/ PushSign \/ PushBinary \/ PushPrefix \/ Literal
           \/ BadLiteral \/ Variable
  <2>1. it' = it + 1 /\ toks' = toks /\ (error => error') /\ F.mode # "define"
    BY <1>3 DEF OpenParen, CloseParen, PushSign, PushBinary, PushPrefix, Literal, BadLiteral,
                Variable, Closing, AtBinary, Scanning, Advance, Fixed
  <2>2. Token \notin Foreign
    <3>1. CASE PushBinary
      <4>1. Token \in DOMAIN BinaryPrecedence
        BY <3>1, Symbols DEF PushBinary, AtBinary
      <4> QED
        BY <4>1, Binaries, Familiar
    <3>2. CASE \/ OpenParen \/ CloseParen \/ PushSign \/ PushPrefix \/ Literal
               \/ BadLiteral \/ Variable
      <4>1. Token \in {"(", ")", "+", "-", "not", "1", "str", "bad", "x"}
        BY <3>2 DEF OpenParen, CloseParen, PushSign, PushPrefix, Literal, BadLiteral,
                    Variable, Closing, IsSign
      <4> QED
        BY <4>1, Familiar
    <3> QED
      BY <1>3, <3>1, <3>2
  <2> QED
    BY <2>1, <2>2, EatsSome DEF Token
<1> QED
  BY <1>2, <1>3

LEMMA CallEats ==
  ASSUME Known, BeginSubscript \/ EmptyCall \/ BeginCall \/ ReturnSubscript \/ ReturnArgument
  PROVE  Eats
<1>1. it \in Int
  BY Tokens
<1>2. CASE BeginSubscript \/ BeginCall
  <2>1. it' = it + 2 /\ toks' = toks /\ (error => error') /\ F.mode # "define"
    <3>1. CASE BeginSubscript
      BY <3>1 DEF BeginSubscript, Scanning, Advance, Fixed
    <3>2. CASE BeginCall
      BY <3>2 DEF BeginCall, Scanning, Advance, Fixed
    <3> QED
      BY <1>2, <3>1, <3>2
  <2>2. toks[it] = "x" /\ toks[it + 1] \in {"(", "["}
    BY <1>2 DEF BeginSubscript, BeginCall, Token
  <2> QED
    BY <2>1, <2>2, Familiar, EatsSome
<1>3. CASE EmptyCall
  <2>1. it' = it + 3 /\ toks' = toks /\ (error => error') /\ F.mode # "define"
    BY <1>3 DEF EmptyCall, Scanning, Advance, Fixed
  <2>2. toks[it] = "x" /\ toks[it + 1] = "(" /\ toks[it + 2] \in {")", "EOF"}
    BY <1>3 DEF EmptyCall, Token
  <2> QED
    BY <2>1, <2>2, Familiar, EatsSome
<1>4. CASE ReturnSubscript \/ ReturnArgument
  <2>1. toks' = toks /\ (error => error') /\ F.mode # "define"
    <3>1. toks' = toks /\ F.mode = "final" /\ (error' = error \/ error' = TRUE)
      BY <1>4 DEF ReturnSubscript, ReturnArgument, Returning, parserError, Fixed
    <3> QED
      BY <3>1
  <2>2. \/ it' = it
        \/ it' = it + 1 /\ toks[it] \in {"]", ")", ","}
        \/ it' = it + 2 /\ toks[it] = "," /\ toks[it + 1] = "EOF"
    BY <1>4 DEF ReturnSubscript, ReturnArgument, Token, Advance
  <2>3. CASE it' = it
    BY <2>1, <2>3, EatsNone
  <2>4. CASE it' = it + 1 /\ toks[it] \in {"]", ")", ","}
    BY <2>1, <2>4, Familiar, EatsSome
  <2>5. CASE it' = it + 2 /\ toks[it] = "," /\ toks[it + 1] = "EOF"
    BY <2>1, <2>5, Familiar, EatsSome
  <2> QED
    BY <2>2, <2>3, <2>4, <2>5
<1> QED
  BY <1>2, <1>3, <1>4

LEMMA Within ==
  ASSUME NEW p \in Int, NEW m \in Int
  PROVE  \A i \in p..(m - 1) : i \in Int /\ p <= i /\ i <= m - 1
                               /\ (i = p \/ i \in (p + 1)..(m - 1))
OBVIOUS

LEMMA BehindName ==
  ASSUME NEW p \in Int, NEW rest \in Int, NEW m \in Int, NEW i \in Int,
         rest = p + 1 \/ rest = p + 3, m = rest \/ m = rest + 1, i <= m - 1
  PROVE  i > p => \/ i = rest /\ m = rest + 1
                  \/ rest = p + 3 /\ (i = p + 1 \/ i = p + 2)
OBVIOUS

LEMMA LetEats ==
  ASSUME Known, Let
  PROVE  Eats
<1>1. it \in Int
  BY Tokens
<1> DEFINE name == IF toks[it + 1] = "mut" THEN it + 2 ELSE it + 1
           typed == toks[name + 1] = ":"
           rest == IF typed THEN name + 3 ELSE name + 1
           wrong(at) == Replace(Refuse(F)) /\ it' = at /\ error' = TRUE
<1>2. /\ name = it + 1 \/ (name = it + 2 /\ toks[it + 1] = "mut")
      /\ rest = name + 1 \/ (rest = name + 3 /\ toks[name + 1] = ":")
      /\ rest = name + 3 => typed
  <2>1. name = it + 1 \/ (name = it + 2 /\ toks[it + 1] = "mut")
    OBVIOUS
  <2>2. name \in Int
    BY <1>1, <2>1
  <2> HIDE DEF name
  <2>3. name + 1 # name + 3
    BY <2>2
  <2> QED
    BY <2>1, <2>3
<1>3. toks' = toks /\ (F.mode # "define" => toks[it] = "let")
  BY DEF Let, Fixed, Scanning, Token
<1> HIDE DEF name, typed, rest
<1>4. \/ error' = TRUE /\ (it' = name \/ it' = name + 2 \/ it' = rest)
      \/ /\ error' = error /\ toks[name] = "x" /\ (typed => toks[name + 2] = "x")
         /\ it' = rest \/ (it' = rest + 1 /\ toks[rest] = "=")
  <2>1. CASE toks[name] # "x" /\ wrong(name)
    BY <2>1
  <2>2. CASE toks[name] = "x" /\ typed /\ toks[name + 2] # "x" /\ wrong(name + 2)
    BY <2>2
  <2>3. CASE /\ toks[name] = "x" /\ (typed => toks[name + 2] = "x")
             /\ \/ /\ toks[rest] = "="
                   /\ Call(Frame("let", rest + 1, it, <<>>, typed))
                   /\ it' = rest + 1
                   /\ UNCHANGED error
                \/ /\ toks[rest] # "=" /\ typed
                   /\ frames' = Deliver(frames, Node("let", it, <<Empty(rest)>>))
                   /\ it' = rest
                   /\ UNCHANGED error
                \/ toks[rest] # "=" /\ ~typed /\ wrong(rest)
    BY <2>3
  <2> QED
    BY <2>1, <2>2, <2>3 DEF Let, name, typed, rest
<1>5. it' \in Int /\ it' > it /\ name \in Int /\ rest \in Int
  BY <1>1, <1>2, <1>4
<1>6. error => error'
  BY <1>4
<1>7. ASSUME ~error'
      PROVE  /\ it' > it + 1 /\ toks[it + 1] \in {"x", "mut"}
             /\ Passes(it + 1, it' - 1)
  <2>1. /\ toks[name] = "x" /\ (typed => toks[name + 2] = "x")
        /\ it' = rest \/ (it' = rest + 1 /\ toks[rest] = "=")
    BY <1>4, <1>7
  <2>2. ASSUME NEW i \in Int, it + 1 <= i, i <= it' - 1
        PROVE  toks[i] \in {"mut", "x", ":", "="}
    <3>1. \/ i = name \/ (i < name /\ i = it + 1 /\ name = it + 2)
          \/ i > name
      BY <1>1, <1>2, <1>5, <2>2
    <3>2. i > name => \/ i = rest /\ it' = rest + 1
                      \/ rest = name + 3 /\ (i = name + 1 \/ i = name + 2)
      <4>1. /\ rest = name + 1 \/ rest = name + 3
            /\ it' = rest \/ it' = rest + 1
        BY <1>2, <2>1
      <4> QED
        BY <1>5, <2>2, <4>1, BehindName
    <3>3. name + 1 # name + 3 /\ it + 1 # it + 2 /\ rest # rest + 1
      BY <1>1, <1>5
    <3> QED
      BY <1>2, <2>1, <3>1, <3>2, <3>3
  <2>3. \A i \in (it + 1)..(it' - 1) : toks[i] \in {"mut", "x", ":", "="}
    <3>1. it + 1 \in Int
      BY <1>1
    <3> QED
      BY <1>5, <2>2, <3>1, Within
  <2>4. Passes(it + 1, it' - 1)
    BY <2>3, Familiar DEF Passes
  <2>5. it' > it + 1
    BY <1>1, <1>2, <1>5, <2>1
  <2>6. toks[it + 1] \in {"x", "mut"}
    BY <1>2, <2>1
  <2> QED
    BY <2>4, <2>5, <2>6
<1>8. ASSUME ~error', F.mode # "define" PROVE Passes(it, it' - 1)
  <2>1. toks[it] \notin Foreign
    BY <1>3, <1>8, Familiar
  <2>2. \A i \in it..(it' - 1) : i = it \/ i \in (it + 1)..(it' - 1)
    BY <1>1, <1>5, Within
  <2> QED
    BY <1>7, <1>8, <2>1, <2>2 DEF Passes
<1>9. it' >= it
  BY <1>1, <1>5
<1> QED
  BY <1>3, <1>6, <1>7, <1>8, <1>9 DEF Eats

LEMMA StepEats ==
  ASSUME Known, Step
  PROVE  Eats
BY LoopEats, CallEats, LetEats DEF Step

(* A definition is asked for once: the frame that was made for it is not   *)
(* on top again before it has been answered.                               *)
LEMMA NodeMode ==
  ASSUME NEW f, FrameOK(f), NEW n
  PROVE  /\ [f EXCEPT !.opnds = Append(@, n),
                       !.mode = IF @ = "define" THEN "final" ELSE @].mode # "define"
         /\ Refuse(f).mode # "define"
         /\ \A m : [f EXCEPT !.mode = m].mode = m
BY DEF FrameOK, Field, Refuse

LEMMA NewTop ==
  ASSUME Known
  PROVE  /\ \A g : frames' = Append(Front(frames), g) => Last(frames') = g
         /\ \A g : frames' = Append(frames, g) => Last(frames') = g
         /\ F.caller # "statement" =>
              \A g : frames' = Append(Front(Front(frames)), g) => Last(frames') = g
<1>1. IsSeq(frames) /\ frames # <<>>
  BY TopFrame DEF Known, IInv, FramesInv
<1>2. ASSUME F.caller # "statement"
      PROVE  IsSeq(Front(frames)) /\ Front(frames) # <<>>
  <2>1. Len(frames) \in Nat /\ Len(frames) # 1
    BY <1>2, FrameBelow, TopFrame
  <2>2. IsSeq(Front(frames)) /\ Len(Front(frames)) = Len(frames) - 1
    BY <1>1, Shortened
  <2> QED
    BY <2>1, <2>2, NothingIsSeq
<1>3. \A g : frames' = Append(Front(frames), g) => Last(frames') = g
  BY <1>1, Replaced
<1>4. \A g : frames' = Append(frames, g) => Last(frames') = g
  BY <1>1, Appended
<1>5. F.caller # "statement" =>
        \A g : frames' = Append(Front(Front(frames)), g) => Last(frames') = g
  BY <1>2, Replaced
<1> QED
  BY <1>3, <1>4, <1>5

LEMMA ModeLeft ==
  ASSUME Known, Step, outcome' = "running"
  PROVE  Last(frames').mode # "define"
<1>1. FrameOK(F) /\ (F.caller # "statement" => FrameOK(Last(Front(frames))))
  BY TopFrame, FrameBelow
<1>2. ASSUME BreakLoop \/ parserError \/ Replace(Refuse(F)) PROVE Last(frames').mode # "define"
  BY <1>1, <1>2, NewTop, NodeMode DEF BreakLoop, parserError, Replace
<1>3. ASSUME NEW n, frames' = Deliver(frames, n) PROVE Last(frames').mode # "define"
  <2> DEFINE g == [F EXCEPT !.opnds = Append(@, n),
                            !.mode = IF @ = "define" THEN "final" ELSE @]
  <2>1. g.mode # "define"
    BY <1>1, NodeMode
  <2>2. frames' = Append(Front(frames), g)
    BY <1>3 DEF Deliver, F
  <2> HIDE DEF g
  <2> QED
    BY <2>1, <2>2, NewTop
<1>4. ASSUME NEW n, F.caller # "statement", frames' = Deliver(Front(frames), n)
      PROVE  Last(frames').mode # "define"
  <2> DEFINE g == [Last(Front(frames)) EXCEPT
                     !.opnds = Append(@, n), !.mode = IF @ = "define" THEN "final" ELSE @]
  <2>1. g.mode # "define"
    BY <1>1, <1>4, NodeMode
  <2>2. frames' = Append(Front(Front(frames)), g)
    BY <1>4 DEF Deliver
  <2> HIDE DEF g
  <2> QED
    BY <1>4, <2>1, <2>2, NewTop
<1>5. ASSUME NEW caller, NEW begin, NEW at, NEW kids, NEW typed,
             Call(Frame(caller, begin, at, kids, typed))
             \/ Replace(Frame(caller, begin, at, kids, typed))
      PROVE  Last(frames').mode # "define"
  BY <1>5, NewTop DEF Call, Replace, Frame
<1>6. ASSUME NEW n, F.mode # "define", Replace(Applied(n)) PROVE Last(frames').mode # "define"
  BY <1>1, <1>6, NewTop DEF Replace, Applied, FrameOK, Field
<1>7. ASSUME OpenParen \/ CloseParen \/ PushSign \/ PushBinary \/ PushPrefix
      PROVE  Last(frames').mode # "define"
  <2>1. F.mode = "scan" /\ \E g : Replace(g) /\ g.mode = F.mode
    <3>1. \A o, p : /\ [F EXCEPT !.ops = o].mode = F.mode
                    /\ [F EXCEPT !.ops = o, !.parens = p].mode = F.mode
      BY <1>1 DEF FrameOK, Field
    <3> QED
      BY <1>7, <3>1 DEF OpenParen, CloseParen, PushSign, PushBinary, PushPrefix, Push, Closing,
                        AtBinary, Scanning
  <2> QED
    BY <2>1, NewTop DEF Replace
<1>8. ASSUME ReduceInParens \/ ReduceBinary \/ ReduceFinal PROVE Last(frames').mode # "define"
  <2>1. F.mode # "define" /\ (parserError \/ \E n : Replace(Applied(n)))
    <3>1. ~Undefined
      BY DEF Undefined
    <3> QED
      BY <1>8, <3>1 DEF ReduceInParens, ReduceBinary, ReduceFinal, ReduceUnchecked, Closing,
                        AtBinary, Scanning
  <2> QED
    BY <1>2, <1>6, <2>1
<1>9. ASSUME StopAtParen \/ StopAtDelimiter \/ UnexpectedEof \/ Unrecognized \/ StopAtEnd
             \/ BadLiteral
      PROVE  Last(frames').mode # "define"
  BY <1>2, <1>9 DEF StopAtParen, StopAtDelimiter, UnexpectedEof, Unrecognized, StopAtEnd,
                    BadLiteral
<1>10. ASSUME Literal \/ Variable \/ EmptyCall PROVE Last(frames').mode # "define"
  BY <1>3, <1>10 DEF Literal, Variable, EmptyCall
<1>11. ASSUME BeginSubscript \/ BeginCall PROVE Last(frames').mode # "define"
  BY <1>5, <1>11 DEF BeginSubscript, BeginCall
<1>12. ASSUME Let PROVE Last(frames').mode # "define"
  <2>1. \/ Replace(Refuse(F)) \/ \E n : frames' = Deliver(frames, n)
        \/ \E begin, at, kids, typed : Call(Frame("let", begin, at, kids, typed))
    BY <1>12 DEF Let
  <2> QED
    BY <1>2, <1>3, <1>5, <2>1
<1>13. ASSUME ReturnSubscript \/ ReturnArgument \/ ReturnInitialiser
       PROVE  Last(frames').mode # "define"
  <2>1. CASE ReturnSubscript
    BY <1>2, <1>4, <2>1 DEF ReturnSubscript
  <2>2. CASE ReturnArgument
    BY <1>2, <1>4, <1>5, <2>2 DEF ReturnArgument
  <2>3. CASE ReturnInitialiser
    BY <1>2, <1>4, <2>3 DEF ReturnInitialiser
  <2> QED
    BY <1>13, <2>1, <2>2, <2>3
<1>14. ASSUME ReturnNull PROVE Last(frames').mode # "define"
  <2>1. F.caller # "statement"
    BY <1>14 DEF ReturnNull
  <2> QED
    <3> DEFINE f == Last(Front(frames))
               g == IF F.caller = "let" THEN Refuse(f) ELSE [f EXCEPT !.mode = "failed"]
    <3>1. g.mode # "define"
      BY <1>1, <2>1, NodeMode
    <3>2. frames' = Append(Front(Front(frames)), g)
      BY <1>14, <2>1 DEF ReturnNull
    <3> HIDE DEF f, g
    <3> QED
      BY <2>1, <3>1, <3>2, NewTop
<1>15. ~ReturnStatement /\ ~Lost
  BY DEF ReturnStatement, Lost, Undefined
<1> QED
  BY <1>7, <1>8, <1>9, <1>10, <1>11, <1>12, <1>13, <1>14, <1>15 DEF Step

=============================================================================

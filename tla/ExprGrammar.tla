----------------------------- MODULE ExprGrammar -----------------------------
(***************************************************************************)
(* What an expression means: a grammar with precedences, stated as a       *)
(* relation between a tree and the tokens from one position to another.    *)
(* It knows nothing of stacks; the parser is checked against it.           *)
(***************************************************************************)
EXTENDS ExprParser

CONSTANT
  Correct   \* the inputs that are expression statements: the grammar must read them

Tightest == 100

(* n is the reading of toks[lo..hi], and may stand where an operand of an  *)
(* operator of precedence p may: prefix operators bind tightest, binary    *)
(* operators by their precedence and to the left, assignments to the right.*)
RECURSIVE Derives(_, _, _, _)
Derives(n, lo, hi, p) ==
  LET prec  == getBinOpPrecedence(n.op)
      left  == IF isBinOpRightAssociative(n.op) THEN prec + 1 ELSE prec
      right == IF isBinOpRightAssociative(n.op) THEN prec ELSE prec + 1
      commas == {i \in (lo + 2)..(hi - 1) : toks[i] = ","}
  IN
  /\ lo <= hi
  /\ \/ toks[lo] = "(" /\ toks[hi] = ")" /\ Derives(n, lo + 1, hi - 1, 0)
     \/ n = Leaf(lo) /\ lo = hi /\ toks[lo] \in {"x", "1", "str"}
     \/ /\ isBinaryOperator(n.op) /\ prec >= p
        /\ n.at \in (lo + 1)..(hi - 1) /\ toks[n.at] = n.op
        /\ Len(n.kids) = 2
        /\ Derives(n.kids[1], lo, n.at - 1, left)
        /\ Derives(n.kids[2], n.at + 1, hi, right)
     \/ /\ isUnaryOperator(n.op) /\ n.at = lo
        /\ <<toks[lo], n.op>> \in {<<"not", "not">>, <<"-", "neg">>, <<"+", "pos">>}
        /\ Len(n.kids) = 1
        /\ Derives(n.kids[1], lo + 1, hi, Tightest)
     \/ /\ n.op = "call" /\ n.at = lo + 1 /\ lo + 2 <= hi
        /\ toks[lo] = "x" /\ toks[lo + 1] = "(" /\ toks[hi] = ")"
        /\ n.kids[1] = Leaf(lo)
        /\ \/ Len(n.kids) = 1 /\ hi = lo + 2
           \/ Len(n.kids) = 2 /\ Derives(n.kids[2], lo + 2, hi - 1, 0)
           \/ /\ Len(n.kids) = 3
              /\ \E c \in commas : /\ Derives(n.kids[2], lo + 2, c - 1, 0)
                                   /\ Derives(n.kids[3], c + 1, hi - 1, 0)
     \/ /\ n.op = "[]" /\ n.at = lo + 1 /\ lo + 3 <= hi
        /\ toks[lo] = "x" /\ toks[lo + 1] = "[" /\ toks[hi] = "]"
        /\ n.kids[1] = Leaf(lo)
        /\ Len(n.kids) = 2 /\ Derives(n.kids[2], lo + 2, hi - 1, 0)

(* "+, -, *, /, % work as expected", "- works as expected": an expression  *)
(* statement is parsed into the tree the grammar gives its tokens, up to   *)
(* the semicolon.                                                          *)
ReadAsExpected ==
  outcome # "running" /\ toks \in Correct =>
    /\ outcome = "parsed" /\ ~error
    /\ toks[it] = ";"
    /\ Derives(tree[1], 1, it - 1, 0)
=============================================================================

--------------------------- MODULE SourceLocation ---------------------------
(***************************************************************************)
(* util::SourceLocation: a place in a text, with its line and column, that *)
(* can be moved forwards and backwards, and the message that shows it.     *)
(* A text is a sequence of characters; the place after the last one reads  *)
(* as NUL.                                                                 *)
(***************************************************************************)
EXTENDS Naturals, Sequences, FiniteSets

NL  == "newline"
NUL == "NUL"

(* lastCol is the column the last line break was at (lastLineLen): the     *)
(* only one that is remembered when moving back over a line break.         *)
Location == [pos : Nat, line : Nat, col : Nat, lastCol : Nat]

Start == [pos |-> 1, line |-> 1, col |-> 1, lastCol |-> 0]

HasMore(t, l) == l.pos <= Len(t)
At(t, l) == IF HasMore(t, l) THEN t[l.pos] ELSE NUL

(* Mutant: the column is not reset.                                        *)
ForwardUnreset(t, l) ==
  IF ~HasMore(t, l) THEN l
  ELSE IF t[l.pos] = NL
  THEN [pos |-> l.pos + 1, line |-> l.line + 1, col |-> l.col, lastCol |-> l.col]
  ELSE [l EXCEPT !.pos = @ + 1, !.col = @ + 1]

(* operator++ stays at the end.                                            *)
Forward(t, l) ==
  IF ~HasMore(t, l) THEN l
  ELSE IF t[l.pos] = NL
  THEN [pos |-> l.pos + 1, line |-> l.line + 1, col |-> 1, lastCol |-> l.col]
  ELSE [l EXCEPT !.pos = @ + 1, !.col = @ + 1]

Twice(t, l) == Forward(t, Forward(t, l))

(* operator-- once, and n times (operator-).                               *)
Backward(t, l) ==
  IF t[l.pos - 1] = NL
  THEN [l EXCEPT !.pos = @ - 1, !.line = @ - 1, !.col = l.lastCol]
  ELSE [l EXCEPT !.pos = @ - 1, !.col = @ - 1]

Back(t, l, n) ==
  LET f[i \in 0..n] == IF i = 0 THEN l ELSE Backward(t, f[i - 1]) IN f[n]

-----------------------------------------------------------------------------
(* getErrorMessage.                                                        *)

Largest(S) == CHOOSE x \in S : \A y \in S : y <= x
Smallest(S) == CHOOSE x \in S : \A y \in S : x <= y

LineBreaks(t) == {i \in 1..Len(t) : t[i] = NL}

(* The search goes back from the place itself: on a line break it ends     *)
(* where it began, and the beginning is that of the next line.             *)
BeginningOfLine(t, p) == Largest({0} \cup {i \in LineBreaks(t) : i <= p}) + 1

(* Up to the line break, or to the last character when there is none; the  *)
(* line shown ends one character before that.                              *)
EndOfLine(t, p) ==
  Smallest({Len(t)} \cup {i \in LineBreaks(t) : i >= BeginningOfLine(t, p)})

LineShown(t, l) == BeginningOfLine(t, l.pos)..(EndOfLine(t, l.pos) - 1)

(* The line and what stands before the place in it are copied between two  *)
(* iterators; the line before is found two characters before its beginning.*)
MessageDefined(t, l) ==
  LET begin == BeginningOfLine(t, l.pos)
  IN  /\ begin <= EndOfLine(t, l.pos)
      /\ begin <= l.pos
      /\ l.line > 1 => begin > 2
=============================================================================

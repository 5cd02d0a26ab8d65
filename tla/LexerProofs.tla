---------------------------- MODULE LexerProofs ----------------------------
(***************************************************************************)
(* Proofs about the lexer, for every text: the cursor and every token know *)
(* their line and column, what happens where a message cannot be made, and *)
(* the tokens are the lexemes the grammar names.                           *)
(*                                                                         *)
(* A token's place is found by going back from its end, over at most one   *)
(* line break: Exact says what the cursor knows of its text, and the parts *)
(* of IInv say for each loop what lies between the token's start and it.   *)
(* TInv, which rests on it, says what that text is.                        *)
(***************************************************************************)
EXTENDS LexicalGrammar, StackFacts, FiniteSetTheorems, TLAPS

-----------------------------------------------------------------------------
(* The invariant.                                                          *)

(* The last line break before p, the line p is on, and what a location     *)
(* there remembers: the column of that line break is what going back needs.*)
Breaks(t, p) == {i \in LineBreaks(t) : i < p}
Break(t, p) == Largest({0} \cup Breaks(t, p))
Spot(t, l) ==
  /\ l.line = Cardinality(Breaks(t, l.pos)) + 1
  /\ l.col = l.pos - Break(t, l.pos)
Exact(t, l) ==
  /\ l \in Location /\ l.pos \in 1..(Len(t) + 1)
  /\ Spot(t, l) /\ l.lastCol = Break(t, l.pos) - Break(t, Break(t, l.pos))

Plain(t, lo, hi) == \A i \in lo..hi : t[i] # NL

Literals == {"char", "bchar", "string", "cstring"}
Prefixed(t, s) == s + 1 <= Len(t) /\ t[s + 1] \in DOMAIN PrefixOf

TokenAt(t, tok, lo, hi) ==
  /\ Spot(t, tok.loc) /\ tok.loc.pos \in Nat
  /\ lo <= tok.loc.pos /\ tok.loc.pos <= hi + 1
  /\ \/ tok.loc.pos = lo
     \/ tok.type \in Literals
     \/ tok.type \in {"integer", "float"} /\ Prefixed(t, lo)

Numeral(t, s) == s <= Len(t) /\ t[s] \in isCharDigit \cup {"."}

(* What each loop has behind it.                                           *)
WordInv(t, p, s, b) == p = s + Len(b) /\ Plain(t, s, p - 1)

OperatorInv(t, p, s, b) ==
  WordInv(t, p, s, b) /\ (b = <<>> => p <= Len(t) /\ t[p] \in isCharPunctuation)

(* Only the first digit after a prefix may be anything.                    *)
NumberInv(t, l, s, b, c, n) ==
  /\ Numeral(t, s)
  /\ "base" \in DOMAIN n /\ n.base \in DOMAIN DigitsOf
  /\ c = At(t, l)
  /\ b = <<>> \/ c \in isCharHexDigit \cup {"."}
  /\ \/ /\ l.pos = s + Len(b) /\ Plain(t, s, l.pos - 1)
        /\ c \in isCharHexDigit \cup {"."}
     \/ /\ l.pos = s + 2 + Len(b) /\ Plain(t, s + 3, l.pos - 1)
        /\ Prefixed(t, s)

SuffixInv(t, l, s, c, tok) ==
  /\ Numeral(t, s) /\ c = At(t, l)
  /\ {"type", "loc"} \subseteq DOMAIN tok
  /\ TokenAt(t, tok, s, l.pos - 1)

LiteralInv(t, p, s, b) ==
  /\ s <= p /\ p <= Len(t) /\ t[s] \in DOMAIN LiteralType
  /\ s + Len(b) <= p /\ Plain(t, s, p)

CursorInv == text \in Texts /\ Exact(text, it) /\ start \in 1..it.pos

TokensOK(t, toks, sps) ==
  /\ IsSeq(toks) /\ IsSeq(sps) /\ Len(sps) = Len(toks)
  /\ \A k \in 1..Len(toks) : TokenAt(t, toks[k], sps[k][1], sps[k][2])
TokensInv == TokensOK(text, tokens, spans)

Modes == {"next", "line comment", "comment", "word", "number", "suffix",
          "literal", "operator", "finish", "done", "undefined"}
DataInv ==
  /\ cur \in Char \cup {NUL} /\ buf \in Seq(Char \cup {NUL})
  /\ depth \in Nat /\ level \in {"none", "warning", "error"}

LoopInv ==
  /\ mode \in Modes
  /\ mode = "comment" => depth > 0 /\ it.pos > 1
  /\ mode = "word" => WordInv(text, it.pos, start, buf)
  /\ mode = "operator" => OperatorInv(text, it.pos, start, buf)
  /\ mode = "number" => NumberInv(text, it, start, buf, cur, number)
  /\ mode = "suffix" => SuffixInv(text, it, start, cur, token)
  /\ mode = "literal" => LiteralInv(text, it.pos, start, buf)

IInv == CursorInv /\ TokensInv /\ DataInv /\ LoopInv /\ UndefinedOnlyWhen

-----------------------------------------------------------------------------
(* Lines of a text.                                                        *)

LEMMA LargestIs ==
  ASSUME NEW T, NEW x \in T, T \subseteq Nat, \A y \in T : y <= x
  PROVE  Largest(T) = x
<1>1. \A z \in T : (\A y \in T : y <= z) => z = x
  OBVIOUS
<1> QED
  BY <1>1 DEF Largest

LEMMA BreaksFacts ==
  ASSUME NEW t, Len(t) \in Nat, NEW p \in Nat
  PROVE  /\ Breaks(t, p) \subseteq 1..Len(t) /\ IsFiniteSet(Breaks(t, p))
         /\ Cardinality(Breaks(t, p)) \in Nat
         /\ \A i \in Breaks(t, p) : i < p /\ t[i] = NL
<1>1. /\ Breaks(t, p) \subseteq 1..Len(t)
      /\ \A i \in Breaks(t, p) : i < p /\ t[i] = NL
  BY DEF Breaks, LineBreaks
<1>2. IsFiniteSet(1..Len(t))
  BY FS_Interval
<1>3. IsFiniteSet(Breaks(t, p))
  BY <1>1, <1>2, FS_Subset
<1> QED
  BY <1>1, <1>3, FS_CardinalityType

LEMMA BreakIs ==
  ASSUME NEW t, Len(t) \in Nat, NEW p \in Nat
  PROVE  /\ Break(t, p) \in {0} \cup Breaks(t, p)
         /\ Break(t, p) \in Nat
         /\ \A i \in Breaks(t, p) : i <= Break(t, p)
<1>1. Breaks(t, p) \subseteq 1..Len(t)
  BY BreaksFacts
<1>2. \E x \in {0} \cup Breaks(t, p) : \A y \in {0} \cup Breaks(t, p) : y <= x
  <2>1. CASE Breaks(t, p) = {}
    BY <2>1
  <2>2. CASE Breaks(t, p) # {}
    <3>1. PICK x \in Breaks(t, p) : \A y \in Breaks(t, p) : y <= x
      BY <1>1, <2>2, GreatestExists
    <3> QED
      BY <1>1, <3>1
  <2> QED
    BY <2>1, <2>2
<1>3. PICK x \in {0} \cup Breaks(t, p) : \A y \in {0} \cup Breaks(t, p) : y <= x
  BY <1>2
<1>4. Break(t, p) = x
  BY <1>1, <1>3, LargestIs DEF Break
<1> QED
  BY <1>1, <1>3, <1>4

(* One character further: the same line, or the next.                      *)
LEMMA SameLine ==
  ASSUME NEW t, Len(t) \in Nat, NEW p \in 1..Len(t), t[p] # NL
  PROVE  Breaks(t, p + 1) = Breaks(t, p) /\ Break(t, p + 1) = Break(t, p)
<1>1. Breaks(t, p + 1) = Breaks(t, p)
  BY DEF Breaks, LineBreaks
<1> QED
  BY <1>1 DEF Break

LEMMA NextLine ==
  ASSUME NEW t, Len(t) \in Nat, NEW p \in 1..Len(t), t[p] = NL
  PROVE  /\ Cardinality(Breaks(t, p + 1)) = Cardinality(Breaks(t, p)) + 1
         /\ Break(t, p + 1) = p
<1>1. Breaks(t, p + 1) = Breaks(t, p) \cup {p} /\ p \notin Breaks(t, p)
  BY DEF Breaks, LineBreaks
<1>2. /\ IsFiniteSet(Breaks(t, p)) /\ Breaks(t, p) \subseteq 1..Len(t)
      /\ \A i \in Breaks(t, p) : i < p
  <2>1. p \in Nat
    OBVIOUS
  <2> QED
    BY <2>1, BreaksFacts
<1>5. Cardinality(Breaks(t, p) \cup {p}) = Cardinality(Breaks(t, p)) + 1
  BY <1>1, <1>2, FS_AddElement
<1>3. /\ {0} \cup Breaks(t, p + 1) \subseteq Nat /\ p \in {0} \cup Breaks(t, p + 1)
      /\ \A y \in {0} \cup Breaks(t, p + 1) : y <= p
  BY <1>1, <1>2
<1>4. Break(t, p + 1) = p
  BY <1>3, LargestIs DEF Break
<1> QED
  BY <1>1, <1>4, <1>5

LEMMA StartExact ==
  ASSUME NEW t, Len(t) \in Nat
  PROVE  Exact(t, Start)
<1>1. Breaks(t, 1) = {} /\ Breaks(t, 0) = {}
  BY DEF Breaks, LineBreaks
<1>2. Break(t, 1) = 0 /\ Break(t, 0) = 0
  BY <1>1, BreakIs
<1>3. Cardinality(Breaks(t, 1)) = 0
  BY <1>1, FS_EmptySet
<1> QED
  BY <1>2, <1>3 DEF Exact, Spot, Start, Location

LEMMA ForwardExact ==
  ASSUME NEW t, Len(t) \in Nat, NEW l, Exact(t, l)
  PROVE  /\ Exact(t, Forward(t, l))
         /\ Forward(t, l).pos = IF l.pos <= Len(t) THEN l.pos + 1 ELSE l.pos
         /\ l.pos <= Len(t) /\ t[l.pos] # NL => Forward(t, l).line = l.line
<1> DEFINE g == Forward(t, l)
<1>1. /\ l \in Location /\ l.pos \in 1..(Len(t) + 1) /\ l.pos \in Nat
      /\ l.line \in Nat /\ l.col \in Nat /\ l.lastCol \in Nat
  BY DEF Exact, Location
<1>2. CASE ~HasMore(t, l)
  BY <1>1, <1>2 DEF Forward, HasMore
<1>3. CASE HasMore(t, l) /\ t[l.pos] = NL
  <2>1. g = [pos |-> l.pos + 1, line |-> l.line + 1, col |-> 1, lastCol |-> l.col]
    BY <1>3 DEF Forward
  <2>2. l.pos \in 1..Len(t)
    BY <1>1, <1>3 DEF HasMore
  <2>3. /\ Cardinality(Breaks(t, l.pos + 1)) = Cardinality(Breaks(t, l.pos)) + 1
        /\ Break(t, l.pos + 1) = l.pos
    BY <1>3, <2>2, NextLine
  <2>4. g \in Location /\ g.pos \in 1..(Len(t) + 1)
    BY <1>1, <2>1, <2>2 DEF Location
  <2>5. Spot(t, g)
    <3>1. Cardinality(Breaks(t, l.pos)) \in Nat
      BY <1>1, BreaksFacts
    <3>2. l.line = Cardinality(Breaks(t, l.pos)) + 1
      BY DEF Exact, Spot
    <3>3. g.pos = l.pos + 1 /\ g.line = l.line + 1 /\ g.col = 1
      BY <2>1
    <3>4. g.pos - Break(t, g.pos) = 1
      BY <1>1, <2>3, <3>3
    <3> QED
      BY <2>3, <3>1, <3>2, <3>3, <3>4 DEF Spot
  <2>6. g.lastCol = Break(t, g.pos) - Break(t, Break(t, g.pos))
    BY <1>1, <2>1, <2>3 DEF Spot, Exact
  <2> QED
    BY <1>1, <1>3, <2>1, <2>2, <2>4, <2>5, <2>6 DEF Exact
<1>4. CASE HasMore(t, l) /\ t[l.pos] # NL
  <2>1. g = [l EXCEPT !.pos = @ + 1, !.col = @ + 1]
    BY <1>4 DEF Forward
  <2>2. l.pos \in 1..Len(t)
    BY <1>1, <1>4 DEF HasMore
  <2>3. /\ g \in Location /\ g.pos = l.pos + 1 /\ g.col = l.col + 1
        /\ g.line = l.line /\ g.lastCol = l.lastCol
    <3>1. l = [pos |-> l.pos, line |-> l.line, col |-> l.col, lastCol |-> l.lastCol]
      BY <1>1 DEF Location
    <3>2. g = [pos |-> l.pos + 1, line |-> l.line, col |-> l.col + 1, lastCol |-> l.lastCol]
      BY <2>1, <3>1
    <3> QED
      BY <1>1, <3>2 DEF Location
  <2>4. Breaks(t, l.pos + 1) = Breaks(t, l.pos) /\ Break(t, l.pos + 1) = Break(t, l.pos)
    BY <1>4, <2>2, SameLine
  <2>5. Break(t, l.pos) \in Nat
    BY <1>1, BreakIs
  <2>6. Spot(t, g)
    BY <1>1, <2>3, <2>4, <2>5 DEF Spot, Exact
  <2> QED
    BY <1>1, <2>2, <2>3, <2>4, <2>6 DEF Exact
<1> QED
  BY <1>2, <1>3, <1>4

-----------------------------------------------------------------------------
(* Going back over at most one line break, the farthest character passed.  *)

Walk(r, t, l, n) == r = [i \in 0..n |-> IF i = 0 THEN l ELSE Backward(t, r[i - 1])]

LEMMA Walking ==
  ASSUME NEW t, NEW l, NEW n \in Nat
  PROVE  \E r : Walk(r, t, l, n)
<1> DEFINE T == {m \in Nat : ~\E r : Walk(r, t, l, m)}
<1>1. SUFFICES ASSUME T # {} PROVE FALSE
  OBVIOUS
<1>2. PICK m \in T : \A k \in T : m <= k
  BY <1>1, LeastExists
<1>3. CASE m = 0
  <2> DEFINE r == [i \in 0..0 |-> l]
  <2>1. Walk(r, t, l, 0)
    BY DEF Walk
  <2> QED
    BY <1>3, <2>1
<1>4. CASE m > 0
  <2>1. m - 1 \in Nat /\ m - 1 \notin T
    BY <1>2, <1>4
  <2>2. PICK q : Walk(q, t, l, m - 1)
    BY <2>1
  <2> DEFINE r == [i \in 0..m |-> IF i = 0 THEN l ELSE Backward(t, q[i - 1])]
  <2>3. \A i \in 0..(m - 1) : r[i] = q[i]
    BY <2>1, <2>2 DEF Walk
  <2>4. \A i \in 0..m : i # 0 => i - 1 \in 0..(m - 1)
    BY <2>1
  <2>5. \A i \in 0..m : i # 0 => r[i - 1] = q[i - 1]
    BY <2>3, <2>4
  <2>6. r = [i \in 0..m |-> IF i = 0 THEN l ELSE Backward(t, r[i - 1])]
    <3>1. \A i \in 0..m : (IF i = 0 THEN l ELSE Backward(t, q[i - 1]))
                            = IF i = 0 THEN l ELSE Backward(t, r[i - 1])
      BY <2>5
    <3> QED
      BY <3>1, Zenon
  <2>7. Walk(r, t, l, m)
    BY <2>6 DEF Walk
  <2> QED
    BY <2>7
<1> QED
  BY <1>2, <1>3, <1>4

LEMMA BackSteps ==
  ASSUME NEW t, NEW l, NEW n \in Nat
  PROVE  \E r : /\ Back(t, l, n) = r[n] /\ r[0] = l
                /\ \A i \in 1..n : r[i] = Backward(t, r[i - 1])
<1>1. \E r : Walk(r, t, l, n)
  BY Walking
<1> DEFINE w == CHOOSE r : Walk(r, t, l, n)
<1>2. Walk(w, t, l, n)
  BY <1>1
<1>3. Back(t, l, n) = w[n]
  BY DEF Back, Walk
<1> HIDE DEF w
<1>4. w[0] = l /\ \A i \in 1..n : w[i] = Backward(t, w[i - 1])
  BY <1>2 DEF Walk
<1> QED
  BY <1>3, <1>4

(* i characters back from l, on the same line.                             *)
Place == [pos : Int, line : Int, col : Int, lastCol : Int]
Behind(m, l, i) ==
  /\ m.pos = l.pos - i /\ m.line = l.line /\ m.col = l.col - i /\ m.lastCol = l.lastCol

LEMMA BackwardStep ==
  ASSUME NEW t, NEW l \in Location, NEW i \in Nat,
         NEW m, m \in Place, Behind(m, l, i)
  PROVE  /\ Backward(t, m) \in Place
         /\ t[l.pos - i - 1] # NL => Behind(Backward(t, m), l, i + 1)
         /\ t[l.pos - i - 1] = NL =>
              /\ Backward(t, m).pos = l.pos - i - 1 /\ Backward(t, m).line = l.line - 1
              /\ Backward(t, m).col = l.lastCol
<1>1. m = [pos |-> m.pos, line |-> m.line, col |-> m.col, lastCol |-> m.lastCol]
  BY DEF Place
<1>2. /\ m.pos = l.pos - i /\ m.line = l.line /\ m.col = l.col - i /\ m.lastCol = l.lastCol
      /\ l.pos \in Nat /\ l.line \in Nat /\ l.col \in Nat /\ l.lastCol \in Nat
  BY DEF Behind, Location
<1>3. CASE t[m.pos - 1] = NL
  <2>1. Backward(t, m) = [m EXCEPT !.pos = @ - 1, !.line = @ - 1, !.col = m.lastCol]
    BY <1>3 DEF Backward
  <2>2. Backward(t, m) = [pos |-> m.pos - 1, line |-> m.line - 1, col |-> m.lastCol,
                          lastCol |-> m.lastCol]
    BY <1>1, <2>1
  <2> QED
    BY <1>2, <1>3, <2>2 DEF Behind, Place
<1>4. CASE t[m.pos - 1] # NL
  <2>1. Backward(t, m) = [m EXCEPT !.pos = @ - 1, !.col = @ - 1]
    BY <1>4 DEF Backward
  <2>2. Backward(t, m) = [pos |-> m.pos - 1, line |-> m.line, col |-> m.col - 1,
                          lastCol |-> m.lastCol]
    BY <1>1, <2>1
  <2> QED
    BY <1>2, <1>4, <2>2 DEF Behind, Place
<1> QED
  BY <1>3, <1>4

Alike(t, r, l, i) ==
  /\ r[i] \in Place /\ Behind(r[i], l, i)
  /\ Breaks(t, l.pos - i) = Breaks(t, l.pos) /\ Break(t, l.pos - i) = Break(t, l.pos)

LEMMA BackSpot ==
  ASSUME NEW t, Len(t) \in Nat, NEW l, Exact(t, l), NEW n \in Nat, n < l.pos,
         Plain(t, l.pos - n + 1, l.pos - 1)
  PROVE  /\ Spot(t, Back(t, l, n)) /\ Back(t, l, n).pos = l.pos - n
         /\ n > 0 /\ t[l.pos - n] # NL => Back(t, l, n).line = l.line
<1>1. PICK r : /\ Back(t, l, n) = r[n] /\ r[0] = l
               /\ \A i \in 1..n : r[i] = Backward(t, r[i - 1])
  BY BackSteps
<1>2. /\ l \in Location /\ l.pos \in 1..(Len(t) + 1)
      /\ l.pos \in Nat /\ l.line \in Nat /\ l.col \in Nat /\ l.lastCol \in Nat
  BY DEF Exact, Location
<1>3. CASE n = 0
  BY <1>1, <1>2, <1>3 DEF Exact, Location
<1>4. CASE n > 0
  <2>1. Alike(t, r, l, 0)
    <3>1. r[0] \in Place /\ l.pos - 0 = l.pos /\ l.col - 0 = l.col
      BY <1>1, <1>2 DEF Location, Place
    <3> QED
      BY <1>1, <3>1 DEF Behind, Alike
  <2>2. \A i \in Nat : i < n => Alike(t, r, l, i)
    <3>1. SUFFICES ASSUME {x \in Nat : x < n /\ ~Alike(t, r, l, x)} # {} PROVE FALSE
      OBVIOUS
    <3>2. PICK i \in Nat : /\ i < n /\ ~Alike(t, r, l, i)
                          /\ \A k \in Nat : k < n /\ ~Alike(t, r, l, k) => i <= k
      <4> DEFINE T == {x \in Nat : x < n /\ ~Alike(t, r, l, x)}
      <4>1. PICK i \in T : \A k \in T : i <= k
        BY <3>1, LeastExists
      <4> QED
        BY <4>1
    <3>3. i # 0
      BY <2>1, <3>2
    <3>15. PICK j \in Nat : j = i - 1
      BY <3>2, <3>3
    <3>4. j \in Nat /\ j < n /\ i \in 1..n /\ i = j + 1
      BY <3>2, <3>3, <3>15
    <3>5. Alike(t, r, l, j)
      BY <3>2, <3>4
    <3>6. l.pos - j - 1 \in (l.pos - n + 1)..(l.pos - 1) /\ l.pos - j - 1 \in 1..Len(t)
      <4>1. i \in Nat /\ i < n /\ l.pos - j - 1 = l.pos - i
        BY <1>2, <3>2, <3>4
      <4>2. \A x, len \in Nat : n < x /\ x <= len + 1 =>
              /\ x - i \in (x - n + 1)..(x - 1) /\ x - i \in 1..len
        BY <3>4, <4>1
      <4>3. l.pos \in Nat /\ Len(t) \in Nat /\ n < l.pos /\ l.pos <= Len(t) + 1
        BY <1>2
      <4>4. l.pos - i \in (l.pos - n + 1)..(l.pos - 1) /\ l.pos - i \in 1..Len(t)
        BY <4>2, <4>3
      <4> QED
        BY <4>1, <4>4
    <3>7. t[l.pos - j - 1] # NL
      BY <3>6 DEF Plain
    <3>8. r[i] = Backward(t, r[j])
      BY <1>1, <3>4
    <3>14. l.pos - i = l.pos - j - 1
      <4>1. \A x \in Nat : x - (j + 1) = x - j - 1
        OBVIOUS
      <4> QED
        BY <1>2, <3>4, <4>1
    <3>9. r[i] \in Place /\ Behind(r[i], l, j + 1)
      <4>1. PICK m : m = r[j]
        OBVIOUS
      <4>2. m \in Place /\ Behind(m, l, j)
        BY <3>5, <4>1 DEF Alike
      <4>3. Backward(t, m) \in Place /\ Behind(Backward(t, m), l, j + 1)
        BY <1>2, <3>4, <3>7, <4>2, BackwardStep
      <4> QED
        BY <3>8, <4>1, <4>3
    <3>10. PICK p \in 1..Len(t) : p = l.pos - j - 1
      BY <3>6
    <3>11. Breaks(t, p + 1) = Breaks(t, p) /\ Break(t, p + 1) = Break(t, p)
      BY <3>7, <3>10, SameLine
    <3>12. p + 1 = l.pos - j /\ p = l.pos - i
      BY <1>2, <3>4, <3>10, <3>14
    <3>13. Alike(t, r, l, i)
      BY <3>4, <3>5, <3>9, <3>11, <3>12 DEF Alike
    <3> QED
      BY <3>2, <3>13
  <2>15. PICK k \in Nat : k = n - 1
    BY <1>4
  <2>3. k \in Nat /\ k < n /\ n = k + 1 /\ n \in 1..n
    BY <1>4, <2>15
  <2>4. Alike(t, r, l, k)
    BY <2>2, <2>3
  <2>5. r[n] = Backward(t, r[k])
    BY <1>1, <2>3, <2>15
  <2>6. PICK p \in 1..Len(t) : p = l.pos - k - 1
    BY <1>2, <2>3
  <2>7. p + 1 = l.pos - k /\ p = l.pos - n /\ p \in Nat
    BY <1>2, <2>3, <2>6
  <2>8. /\ l.line = Cardinality(Breaks(t, l.pos)) + 1
        /\ l.col = l.pos - Break(t, l.pos)
        /\ l.lastCol = Break(t, l.pos) - Break(t, Break(t, l.pos))
    BY DEF Exact, Spot
  <2>9. Cardinality(Breaks(t, p)) \in Nat /\ Break(t, p) \in Nat
    BY <2>7, BreaksFacts, BreakIs
  <2>12. PICK m : m = r[k]
    OBVIOUS
  <2>13. m \in Place /\ Behind(m, l, k)
    BY <2>4, <2>12 DEF Alike
  <2>14. /\ t[p] # NL => Behind(Backward(t, m), l, k + 1)
         /\ t[p] = NL => /\ Backward(t, m).pos = p /\ Backward(t, m).line = l.line - 1
                         /\ Backward(t, m).col = l.lastCol
    <3>1. /\ t[l.pos - k - 1] # NL => Behind(Backward(t, m), l, k + 1)
          /\ t[l.pos - k - 1] = NL =>
               /\ Backward(t, m).pos = l.pos - k - 1 /\ Backward(t, m).line = l.line - 1
               /\ Backward(t, m).col = l.lastCol
      BY <1>2, <2>3, <2>13, BackwardStep
    <3> QED
      BY <2>6, <3>1
  <2>10. CASE t[p] = NL
    <3>1. r[n].pos = p /\ r[n].line = l.line - 1 /\ r[n].col = l.lastCol
      BY <2>5, <2>10, <2>12, <2>14
    <3>2. Cardinality(Breaks(t, p + 1)) = Cardinality(Breaks(t, p)) + 1 /\ Break(t, p + 1) = p
      BY <2>10, NextLine
    <3>3. Cardinality(Breaks(t, l.pos)) = Cardinality(Breaks(t, p)) + 1 /\ Break(t, l.pos) = p
      BY <2>4, <2>7, <3>2 DEF Alike
    <3>4. r[n].line = Cardinality(Breaks(t, p)) + 1 /\ r[n].col = p - Break(t, p)
      BY <2>8, <2>9, <3>1, <3>3
    <3> QED
      BY <1>1, <2>7, <2>10, <3>1, <3>4 DEF Spot
  <2>11. CASE t[p] # NL
    <3>1. Behind(r[n], l, n)
      BY <2>3, <2>5, <2>11, <2>12, <2>14
    <3>2. Breaks(t, p + 1) = Breaks(t, p) /\ Break(t, p + 1) = Break(t, p)
      BY <2>11, SameLine
    <3>3. Breaks(t, l.pos) = Breaks(t, p) /\ Break(t, l.pos) = Break(t, p)
      BY <2>4, <2>7, <3>2 DEF Alike
    <3>4. r[n].pos = p /\ r[n].line = l.line /\ r[n].col = l.col - n
      BY <2>7, <3>1 DEF Behind
    <3>5. l.col - n = p - Break(t, p)
      <4>1. \A x, b \in Nat : x - b - n = x - n - b
        OBVIOUS
      <4>2. l.col = l.pos - Break(t, p) /\ p = l.pos - n
        BY <2>7, <2>8, <3>3
      <4> QED
        BY <1>2, <2>9, <4>1, <4>2
    <3> QED
      BY <1>1, <2>7, <2>8, <3>3, <3>4, <3>5 DEF Spot
  <2> QED
    BY <2>10, <2>11
<1> QED
  BY <1>3, <1>4

-----------------------------------------------------------------------------
(* A literal stands for no more characters than it has.                    *)

Put(ch, r) == [r EXCEPT !.value = <<ch>> \o @]
Nothing(b, i) == [value |-> <<>>, warned |-> FALSE, past |-> i > Len(b) + 1]
Unescaped(f, b, quote, i) ==
  IF i > Len(b) THEN Nothing(b, i)
  ELSE IF b[i] # "backslash" \/ i = Len(b) THEN Put(b[i], f[i + 1])
  ELSE LET e == b[i + 1]
           most == IF e = "x" THEN 2 ELSE IF e = "o" THEN 3 ELSE 0
           n == Digits(b, i + 2, most, IF e = "x" THEN isCharHexDigit ELSE isCharOctDigit)
           next == i + 2 + n + IF n < most /\ i + 2 + n > Len(b) THEN 1 ELSE 0
       IN  CASE e \in {"backslash", quote} -> Put(e, f[i + 2])
             [] e \in {"n", "b", "a", "f"} -> Put("control", f[i + 2])
             [] e \in {"quote", "apostrophe"} \ {quote} -> Put("backslash", f[i + 2])
             [] e \in {"x", "o"} /\ n > 0 -> Put("code", f[next])
             [] OTHER -> [f[next] EXCEPT !.warned = TRUE]

LEMMA LargestIn ==
  ASSUME NEW n \in Nat, NEW T, T \subseteq 0..n, 0 \in T
  PROVE  Largest(T) \in T
<1>1. \E x \in T : \A y \in T : y <= x
  <2>1. CASE T \ {0} = {}
    BY <2>1
  <2>2. CASE T \ {0} # {}
    <3>1. T \ {0} \subseteq 1..n
      OBVIOUS
    <3>2. PICK x \in T \ {0} : \A y \in T \ {0} : y <= x
      BY <2>2, <3>1, GreatestExists
    <3> QED
      BY <3>1, <3>2
  <2> QED
    BY <2>1, <2>2
<1>2. PICK x \in T : \A y \in T : y <= x
  BY <1>1
<1>3. T \subseteq Nat
  OBVIOUS
<1> QED
  BY <1>2, <1>3, LargestIs

LEMMA DigitsBound ==
  ASSUME NEW b, Len(b) \in Nat, NEW i \in Nat, i <= Len(b) + 1, NEW n \in Nat, NEW D
  PROVE  /\ Digits(b, i, n, D) \in 0..n /\ i + Digits(b, i, n, D) <= Len(b) + 1
         /\ \A j \in i..(i + Digits(b, i, n, D) - 1) : b[j] \in D
<1> DEFINE T == {k \in 0..n : i + k <= Len(b) + 1 /\ \A j \in i..(i + k - 1) : b[j] \in D}
<1>1. 0 \in T
  <2>1. \A j \in i..(i + 0 - 1) : FALSE
    OBVIOUS
  <2> QED
    BY <2>1
<1>2. T \subseteq 0..n
  OBVIOUS
<1>3. Digits(b, i, n, D) = Largest(T)
  BY DEF Digits
<1>4. Largest(T) \in T
  <2> HIDE DEF T
  <2> QED
    BY <1>1, <1>2, LargestIn
<1> QED
  BY <1>3, <1>4

Within(r, n) ==
  {"value", "warned", "past"} \subseteq DOMAIN r /\ IsSeq(r.value) /\ Len(r.value) <= n

LEMMA PutWithin ==
  ASSUME NEW ch, NEW r, NEW n \in Nat, Within(r, n)
  PROVE  Within(Put(ch, r), n + 1)
<1> DEFINE v == <<ch>> \o r.value
<1>1. Put(ch, r).value = v /\ DOMAIN Put(ch, r) = DOMAIN r
  BY DEF Put, Within
<1>2. IsSeq(r.value) /\ Len(r.value) <= n /\ Len(r.value) \in Nat
  BY SeqFacts DEF Within
<1> DEFINE S == {r.value[k] : k \in DOMAIN r.value} \cup {ch}
<1>3. r.value \in Seq(S) /\ <<ch>> \in Seq(S) /\ Len(<<ch>>) = 1
  BY <1>2, SeqMonotonic DEF IsSeq
<1> HIDE DEF S
<1>4. v \in Seq(S) /\ Len(v) = 1 + Len(r.value)
  BY <1>3, ConcatProperties
<1> HIDE DEF v
<1>5. IsSeq(v) /\ Len(v) <= n + 1
  BY <1>2, <1>4, SeqIsSeq
<1> QED
  BY <1>1, <1>5 DEF Within

Rest(b, i) == IF i > Len(b) THEN 0 ELSE Len(b) + 1 - i

(* Which later value the one at i is made of.                              *)
Takes(b, q, i, j, ch) ==
  \/ \A f : Unescaped(f, b, q, i) = Put(ch, f[j])
  \/ b[i] = "backslash" /\ \A f : Unescaped(f, b, q, i) = [f[j] EXCEPT !.warned = TRUE]
FromLater(b, q, i) ==
  \/ i > Len(b) /\ \A f : Unescaped(f, b, q, i) = Nothing(b, i)
  \/ i <= Len(b) /\ \E j \in (i + 1)..(Len(b) + 2) :
       (j > Len(b) + 1 => ShortEscape(b)) /\ \E ch : Takes(b, q, i, j, ch)

LEMMA UnescapedCases ==
  ASSUME NEW b, Len(b) \in Nat, NEW q, NEW i \in 1..(Len(b) + 2)
  PROVE  FromLater(b, q, i)
<1>1. CASE i > Len(b)
  BY <1>1 DEF Unescaped, FromLater
<1>2. CASE i <= Len(b) /\ (b[i] # "backslash" \/ i = Len(b))
  <2>1. \A f : Unescaped(f, b, q, i) = Put(b[i], f[i + 1])
    BY <1>2 DEF Unescaped
  <2>2. i + 1 \in (i + 1)..(Len(b) + 2) /\ ~(i + 1 > Len(b) + 1)
    BY <1>2
  <2>3. Takes(b, q, i, i + 1, b[i])
    BY <2>1 DEF Takes
  <2> QED
    BY <1>2, <2>2, <2>3 DEF FromLater
<1>3. CASE i <= Len(b) /\ ~(b[i] # "backslash" \/ i = Len(b))
  <2> DEFINE e == b[i + 1]
             most == IF e = "x" THEN 2 ELSE IF e = "o" THEN 3 ELSE 0
             D == IF e = "x" THEN isCharHexDigit ELSE isCharOctDigit
             n == Digits(b, i + 2, most, D)
             next == i + 2 + n + IF n < most /\ i + 2 + n > Len(b) THEN 1 ELSE 0
  <2>1. /\ i + 2 \in Nat /\ i + 2 <= Len(b) + 1 /\ i + 2 \in (i + 1)..(Len(b) + 2)
        /\ i \in 1..Len(b) /\ i < Len(b) /\ ~(i + 2 > Len(b) + 1)
    BY <1>3
  <2>2. /\ most \in Nat /\ (most > 0 => e \in {"x", "o"})
        /\ (e = "x" => most = 2 /\ D = isCharHexDigit)
        /\ (e = "o" => most = 3 /\ D = isCharOctDigit)
    OBVIOUS
  <2>3. \A f : Unescaped(f, b, q, i) =
          CASE e \in {"backslash", q} -> Put(e, f[i + 2])
            [] e \in {"n", "b", "a", "f"} -> Put("control", f[i + 2])
            [] e \in {"quote", "apostrophe"} \ {q} -> Put("backslash", f[i + 2])
            [] e \in {"x", "o"} /\ n > 0 -> Put("code", f[next])
            [] OTHER -> [f[next] EXCEPT !.warned = TRUE]
    <3>1. i \in Int /\ ~(i > Len(b))
      BY <1>3
    <3> QED
      BY <1>3, <3>1, Zenon DEF Unescaped
  <2> HIDE DEF e, most, D
  <2>4. /\ n \in 0..most /\ i + 2 + n <= Len(b) + 1
        /\ \A j \in (i + 2)..(i + 2 + n - 1) : b[j] \in D
    BY <2>1, <2>2, DigitsBound
  <2> HIDE DEF n
  <2>5. next \in (i + 1)..(Len(b) + 2)
    BY <2>1, <2>2, <2>4
  <2>6. next > Len(b) + 1 => ShortEscape(b)
    <3>1. SUFFICES ASSUME next > Len(b) + 1 PROVE ShortEscape(b)
      OBVIOUS
    <3>2. n < most /\ i + 2 + n = Len(b) + 1 /\ n \in Nat
      BY <2>1, <2>2, <2>4, <3>1
    <3>3. e \in {"x", "o"} /\ Len(b) < i + 1 + most /\ i + 2 + n - 1 = Len(b)
      BY <2>1, <2>2, <3>2
    <3>4. \A j \in (i + 2)..Len(b) : b[j] \in D
      BY <2>4, <3>3
    <3>5. b[i] = "backslash" /\ b[i + 1] = e
      BY <1>3 DEF e
    <3>6. CASE e = "x"
      BY <2>1, <2>2, <3>3, <3>4, <3>5, <3>6 DEF ShortEscape, ShortOf
    <3>7. CASE e = "o"
      BY <2>1, <2>2, <3>3, <3>4, <3>5, <3>7 DEF ShortEscape, ShortOf
    <3> QED
      BY <3>3, <3>6, <3>7
  <2> HIDE DEF next
  <2>7. \/ \A f : Unescaped(f, b, q, i) = Put(e, f[i + 2])
        \/ \A f : Unescaped(f, b, q, i) = Put("control", f[i + 2])
        \/ \A f : Unescaped(f, b, q, i) = Put("backslash", f[i + 2])
        \/ \A f : Unescaped(f, b, q, i) = Put("code", f[next])
        \/ \A f : Unescaped(f, b, q, i) = [f[next] EXCEPT !.warned = TRUE]
    BY <2>3
  <2>8. \E ch : Takes(b, q, i, i + 2, ch) \/ Takes(b, q, i, next, ch)
    BY <1>3, <2>7 DEF Takes
  <2> QED
    BY <1>3, <2>1, <2>5, <2>6, <2>8 DEF FromLater
<1>4. i > Len(b) \/ i <= Len(b)
  OBVIOUS
<1> QED
  BY <1>1, <1>2, <1>3, <1>4, Zenon

Unescapes(r, b, q, m) == r = [i \in m..(Len(b) + 2) |-> Unescaped(r, b, q, i)]

LEMMA Unescaping ==
  ASSUME NEW b, Len(b) \in Nat, NEW q
  PROVE  \E r : Unescapes(r, b, q, 1)
<1> DEFINE N == Len(b) + 2
           None(d) == d <= N /\ ~\E r : Unescapes(r, b, q, N + 1 - d)
           T == {d \in Nat : None(d)}
<1>1. SUFFICES ASSUME ~\E r : Unescapes(r, b, q, 1) PROVE FALSE
  OBVIOUS
<1>2. N \in Nat /\ N + 1 - N = 1
  OBVIOUS
<1>3. None(N)
  BY <1>1, <1>2
<1>4. N \in T
  BY <1>2, <1>3
<1>5. PICK d \in T : \A k \in T : d <= k
  BY <1>4, LeastExists
<1>6. d \in Nat /\ d <= N /\ ~\E r : Unescapes(r, b, q, N + 1 - d)
  BY <1>5
<1>7. CASE d = 0
  <2> DEFINE r == [i \in (N + 1)..N |-> 0]
  <2>1. (N + 1)..N = {}
    BY <1>2
  <2>2. r = [i \in (N + 1)..N |-> Unescaped(r, b, q, i)]
    BY <2>1
  <2>3. N + 1 - 0 = N + 1
    BY <1>2
  <2>4. Unescapes(r, b, q, N + 1)
    BY <2>2 DEF Unescapes
  <2> QED
    BY <1>6, <1>7, <2>3, <2>4
<1>8. CASE d > 0
  <2>1. PICK m \in Nat : m = N + 1 - d
    <3>1. \A x, y \in Nat : y <= x => x + 1 - y \in Nat
      OBVIOUS
    <3>2. N + 1 - d \in Nat
      BY <1>2, <1>6, <3>1
    <3> QED
      BY <3>2
  <2>2. PICK c \in Nat : c = d - 1
    BY <1>6, <1>8
  <2>3. c \notin T
    BY <1>5, <1>6, <2>2
  <2>4. N + 1 - c = m + 1 /\ c <= N /\ m \in 1..N
    BY <1>2, <1>6, <1>8, <2>1, <2>2
  <2>5. PICK g : Unescapes(g, b, q, m + 1)
    <3>1. ~None(c)
      BY <2>3
    <3>2. \E g : Unescapes(g, b, q, N + 1 - c)
      BY <2>4, <3>1
    <3> QED
      BY <2>4, <3>2
  <2> DEFINE r == [i \in m..N |-> IF i = m THEN Unescaped(g, b, q, m) ELSE g[i]]
  <2>6. \A i \in (m + 1)..N : r[i] = g[i] /\ g[i] = Unescaped(g, b, q, i)
    <3>1. g = [i \in (m + 1)..N |-> Unescaped(g, b, q, i)]
      BY <2>5 DEF Unescapes
    <3>2. ASSUME NEW i \in (m + 1)..N PROVE i \in m..N /\ i # m
      BY <2>4, <3>2
    <3>3. ASSUME NEW i \in (m + 1)..N PROVE g[i] = Unescaped(g, b, q, i)
      BY <3>1, <3>3, Zenon
    <3>4. ASSUME NEW i \in (m + 1)..N PROVE r[i] = g[i]
      BY <3>2, <3>4, Zenon
    <3> QED
      BY <3>3, <3>4
  <2> HIDE DEF r
  <2>7. ASSUME NEW i \in m..N PROVE Unescaped(g, b, q, i) = Unescaped(r, b, q, i)
    <3>1. i \in 1..(Len(b) + 2)
      BY <2>4
    <3>2. CASE i > Len(b) /\ \A f : Unescaped(f, b, q, i) = Nothing(b, i)
      BY <3>2
    <3>3. CASE \E j \in (i + 1)..(Len(b) + 2) : \E ch : Takes(b, q, i, j, ch)
      <4>0. PICK j \in (i + 1)..(Len(b) + 2) : \E ch : Takes(b, q, i, j, ch)
        BY <3>3
      <4>1. PICK ch : Takes(b, q, i, j, ch)
        BY <4>0
      <4>2. j \in (m + 1)..N
        BY <2>4
      <4>3. r[j] = g[j]
        BY <2>6, <4>2
      <4> QED
        BY <4>1, <4>3 DEF Takes
    <3> QED
      BY <3>1, <3>2, <3>3, UnescapedCases DEF FromLater
  <2>8. r = [i \in m..N |-> Unescaped(r, b, q, i)]
    <3>1. \A i \in m..N : (IF i = m THEN Unescaped(g, b, q, m) ELSE g[i]) = Unescaped(r, b, q, i)
      <4> SUFFICES ASSUME NEW i \in m..N
                   PROVE  (IF i = m THEN Unescaped(g, b, q, m) ELSE g[i]) = Unescaped(r, b, q, i)
        OBVIOUS
      <4>1. Unescaped(g, b, q, i) = Unescaped(r, b, q, i)
        BY <2>7
      <4>2. i # m => i \in (m + 1)..N
        BY <2>4
      <4> QED
        BY <2>6, <4>1, <4>2
    <3> QED
      BY <3>1, Zenon DEF r
  <2>9. Unescapes(r, b, q, m)
    BY <2>8 DEF Unescapes
  <2> QED
    BY <1>6, <2>1, <2>9
<1> QED
  BY <1>6, <1>7, <1>8

(* It stands for no more than it has; a warning is about a backslash, and  *)
(* what is looked for past the end are the digits of its last escape.      *)
LEMMA EscapedMeans ==
  ASSUME NEW b, Len(b) \in Nat, NEW q
  PROVE  /\ Within(Escaped(b, q), Len(b))
         /\ Escaped(b, q).warned => \E i \in 1..Len(b) : b[i] = "backslash"
         /\ Escaped(b, q).past => ShortEscape(b)
<1> DEFINE r == CHOOSE f : Unescapes(f, b, q, 1)
           Good(i) == /\ Within(r[i], Rest(b, i))
                      /\ r[i].warned => \E k \in 1..Len(b) : b[k] = "backslash"
                      /\ r[i].past => ShortEscape(b) \/ i > Len(b) + 1
<1>1. Unescapes(r, b, q, 1)
  BY Unescaping
<1>2. Escaped(b, q) = r[1]
  BY DEF Escaped, Unescapes, Unescaped, Put, Nothing
<1> HIDE DEF r
<1>3. \A i \in 1..(Len(b) + 2) : r[i] = Unescaped(r, b, q, i)
  BY <1>1 DEF Unescapes
<1>4. \A i \in 1..(Len(b) + 2) : Good(i)
  <2> DEFINE T == {i \in 1..(Len(b) + 2) : ~Good(i)}
  <2>1. SUFFICES ASSUME T # {} PROVE FALSE
    OBVIOUS
  <2>2. Len(b) + 2 \in Nat /\ T \subseteq 1..(Len(b) + 2)
    OBVIOUS
  <2>3. PICK i \in T : \A k \in T : k <= i
    <3> HIDE DEF T
    <3> QED
      BY <2>1, <2>2, GreatestExists
  <2> HIDE DEF Good
  <2>4. i \in 1..(Len(b) + 2) /\ ~Good(i)
    OBVIOUS
  <2>5. CASE i > Len(b) /\ \A f : Unescaped(f, b, q, i) = Nothing(b, i)
    <3>1. r[i] = Nothing(b, i)
      BY <1>3, <2>4, <2>5
    <3>2. Rest(b, i) = 0
      BY <2>5 DEF Rest
    <3>3. Within(r[i], Rest(b, i))
      BY <3>1, <3>2, NothingIsSeq DEF Within, Nothing
    <3>4. ~r[i].warned /\ (r[i].past => i > Len(b) + 1)
      <4>1. ~Nothing(b, i).warned
        BY DEF Nothing
      <4>2. Nothing(b, i).past <=> i > Len(b) + 1
        BY Zenon DEF Nothing
      <4> QED
        BY <3>1, <4>1, <4>2
    <3> QED
      BY <2>4, <3>3, <3>4 DEF Good
  <2>6. CASE i <= Len(b) /\ \E j \in (i + 1)..(Len(b) + 2) :
               (j > Len(b) + 1 => ShortEscape(b)) /\ \E ch : Takes(b, q, i, j, ch)
    <3>0. PICK j \in (i + 1)..(Len(b) + 2) :
            (j > Len(b) + 1 => ShortEscape(b)) /\ \E ch : Takes(b, q, i, j, ch)
      BY <2>6
    <3>1. PICK ch : Takes(b, q, i, j, ch)
      BY <3>0
    <3>2. j \in 1..(Len(b) + 2) /\ j > i /\ j \notin T
      BY <2>3, <2>4
    <3>3. Good(j)
      BY <3>2
    <3>4. Rest(b, j) \in Nat /\ Rest(b, i) \in Nat /\ Rest(b, j) + 1 <= Rest(b, i)
      BY <2>4, <2>6, <3>2 DEF Rest
    <3>5. PICK w : w = r[j]
      OBVIOUS
    <3>6. \/ r[i] = Put(ch, w)
          \/ r[i] = [w EXCEPT !.warned = TRUE] /\ b[i] = "backslash"
      BY <1>3, <2>4, <3>1, <3>5 DEF Takes
    <3>7. /\ Within(w, Rest(b, j))
          /\ w.warned => \E k \in 1..Len(b) : b[k] = "backslash"
          /\ w.past => ShortEscape(b)
      BY <3>0, <3>3, <3>5 DEF Good
    <3>8. CASE r[i] = Put(ch, w)
      <4>1. Within(r[i], Rest(b, j) + 1)
        BY <3>4, <3>7, <3>8, PutWithin
      <4>2. Within(r[i], Rest(b, i))
        BY <3>4, <4>1, SeqFacts DEF Within
      <4>3. r[i].warned = w.warned /\ r[i].past = w.past
        BY <3>7, <3>8 DEF Put, Within
      <4> QED
        BY <2>4, <3>7, <4>2, <4>3 DEF Good
    <3>9. CASE r[i] = [w EXCEPT !.warned = TRUE] /\ b[i] = "backslash"
      <4>1. DOMAIN r[i] = DOMAIN w /\ r[i].value = w.value /\ r[i].past = w.past
        BY <3>7, <3>9 DEF Within
      <4>2. Within(r[i], Rest(b, i))
        BY <3>4, <3>7, <4>1, SeqFacts DEF Within
      <4>3. i \in 1..Len(b)
        BY <2>4, <2>6
      <4> QED
        BY <2>4, <3>7, <3>9, <4>1, <4>2, <4>3 DEF Good
    <3> QED
      BY <3>6, <3>8, <3>9
  <2>7. FromLater(b, q, i)
    BY <2>4, UnescapedCases
  <2> QED
    BY <2>5, <2>6, <2>7, Zenon DEF FromLater
<1>5. Rest(b, 1) = Len(b)
  BY DEF Rest
<1>6. 1 \in 1..(Len(b) + 2) /\ ~(1 > Len(b) + 1)
  OBVIOUS
<1> QED
  BY <1>2, <1>4, <1>5, <1>6

-----------------------------------------------------------------------------
(* Where no message can be made.                                           *)

Unshown(t, l) ==
  \/ l.pos <= Len(t) /\ t[l.pos] = NL
  \/ l.pos = Len(t) + 1 /\ Len(t) > 0 /\ t[Len(t)] = NL
  \/ Len(t) = 0
  \/ t[1] = NL /\ l.line = 2

LEMMA SmallestIn ==
  ASSUME NEW T, T \subseteq Nat, T # {}
  PROVE  Smallest(T) \in T
<1>1. PICK x \in T : \A y \in T : x <= y
  BY LeastExists
<1>2. \A z \in T : (\A y \in T : z <= y) => z = x
  BY <1>1
<1> QED
  BY <1>1, <1>2 DEF Smallest

LEMMA MessageFacts ==
  ASSUME NEW t, Len(t) \in Nat, NEW l, l.pos \in 1..(Len(t) + 1), Spot(t, l)
  PROVE  MessageDefined(t, l) \/ Unshown(t, l)
<1>1. SUFFICES ASSUME ~Unshown(t, l) PROVE MessageDefined(t, l)
  OBVIOUS
<1> DEFINE p == l.pos
           begin == BeginningOfLine(t, p)
<1>2. /\ p \in 1..(Len(t) + 1) /\ p \in Nat
      /\ p <= Len(t) => t[p] # NL
      /\ p = Len(t) + 1 => t[Len(t)] # NL
      /\ Len(t) > 0
      /\ ~(t[1] = NL /\ l.line = 2)
  BY <1>1 DEF Unshown
<1>3. {i \in LineBreaks(t) : i <= p} = Breaks(t, p)
  BY <1>2 DEF LineBreaks, Breaks
<1>4. begin = Break(t, p) + 1
  BY <1>3 DEF BeginningOfLine, Break
<1>5. /\ Breaks(t, p) \subseteq 1..Len(t) /\ IsFiniteSet(Breaks(t, p))
      /\ \A i \in Breaks(t, p) : i < p /\ t[i] = NL
      /\ Break(t, p) \in {0} \cup Breaks(t, p) /\ Break(t, p) \in Nat
      /\ \A i \in Breaks(t, p) : i <= Break(t, p)
  BY <1>2, BreaksFacts, BreakIs
<1>6. l.line = Cardinality(Breaks(t, p)) + 1
  BY DEF Spot
<1> HIDE DEF p, begin
<1>7. begin <= p
  BY <1>2, <1>4, <1>5
<1>8. begin <= EndOfLine(t, p)
  <2> DEFINE T == {Len(t)} \cup {i \in LineBreaks(t) : i >= begin}
  <2>1. EndOfLine(t, p) = Smallest(T)
    BY DEF EndOfLine, begin
  <2>2. begin <= Len(t)
    <3>1. Break(t, p) # Len(t)
      BY <1>2, <1>5
    <3> QED
      BY <1>2, <1>4, <1>5, <3>1
  <2>3. T \subseteq Nat /\ T # {} /\ \A i \in T : begin <= i
    BY <1>4, <1>5, <2>2 DEF LineBreaks
  <2> HIDE DEF T
  <2>4. Smallest(T) \in T
    BY <2>3, SmallestIn
  <2> QED
    BY <2>1, <2>3, <2>4
<1>9. ASSUME l.line > 1 PROVE begin > 2
  <2>1. SUFFICES ASSUME Break(t, p) <= 1 PROVE FALSE
    BY <1>4, <1>5
  <2>2. Breaks(t, p) # {}
    <3>1. Breaks(t, p) = {} => Cardinality(Breaks(t, p)) = 0
      BY <1>5, FS_EmptySet
    <3> QED
      BY <1>6, <1>9, <3>1
  <2>3. Break(t, p) = 1 /\ Breaks(t, p) = {1}
    BY <1>5, <2>1, <2>2
  <2>4. Cardinality(Breaks(t, p)) = 1
    BY <2>3, FS_Singleton
  <2> QED
    BY <1>2, <1>5, <1>6, <2>3, <2>4
<1> QED
  BY <1>7, <1>8, <1>9 DEF MessageDefined, begin, p

-----------------------------------------------------------------------------
(* The text at the cursor.                                                 *)

LEMMA CharFacts ==
  /\ NUL \notin Char /\ NL \in Char
  /\ isValidIdentifierChar \subseteq Char \ {NL} /\ isCharPunctuation \subseteq Char \ {NL}
  /\ isCharAlnum \subseteq Char \ {NL} /\ isCharHexDigit \cup {"."} \subseteq Char \ {NL}
  /\ isCharDigit \cup {"."} \subseteq isCharHexDigit \cup {"."}
  /\ Stray \subseteq Char \ {NL}
BY DEF NUL, NL, Char, isValidIdentifierChar, isCharPunctuation, isCharAlnum, isCharHexDigit,
       isCharDigit, isCharOctDigit, isCharBinDigit, isCharAlpha, Stray, isCharControlCharacter,
       isCharWhitespace

LEMMA PlaceFacts ==
  ASSUME NEW t \in Seq(Char), NEW l, Exact(t, l)
  PROVE  /\ Len(t) \in Nat /\ l.pos \in 1..(Len(t) + 1) /\ l.pos \in Nat
         /\ l.pos <= Len(t) => HasMore(t, l) /\ At(t, l) = t[l.pos] /\ At(t, l) \in Char
         /\ l.pos > Len(t) => ~HasMore(t, l) /\ At(t, l) = NUL
         /\ HasMore(t, l) => l.pos <= Len(t)
         /\ At(t, l) # NUL => l.pos <= Len(t)
<1>1. Len(t) \in Nat /\ DOMAIN t = 1..Len(t)
  BY LenProperties
<1>2. l.pos \in 1..(Len(t) + 1)
  BY DEF Exact
<1>3. \A i \in 1..Len(t) : t[i] \in Char
  BY <1>1
<1> QED
  BY <1>1, <1>2, <1>3 DEF HasMore, At

LEMMA CursorFacts ==
  ASSUME CursorInv
  PROVE  /\ text \in Seq(Char) /\ Len(text) \in Nat /\ Exact(text, it)
         /\ it.pos \in 1..(Len(text) + 1) /\ it.pos \in Nat
         /\ start \in Nat /\ start \in 1..it.pos
         /\ it.pos <= Len(text) => More /\ Here = text[it.pos] /\ Here \in Char
         /\ it.pos > Len(text) => ~More /\ Here = NUL
         /\ More => it.pos <= Len(text)
         /\ Here # NUL => it.pos <= Len(text)
         /\ Exact(text, Forward(text, it))
         /\ it.pos <= Len(text) => Forward(text, it).pos = it.pos + 1
         /\ it.pos > Len(text) => Forward(text, it).pos = it.pos
<1>1. text \in Seq(Char) /\ Exact(text, it) /\ start \in 1..it.pos
  BY TextsAssumption DEF CursorInv
<1>2. /\ Len(text) \in Nat /\ it.pos \in 1..(Len(text) + 1) /\ it.pos \in Nat
      /\ it.pos <= Len(text) => More /\ Here = text[it.pos] /\ Here \in Char
      /\ it.pos > Len(text) => ~More /\ Here = NUL
      /\ More => it.pos <= Len(text)
      /\ Here # NUL => it.pos <= Len(text)
  BY <1>1, PlaceFacts DEF More, Here
<1>3. /\ Exact(text, Forward(text, it))
      /\ Forward(text, it).pos = IF it.pos <= Len(text) THEN it.pos + 1 ELSE it.pos
  BY <1>1, <1>2, ForwardExact
<1> QED
  BY <1>1, <1>2, <1>3

-----------------------------------------------------------------------------
(* What the steps share.                                                   *)

(* Going on with another loop, or with the same one: no token is delivered.*)
LEMMA GoOn ==
  ASSUME IInv, text' = text, tokens' = tokens, spans' = spans, mode' # "undefined",
         Exact(text, it'), start' \in 1..it'.pos, DataInv', LoopInv'
  PROVE  IInv'
<1>1. CursorInv'
  BY DEF IInv, CursorInv
<1>2. TokensInv'
  BY DEF IInv, TokensInv
<1>3. UndefinedOnlyWhen'
  BY DEF UndefinedOnlyWhen
<1> QED
  BY <1>1, <1>2, <1>3 DEF IInv

LEMMA Delivered ==
  ASSUME IInv, text' = text, UNCHANGED <<scratch, depth>>,
         NEW tok, NEW from, NEW end, NEW lv, Deliver(tok, from, end, lv),
         start' = from, Exact(text, end), from \in 1..end.pos,
         lv \in {"none", "warning", "error"}, TokenAt(text, tok, from, end.pos - 1)
  PROVE  IInv'
<1>1. it' = end /\ level' = lv /\ mode' \in {"finish", "next"}
  BY DEF Deliver
<1>2. CursorInv'
  BY <1>1 DEF IInv, CursorInv
<1>3. DataInv'
  BY <1>1 DEF IInv, DataInv, scratch
<1>4. LoopInv' /\ UndefinedOnlyWhen'
  BY <1>1 DEF LoopInv, UndefinedOnlyWhen, Modes
<1>5. TokensInv'
  <2>1. /\ IsSeq(tokens) /\ IsSeq(spans) /\ Len(spans) = Len(tokens)
        /\ \A k \in 1..Len(tokens) : TokenAt(text, tokens[k], spans[k][1], spans[k][2])
    BY DEF IInv, TokensInv, TokensOK
  <2>2. CASE tokens' = tokens /\ spans' = spans
    BY <2>2 DEF IInv, TokensInv
  <2>3. CASE tokens' = Append(tokens, tok) /\ spans' = Append(spans, <<from, end.pos - 1>>)
    <3> DEFINE e == <<from, end.pos - 1>>
    <3>1. e[1] = from /\ e[2] = end.pos - 1
      OBVIOUS
    <3> HIDE DEF e
    <3>2. /\ IsSeq(tokens') /\ Len(tokens') = Len(tokens) + 1
          /\ \A k \in 1..Len(tokens) : tokens'[k] = tokens[k]
          /\ tokens'[Len(tokens) + 1] = tok
      BY <2>1, <2>3, Appended
    <3>3. /\ IsSeq(spans') /\ Len(spans') = Len(spans) + 1
          /\ \A k \in 1..Len(spans) : spans'[k] = spans[k]
          /\ spans'[Len(spans) + 1] = e
      BY <2>1, <2>3, Appended DEF e
    <3>4. Len(tokens) \in Nat
      BY <2>1, SeqFacts
    <3>5. ASSUME NEW k \in 1..Len(tokens')
          PROVE  TokenAt(text, tokens'[k], spans'[k][1], spans'[k][2])
      <4>1. CASE k \in 1..Len(tokens)
        BY <2>1, <3>2, <3>3, <4>1
      <4>2. CASE k = Len(tokens) + 1
        <5>1. tokens'[k] = tok /\ spans'[k][1] = from /\ spans'[k][2] = end.pos - 1
          BY <2>1, <3>1, <3>2, <3>3, <4>2
        <5> QED
          BY <5>1
      <4> QED
        BY <3>2, <3>4, <4>1, <4>2
    <3> QED
      BY <2>1, <3>2, <3>3, <3>5 DEF TokensInv, TokensOK
  <2> QED
    BY <2>2, <2>3 DEF Deliver
<1> QED
  BY <1>2, <1>3, <1>4, <1>5 DEF IInv

LEMMA Lost ==
  ASSUME IInv, Undefined, UndefinedOnlyWhen'
  PROVE  IInv'
<1>1. /\ text' = text /\ it' = it /\ start' = start /\ tokens' = tokens /\ spans' = spans
      /\ UNCHANGED <<scratch, depth, level>> /\ mode' = "undefined"
  BY DEF Undefined, Goto
<1>2. CursorInv'
  BY <1>1 DEF IInv, CursorInv
<1>3. DataInv'
  BY <1>1 DEF IInv, DataInv, scratch
<1>4. LoopInv'
  BY <1>1 DEF LoopInv, Modes
<1>5. TokensInv'
  BY <1>1 DEF IInv, TokensInv
<1> QED
  BY <1>2, <1>3, <1>4, <1>5 DEF IInv

(* A message about the cursor, which is not on a line break.               *)
LEMMA LostHere ==
  ASSUME IInv, Undefined, ~Reported(it), Here # NL, More
  PROVE  IInv'
<1>1. /\ Len(text) \in Nat /\ Exact(text, it) /\ it.pos \in 1..(Len(text) + 1)
      /\ it.pos \in Nat /\ it.pos <= Len(text) => Here = text[it.pos]
      /\ More => it.pos <= Len(text)
  BY CursorFacts DEF IInv
<1>2. Unshown(text, it)
  BY <1>1, MessageFacts DEF Reported, Exact
<1>3. /\ text' = text /\ it' = it /\ mode' = "undefined"
  BY DEF Undefined, Goto
<1>4. text[1] = NL /\ it.line = 2
  BY <1>1, <1>2 DEF Unshown
<1>5. UndefinedOnlyWhen'
  BY <1>3, <1>4 DEF UndefinedOnlyWhen
<1> QED
  BY <1>5, Lost

(* A token made of the n characters before its end.                        *)
LEMMA Made ==
  ASSUME NEW t \in Seq(Char), NEW end, Exact(t, end), NEW from \in Nat, from >= 1,
         NEW n \in Nat, from + n = end.pos, Plain(t, from + 1, end.pos - 1),
         NEW tok, tok.loc = Back(t, end, n)
  PROVE  TokenAt(t, tok, from, end.pos - 1)
<1>1. /\ end.pos \in Nat /\ Len(t) \in Nat
  BY PlaceFacts
<1>2. n < end.pos /\ end.pos - n = from /\ end.pos - n + 1 = from + 1
  BY <1>1
<1>3. Spot(t, Back(t, end, n)) /\ Back(t, end, n).pos = from
  BY <1>1, <1>2, BackSpot
<1>4. from <= end.pos - 1 + 1
  BY <1>1
<1> QED
  BY <1>3, <1>4 DEF TokenAt

-----------------------------------------------------------------------------
(* The steps between tokens.                                               *)

LEMMA StillBehind ==
  ASSUME NEW s, NEW p \in Nat, NEW q \in Nat, s \in 1..p, p <= q
  PROVE  s \in 1..q
OBVIOUS

LEMMA EndOfTextStep == ASSUME IInv, EndOfText PROVE IInv'
<1> DEFINE tok == createToken("EOF", <<>>, it)
<1>1. /\ Exact(text, it) /\ it.pos \in Nat /\ it.pos \in 1..(Len(text) + 1)
  BY CursorFacts DEF IInv
<1>2. tok.loc = it
  BY DEF createToken
<1> HIDE DEF tok
<1>3. /\ Deliver(tok, it.pos, it, level) /\ start' = it.pos
      /\ text' = text /\ UNCHANGED <<scratch, depth>>
  BY DEF EndOfText, tok
<1>4. TokenAt(text, tok, it.pos, it.pos - 1)
  BY <1>1, <1>2 DEF TokenAt, Exact
<1>5. level \in {"none", "warning", "error"} /\ it.pos \in 1..it.pos
  BY <1>1 DEF IInv, DataInv
<1> QED
  BY <1>1, <1>3, <1>4, <1>5, Delivered

LEMMA SkipWhitespaceStep == ASSUME IInv, SkipWhitespace PROVE IInv'
<1>1. /\ Exact(text, Forward(text, it)) /\ Forward(text, it).pos >= it.pos
      /\ start \in 1..it.pos /\ it.pos \in Nat /\ Forward(text, it).pos \in Nat
  BY CursorFacts DEF IInv
<1>2. /\ it' = Forward(text, it) /\ mode' = "next"
      /\ UNCHANGED <<text, scratch, depth, start, level, tokens, spans>>
  BY DEF SkipWhitespace, Goto
<1>3. start' \in 1..it'.pos
  BY <1>1, <1>2, StillBehind
<1>4. DataInv' /\ LoopInv'
  BY <1>2 DEF IInv, DataInv, LoopInv, Modes, scratch
<1> QED
  BY <1>1, <1>2, <1>3, <1>4, GoOn

LEMMA TwiceFacts ==
  ASSUME CursorInv, it.pos <= Len(text)
  PROVE  /\ Exact(text, Twice(text, it)) /\ Twice(text, it).pos \in Nat
         /\ it.pos + 1 <= Twice(text, it).pos
         /\ it.pos + 1 <= Len(text) => Twice(text, it).pos = it.pos + 2
<1>1. /\ text \in Seq(Char) /\ Len(text) \in Nat /\ it.pos \in Nat
      /\ Exact(text, Forward(text, it)) /\ Forward(text, it).pos = it.pos + 1
  BY CursorFacts
<1>2. /\ Exact(text, Twice(text, it))
      /\ Twice(text, it).pos = IF it.pos + 1 <= Len(text) THEN it.pos + 1 + 1 ELSE it.pos + 1
  BY <1>1, ForwardExact DEF Twice
<1> QED
  BY <1>1, <1>2

LEMMA ThereFacts ==
  ASSUME CursorInv, There # NUL, it.pos <= Len(text)
  PROVE  it.pos + 1 <= Len(text) /\ There = text[it.pos + 1]
<1>1. /\ text \in Seq(Char) /\ it.pos \in Nat
      /\ Exact(text, Forward(text, it)) /\ Forward(text, it).pos = it.pos + 1
  BY CursorFacts
<1> QED
  BY <1>1, PlaceFacts DEF There

LEMMA BeginCommentStep == ASSUME IInv, BeginComment PROVE IInv'
<1>1. /\ mode' \in {"line comment", "comment"} /\ it' = Twice(text, it)
      /\ mode' = "comment" => depth' = 1
      /\ depth' \in Nat /\ start' = start
      /\ UNCHANGED <<text, scratch, level, tokens, spans>>
  BY DEF BeginComment, Goto
<1>2. Here = "/"
  BY DEF BeginComment, CommentHere
<1>3. /\ it.pos <= Len(text) /\ it.pos \in Nat /\ start \in 1..it.pos /\ it.pos >= 1
  BY <1>2, CursorFacts DEF IInv, NUL
<1>4. Exact(text, it') /\ it'.pos \in Nat /\ it.pos + 1 <= it'.pos
  BY <1>1, <1>3, TwiceFacts DEF IInv
<1>5. start' \in 1..it'.pos
  <2>1. it.pos <= it'.pos
    BY <1>3, <1>4
  <2> QED
    BY <1>1, <1>3, <1>4, <2>1, StillBehind
<1>6. DataInv'
  BY <1>1 DEF IInv, DataInv, scratch
<1>7. LoopInv'
  <2>1. it'.pos > 1
    BY <1>3, <1>4
  <2>2. mode' = "comment" => depth' > 0
    BY <1>1
  <2>3. mode' \in {"line comment", "comment"}
    BY <1>1
  <2> QED
    BY <2>1, <2>2, <2>3 DEF LoopInv, Modes
<1> QED
  BY <1>1, <1>4, <1>5, <1>6, <1>7, GoOn

LEMMA LineCommentStep == ASSUME IInv, LineComment PROVE IInv'
<1>1. /\ Exact(text, Forward(text, it)) /\ Forward(text, it).pos >= it.pos
      /\ start \in 1..it.pos /\ it.pos \in Nat /\ Forward(text, it).pos \in Nat
  BY CursorFacts DEF IInv
<1>2. /\ it' = Forward(text, it) /\ mode' \in {"next", "line comment"}
      /\ UNCHANGED <<text, scratch, depth, start, level, tokens, spans>>
  BY DEF LineComment, Goto
<1>3. start' \in 1..it'.pos
  BY <1>1, <1>2, StillBehind
<1>4. DataInv' /\ LoopInv'
  BY <1>2 DEF IInv, DataInv, LoopInv, Modes, scratch
<1> QED
  BY <1>1, <1>2, <1>3, <1>4, GoOn

LEMMA CommentStep == ASSUME IInv, Comment PROVE IInv'
<1>1. /\ mode = "comment" /\ More /\ it' \in {Twice(text, it), Forward(text, it)}
      /\ depth' \in {depth - 1, depth, depth + 1}
      /\ mode' = IF depth' = 0 THEN "next" ELSE "comment"
      /\ UNCHANGED <<text, scratch, start, level, tokens, spans>>
  BY DEF Comment, Goto
<1>2. /\ it.pos <= Len(text) /\ it.pos \in Nat /\ start \in 1..it.pos /\ it.pos >= 1
      /\ Exact(text, Forward(text, it)) /\ Forward(text, it).pos = it.pos + 1
  BY <1>1, CursorFacts DEF IInv
<1>3. /\ Exact(text, Twice(text, it))
      /\ Twice(text, it).pos \in Nat /\ it.pos + 1 <= Twice(text, it).pos
  BY <1>2, TwiceFacts DEF IInv
<1>4. Exact(text, it') /\ it'.pos \in Nat /\ it.pos + 1 <= it'.pos
  BY <1>1, <1>2, <1>3
<1>5. start' \in 1..it'.pos
  BY <1>1, <1>2, <1>4
<1>6. depth \in Nat /\ depth > 0
  BY <1>1 DEF IInv, DataInv, LoopInv
<1>7. depth' \in Nat /\ mode' \in {"next", "comment"} /\ (mode' = "comment" => depth' > 0)
  BY <1>1, <1>6
<1>8. DataInv'
  BY <1>1, <1>7 DEF IInv, DataInv, scratch
<1>9. LoopInv'
  <2>1. it'.pos > 1
    BY <1>2, <1>4
  <2> QED
    BY <1>7, <2>1 DEF LoopInv, Modes
<1> QED
  BY <1>1, <1>4, <1>5, <1>7, <1>8, <1>9, GoOn

LEMMA UnclosedCommentStep == ASSUME IInv, UnclosedComment PROVE IInv'
<1>1. mode = "comment" /\ ~More
  BY DEF UnclosedComment
<1>2. it.pos > 1 /\ it.pos \in 1..(Len(text) + 1) /\ Len(text) \in Nat /\ Here = NUL
      /\ Exact(text, it) /\ start \in 1..it.pos
  BY <1>1, CursorFacts DEF IInv, LoopInv
<1>3. CASE /\ mode' = "next" /\ level' = "warning"
           /\ UNCHANGED <<text, it, scratch, depth, tokens, start, spans>>
  <2>1. DataInv' /\ LoopInv'
    BY <1>3 DEF IInv, DataInv, LoopInv, Modes, scratch
  <2> QED
    BY <1>2, <1>3, <2>1, GoOn
<1>4. CASE Undefined
  <2>1. depth > 0
    BY <1>1 DEF IInv, LoopInv
  <2>2. text' = text /\ it' = it /\ depth' = depth
    BY <1>4 DEF Undefined
  <2>3. UndefinedOnlyWhen'
    BY <1>1, <2>1, <2>2 DEF UndefinedOnlyWhen, More
  <2> QED
    BY <1>4, <2>3, Lost
<1> QED
  BY <1>3, <1>4 DEF UnclosedComment

LEMMA UnrecognizedStep == ASSUME IInv, Unrecognized PROVE IInv'
<1>1. More /\ Here \in Stray
  BY DEF Unrecognized
<1>2. Here \in Char /\ Here # NL
  BY <1>1, CharFacts
<1>3. /\ it.pos <= Len(text) /\ it.pos \in Nat /\ it.pos >= 1 /\ Here = text[it.pos]
      /\ text \in Seq(Char) /\ Len(text) \in Nat
      /\ Exact(text, Forward(text, it)) /\ Forward(text, it).pos = it.pos + 1
  BY <1>1, CursorFacts DEF IInv
<1>4. CASE Reported(it)
  <2> DEFINE end == Forward(text, it)
             tok == createToken("DEFAULT", <<Here>>, end)
  <2>1. /\ start' = it.pos /\ Deliver(tok, it.pos, end, "warning")
        /\ text' = text /\ UNCHANGED <<scratch, depth>>
    BY <1>4 DEF Unrecognized
  <2>2. tok.loc = Back(text, end, Len(<<Here>>)) /\ Len(<<Here>>) = 1
    BY DEF createToken
  <2> HIDE DEF tok, end
  <2>3. Exact(text, end) /\ end.pos = it.pos + 1 /\ tok.loc = Back(text, end, 1)
    BY <1>3, <2>2 DEF end
  <2>4. Plain(text, it.pos + 1, end.pos - 1)
    BY <1>3, <2>3 DEF Plain
  <2>5. TokenAt(text, tok, it.pos, end.pos - 1)
    BY <1>3, <2>3, <2>4, Made
  <2>6. it.pos \in 1..end.pos
    BY <1>3, <2>3
  <2> QED
    BY <2>1, <2>3, <2>5, <2>6, Delivered
<1>5. CASE ~Reported(it)
  <2>1. Undefined
    BY <1>5 DEF Unrecognized
  <2> QED
    BY <1>1, <1>2, <1>5, <2>1, LostHere
<1> QED
  BY <1>4, <1>5

-----------------------------------------------------------------------------
(* Words and operators: all of the characters since the start.             *)

(* One more character of what is collected.                                *)
LEMMA Collected ==
  ASSUME CursorInv, buf \in Seq(Char \cup {NUL}), NEW c \in Char, c # NL,
         it.pos <= Len(text), c = Here, WordInv(text, it.pos, start, buf)
  PROVE  /\ Append(buf, c) \in Seq(Char \cup {NUL}) /\ Append(buf, c) # <<>>
         /\ WordInv(text, it.pos + 1, start, Append(buf, c))
<1>1. /\ Append(buf, c) \in Seq(Char \cup {NUL}) /\ Append(buf, c) # <<>>
      /\ Len(Append(buf, c)) = Len(buf) + 1 /\ Len(buf) \in Nat
  <2>1. buf \in Seq(Char \cup {NUL}) /\ c \in Char \cup {NUL}
    OBVIOUS
  <2> QED
    BY <2>1, AppendProperties, LenProperties
<1>2. it.pos \in Nat /\ start \in Nat /\ Here = text[it.pos]
  BY CursorFacts
<1>3. it.pos + 1 = start + Len(Append(buf, c))
  <2>1. it.pos = start + Len(buf)
    BY DEF WordInv
  <2> QED
    BY <1>1, <1>2, <2>1
<1>4. Plain(text, start, it.pos)
  <2> SUFFICES ASSUME NEW i \in start..it.pos PROVE text[i] # NL
    BY DEF Plain
  <2>1. i \in start..(it.pos - 1) \/ i = it.pos
    BY <1>2
  <2> QED
    BY <1>2, <2>1 DEF WordInv, Plain
<1>5. WordInv(text, it.pos + 1, start, Append(buf, c))
  <2>1. PICK p : p = it.pos + 1
    OBVIOUS
  <2>2. p - 1 = it.pos
    BY <1>2, <2>1
  <2>3. WordInv(text, p, start, Append(buf, c))
    BY <1>3, <1>4, <2>1, <2>2 DEF WordInv
  <2> QED
    BY <2>1, <2>3
<1> QED
  BY <1>1, <1>5

(* The token made of them.                                                 *)
LEMMA WordMade ==
  ASSUME CursorInv, buf \in Seq(Char \cup {NUL}), WordInv(text, it.pos, start, buf),
         NEW tok, tok.loc = Back(text, it, Len(buf))
  PROVE  TokenAt(text, tok, start, it.pos - 1)
<1>1. /\ text \in Seq(Char) /\ Exact(text, it) /\ it.pos \in Nat
      /\ start \in Nat /\ start >= 1
  BY CursorFacts
<1>2. Len(buf) \in Nat
  BY LenProperties
<1>3. start + Len(buf) = it.pos /\ Plain(text, start + 1, it.pos - 1)
  BY <1>1 DEF WordInv, Plain
<1> QED
  BY <1>1, <1>2, <1>3, Made

LEMMA NothingCollected ==
  ASSUME NEW t, NEW p \in Nat
  PROVE  WordInv(t, p, p, <<>>)
<1>1. Len(<<>>) = 0
  BY NothingIsSeq
<1> QED
  BY <1>1 DEF WordInv, Plain

LEMMA BeginWordStep == ASSUME IInv, BeginWord PROVE IInv'
<1>1. /\ it' = it /\ mode' = "word" /\ start' = it.pos /\ buf' = <<>>
      /\ text' = text /\ tokens' = tokens /\ spans' = spans
      /\ cur' = cur /\ depth' = depth /\ level' = level
  BY DEF BeginWord, Begin, Goto
<1>2. Exact(text, it) /\ it.pos \in Nat /\ it.pos >= 1
  BY CursorFacts DEF IInv
<1>3. DataInv'
  BY <1>1, EmptySeq DEF IInv, DataInv
<1>4. WordInv(text, it.pos, it.pos, <<>>)
  BY <1>2, NothingCollected
<1>5. LoopInv'
  BY <1>1, <1>4 DEF LoopInv, Modes
<1>6. start' \in 1..it'.pos
  BY <1>1, <1>2
<1> QED
  BY <1>1, <1>2, <1>3, <1>5, <1>6, GoOn

LEMMA WordStep == ASSUME IInv, Word PROVE IInv'
<1>1. /\ mode = "word" /\ Here \in isValidIdentifierChar
      /\ it' = Forward(text, it) /\ mode' = "word" /\ start' = start
      /\ buf' = Append(buf, Here)
      /\ text' = text /\ tokens' = tokens /\ spans' = spans
      /\ cur' = cur /\ depth' = depth /\ level' = level
  BY DEF Word, Goto
<1>2. Here \in Char /\ Here # NL /\ Here # NUL
  BY <1>1, CharFacts
<1>3. /\ it.pos <= Len(text) /\ it.pos \in Nat /\ start \in 1..it.pos
      /\ Exact(text, Forward(text, it)) /\ Forward(text, it).pos = it.pos + 1
  BY <1>2, CursorFacts DEF IInv
<1>4. WordInv(text, it.pos, start, buf) /\ buf \in Seq(Char \cup {NUL})
  BY <1>1 DEF IInv, LoopInv, DataInv
<1>5. /\ buf' \in Seq(Char \cup {NUL})
      /\ WordInv(text, it'.pos, start, buf')
  BY <1>1, <1>2, <1>3, <1>4, Collected DEF IInv
<1>6. DataInv'
  BY <1>1, <1>5 DEF IInv, DataInv
<1>7. LoopInv'
  BY <1>1, <1>5 DEF LoopInv, Modes
<1>8. start' \in 1..it'.pos
  BY <1>1, <1>3, StillBehind
<1> QED
  BY <1>1, <1>3, <1>6, <1>7, <1>8, GoOn

LEMMA EndWordStep == ASSUME IInv, EndWord PROVE IInv'
<1> DEFINE tok == createToken(IF buf \in Keywords THEN "keyword" ELSE "identifier", buf, it)
<1>1. /\ mode = "word" /\ Deliver(tok, start, it, level) /\ start' = start
      /\ text' = text /\ UNCHANGED <<scratch, depth>>
  BY DEF EndWord
<1>2. tok.loc = Back(text, it, Len(buf))
  BY DEF createToken
<1> HIDE DEF tok
<1>3. Exact(text, it) /\ start \in 1..it.pos
  BY CursorFacts DEF IInv
<1>4. TokenAt(text, tok, start, it.pos - 1)
  BY <1>1, <1>2, WordMade DEF IInv, LoopInv, DataInv
<1>5. level \in {"none", "warning", "error"}
  BY DEF IInv, DataInv
<1> QED
  BY <1>1, <1>3, <1>4, <1>5, Delivered

LEMMA BeginOperatorStep == ASSUME IInv, BeginOperator PROVE IInv'
<1>1. /\ it' = it /\ mode' = "operator" /\ start' = it.pos /\ buf' = <<>>
      /\ text' = text /\ tokens' = tokens /\ spans' = spans
      /\ cur' = cur /\ depth' = depth /\ level' = level
      /\ Here \in isCharPunctuation
  BY DEF BeginOperator, Begin, Goto, OperatorHere
<1>2. Here \in Char /\ Here # NUL
  BY <1>1, CharFacts
<1>3. Exact(text, it) /\ it.pos \in Nat /\ it.pos >= 1 /\ it.pos <= Len(text) /\ Here = text[it.pos]
  BY <1>2, CursorFacts DEF IInv
<1>4. DataInv'
  BY <1>1, EmptySeq DEF IInv, DataInv
<1>5. OperatorInv(text, it.pos, it.pos, <<>>)
  BY <1>1, <1>3, NothingCollected DEF OperatorInv
<1>6. LoopInv'
  BY <1>1, <1>5 DEF LoopInv, Modes
<1>7. start' \in 1..it'.pos
  BY <1>1, <1>3
<1> QED
  BY <1>1, <1>3, <1>4, <1>6, <1>7, GoOn

LEMMA OperatorStep == ASSUME IInv, Operator PROVE IInv'
<1>1. /\ mode = "operator" /\ Here \in isCharPunctuation
      /\ it' = Forward(text, it) /\ mode' = "operator" /\ start' = start
      /\ buf' = Append(buf, Here)
      /\ text' = text /\ tokens' = tokens /\ spans' = spans
      /\ cur' = cur /\ depth' = depth /\ level' = level
  BY DEF Operator, Extends, Goto
<1>2. Here \in Char /\ Here # NL /\ Here # NUL
  BY <1>1, CharFacts
<1>3. /\ it.pos <= Len(text) /\ it.pos \in Nat /\ start \in 1..it.pos
      /\ Exact(text, Forward(text, it)) /\ Forward(text, it).pos = it.pos + 1
  BY <1>2, CursorFacts DEF IInv
<1>4. WordInv(text, it.pos, start, buf) /\ buf \in Seq(Char \cup {NUL})
  BY <1>1 DEF IInv, LoopInv, DataInv, OperatorInv
<1>5. /\ buf' \in Seq(Char \cup {NUL}) /\ buf' # <<>>
      /\ WordInv(text, it'.pos, start, buf')
  BY <1>1, <1>2, <1>3, <1>4, Collected DEF IInv
<1>6. DataInv'
  BY <1>1, <1>5 DEF IInv, DataInv
<1>7. LoopInv'
  BY <1>1, <1>5 DEF LoopInv, Modes, OperatorInv
<1>8. start' \in 1..it'.pos
  BY <1>1, <1>3, StillBehind
<1> QED
  BY <1>1, <1>3, <1>6, <1>7, <1>8, GoOn

LEMMA EndOperatorStep == ASSUME IInv, EndOperator PROVE IInv'
<1>1. mode = "operator" /\ ~Extends
  BY DEF EndOperator
<1>2. OperatorInv(text, it.pos, start, buf) /\ buf \in Seq(Char \cup {NUL})
  BY <1>1 DEF IInv, LoopInv, DataInv
<1>3. /\ text \in Seq(Char) /\ Len(text) \in Nat /\ Exact(text, it) /\ start \in 1..it.pos
      /\ it.pos \in Nat /\ start \in Nat /\ start >= 1 /\ it.pos \in 1..(Len(text) + 1)
      /\ it.pos <= Len(text) => Here = text[it.pos]
  BY CursorFacts DEF IInv
<1>4. Len(buf) \in Nat /\ Len(buf) > 0
  <2>1. buf # <<>>
    <3>1. <<>> \notin operators
      BY DEF operators
    <3> QED
      BY <1>1, <1>2, <1>3, <3>1 DEF Extends, OperatorInv
  <2> QED
    BY <1>2, <2>1, LenProperties, EmptySeq
<1> DEFINE tok == createToken("operator", buf, it)
           lv == IF buf \in operators THEN level ELSE "error"
           place == Back(text, it, Len(buf))
<1>5. lv \in {"none", "warning", "error"}
  BY DEF IInv, DataInv
<1>6. tok.loc = place
  BY DEF createToken
<1>7. \/ /\ Deliver(tok, start, it, lv) /\ start' = start
         /\ text' = text /\ UNCHANGED <<scratch, depth>>
      \/ ~Reported(place) /\ Undefined
  BY DEF EndOperator
<1> HIDE DEF tok, lv
<1>8. CASE /\ Deliver(tok, start, it, lv) /\ start' = start
           /\ text' = text /\ UNCHANGED <<scratch, depth>>
  <2>1. TokenAt(text, tok, start, it.pos - 1)
    BY <1>2, <1>6, WordMade DEF IInv, OperatorInv
  <2> QED
    BY <1>3, <1>5, <1>8, <2>1, Delivered
<1>9. CASE ~Reported(place) /\ Undefined
  <2>1. start + Len(buf) = it.pos /\ Plain(text, start, it.pos - 1)
    BY <1>2, <1>3 DEF OperatorInv, WordInv
  <2>2. /\ Len(buf) < it.pos /\ it.pos - Len(buf) = start /\ start \in 1..Len(text)
        /\ start \in start..(it.pos - 1)
    BY <1>3, <1>4, <2>1
  <2>3. text[start] # NL /\ Plain(text, it.pos - Len(buf) + 1, it.pos - 1)
    BY <1>3, <2>1, <2>2 DEF Plain
  <2>4. Spot(text, place) /\ place.pos = start /\ place.line = it.line
    BY <1>3, <1>4, <2>2, <2>3, BackSpot
  <2> HIDE DEF place
  <2>5. Unshown(text, place)
    <3>1. place.pos \in 1..(Len(text) + 1)
      BY <1>3, <2>2, <2>4
    <3> QED
      BY <1>3, <1>9, <2>4, <3>1, MessageFacts DEF Reported
  <2>6. text[1] = NL /\ it.line = 2
    BY <1>3, <2>2, <2>3, <2>4, <2>5 DEF Unshown
  <2>7. text' = text /\ it' = it
    BY <1>9 DEF Undefined
  <2>8. UndefinedOnlyWhen'
    BY <2>6, <2>7 DEF UndefinedOnlyWhen
  <2> QED
    BY <1>9, <2>8, Lost
<1> QED
  BY <1>7, <1>8, <1>9

-----------------------------------------------------------------------------
(* Numbers.                                                                *)

LEMMA PrefixFacts ==
  /\ DOMAIN PrefixOf = {"x", "o", "b"}
  /\ \A c \in DOMAIN PrefixOf : c # NUL /\ c # NL /\ PrefixOf[c] \in DOMAIN DigitsOf
  /\ "dec" \in DOMAIN DigitsOf
  /\ \A b \in DOMAIN DigitsOf : DigitsOf[b] \subseteq isCharHexDigit
<1>1. DOMAIN PrefixOf = {"x", "o", "b"} /\ DOMAIN DigitsOf = {"dec", "bin", "oct", "hex"}
  BY DEF PrefixOf, DigitsOf
<1>2. /\ DigitsOf["dec"] = isCharDigit /\ DigitsOf["bin"] = isCharBinDigit
      /\ DigitsOf["oct"] = isCharOctDigit /\ DigitsOf["hex"] = isCharHexDigit
  BY DEF DigitsOf
<1>3. PrefixOf["x"] = "hex" /\ PrefixOf["o"] = "oct" /\ PrefixOf["b"] = "bin"
  BY DEF PrefixOf
<1>4. /\ isCharDigit \subseteq isCharHexDigit /\ isCharBinDigit \subseteq isCharHexDigit
      /\ isCharOctDigit \subseteq isCharHexDigit
  BY DEF isCharHexDigit, isCharDigit, isCharOctDigit
<1> QED
  BY <1>1, <1>2, <1>3, <1>4 DEF NUL, NL

LEMMA BeginNumberStep == ASSUME IInv, BeginNumber PROVE IInv'
<1> DEFINE prefixed == Here = "0" /\ There \in DOMAIN PrefixOf
<1>1. /\ mode' = "number" /\ start' = it.pos /\ buf' = <<>>
      /\ it' = IF prefixed THEN Twice(text, it) ELSE it
      /\ number' = [base |-> IF prefixed THEN PrefixOf[There] ELSE "dec",
                    float |-> Here = ".", left |-> {}]
      /\ cur' = At(text, it')
      /\ text' = text /\ tokens' = tokens /\ spans' = spans
      /\ depth' = depth /\ level' = level
  BY DEF BeginNumber, Begin, Goto
<1>2. Here \in isCharDigit \cup {"."}
  BY DEF BeginNumber, NumberHere
<1>3. Here \in Char /\ Here # NUL /\ Here \in isCharHexDigit \cup {"."}
  BY <1>2, CharFacts
<1>4. /\ it.pos <= Len(text) /\ it.pos \in Nat /\ it.pos >= 1 /\ Here = text[it.pos]
      /\ text \in Seq(Char) /\ Exact(text, it) /\ Len(text) \in Nat
  BY <1>3, CursorFacts DEF IInv
<1>5. Numeral(text, it.pos)
  BY <1>2, <1>4 DEF Numeral
<1>6. Len(<<>>) = 0
  BY NothingIsSeq
<1>7. "base" \in DOMAIN number' /\ number'.base \in DOMAIN DigitsOf
  BY <1>1, PrefixFacts
<1>8. /\ Exact(text, it') /\ it'.pos \in Nat /\ it.pos <= it'.pos
      /\ NumberInv(text, it', it.pos, <<>>, cur', number')
  <2>1. CASE prefixed
    <3>1. There # NUL
      BY <2>1, PrefixFacts
    <3>2. it.pos + 1 <= Len(text) /\ There = text[it.pos + 1]
      BY <1>4, <3>1, ThereFacts DEF IInv
    <3>3. Exact(text, it') /\ it'.pos = it.pos + 2
      BY <1>1, <1>4, <2>1, <3>2, TwiceFacts DEF IInv
    <3>4. Prefixed(text, it.pos)
      BY <2>1, <3>2 DEF Prefixed
    <3>5. it'.pos = it.pos + 2 + 0 /\ Plain(text, it.pos + 3, it'.pos - 1)
      BY <1>4, <3>3 DEF Plain
    <3> QED
      BY <1>1, <1>4, <1>5, <1>6, <1>7, <3>3, <3>4, <3>5 DEF NumberInv
  <2>2. CASE ~prefixed
    <3>1. it' = it /\ cur' = Here
      BY <1>1, <2>2 DEF Here
    <3>2. it.pos = it.pos + 0 /\ Plain(text, it.pos, it.pos - 1)
      BY <1>4 DEF Plain
    <3> QED
      BY <1>1, <1>3, <1>4, <1>5, <1>6, <1>7, <3>1, <3>2 DEF NumberInv
  <2> QED
    BY <2>1, <2>2
<1>9. cur' \in Char \cup {NUL}
  BY <1>1, <1>4, <1>8, PlaceFacts
<1>10. DataInv'
  BY <1>1, <1>9, EmptySeq DEF IInv, DataInv
<1>11. LoopInv'
  BY <1>1, <1>8 DEF LoopInv, Modes
<1>12. start' \in 1..it'.pos
  BY <1>1, <1>4, <1>8
<1> QED
  BY <1>1, <1>8, <1>10, <1>11, <1>12, GoOn

LEMMA BarePrefixStep == ASSUME IInv, BarePrefix PROVE IInv'
<1>1. Here = "0" /\ There \in DOMAIN PrefixOf /\ ~HasMore(text, Twice(text, it)) /\ Undefined
  BY DEF BarePrefix
<1>2. Here # NUL /\ There # NUL
  BY <1>1, PrefixFacts DEF NUL
<1>3. it.pos <= Len(text) /\ it.pos \in Nat /\ Len(text) \in Nat
  BY <1>2, CursorFacts DEF IInv
<1>4. it.pos + 1 <= Len(text) /\ Twice(text, it).pos = it.pos + 2
  BY <1>2, <1>3, ThereFacts, TwiceFacts DEF IInv
<1>5. it.pos + 1 = End
  BY <1>1, <1>3, <1>4 DEF HasMore, End
<1>6. text' = text /\ it' = it
  BY <1>1 DEF Undefined
<1>7. UndefinedOnlyWhen'
  BY <1>1, <1>5, <1>6 DEF UndefinedOnlyWhen, Here, There, End
<1> QED
  BY <1>1, <1>7, Lost

(* One more digit, or the first, whatever it is.                           *)
LEMMA NumberGrows ==
  ASSUME NEW t \in Seq(Char), NEW l, Exact(t, l), NEW s \in Nat,
         NEW b \in Seq(Char \cup {NUL}), NEW c, NEW n,
         NumberInv(t, l, s, b, c, n), l.pos <= Len(t)
  PROVE  \/ l.pos = s + Len(b) /\ Plain(t, s, l.pos)
         \/ l.pos = s + 2 + Len(b) /\ Plain(t, s + 3, l.pos) /\ Prefixed(t, s)
<1>1. l.pos \in Nat /\ c = t[l.pos] /\ Len(b) \in Nat
  BY PlaceFacts, LenProperties DEF NumberInv
<1>2. c \in isCharHexDigit \cup {"."} => c # NL
  BY CharFacts
<1>3. CASE /\ l.pos = s + Len(b) /\ Plain(t, s, l.pos - 1)
           /\ c \in isCharHexDigit \cup {"."}
  <2>1. ASSUME NEW i \in s..l.pos PROVE t[i] # NL
    <3>1. i \in s..(l.pos - 1) \/ i = l.pos
      BY <1>1
    <3> QED
      BY <1>1, <1>2, <1>3, <3>1 DEF Plain
  <2> QED
    BY <1>3, <2>1 DEF Plain
<1>4. CASE /\ l.pos = s + 2 + Len(b) /\ Plain(t, s + 3, l.pos - 1)
           /\ Prefixed(t, s)
  <2>1. ASSUME NEW i \in (s + 3)..l.pos PROVE t[i] # NL
    <3>1. i \in (s + 3)..(l.pos - 1) \/ i = l.pos
      BY <1>1
    <3>2. CASE i = l.pos
      <4>1. Len(b) > 0
        BY <1>1, <1>4, <3>2
      <4>2. b # <<>>
        BY <4>1, EmptySeq
      <4> QED
        BY <1>1, <1>2, <3>2, <4>2 DEF NumberInv
    <3> QED
      BY <1>4, <3>1, <3>2 DEF Plain
  <2> QED
    BY <1>4, <2>1 DEF Plain
<1> QED
  BY <1>3, <1>4 DEF NumberInv

(* The token of a number, from the end of its digits.                      *)
LEMMA NumberMade ==
  ASSUME NEW t \in Seq(Char), NEW l, Exact(t, l), NEW s \in Nat, s >= 1,
         NEW b \in Seq(Char \cup {NUL}), NEW c, NEW n,
         NumberInv(t, l, s, b, c, n),
         NEW tok, tok.type \in {"integer", "float"},
         tok.loc = Back(t, Forward(t, l), Len(b) + 1)
  PROVE  TokenAt(t, tok, s, Forward(t, l).pos - 1)
<1> DEFINE end == Forward(t, l)
<1>1. /\ l.pos \in Nat /\ Len(t) \in Nat /\ Len(b) \in Nat /\ l.pos \in 1..(Len(t) + 1)
      /\ l.pos > Len(t) => c = NUL
  BY PlaceFacts, LenProperties DEF NumberInv
<1>2. /\ Exact(t, end) /\ end.pos = IF l.pos <= Len(t) THEN l.pos + 1 ELSE l.pos
  BY <1>1, ForwardExact
<1> HIDE DEF end
<1>3. PICK m \in Nat : m = Len(b) + 1
  BY <1>1
<1>4. \E q \in Nat : /\ q >= s /\ q + m = end.pos /\ Plain(t, q + 1, end.pos - 1)
                     /\ q = s \/ Prefixed(t, s)
  <2>1. CASE l.pos <= Len(t) /\ l.pos = s + Len(b) /\ Plain(t, s, l.pos)
    <3>1. s + m = end.pos /\ end.pos - 1 = l.pos
      BY <1>1, <1>2, <1>3, <2>1
    <3>2. Plain(t, s + 1, end.pos - 1)
      BY <1>1, <2>1, <3>1 DEF Plain
    <3> QED
      BY <3>1, <3>2
  <2>2. CASE /\ l.pos <= Len(t) /\ l.pos = s + 2 + Len(b) /\ Plain(t, s + 3, l.pos)
             /\ Prefixed(t, s)
    <3>1. /\ s + 2 \in Nat /\ s + 2 >= s /\ s + 2 + m = end.pos /\ end.pos - 1 = l.pos
          /\ s + 2 + 1 = s + 3
      BY <1>1, <1>2, <1>3, <2>2
    <3>2. Plain(t, s + 2 + 1, end.pos - 1)
      BY <2>2, <3>1
    <3> QED
      BY <2>2, <3>1, <3>2
  <2>3. CASE l.pos > Len(t)
    <3>1. c \notin isCharHexDigit \cup {"."}
      BY <1>1, <2>3, CharFacts
    <3>2. b = <<>> /\ l.pos = s + 2 + Len(b) /\ Prefixed(t, s)
      BY <3>1 DEF NumberInv
    <3>3. Len(b) = 0
      BY <3>2, NothingIsSeq
    <3>4. s + 1 \in Nat /\ s + 1 >= s /\ s + 1 + m = end.pos
      BY <1>1, <1>2, <1>3, <2>3, <3>2, <3>3
    <3>5. Plain(t, s + 1 + 1, end.pos - 1)
      BY <1>3, <3>3, <3>4 DEF Plain
    <3> QED
      BY <3>2, <3>4, <3>5
  <2> QED
    BY <1>1, <2>1, <2>2, <2>3, NumberGrows
<1>5. PICK q \in Nat : /\ q >= s /\ q + m = end.pos /\ Plain(t, q + 1, end.pos - 1)
                       /\ q = s \/ Prefixed(t, s)
  BY <1>4
<1>6. q >= 1
  BY <1>5
<1>7. TokenAt(t, tok, q, end.pos - 1)
  BY <1>2, <1>3, <1>5, <1>6, Made DEF end
<1>8. tok.loc.pos = q /\ Spot(t, tok.loc)
  <2>1. end.pos \in Nat /\ m < end.pos /\ end.pos - m = q /\ end.pos - m + 1 = q + 1
    BY <1>5, <1>6
  <2> QED
    BY <1>1, <1>2, <1>3, <1>5, <2>1, BackSpot DEF end
<1>9. s <= q /\ q <= end.pos - 1 + 1
  BY <1>3, <1>5
<1> QED
  BY <1>5, <1>8, <1>9 DEF TokenAt, end

LEMMA NumberStep == ASSUME IInv, Number PROVE IInv'
<1> DEFINE end == Forward(text, it)
           value == Append(buf, cur)
           float == number.float \/ cur' = "."
           goes == cur' \in DigitsOf[number.base] \cup {"."}
<1>1. /\ mode = "number" /\ it' = end /\ cur' = At(text, end)
      /\ start' = start /\ text' = text /\ tokens' = tokens /\ spans' = spans
      /\ depth' = depth /\ level' = level
  BY DEF Number, Goto
<1>2. /\ goes => /\ mode' = "number" /\ buf' = value
                 /\ number' = [number EXCEPT !.float = float]
      /\ ~goes => /\ mode' = "suffix" /\ buf' = <<>>
                  /\ token' = createToken(IF float THEN "float" ELSE "integer", value, end)
  BY DEF Number, Goto
<1>3. NumberInv(text, it, start, buf, cur, number) /\ buf \in Seq(Char \cup {NUL})
  BY <1>1 DEF IInv, LoopInv, DataInv
<1>4. cur \in Char \cup {NUL}
  BY DEF IInv, DataInv
<1>5. /\ text \in Seq(Char) /\ Len(text) \in Nat /\ Exact(text, it) /\ start \in 1..it.pos
      /\ it.pos \in Nat /\ start \in Nat /\ start >= 1
      /\ Exact(text, end)
      /\ it.pos <= Len(text) => end.pos = it.pos + 1
      /\ it.pos > Len(text) => end.pos = it.pos
  BY CursorFacts DEF IInv
<1>6. /\ value \in Seq(Char \cup {NUL}) /\ value # <<>>
      /\ Len(value) = Len(buf) + 1 /\ Len(buf) \in Nat
  BY <1>3, <1>4, AppendProperties, LenProperties
<1>7. cur' \in Char \cup {NUL} /\ (cur' # NUL => end.pos <= Len(text))
  BY <1>1, <1>5, PlaceFacts
<1> HIDE DEF end, value, float
<1>8. start' \in 1..it'.pos
  BY <1>1, <1>5, StillBehind
<1>9. CASE goes
  <2>1. cur' \in isCharHexDigit \cup {"."} /\ cur' # NUL
    BY <1>3, <1>9, PrefixFacts, CharFacts DEF NumberInv
  <2>2. it.pos <= Len(text) /\ end.pos = it.pos + 1 /\ end.pos - 1 = it.pos
    BY <1>5, <1>7, <2>1
  <2>3. \/ it.pos = start + Len(buf) /\ Plain(text, start, it.pos)
        \/ /\ it.pos = start + 2 + Len(buf) /\ Plain(text, start + 3, it.pos)
           /\ Prefixed(text, start)
    BY <1>3, <1>5, <2>2, NumberGrows
  <2>4. \/ end.pos = start + Len(value) /\ Plain(text, start, end.pos - 1)
        \/ /\ end.pos = start + 2 + Len(value) /\ Plain(text, start + 3, end.pos - 1)
           /\ Prefixed(text, start)
    BY <1>5, <1>6, <2>2, <2>3
  <2>5. "base" \in DOMAIN number' /\ number'.base = number.base
    BY <1>2, <1>3, <1>9 DEF NumberInv
  <2>6. NumberInv(text, end, start, value, cur', number')
    BY <1>1, <1>3, <2>1, <2>4, <2>5 DEF NumberInv
  <2>7. DataInv'
    BY <1>1, <1>2, <1>6, <1>7, <1>9 DEF IInv, DataInv
  <2>8. LoopInv'
    BY <1>1, <1>2, <1>9, <2>6 DEF LoopInv, Modes
  <2> QED
    BY <1>1, <1>2, <1>5, <1>8, <1>9, <2>7, <2>8, GoOn
<1>10. CASE ~goes
  <2>1. /\ token'.type \in {"integer", "float"} /\ token'.loc = Back(text, end, Len(value))
        /\ {"type", "loc"} \subseteq DOMAIN token'
    BY <1>2, <1>10 DEF createToken
  <2>2. TokenAt(text, token', start, end.pos - 1)
    BY <1>3, <1>5, <1>6, <2>1, NumberMade DEF end
  <2>3. SuffixInv(text, end, start, cur', token')
    BY <1>1, <1>3, <2>1, <2>2 DEF SuffixInv, NumberInv
  <2>4. DataInv'
    BY <1>1, <1>2, <1>7, <1>10, EmptySeq DEF IInv, DataInv
  <2>5. LoopInv'
    BY <1>1, <1>2, <1>10, <2>3 DEF LoopInv, Modes
  <2> QED
    BY <1>1, <1>2, <1>5, <1>8, <1>10, <2>4, <2>5, GoOn
<1> QED
  BY <1>9, <1>10

LEMMA SuffixStep == ASSUME IInv, Suffix PROVE IInv'
<1> DEFINE longer == Append(buf, cur)
           known == longer \in number.left
<1>1. /\ mode = "suffix" /\ cur \in isCharAlnum /\ it' = Forward(text, it)
      /\ cur' = At(text, it') /\ buf' = (IF known THEN <<>> ELSE longer)
      /\ token' = [token EXCEPT !.suffix = @ \cup (IF known THEN {longer} ELSE {})]
      /\ mode' = "suffix"
      /\ start' = start /\ text' = text /\ tokens' = tokens /\ spans' = spans
      /\ depth' = depth /\ level' = level
  BY DEF Suffix, Goto
<1>2. SuffixInv(text, it, start, cur, token) /\ buf \in Seq(Char \cup {NUL})
  BY <1>1 DEF IInv, LoopInv, DataInv
<1>3. cur \in Char /\ cur # NUL /\ cur = Here
  BY <1>1, <1>2, CharFacts DEF SuffixInv, Here
<1>4. /\ text \in Seq(Char) /\ it.pos <= Len(text) /\ it.pos \in Nat /\ start \in 1..it.pos
      /\ Exact(text, it') /\ it'.pos = it.pos + 1 /\ it'.pos \in Nat /\ it.pos <= it'.pos
  BY <1>1, <1>3, CursorFacts DEF IInv
<1>5. buf' \in Seq(Char \cup {NUL})
  <2>1. longer \in Seq(Char \cup {NUL}) /\ <<>> \in Seq(Char \cup {NUL})
    BY <1>2, <1>3, AppendProperties, EmptySeq
  <2> HIDE DEF longer
  <2> QED
    BY <1>1, <2>1
<1>6. cur' \in Char \cup {NUL}
  BY <1>1, <1>4, PlaceFacts
<1>7. /\ {"type", "loc"} \subseteq DOMAIN token'
      /\ token'.type = token.type /\ token'.loc = token.loc
  BY <1>1, <1>2 DEF SuffixInv
<1> HIDE DEF longer, known
<1>8. TokenAt(text, token', start, it'.pos - 1)
  <2>1. /\ Spot(text, token.loc) /\ token.loc.pos \in Nat
        /\ start <= token.loc.pos /\ token.loc.pos <= it.pos - 1 + 1
        /\ \/ token.loc.pos = start
           \/ token.type \in Literals
           \/ token.type \in {"integer", "float"} /\ Prefixed(text, start)
    BY <1>2 DEF SuffixInv, TokenAt
  <2>3. it'.pos - 1 + 1 = it.pos + 1 /\ it.pos - 1 + 1 = it.pos
    BY <1>4
  <2>4. token.loc.pos <= it'.pos - 1 + 1
    BY <1>4, <2>1, <2>3
  <2> QED
    BY <1>7, <2>1, <2>4 DEF TokenAt
<1>9. SuffixInv(text, it', start, cur', token')
  BY <1>1, <1>2, <1>7, <1>8 DEF SuffixInv
<1>10. DataInv'
  BY <1>1, <1>5, <1>6 DEF IInv, DataInv
<1>11. LoopInv'
  BY <1>1, <1>9 DEF LoopInv, Modes
<1>12. start' \in 1..it'.pos
  BY <1>1, <1>4, StillBehind
<1> QED
  BY <1>1, <1>4, <1>10, <1>11, <1>12, GoOn

LEMMA EndNumberStep == ASSUME IInv, EndNumber PROVE IInv'
<1>1. mode = "suffix"
  BY DEF EndNumber
<1>2. SuffixInv(text, it, start, cur, token)
  BY <1>1 DEF IInv, LoopInv
<1>3. /\ Len(text) \in Nat /\ Exact(text, it) /\ start \in 1..it.pos /\ start \in Nat
      /\ it.pos \in Nat /\ it.pos \in 1..(Len(text) + 1)
      /\ it.pos <= Len(text) => Here = text[it.pos]
      /\ More => it.pos <= Len(text)
  BY CursorFacts DEF IInv
<1>4. \/ \E lv \in {"error", level} : /\ Deliver(token, start, it, lv)
                                      /\ UNCHANGED <<text, scratch, depth, start>>
      \/ WrongNumber /\ Unreported(it) /\ Undefined
  BY DEF EndNumber
<1>5. CASE \E lv \in {"error", level} : /\ Deliver(token, start, it, lv)
                                        /\ UNCHANGED <<text, scratch, depth, start>>
  <2>1. PICK lv \in {"error", level} : /\ Deliver(token, start, it, lv)
                                       /\ UNCHANGED <<text, scratch, depth, start>>
    BY <1>5
  <2>2. lv \in {"none", "warning", "error"}
    BY DEF IInv, DataInv
  <2>3. TokenAt(text, token, start, it.pos - 1)
    BY <1>2 DEF SuffixInv
  <2> QED
    BY <1>3, <2>1, <2>2, <2>3, Delivered
<1>6. CASE WrongNumber /\ Unreported(it) /\ Undefined
  <2>1. text' = text /\ it' = it /\ start' = start /\ UNCHANGED <<buf, token, number>>
    BY <1>6 DEF Undefined, scratch
  <2>2. text[start] \in isCharDigit \cup {"."} /\ start <= Len(text)
    BY <1>2 DEF SuffixInv, Numeral
  <2>3. Len(text) > 0
    BY <1>3, <2>2
  <2>4. it.pos > Len(text) => Here = NUL
    BY CursorFacts DEF IInv
  <2>5. Here \in {NL, NUL} \/ (text[1] = NL /\ it.line = 2)
    <3>1. CASE ~Reported(it)
      <4>1. Unshown(text, it)
        BY <1>3, <3>1, MessageFacts DEF Reported, Exact
      <4> QED
        BY <1>3, <2>3, <2>4, <4>1 DEF Unshown
    <3>2. CASE ~More
      BY <1>3, <2>4, <3>2 DEF More, HasMore
    <3> QED
      BY <1>6, <3>1, <3>2 DEF Unreported, Reported, More
  <2>6. UndefinedOnlyWhen'
    BY <1>6, <2>1, <2>2, <2>5 DEF UndefinedOnlyWhen, Here, WrongNumber
  <2> QED
    BY <1>6, <2>6, Lost
<1> QED
  BY <1>4, <1>5, <1>6

-----------------------------------------------------------------------------
(* Literals.                                                               *)

LEMMA QuoteFacts ==
  /\ DOMAIN LiteralType = {"apostrophe", "b", "quote", "c"}
  /\ \A x \in DOMAIN LiteralType : LiteralType[x] \in Literals /\ x # NL /\ x # NUL
  /\ \A x : Quote(x) \in {"apostrophe", "quote"}
  /\ "apostrophe" # NL /\ "quote" # NL /\ "apostrophe" # NUL /\ "quote" # NUL
<1>1. DOMAIN LiteralType = {"apostrophe", "b", "quote", "c"}
  BY DEF LiteralType
<1>2. /\ LiteralType["apostrophe"] = "char" /\ LiteralType["b"] = "bchar"
      /\ LiteralType["quote"] = "string" /\ LiteralType["c"] = "cstring"
  BY DEF LiteralType
<1>3. \A x : Quote(x) \in {"apostrophe", "quote"}
  BY DEF Quote
<1> QED
  BY <1>1, <1>2, <1>3 DEF Literals, NL, NUL

LEMMA BeginLiteralStep == ASSUME IInv, BeginLiteral PROVE IInv'
<1>1. /\ mode' = "literal" /\ start' = it.pos /\ buf' = <<>>
      /\ it' = IF Here \in {"b", "c"} THEN Forward(text, it) ELSE it
      /\ text' = text /\ tokens' = tokens /\ spans' = spans
      /\ cur' = cur /\ depth' = depth /\ level' = level
  BY DEF BeginLiteral, Begin, Goto
<1>2. /\ Here \in {"apostrophe", "b", "quote", "c"}
      /\ Here \in {"b", "c"} => There \in {"apostrophe", "quote"}
  BY DEF BeginLiteral, LiteralHere
<1>3. Here # NUL /\ Here # NL /\ Here \in DOMAIN LiteralType
  BY <1>2, QuoteFacts
<1>4. /\ it.pos <= Len(text) /\ it.pos \in Nat /\ it.pos >= 1 /\ Here = text[it.pos]
      /\ Exact(text, it) /\ Len(text) \in Nat
      /\ Exact(text, Forward(text, it)) /\ Forward(text, it).pos = it.pos + 1
  BY <1>3, CursorFacts DEF IInv
<1>5. Len(<<>>) = 0
  BY NothingIsSeq
<1>6. /\ Exact(text, it') /\ it'.pos \in Nat /\ it.pos <= it'.pos
      /\ it'.pos <= Len(text) /\ Plain(text, it.pos, it'.pos)
  <2>1. CASE Here \in {"b", "c"}
    <3>1. There # NUL /\ There # NL
      BY <1>2, <2>1, QuoteFacts
    <3>2. it.pos + 1 <= Len(text) /\ There = text[it.pos + 1]
      BY <1>4, <3>1, ThereFacts DEF IInv
    <3>3. it'.pos = it.pos + 1 /\ Exact(text, it')
      BY <1>1, <1>4, <2>1
    <3>4. Plain(text, it.pos, it.pos + 1)
      BY <1>3, <1>4, <3>1, <3>2 DEF Plain
    <3> QED
      BY <1>4, <3>2, <3>3, <3>4
  <2>2. CASE Here \notin {"b", "c"}
    <3>1. it' = it
      BY <1>1, <2>2
    <3>2. Plain(text, it.pos, it.pos)
      BY <1>3, <1>4 DEF Plain
    <3> QED
      BY <1>4, <3>1, <3>2
  <2> QED
    BY <2>1, <2>2
<1>7. LiteralInv(text, it'.pos, it.pos, <<>>)
  BY <1>3, <1>4, <1>5, <1>6 DEF LiteralInv
<1>8. DataInv'
  BY <1>1, EmptySeq DEF IInv, DataInv
<1>9. LoopInv'
  BY <1>1, <1>7 DEF LoopInv, Modes
<1>10. start' \in 1..it'.pos
  BY <1>1, <1>4, <1>6
<1> QED
  BY <1>1, <1>6, <1>8, <1>9, <1>10, GoOn

LEMMA LiteralFacts ==
  ASSUME IInv, mode = "literal"
  PROVE  /\ LiteralInv(text, it.pos, start, buf) /\ buf \in Seq(Char \cup {NUL})
         /\ Len(buf) \in Nat /\ Len(text) \in Nat /\ it.pos \in Nat /\ start \in Nat
         /\ text \in Seq(Char) /\ start \in 1..it.pos /\ start >= 1
         /\ it.pos <= Len(text) /\ text[it.pos] # NL
         /\ Exact(text, Forward(text, it)) /\ Forward(text, it).pos = it.pos + 1
         /\ Forward(text, it).line = it.line
<1>1. LiteralInv(text, it.pos, start, buf) /\ buf \in Seq(Char \cup {NUL})
  BY DEF IInv, LoopInv, DataInv
<1>2. /\ text \in Seq(Char) /\ Len(text) \in Nat /\ Exact(text, it) /\ start \in 1..it.pos
      /\ it.pos \in Nat /\ start \in Nat /\ start >= 1
      /\ Exact(text, Forward(text, it))
      /\ it.pos <= Len(text) => Forward(text, it).pos = it.pos + 1
  BY CursorFacts DEF IInv
<1>3. it.pos <= Len(text) /\ it.pos \in start..it.pos
  BY <1>1, <1>2 DEF LiteralInv
<1>4. text[it.pos] # NL
  BY <1>1, <1>3 DEF LiteralInv, Plain
<1>5. Forward(text, it).line = it.line
  BY <1>2, <1>3, <1>4, ForwardExact
<1> QED
  BY <1>1, <1>2, <1>3, <1>4, <1>5, LenProperties

LEMMA BrokenLiteralStep == ASSUME IInv, BrokenLiteral PROVE IInv'
<1>1. mode = "literal" /\ At(text, Forward(text, it)) = NL /\ Undefined
  BY DEF BrokenLiteral
<1>2. /\ LiteralInv(text, it.pos, start, buf) /\ text \in Seq(Char)
      /\ Exact(text, Forward(text, it)) /\ Forward(text, it).pos = it.pos + 1
  BY <1>1, LiteralFacts
<1>3. NL # NUL
  BY DEF NL, NUL
<1>4. it.pos + 1 <= Len(text) /\ text[it.pos + 1] = NL
  BY <1>1, <1>2, <1>3, PlaceFacts
<1>5. text[start] \in DOMAIN LiteralType
  BY <1>2 DEF LiteralInv
<1>6. text' = text /\ it' = it /\ start' = start
  BY <1>1 DEF Undefined
<1>7. UndefinedOnlyWhen'
  BY <1>4, <1>5, <1>6 DEF UndefinedOnlyWhen, LiteralCutShort, Get, End
<1> QED
  BY <1>1, <1>7, Lost

LEMMA LiteralStep == ASSUME IInv, Literal PROVE IInv'
<1> DEFINE here == Forward(text, it)
           ch == At(text, here)
           kept == IF ch = Quote(text[start]) THEN SubSeq(buf, 1, Len(buf) - 1) ELSE buf
<1>1. /\ mode = "literal" /\ HasMore(text, here) /\ ch # NL
      /\ it' = here /\ buf' = Append(kept, ch) /\ mode' = "literal"
      /\ start' = start /\ text' = text /\ tokens' = tokens /\ spans' = spans
      /\ cur' = cur /\ depth' = depth /\ level' = level
  BY DEF Literal, Goto
<1>2. /\ LiteralInv(text, it.pos, start, buf) /\ buf \in Seq(Char \cup {NUL})
      /\ Len(buf) \in Nat /\ Len(text) \in Nat /\ it.pos \in Nat /\ start \in Nat
      /\ text \in Seq(Char) /\ start \in 1..it.pos
      /\ Exact(text, here) /\ here.pos = it.pos + 1
  BY <1>1, LiteralFacts
<1>3. here.pos <= Len(text) /\ ch = text[it.pos + 1] /\ ch \in Char
  BY <1>1, <1>2, PlaceFacts
<1>4. kept \in Seq(Char \cup {NUL}) /\ Len(kept) \in Nat /\ Len(kept) <= Len(buf)
  <2>1. CASE kept = buf
    BY <1>2, <2>1
  <2>2. CASE kept = SubSeq(buf, 1, Len(buf) - 1)
    <3> DEFINE S == Char \cup {NUL}
    <3>1. DOMAIN buf = 1..Len(buf)
      BY <1>2, LenProperties
    <3> HIDE DEF S
    <3>2. buf \in Seq(S) /\ \A i \in 1..(Len(buf) - 1) : buf[i] \in S
      <4>1. \A i \in 1..(Len(buf) - 1) : i \in DOMAIN buf
        BY <1>2, <3>1
      <4>2. buf \in Seq(S)
        BY <1>2 DEF S
      <4> QED
        BY <4>1, <4>2, <3>1, LenProperties
    <3>3. /\ SubSeq(buf, 1, Len(buf) - 1) \in Seq(S)
          /\ Len(SubSeq(buf, 1, Len(buf) - 1))
               = IF 1 <= Len(buf) - 1 THEN Len(buf) - 1 - 1 + 1 ELSE 0
      BY <1>2, <3>2, SubSeqProperties
    <3>4. Len(SubSeq(buf, 1, Len(buf) - 1)) \in Nat
      BY <3>3, LenProperties
    <3>5. Len(SubSeq(buf, 1, Len(buf) - 1)) <= Len(buf)
      BY <1>2, <3>3
    <3> QED
      BY <2>2, <3>3, <3>4, <3>5 DEF S
  <2> QED
    BY <2>1, <2>2
<1>5. buf' \in Seq(Char \cup {NUL}) /\ Len(buf') = Len(kept) + 1
  <2>1. ch \in Char \cup {NUL}
    BY <1>3
  <2> HIDE DEF ch, kept
  <2> QED
    BY <1>1, <1>4, <2>1, AppendProperties
<1> HIDE DEF ch, kept, here
<1>6. start + Len(buf') <= it.pos + 1
  BY <1>2, <1>4, <1>5 DEF LiteralInv
<1>7. Plain(text, start, it.pos + 1)
  <2>1. ASSUME NEW i \in start..(it.pos + 1) PROVE text[i] # NL
    <3>1. i \in start..it.pos \/ i = it.pos + 1
      BY <1>2
    <3> QED
      BY <1>1, <1>2, <1>3, <3>1 DEF LiteralInv, Plain
  <2> QED
    BY <2>1 DEF Plain
<1>8. start <= it.pos + 1
  BY <1>2
<1>9. LiteralInv(text, it'.pos, start, buf')
  BY <1>1, <1>2, <1>3, <1>6, <1>7, <1>8 DEF LiteralInv
<1>10. DataInv'
  BY <1>1, <1>5 DEF IInv, DataInv
<1>11. LoopInv'
  BY <1>1, <1>9 DEF LoopInv, Modes
<1>12. start' \in 1..it'.pos
  BY <1>1, <1>2, StillBehind
<1> QED
  BY <1>1, <1>2, <1>10, <1>11, <1>12, GoOn

LEMMA EndLiteralStep == ASSUME IInv, EndLiteral PROVE IInv'
<1> DEFINE here == Forward(text, it)
           r == Escaped(buf, Quote(text[start]))
           end == Forward(text, here)
           tok == createToken(LiteralType[text[start]], r.value, end)
           lv == IF r.warned THEN "warning" ELSE level
<1>1. /\ mode = "literal"
      /\ HasMore(text, here) => At(text, here) = Quote(text[start])
  BY DEF EndLiteral, CloseLiteral
<1>2. /\ LiteralInv(text, it.pos, start, buf) /\ buf \in Seq(Char \cup {NUL})
      /\ Len(buf) \in Nat /\ Len(text) \in Nat /\ it.pos \in Nat /\ start \in Nat
      /\ text \in Seq(Char) /\ start \in 1..it.pos /\ start >= 1
      /\ Exact(text, here) /\ here.pos = it.pos + 1
      /\ here.line = it.line /\ it.pos <= Len(text) /\ text[it.pos] # NL
  BY <1>1, LiteralFacts
<1>3. \/ Deliver(tok, start, end, lv) /\ UNCHANGED <<text, scratch, depth, start>>
      \/ (r.past \/ (r.warned /\ Unreported(here))) /\ Undefined
  BY DEF EndLiteral, CloseLiteral, Twice
<1>4. /\ IsSeq(r.value) /\ Len(r.value) <= Len(buf)
      /\ r.warned => \E i \in 1..Len(buf) : buf[i] = "backslash"
      /\ r.past => ShortEscape(buf)
  BY <1>2, EscapedMeans DEF Within
<1>5. Len(r.value) \in Nat
  BY <1>4, SeqFacts
<1>6. lv \in {"none", "warning", "error"}
  BY DEF IInv, DataInv
<1>7. /\ tok.type = LiteralType[text[start]] /\ tok.type \in Literals
      /\ tok.loc = Back(text, end, Len(r.value))
  <2>1. LiteralType[text[start]] \in Literals
    BY <1>2, QuoteFacts DEF LiteralInv
  <2> HIDE DEF r, end
  <2> QED
    BY <2>1 DEF createToken, Literals
<1>8. /\ Exact(text, end)
      /\ end.pos = IF it.pos + 1 <= Len(text) THEN it.pos + 2 ELSE it.pos + 1
  <2>1. /\ Exact(text, end)
        /\ end.pos = IF here.pos <= Len(text) THEN here.pos + 1 ELSE here.pos
    <3> HIDE DEF here
    <3> QED
      BY <1>2, ForwardExact
  <2> HIDE DEF end, here
  <2> QED
    BY <1>2, <2>1
<1>9. it.pos + 1 <= Len(text) => text[it.pos + 1] # NL
  <2> HIDE DEF here
  <2>1. ASSUME it.pos + 1 <= Len(text)
        PROVE  HasMore(text, here) /\ At(text, here) = text[it.pos + 1]
    BY <1>2, <2>1, PlaceFacts
  <2> QED
    BY <1>1, <2>1, QuoteFacts
<1> HIDE DEF tok, lv, r, end, here
<1>10. CASE Deliver(tok, start, end, lv) /\ UNCHANGED <<text, scratch, depth, start>>
  <2>1. PICK n \in Nat : n = Len(r.value)
    BY <1>5
  <2>2. start + n <= it.pos
    BY <1>2, <1>4, <2>1 DEF LiteralInv
  <2>3. end.pos \in Nat /\ it.pos < end.pos /\ end.pos <= it.pos + 2 /\ n < end.pos
    BY <1>2, <1>8, <2>2
  <2>9. PICK q \in Nat : q = end.pos - n
    BY <2>1, <2>3
  <2>10. /\ start <= q /\ q <= end.pos /\ end.pos - 1 + 1 = end.pos
         /\ end.pos - n + 1 = q + 1
         /\ \A i \in (q + 1)..(end.pos - 1) : i >= start /\ i <= end.pos - 1
    <3>1. ASSUME NEW s \in Nat, NEW p \in Nat, NEW e \in Nat,
                 s + n <= p, p < e, q = e - n
          PROVE  /\ s <= q /\ q <= e /\ e - 1 + 1 = e /\ e - n + 1 = q + 1
                 /\ \A i \in (q + 1)..(e - 1) : i >= s /\ i <= e - 1
      BY <3>1
    <3>2. start \in Nat /\ it.pos \in Nat
      BY <1>2
    <3> QED
      BY <2>2, <2>3, <2>9, <3>1, <3>2
  <2>4. Plain(text, q + 1, end.pos - 1)
    <3>1. ASSUME NEW i \in (q + 1)..(end.pos - 1) PROVE text[i] # NL
      <4>1. i \in Int /\ i >= start /\ i <= end.pos - 1
        BY <2>10
      <4>2. i \in start..it.pos \/ (i = it.pos + 1 /\ it.pos + 1 <= Len(text))
        <5>1. CASE it.pos + 1 <= Len(text)
          <6>1. end.pos - 1 = it.pos + 1
            BY <1>2, <1>8, <5>1
          <6>2. \A s, p \in Nat, k \in Int : s <= k /\ k <= p + 1 => k \in s..p \/ k = p + 1
            OBVIOUS
          <6>3. start \in Nat /\ it.pos \in Nat
            BY <1>2
          <6>4. i \in Int /\ start <= i /\ i <= it.pos + 1
            BY <4>1, <6>1
          <6> QED
            BY <5>1, <6>2, <6>3, <6>4
        <5>2. CASE ~(it.pos + 1 <= Len(text))
          <6>1. end.pos - 1 = it.pos
            BY <1>2, <1>8, <5>2
          <6> QED
            BY <1>2, <4>1, <6>1
        <5> QED
          BY <5>1, <5>2
      <4> QED
        BY <1>2, <1>9, <4>2 DEF LiteralInv, Plain
    <3> QED
      BY <3>1 DEF Plain
  <2>5. tok.loc.pos = q /\ Spot(text, tok.loc)
    <3>1. end.pos - n = q /\ Plain(text, end.pos - n + 1, end.pos - 1)
      BY <2>4, <2>9, <2>10
    <3>2. Len(text) \in Nat /\ Exact(text, end) /\ n < end.pos
      BY <1>2, <1>8, <2>3
    <3>3. Spot(text, Back(text, end, n)) /\ Back(text, end, n).pos = end.pos - n
      BY <2>1, <3>1, <3>2, BackSpot
    <3> QED
      BY <1>7, <2>1, <3>1, <3>3
  <2>6. start <= q /\ q <= end.pos - 1 + 1
    BY <2>10
  <2>7. TokenAt(text, tok, start, end.pos - 1)
    BY <1>7, <2>5, <2>6, <2>9 DEF TokenAt
  <2>8. start \in 1..end.pos
    BY <1>2, <2>3, StillBehind
  <2> QED
    BY <1>6, <1>8, <1>10, <2>7, <2>8, Delivered
<1>11. CASE (r.past \/ (r.warned /\ Unreported(here))) /\ Undefined
  <2>1. text' = text /\ it' = it /\ start' = start /\ buf' = buf
    BY <1>11 DEF Undefined, scratch
  <2>2. text[start] \in DOMAIN LiteralType
    BY <1>2 DEF LiteralInv
  <2>3. ASSUME r.past PROVE UndefinedOnlyWhen'
    <3>1. LiteralCutShort
      BY <1>4, <2>2, <2>3 DEF LiteralCutShort
    <3>2. LiteralCutShort'
      BY <2>1, <3>1 DEF LiteralCutShort, ShortEscape, ShortOf, Get, End
    <3> QED
      BY <3>2 DEF UndefinedOnlyWhen
  <2>4. ASSUME r.warned /\ here.pos > Len(text) PROVE UndefinedOnlyWhen'
    <3>1. it.pos = End
      BY <1>2, <2>4 DEF End
    <3>2. LiteralCutShort
      BY <1>4, <2>2, <2>4, <3>1 DEF LiteralCutShort
    <3>3. LiteralCutShort'
      BY <2>1, <3>2 DEF LiteralCutShort, ShortEscape, ShortOf, Get, End
    <3> QED
      BY <3>3 DEF UndefinedOnlyWhen
  <2>5. ASSUME ~Reported(here) /\ here.pos <= Len(text) PROVE UndefinedOnlyWhen'
    <3>1. Unshown(text, here)
      BY <1>2, <2>5, MessageFacts DEF Reported, Exact
    <3>2. ~(here.pos <= Len(text) /\ text[here.pos] = NL)
      BY <1>2, <1>9
    <3>3. text[1] = NL /\ it.line = 2
      BY <1>2, <2>5, <3>1, <3>2 DEF Unshown
    <3>4. text'[1] = NL /\ it'.line = 2
      BY <2>1, <3>3
    <3> QED
      BY <3>4 DEF UndefinedOnlyWhen
  <2>6. \/ r.past \/ (r.warned /\ here.pos > Len(text))
        \/ ~Reported(here) /\ here.pos <= Len(text)
    BY <1>2, <1>11 DEF Unreported, Reported, HasMore
  <2> QED
    BY <1>11, <2>3, <2>4, <2>5, <2>6, Lost
<1> QED
  BY <1>3, <1>10, <1>11

-----------------------------------------------------------------------------
(* Together.                                                               *)

LEMMA FinishStep == ASSUME IInv, Finish PROVE IInv'
<1>1. /\ mode' \in {"undefined", "done"}
      /\ mode' = "undefined" => tokens = <<>> /\ level' = "error"
      /\ level' \in {"error", level}
      /\ text' = text /\ it' = it /\ UNCHANGED <<scratch, depth>>
      /\ tokens' = tokens /\ start' = start /\ spans' = spans
  BY DEF Finish
<1>2. CursorInv' /\ TokensInv'
  BY <1>1 DEF IInv, CursorInv, TokensInv
<1>3. DataInv'
  BY <1>1 DEF IInv, DataInv, scratch
<1>4. LoopInv'
  BY <1>1 DEF LoopInv, Modes
<1>5. UndefinedOnlyWhen'
  BY <1>1 DEF UndefinedOnlyWhen
<1> QED
  BY <1>2, <1>3, <1>4, <1>5 DEF IInv

LEMMA Unchanged == ASSUME IInv, UNCHANGED vars PROVE IInv'
<1>1. CursorInv' /\ TokensInv'
  BY DEF IInv, CursorInv, TokensInv, vars
<1>2. DataInv' /\ LoopInv'
  BY DEF IInv, DataInv, LoopInv, vars
<1>3. UndefinedOnlyWhen'
  BY DEF IInv, UndefinedOnlyWhen, LiteralCutShort, WrongNumber, vars, scratch, Get, End, Here,
    There, More
<1> QED
  BY <1>1, <1>2, <1>3 DEF IInv

LEMMA InitInv == ASSUME Init PROVE IInv
<1>1. text \in Texts /\ it = Start /\ start = 1 /\ Start.pos = 1
  BY DEF Init, Start
<1>2. Len(text) \in Nat
  BY <1>1, TextsAssumption, LenProperties
<1>3. CursorInv
  BY <1>1, <1>2, StartExact DEF CursorInv
<1>4. TokensInv
  BY NothingIsSeq DEF Init, TokensInv, TokensOK
<1>5. DataInv
  BY EmptySeq DEF Init, DataInv
<1>6. LoopInv /\ UndefinedOnlyWhen
  BY DEF Init, LoopInv, UndefinedOnlyWhen, Modes
<1> QED
  BY <1>3, <1>4, <1>5, <1>6 DEF IInv

LEMMA NextInv == ASSUME IInv, [Next]_vars PROVE IInv'
<1>1. CASE getNextToken
  BY <1>1, EndOfTextStep, SkipWhitespaceStep, BeginCommentStep, LineCommentStep, CommentStep,
     UnclosedCommentStep, UnrecognizedStep, BeginWordStep, WordStep, EndWordStep,
     BeginNumberStep, BarePrefixStep, NumberStep, SuffixStep, EndNumberStep, BeginLiteralStep,
     BrokenLiteralStep, LiteralStep, EndLiteralStep, BeginOperatorStep, OperatorStep,
     EndOperatorStep
     DEF getNextToken
<1>2. CASE Finish
  BY <1>2, FinishStep
<1>3. CASE Over \/ UNCHANGED vars
  BY <1>3, Unchanged DEF Over
<1> QED
  BY <1>1, <1>2, <1>3 DEF Next

(* In every loop, the characters between the start of the token and the    *)
(* cursor are what the token's place will be computed from.                *)
THEOREM Inductive == Spec => []IInv
BY InitInv, NextInv, PTL DEF Spec

(* The cursor stays in the text and every variable keeps its kind, whatever*)
(* the text: no loop runs past the end.                                    *)
THEOREM TypeCorrect == Spec => []TypeOK
<1>1. IInv => TypeOK
  <2> SUFFICES ASSUME IInv PROVE TypeOK
    OBVIOUS
  <2>1. text \in Texts /\ Exact(text, it) /\ start \in 1..it.pos
    BY DEF IInv, CursorInv
  <2>2. /\ Len(text) \in Nat /\ it.pos \in 1..(Len(text) + 1)
    BY CursorFacts DEF IInv
  <2>3. start \in 1..(Len(text) + 1)
    BY <2>1, <2>2
  <2>4. Len(spans) = Len(tokens)
    BY DEF IInv, TokensInv, TokensOK
  <2> QED
    BY <2>1, <2>2, <2>3, <2>4 DEF TypeOK, IInv, DataInv, LoopInv, Modes, Exact, End
<1> QED
  BY <1>1, Inductive, PTL

(* The line and column of the cursor and of every token are those of the   *)
(* place, also where the code went back over a line break to find it.      *)
THEOREM LocationsAreExact == Spec => []LocationsExact
<1>1. IInv => LocationsExact
  <2> SUFFICES ASSUME IInv PROVE LocationsExact
    OBVIOUS
  <2>1. Spot(text, it)
    BY DEF IInv, CursorInv, Exact
  <2>2. OnSpot(it)
    BY <2>1 DEF OnSpot, Spot, Break, Breaks
  <2>3. ASSUME NEW k \in 1..Len(tokens)
        PROVE  /\ OnSpot(tokens[k].loc)
               /\ spans[k][1] <= tokens[k].loc.pos /\ tokens[k].loc.pos <= spans[k][2] + 1
               /\ \/ tokens[k].loc.pos = spans[k][1]
                  \/ tokens[k].type \in {"char", "bchar", "string", "cstring"}
                  \/ /\ tokens[k].type \in {"integer", "float"}
                     /\ Get(spans[k][1] + 1) \in DOMAIN PrefixOf
    <3>1. TokenAt(text, tokens[k], spans[k][1], spans[k][2])
      BY <2>3 DEF IInv, TokensInv, TokensOK
    <3>2. OnSpot(tokens[k].loc)
      BY <3>1 DEF TokenAt, OnSpot, Spot, Break, Breaks
    <3> QED
      BY <3>1, <3>2 DEF TokenAt, Literals, Prefixed, Get, End
  <2> QED
    BY <2>2, <2>3 DEF LocationsExact
<1> QED
  BY <1>1, Inductive, PTL

(* Reading a text has no undefined effect, and stops at no assert(), but   *)
(* in the six cases listed; a literal that ends right after an escape with *)
(* digits left to read (ShortEscape) is one of them.                       *)
THEOREM UndefinedIsExplained == Spec => []UndefinedOnlyWhen
<1>1. IInv => UndefinedOnlyWhen
  BY DEF IInv
<1> QED
  BY <1>1, Inductive, PTL

-----------------------------------------------------------------------------
(* What has been read. The first five parts say what is behind the cursor  *)
(* in each loop, the rest prove of intervals of the text what a loop's     *)
(* beginning, its turns and its end need.                                  *)

(* What lies behind the last token, and in front of the cursor.            *)
Fresh == After(Len(tokens))
Inner == {r \in Spans : Nested[r] \/ (r[1] = r[2] /\ ~Opens(r[1]) /\ ~Closes(r[1]))}

(* Comments are open at o[1], o[2], ..., and the cursor is at o[d + 1].    *)
Opened(o, d) ==
  \A i \in 1..d : /\ o[i] > 0 /\ o[i] + 2 <= o[i + 1] /\ Opens(o[i])
                  /\ Pieces(o[i] + 2, o[i + 1] - 1, Inner)
(* They would end at e[1], e[2], ..., and the cursor is behind e[d + 1].   *)
Closing(e, d) ==
  \A i \in 1..d : /\ e[i + 1] + 1 <= e[i] - 1 /\ Closes(e[i] - 1)
                  /\ Pieces(e[i + 1] + 1, e[i] - 2, Inner)
Chains(d) == [1..(d + 1) -> 0..(End + 1)]

CommentInv(p, d) ==
  \E o \in Chains(d) :
    /\ Fresh <= o[1] /\ Blank(Fresh, o[1] - 1)
    /\ Opened(o, d) /\ o[d + 1] = p
    /\ \A h \in 1..End : BlockComment(o[1], h) =>
         \E e \in Chains(d) : Closing(e, d) /\ e[1] = h /\ e[d + 1] = p - 1

LineCommentInv(p) ==
  \E k \in 1..End :
    /\ Fresh <= k /\ Blank(Fresh, k - 1)
    /\ Pair(k) = <<"/", "/">> /\ k + 2 <= p
    /\ \A i \in k..(p - 1) : text[i] # NL

BetweenInv ==
  /\ Fresh \in Nat
  /\ mode = "next" => \/ Fresh <= it.pos /\ Blank(Fresh, it.pos - 1)
                      \/ it.pos = End + 1 /\ BlankToEnd(Fresh)
  /\ mode = "line comment" => LineCommentInv(it.pos)
  /\ mode = "comment" => CommentInv(it.pos, depth)
  /\ mode \in {"word", "number", "suffix", "literal", "operator"} =>
       Fresh <= start /\ start <= End /\ Blank(Fresh, start - 1)

Refused ==
  \/ \A type \in TokenType : \A k \in start..End : ~Lexeme(type, start, k)
  \/ TakenUnseen(start)
  \/ \E k \in start..End : IsByte(start, k)

Reading == mode \notin {"finish", "done", "undefined"}
EndInv ==
  /\ \A k \in 1..Len(tokens) : tokens[k].type = "EOF" => k = Len(tokens)
  /\ Reading => level # "error" /\ \A k \in 1..Len(tokens) : tokens[k].type # "EOF"
  /\ level = "error" => Refused
  /\ mode \in {"finish", "done"} /\ level # "error" =>
       tokens # <<>> /\ tokens[Len(tokens)].type = "EOF"

(* Which kind of lexeme begins at s.                                       *)
LiteralAt(s) ==
  \/ Get(s) \in {"quote", "apostrophe"}
  \/ Pair(s) \in {<<"b", "apostrophe">>, <<"c", "quote">>}
NumberAt(s) == Get(s) \in isCharDigit \/ (Get(s) = "." /\ Get(s + 1) \in isCharDigit)
WordAt(s) == Get(s) \in isValidIdentifierBeginningChar /\ ~LiteralAt(s)
OperatorAt(s) ==
  /\ Get(s) \in isCharPunctuation \ {"_"} /\ ~LiteralAt(s) /\ ~NumberAt(s)
  /\ Pair(s) \notin {<<"/", "/">>, <<"/", "*">>}

ReadWord(s, p, b) ==
  WordAt(s) /\ s <= p /\ InSet(s, p - 1, isValidIdentifierChar) /\ b = Slice(s, p - 1)

ReadOperator(s, p, b) ==
  /\ OperatorAt(s) /\ s <= p /\ InSet(s, p - 1, isCharPunctuation) /\ b = Slice(s, p - 1)
  /\ \A k \in s..(p - 1) : Slice(s, k) \in operators => b \in operators

(* The digits of a number, and the dots among them.                        *)
PrefixAt(s) == Get(s) = "0" /\ Get(s + 1) \in DOMAIN PrefixOf
Numerals(s) == IF PrefixAt(s) THEN DigitsOf[PrefixOf[Get(s + 1)]] ELSE isCharDigit
First(s) == IF PrefixAt(s) THEN s + 2 ELSE s
Dotted(s, p) == \E i \in First(s)..p : Get(i) = "."

ReadNumber(s, p, n) ==
  /\ First(s) <= p /\ p <= End /\ InSet(First(s), p, Numerals(s) \cup {"."})
  /\ n.base = IF PrefixAt(s) THEN PrefixOf[Get(s + 1)] ELSE "dec"
  /\ n.float = Dotted(s, p)

(* The digits end before q.                                                *)
DigitsEnd(s, q) ==
  /\ q \in (First(s) + 1)..(End + 1)
  /\ InSet(First(s), q - 1, Numerals(s) \cup {"."}) /\ Get(q) \notin Numerals(s) \cup {"."}
Codes(s, q) == IF Dotted(s, q - 1) THEN FloatSuffix ELSE IntSuffix
NumberType(s, q) == IF Dotted(s, q - 1) THEN "float" ELSE "integer"

(* From p - Len(b) on, the text is not yet known to be a suffix.           *)
SuffixFrom(q, s, p, b, n, tok) ==
  /\ DigitsEnd(s, q)
  /\ tok.type = NumberType(s, q)
  /\ n.base = IF PrefixAt(s) THEN PrefixOf[Get(s + 1)] ELSE "dec"
  /\ InSet(q, p - 1, isCharAlnum)
  /\ q + Len(b) <= p /\ b = Slice(p - Len(b), p - 1)
  /\ n.left \subseteq Codes(s, q)
  /\ \A k \in (p - Len(b))..(p - 1) : Slice(p - Len(b), k) \notin n.left
  /\ \A hi \in (p - 1)..End :
       Suffixed(q, hi, Codes(s, q)) <=> Suffixed(p - Len(b), hi, n.left)

ReadSuffix(s, p, b, n, tok) == \E q \in (First(s) + 1)..p : SuffixFrom(q, s, p, b, n, tok)

(* An escape is seen by looking at two characters.                         *)
ReadLiteral(s, p) ==
  LET open == s + IF text[s] \in {"b", "c"} THEN 1 ELSE 0 IN
  /\ LiteralAt(s) /\ open <= p /\ p <= End
  /\ \A i \in (open + 1)..p :
       /\ text[i] # NL
       /\ text[i] = Quote(text[s]) => text[i - 1] = "backslash" /\ text[i - 2] # "backslash"

LexemeInv ==
  /\ mode = "word" => ReadWord(start, it.pos, buf)
  /\ mode = "operator" => ReadOperator(start, it.pos, buf)
  /\ mode \in {"number", "suffix"} =>
       NumberAt(start) /\ DOMAIN number = {"base", "float", "left"}
  /\ mode = "number" => TakenUnseen(start) \/ ReadNumber(start, it.pos, number)
  /\ mode = "suffix" =>
       /\ token.type \in {"integer", "float"}
       /\ TakenUnseen(start) \/ ReadSuffix(start, it.pos, buf, number, token)
  /\ mode = "literal" => ReadLiteral(start, it.pos)

TiledInv == \A k \in 1..Len(tokens) : Tile(k)

TInv == TiledInv /\ BetweenInv /\ EndInv /\ LexemeInv

Tiles(type, sp, from) ==
  IF type = "EOF" THEN sp[1] = End + 1 /\ BlankToEnd(from)
  ELSE /\ Blank(from, sp[1] - 1)
       /\ \/ Lexeme(type, sp[1], sp[2]) /\ Longest(sp[1], sp[2])
          \/ TakenUnseen(sp[1]) /\ type \in {"integer", "float"}
          \/ EndsElsewhere(sp[1], sp[2]) /\ type = LiteralType[text[sp[1]]]

-----------------------------------------------------------------------------
(* An interval in pieces.                                                  *)

(* Where a piece ends: before the next one begins, or with the interval.   *)
LEMMA StopFacts ==
  ASSUME NEW C, C \subseteq Nat, NEW hi \in Nat, NEW c \in Nat
  PROVE  /\ Stop(C, hi, c) = hi \/ (Stop(C, hi, c) + 1 \in C /\ Stop(C, hi, c) >= c)
         /\ Stop(C, hi, c) <= hi /\ Stop(C, hi, c) \in Int
         /\ \A d \in C : d > c => Stop(C, hi, c) + 1 <= d
<1> DEFINE T == {d \in C : d > c} \cup {hi + 1}
           m == Smallest(T)
<1>1. T \subseteq Nat /\ T # {} /\ hi + 1 \in T
  <2>1. hi + 1 \in T /\ hi + 1 \in Nat
    OBVIOUS
  <2>2. ASSUME NEW x \in T PROVE x \in Nat
    BY <2>1
  <2> HIDE DEF T
  <2> QED
    BY <2>1, <2>2
<1>2. \E x \in T : \A y \in T : x <= y
  BY <1>1, LeastExists
<1>3. m \in T /\ \A y \in T : m <= y
  BY <1>2 DEF Smallest
<1>4. Stop(C, hi, c) = m - 1
  BY DEF Stop
<1> HIDE DEF m
<1>5. m \in Nat /\ m - 1 + 1 = m
  BY <1>1, <1>3
<1>6. \A d \in C : d > c => d \in T
  OBVIOUS
<1>7. m = hi + 1 \/ (m \in C /\ m > c)
  BY <1>3
<1> HIDE DEF T
<1>8. m <= hi + 1
  BY <1>1, <1>3
<1> QED
  BY <1>3, <1>4, <1>5, <1>6, <1>7, <1>8

LEMMA StopIs ==
  ASSUME NEW C, C \subseteq Nat, NEW hi \in Nat, NEW c \in Nat,
         NEW m \in Nat, m <= hi, m = hi \/ (m + 1 \in C /\ m + 1 > c),
         \A d \in C : d > c => m + 1 <= d
  PROVE  Stop(C, hi, c) = m
<1>1. /\ Stop(C, hi, c) = hi \/ (Stop(C, hi, c) + 1 \in C /\ Stop(C, hi, c) >= c)
      /\ Stop(C, hi, c) <= hi /\ Stop(C, hi, c) \in Int
      /\ \A d \in C : d > c => Stop(C, hi, c) + 1 <= d
  BY StopFacts
<1>2. Stop(C, hi, c) <= m
  BY <1>1
<1>3. m <= Stop(C, hi, c)
  BY <1>1
<1> QED
  BY <1>1, <1>2, <1>3

LEMMA StopLast ==
  ASSUME NEW C, C \subseteq Nat, NEW hi \in Nat, NEW c \in Nat, \A d \in C : ~(d > c)
  PROVE  Stop(C, hi, c) = hi
<1>1. hi <= hi
  OBVIOUS
<1>2. \A m \in Nat : m = hi => Stop(C, hi, c) = m
  BY <1>1, StopIs
<1> QED
  BY <1>2

(* The first piece and the others.                                         *)
LEMMA PiecesFirst ==
  ASSUME NEW lo \in Nat, NEW hi \in Nat, lo <= hi, NEW S, Pieces(lo, hi, S)
  PROVE  \E k \in lo..hi : <<lo, k>> \in S /\ Pieces(k + 1, hi, S)
<1>1. PICK C \in SUBSET ((lo + 1)..hi) : \A c \in C \cup {lo} : <<c, Stop(C, hi, c)>> \in S
  BY DEF Pieces
<1> DEFINE k == Stop(C, hi, lo)
           D == {d \in C : d > k + 1}
<1>2. C \subseteq Nat /\ \A d \in C : lo < d /\ d <= hi
  BY <1>1
<1>3. /\ k = hi \/ (k + 1 \in C /\ k >= lo)
      /\ k <= hi /\ k \in Int
      /\ \A d \in C : d > lo => k + 1 <= d
  BY <1>2, StopFacts
<1> HIDE DEF k
<1>4. k \in lo..hi
  BY <1>2, <1>3
<1>5. <<lo, k>> \in S
  BY <1>1 DEF k
<1>6. Pieces(k + 1, hi, S)
  <2>1. CASE k = hi
    BY <2>1 DEF Pieces
  <2>2. CASE k # hi
    <3>1. k + 1 \in C
      BY <1>3, <1>4, <2>2
    <3>2. D \in SUBSET ((k + 1 + 1)..hi) /\ D \subseteq Nat
      <4>1. \A d \in D : d \in Nat /\ k + 1 + 1 <= d /\ d <= hi
        BY <1>2, <1>4
      <4> HIDE DEF D
      <4> QED
        BY <1>4, <4>1
    <3>3. ASSUME NEW c \in D \cup {k + 1} PROVE <<c, Stop(D, hi, c)>> \in S
      <4>1. c \in C /\ c >= k + 1
        BY <3>1, <1>4, <1>2
      <4>2. \A d \in Nat : d > c => (d \in C <=> d \in D)
        BY <4>1, <1>2, <1>4
      <4> HIDE DEF D
      <4>4. {d \in C : d > c} = {d \in D : d > c}
        BY <1>2, <3>2, <4>2
      <4>3. Stop(C, hi, c) = Stop(D, hi, c)
        BY <4>4 DEF Stop
      <4> QED
        BY <1>1, <4>1, <4>3
    <3> HIDE DEF D
    <3> QED
      BY <3>2, <3>3 DEF Pieces
  <2> QED
    BY <2>1, <2>2
<1> QED
  BY <1>4, <1>5, <1>6

(* One more piece behind the others.                                       *)
LEMMA PiecesLast ==
  ASSUME NEW lo \in Nat, NEW k \in Nat, NEW hi \in Nat, 1 <= k, lo <= k, k <= hi,
         NEW S, Pieces(lo, k - 1, S), <<k, hi>> \in S
  PROVE  Pieces(lo, hi, S)
<1>1. CASE lo = k
  <2>1. Stop({}, hi, lo) = hi
    BY StopLast
  <2>2. {} \in SUBSET ((lo + 1)..hi)
    OBVIOUS
  <2>3. \A c \in {} \cup {lo} : <<c, Stop({}, hi, c)>> \in S
    BY <1>1, <2>1
  <2> QED
    BY <2>2, <2>3 DEF Pieces
<1>2. CASE lo < k
  <2>1. PICK C \in SUBSET ((lo + 1)..(k - 1)) :
          \A c \in C \cup {lo} : <<c, Stop(C, k - 1, c)>> \in S
    BY <1>2 DEF Pieces
  <2> DEFINE D == C \cup {k}
  <2>2. C \subseteq Nat /\ \A d \in C : lo < d /\ d < k
    BY <2>1
  <2>3. D \in SUBSET ((lo + 1)..hi) /\ D \subseteq Nat
    BY <2>2, <1>2
  <2>4. ASSUME NEW c \in C \cup {lo} PROVE <<c, Stop(D, hi, c)>> \in S
    <3> DEFINE m == Stop(C, k - 1, c)
    <3>1. c \in Nat /\ c < k /\ k - 1 \in Nat
      BY <2>2, <1>2
    <3>2. /\ m = k - 1 \/ (m + 1 \in C /\ m >= c)
          /\ m <= k - 1 /\ m \in Int
          /\ \A d \in C : d > c => m + 1 <= d
      BY <2>2, <3>1, StopFacts
    <3> HIDE DEF m
    <3>3. m = hi \/ (m + 1 \in D /\ m + 1 > c)
      BY <3>1, <3>2
    <3>4. m \in Nat /\ m <= hi
      BY <3>1, <3>2, <2>2
    <3>5. \A d \in D : d > c => m + 1 <= d
      BY <3>2, <3>1
    <3> HIDE DEF D
    <3>6. Stop(D, hi, c) = m
      BY <3>1, <3>3, <3>4, <3>5, <2>3, StopIs
    <3> QED
      BY <2>1, <3>6 DEF m
  <2>5. Stop(D, hi, k) = hi
    <3>2. \A d \in D : ~(d > k)
      BY <2>2
    <3> HIDE DEF D
    <3> QED
      BY <2>3, <3>2, StopLast
  <2>6. \A c \in D \cup {lo} : <<c, Stop(D, hi, c)>> \in S
    BY <2>4, <2>5
  <2> HIDE DEF D
  <2> QED
    BY <2>3, <2>6 DEF Pieces
<1> QED
  BY <1>1, <1>2

(* A suffix and those that are left.                                       *)
LEMMA SuffixesFirst ==
  ASSUME NEW lo \in Nat, NEW hi \in Nat, lo <= hi, NEW S, Suffixed(lo, hi, S)
  PROVE  \E k \in lo..hi : Slice(lo, k) \in S /\ Suffixed(k + 1, hi, S \ {Slice(lo, k)})
<1>1. PICK C \in SUBSET ((lo + 1)..hi) :
        \A c \in C \cup {lo} :
          /\ Slice(c, Stop(C, hi, c)) \in S
          /\ \A d \in C \cup {lo} : Slice(c, Stop(C, hi, c)) = Slice(d, Stop(C, hi, d)) => c = d
  BY DEF Suffixed
<1> DEFINE k == Stop(C, hi, lo)
           D == {d \in C : d > k + 1}
           R == S \ {Slice(lo, k)}
<1>2. C \subseteq Nat /\ \A d \in C : lo < d /\ d <= hi
  BY <1>1
<1>3. /\ k = hi \/ (k + 1 \in C /\ k >= lo)
      /\ k <= hi /\ k \in Int
      /\ \A d \in C : d > lo => k + 1 <= d
  BY <1>2, StopFacts
<1>5. Slice(lo, k) \in S
  BY <1>1
<1>6. ASSUME NEW c \in C PROVE Slice(c, Stop(C, hi, c)) \in R
  <2>1. c \in C \cup {lo} /\ lo \in C \cup {lo} /\ c # lo
    BY <1>2
  <2> QED
    BY <1>1, <2>1
<1> HIDE DEF k
<1>4. k \in lo..hi
  BY <1>2, <1>3
<1>7. Suffixed(k + 1, hi, R)
  <2>1. CASE k = hi
    BY <2>1 DEF Suffixed
  <2>2. CASE k # hi
    <3>1. k + 1 \in C
      BY <1>3, <1>4, <2>2
    <3>2. D \in SUBSET ((k + 1 + 1)..hi) /\ D \subseteq Nat
      <4>1. \A d \in D : d \in Nat /\ k + 1 + 1 <= d /\ d <= hi
        BY <1>2, <1>4
      <4> HIDE DEF D
      <4> QED
        BY <1>4, <4>1
    <3>3. ASSUME NEW c \in D \cup {k + 1} PROVE c \in C /\ Stop(D, hi, c) = Stop(C, hi, c)
      <4>1. c \in C /\ c >= k + 1
        BY <3>1, <1>4, <1>2
      <4>2. \A d \in Nat : d > c => (d \in C <=> d \in D)
        BY <4>1, <1>2, <1>4
      <4> HIDE DEF D
      <4>4. {d \in C : d > c} = {d \in D : d > c}
        BY <1>2, <3>2, <4>2
      <4> QED
        BY <4>1, <4>4 DEF Stop
    <3> HIDE DEF D, R
    <3>4. ASSUME NEW c \in D \cup {k + 1}
          PROVE  /\ Slice(c, Stop(D, hi, c)) \in R
                 /\ \A d \in D \cup {k + 1} :
                      Slice(c, Stop(D, hi, c)) = Slice(d, Stop(D, hi, d)) => c = d
      BY <1>1, <1>6, <3>3
    <3> QED
      BY <3>2, <3>4 DEF Suffixed
  <2> QED
    BY <2>1, <2>2
<1> QED
  BY <1>4, <1>5, <1>7

LEMMA SuffixesMore ==
  ASSUME NEW lo \in Nat, NEW hi \in Nat, NEW k \in lo..hi, NEW S, Slice(lo, k) \in S,
         Suffixed(k + 1, hi, S \ {Slice(lo, k)})
  PROVE  Suffixed(lo, hi, S)
<1> DEFINE R == S \ {Slice(lo, k)}
<1>1. CASE k = hi
  <2>1. Stop({}, hi, lo) = hi
    BY StopLast
  <2>2. {} \in SUBSET ((lo + 1)..hi)
    OBVIOUS
  <2>3. \A c \in {} \cup {lo} :
          /\ Slice(c, Stop({}, hi, c)) \in S
          /\ \A d \in {} \cup {lo} : Slice(c, Stop({}, hi, c)) = Slice(d, Stop({}, hi, d)) => c = d
    BY <1>1, <2>1
  <2> QED
    BY <2>2, <2>3 DEF Suffixed
<1>2. CASE k < hi
  <2>1. PICK C \in SUBSET ((k + 1 + 1)..hi) :
          \A c \in C \cup {k + 1} :
            /\ Slice(c, Stop(C, hi, c)) \in R
            /\ \A d \in C \cup {k + 1} :
                 Slice(c, Stop(C, hi, c)) = Slice(d, Stop(C, hi, d)) => c = d
    BY <1>2 DEF Suffixed
  <2> DEFINE D == C \cup {k + 1}
  <2>2. C \subseteq Nat /\ (\A d \in C : k + 1 < d /\ d <= hi) /\ k \in Nat /\ lo <= k
    BY <2>1
  <2>3. D \in SUBSET ((lo + 1)..hi) /\ D \subseteq Nat /\ \A d \in D : k + 1 <= d
    BY <2>2, <1>2
  <2>4. ASSUME NEW c \in D PROVE Stop(D, hi, c) = Stop(C, hi, c)
    <3>1. \A d \in Nat : d > c => (d \in C <=> d \in D)
      BY <2>2
    <3> HIDE DEF D
    <3>2. {d \in C : d > c} = {d \in D : d > c}
      BY <2>2, <2>3, <3>1
    <3> QED
      BY <3>2 DEF Stop
  <2>5. Stop(D, hi, lo) = k
    <3>1. k + 1 \in D /\ k + 1 > lo /\ k <= hi
      BY <2>2
    <3>2. \A d \in D : d > lo => k + 1 <= d
      BY <2>3
    <3> HIDE DEF D
    <3> QED
      BY <2>2, <2>3, <3>1, <3>2, StopIs
  <2>6. lo \notin D
    BY <2>2, <2>3
  <2> HIDE DEF D
  <2>7. \A c \in D : /\ Slice(c, Stop(D, hi, c)) \in R
                     /\ \A d \in D : Slice(c, Stop(D, hi, c)) = Slice(d, Stop(D, hi, d)) => c = d
    BY <2>1, <2>4 DEF D
  <2>8. \A c \in D \cup {lo} :
          /\ Slice(c, Stop(D, hi, c)) \in S
          /\ \A d \in D \cup {lo} : Slice(c, Stop(D, hi, c)) = Slice(d, Stop(D, hi, d)) => c = d
    BY <2>5, <2>6, <2>7
  <2> QED
    BY <2>3, <2>8 DEF Suffixed
<1> QED
  BY <1>1, <1>2

-----------------------------------------------------------------------------
(* The equation of Nested.                                                 *)

LEMMA PiecesWithin ==
  ASSUME NEW lo \in Nat, NEW hi \in Nat, NEW S, NEW T, Pieces(lo, hi, S),
         \A a \in lo..hi : \A b \in a..hi : <<a, b>> \in S => <<a, b>> \in T
  PROVE  Pieces(lo, hi, T)
<1>1. CASE lo > hi
  BY <1>1 DEF Pieces
<1>2. CASE lo <= hi
  <2>1. PICK C \in SUBSET ((lo + 1)..hi) : \A c \in C \cup {lo} : <<c, Stop(C, hi, c)>> \in S
    BY <1>2 DEF Pieces
  <2>2. C \subseteq Nat
    BY <2>1
  <2>3. ASSUME NEW c \in C \cup {lo} PROVE <<c, Stop(C, hi, c)>> \in T
    <3>1. c \in lo..hi /\ c \in Nat
      BY <1>2, <2>1
    <3>2. /\ Stop(C, hi, c) = hi \/ (Stop(C, hi, c) + 1 \in C /\ Stop(C, hi, c) >= c)
          /\ Stop(C, hi, c) <= hi /\ Stop(C, hi, c) \in Int
      BY <2>2, <3>1, StopFacts
    <3>3. Stop(C, hi, c) \in c..hi
      BY <3>1, <3>2
    <3> QED
      BY <2>1, <3>1, <3>3
  <2> QED
    BY <2>3 DEF Pieces
<1> QED
  BY <1>1, <1>2

Plainly(r) == r[1] = r[2] /\ ~Opens(r[1]) /\ ~Closes(r[1])
Below(w) == {r \in Spans : w[r] \/ Plainly(r)}
Commented(w, s) ==
  /\ s[2] >= s[1] + 3 /\ Opens(s[1]) /\ Closes(s[2] - 1)
  /\ Pieces(s[1] + 2, s[2] - 2, Below(w))
Shorter(n) == {s \in Spans : s[2] - s[1] < n}
Table(w, n) == w = [s \in Shorter(n) |-> Commented(w, s)]

LEMMA CommentedWithin ==
  ASSUME NEW s \in Spans, Len(text) \in Nat, NEW w, NEW v, Commented(w, s),
         \A r \in Spans : s[1] < r[1] /\ r[2] < s[2] => (w[r] => v[r])
  PROVE  Commented(v, s)
<1>1. s[1] \in Nat /\ s[2] \in Nat /\ s[2] >= s[1] + 3 /\ s[2] <= Len(text) /\ s[1] >= 1
  BY DEF Spans, End, Commented
<1>2. s[1] + 2 \in Nat /\ s[2] - 2 \in Nat
  BY <1>1
<1>3. ASSUME NEW a \in (s[1] + 2)..(s[2] - 2), NEW b \in a..(s[2] - 2),
             <<a, b>> \in Below(w)
      PROVE  <<a, b>> \in Below(v)
  <2>1. <<a, b>> \in Spans /\ (w[<<a, b>>] \/ Plainly(<<a, b>>))
    BY <1>3 DEF Below
  <2>2. s[1] < a /\ b < s[2]
    BY <1>1
  <2>3. s[1] < <<a, b>>[1] /\ <<a, b>>[2] < s[2]
    BY <2>2
  <2> QED
    BY <2>1, <2>3 DEF Below
<1>4. Pieces(s[1] + 2, s[2] - 2, Below(w))
  BY DEF Commented
<1>5. Pieces(s[1] + 2, s[2] - 2, Below(v))
  BY <1>2, <1>3, <1>4, PiecesWithin
<1> QED
  BY <1>5 DEF Commented

LEMMA TablesExist ==
  ASSUME Len(text) \in Nat, NEW n \in Nat
  PROVE  \E w : Table(w, n)
<1> DEFINE T == {m \in Nat : ~\E w : Table(w, m)}
<1>1. SUFFICES ASSUME T # {} PROVE FALSE
  OBVIOUS
<1>2. PICK m \in T : \A k \in T : m <= k
  BY <1>1, LeastExists
<1>3. m \in Nat /\ ~\E w : Table(w, m)
  BY <1>2
<1>4. CASE m = 0
  <2> DEFINE w == [s \in Shorter(0) |-> FALSE]
  <2>1. ASSUME NEW s \in Shorter(0) PROVE Commented(w, s) = FALSE
    <3>1. s[1] \in Nat /\ s[2] \in Nat /\ s[2] - s[1] < 0
      BY DEF Shorter, Spans, End
    <3>2. ~(s[2] >= s[1] + 3)
      BY <3>1
    <3> QED
      BY <3>2 DEF Commented
  <2>2. w = [s \in Shorter(0) |-> Commented(w, s)]
    BY <2>1
  <2> HIDE DEF w
  <2>3. Table(w, 0)
    BY <2>2 DEF Table
  <2> QED
    BY <1>3, <1>4, <2>3
<1>5. CASE m > 0
  <2>1. PICK k \in Nat : k = m - 1 /\ k \notin T
    BY <1>2, <1>3, <1>5
  <2>2. PICK v : Table(v, k)
    BY <2>1
  <2> DEFINE w == [s \in Shorter(m) |-> Commented(v, s)]
  <2>3. Shorter(k) \subseteq Shorter(m) /\ Shorter(m) \subseteq Spans
    BY <1>3, <2>1 DEF Shorter, Spans, End
  <2>4. \A s \in Shorter(k) : v[s] = w[s]
    BY <2>2, <2>3 DEF Table
  <2>5. \A s \in Shorter(m) : w[s] = Commented(v, s)
    OBVIOUS
  <2> HIDE DEF w
  <2>6. ASSUME NEW s \in Shorter(m), NEW r \in Spans, s[1] < r[1] /\ r[2] < s[2]
        PROVE  r \in Shorter(k)
    <3>1. s[2] - s[1] < m /\ s[1] \in Nat /\ s[2] \in Nat /\ r[1] \in Nat /\ r[2] \in Nat
      BY DEF Shorter, Spans, End
    <3>2. r[2] - r[1] < k
      BY <3>1, <2>6, <2>1, <1>3
    <3> QED
      BY <3>2 DEF Shorter
  <2>7. ASSUME NEW s \in Shorter(m) PROVE Commented(v, s) <=> Commented(w, s)
    <3>1. s \in Spans
      BY <2>3
    <3>2. \A r \in Spans : s[1] < r[1] /\ r[2] < s[2] => v[r] = w[r]
      BY <2>4, <2>6
    <3>3. Commented(v, s) => Commented(w, s)
      BY <3>1, <3>2, CommentedWithin
    <3>4. Commented(w, s) => Commented(v, s)
      BY <3>1, <3>2, CommentedWithin
    <3> QED
      BY <3>3, <3>4
  <2>8. \A s \in Shorter(m) : Commented(v, s) \in BOOLEAN /\ Commented(w, s) \in BOOLEAN
    BY DEF Commented
  <2>9. w = [s \in Shorter(m) |-> Commented(w, s)]
    <3>1. \A s \in Shorter(m) : Commented(v, s) = Commented(w, s)
      BY <2>7, <2>8
    <3>2. [s \in Shorter(m) |-> Commented(v, s)] = [s \in Shorter(m) |-> Commented(w, s)]
      BY <3>1, Zenon
    <3> QED
      BY <3>2 DEF w
  <2>10. Table(w, m)
    BY <2>9 DEF Table
  <2> QED
    BY <1>3, <2>10
<1> QED
  BY <1>3, <1>4, <1>5

LEMMA NestedChosen == Nested = CHOOSE w : w = [s \in Spans |-> Commented(w, s)]
BY DEF Nested, Commented, Below, Plainly

LEMMA NestedIs ==
  ASSUME Len(text) \in Nat, NEW s \in Spans
  PROVE  /\ Nested[s] <=> Commented(Nested, s)
         /\ Below(Nested) = Inner
<1>1. Shorter(Len(text)) = Spans
  <2>1. \A r \in Spans : r[2] - r[1] < Len(text)
    BY DEF Spans, End
  <2> QED
    BY <2>1 DEF Shorter
<1>2. \E w : Table(w, Len(text))
  BY TablesExist
<1>3. \E w : w = [r \in Spans |-> Commented(w, r)]
  BY <1>1, <1>2, Zenon DEF Table
<1>4. Nested = [r \in Spans |-> Commented(Nested, r)]
  BY <1>3, NestedChosen, Zenon
<1>5. Nested[s] = Commented(Nested, s)
  BY <1>4, Zenon
<1> QED
  BY <1>5 DEF Below, Plainly, Inner

-----------------------------------------------------------------------------
(* What is said of the text stays true as long as the text is the same.    *)

LEMMA SamePlaces ==
  ASSUME text' = text
  PROVE  /\ End' = End /\ Spans' = Spans /\ Nested' = Nested /\ Inner' = Inner
         /\ \A i : Get(i)' = Get(i)
         /\ \A i : Pair(i)' = Pair(i)
         /\ \A i : (Opens(i)' <=> Opens(i)) /\ (Closes(i)' <=> Closes(i))
BY DEF Nested, Spans, Opens, Closes, Pair, Get, End, Inner

LEMMA SameBlank == 
  ASSUME text' = text, NEW a, NEW b
  PROVE  /\ Blank(a, b)' <=> Blank(a, b)
         /\ BlockComment(a, b)' <=> BlockComment(a, b)
         /\ UnclosedAt(a)' <=> UnclosedAt(a)
         /\ BlankToEnd(a)' <=> BlankToEnd(a)
BY DEF Blank, Pieces, Spans, OneLineComment, BlockComment, Nested, Opens, Closes, Pair, Get, End,
  UnclosedAt, BlankToEnd

LEMMA SameComments ==
  ASSUME text' = text, UNCHANGED <<tokens, spans>>, NEW p, NEW d
  PROVE  /\ CommentInv(p, d)' <=> CommentInv(p, d)
         /\ LineCommentInv(p)' <=> LineCommentInv(p)
BY DEF CommentInv, LineCommentInv, Fresh, After, Opened, Closing, Chains, Pieces, Blank, Pieces, Spans, OneLineComment, BlockComment, Nested, Opens, Closes, Pair, Get, End, Inner

LEMMA SameReads ==
  ASSUME text' = text, NEW s, NEW p, NEW b, NEW n, NEW tok
  PROVE  /\ ReadWord(s, p, b)' <=> ReadWord(s, p, b)
         /\ ReadOperator(s, p, b)' <=> ReadOperator(s, p, b)
         /\ ReadNumber(s, p, n)' <=> ReadNumber(s, p, n)
         /\ ReadSuffix(s, p, b, n, tok)' <=> ReadSuffix(s, p, b, n, tok)
         /\ ReadLiteral(s, p)' <=> ReadLiteral(s, p)
         /\ TakenUnseen(s)' <=> TakenUnseen(s)
         /\ NumberAt(s)' <=> NumberAt(s)
BY DEF ReadWord, ReadOperator, ReadNumber, ReadSuffix, SuffixFrom, DigitsEnd, Codes, NumberType, ReadLiteral, TakenUnseen, NumberAt, WordAt, LiteralAt, OperatorAt,
  InSet, Slice, PrefixAt, Numerals, First, Dotted, Suffixed, Pair, Get, End

LEMMA SameLexemes ==
  ASSUME text' = text, NEW a, NEW b, NEW type
  PROVE  /\ Lexeme(type, a, b)' <=> Lexeme(type, a, b)
         /\ Longest(a, b)' <=> Longest(a, b)
         /\ EndsElsewhere(a, b)' <=> EndsElsewhere(a, b)
         /\ IsByte(a, b)' <=> IsByte(a, b)
BY DEF IsByte, Lexeme, Longest, IsWord, IsNumber, IsOperator, IsLiteral, EndsAt, EndsElsewhere, Slice, InSet, Pair, Get, End, Suffixed

LEMMA SameMarks ==
  ASSUME text' = text, NEW type, NEW sp, NEW from
  PROVE  Tiles(type, sp, from)' <=> Tiles(type, sp, from)
<1>1. /\ \A a, b : Lexeme(type, a, b)' <=> Lexeme(type, a, b)
      /\ \A a, b : Longest(a, b)' <=> Longest(a, b)
      /\ \A a, b : EndsElsewhere(a, b)' <=> EndsElsewhere(a, b)
  BY SameLexemes
<1>2. /\ \A a, b : Blank(a, b)' <=> Blank(a, b)
      /\ \A a : BlankToEnd(a)' <=> BlankToEnd(a)
  BY SameBlank
<1>3. \A a : TakenUnseen(a)' <=> TakenUnseen(a)
  BY DEF TakenUnseen, Get, End
<1>4. End' = End
  BY DEF End
<1> QED
  BY <1>1, <1>2, <1>3, <1>4 DEF Tiles, LiteralType

LEMMA TileIs == \A k : Tile(k) <=> Tiles(tokens[k].type, spans[k], After(k - 1))
BY DEF Tile, Tiles

-----------------------------------------------------------------------------
(* The characters at the cursor.                                           *)

LEMMA TextFacts ==
  ASSUME text \in Seq(Char)
  PROVE  /\ End = Len(text) /\ End \in Nat
         /\ \A i \in 1..End : Get(i) = text[i] /\ text[i] \in Char /\ Get(i) # NUL
         /\ \A i \in Int : i > End => Get(i) = NUL
         /\ NUL \notin Char
<1>1. Len(text) \in Nat /\ DOMAIN text = 1..Len(text) /\ \A i \in 1..Len(text) : text[i] \in Char
  BY LenProperties
<1> QED
  BY <1>1, CharFacts DEF End, Get

LEMMA Looking ==
  ASSUME CursorInv
  PROVE  /\ text \in Seq(Char) /\ it.pos \in 1..(End + 1) /\ it.pos \in Nat
         /\ Here = Get(it.pos) /\ There = Get(it.pos + 1)
         /\ More <=> it.pos <= End
         /\ it.pos <= End => Forward(text, it).pos = it.pos + 1
         /\ it.pos > End => Forward(text, it).pos = it.pos
         /\ it.pos + 1 <= End => Twice(text, it).pos = it.pos + 2
<1>1. /\ text \in Seq(Char) /\ Len(text) \in Nat /\ Exact(text, it)
      /\ it.pos \in 1..(Len(text) + 1) /\ it.pos \in Nat
      /\ it.pos <= Len(text) => More /\ Here = text[it.pos]
      /\ it.pos > Len(text) => ~More /\ Here = NUL
      /\ More => it.pos <= Len(text)
      /\ Exact(text, Forward(text, it))
      /\ it.pos <= Len(text) => Forward(text, it).pos = it.pos + 1
      /\ it.pos > Len(text) => Forward(text, it).pos = it.pos
  BY CursorFacts
<1>2. There = Get(it.pos + 1)
  <2> DEFINE l == Forward(text, it)
  <2>1. /\ l.pos <= Len(text) => At(text, l) = text[l.pos]
        /\ l.pos > Len(text) => At(text, l) = NUL
    BY <1>1, PlaceFacts
  <2> QED
    BY <1>1, <2>1 DEF There, Get, End
<1>3. it.pos + 1 <= Len(text) => Twice(text, it).pos = it.pos + 2
  <2>1. it.pos + 1 <= Len(text) => it.pos <= Len(text)
    BY <1>1
  <2> QED
    BY <2>1, TwiceFacts
<1> QED
  BY <1>1, <1>2, <1>3 DEF Get, End

-----------------------------------------------------------------------------
(* Blanks and comments.                                                    *)

LEMMA BlankMore ==
  ASSUME End \in Nat, NEW lo \in Nat, NEW k \in 1..End, NEW hi \in k..End, lo <= k,
         Blank(lo, k - 1),
         \/ k = hi /\ text[k] \in isCharWhitespace
         \/ OneLineComment(k, hi) \/ BlockComment(k, hi)
  PROVE  Blank(lo, hi)
<1> DEFINE S == {s \in Spans : \/ s[1] = s[2] /\ text[s[1]] \in isCharWhitespace
                               \/ OneLineComment(s[1], s[2]) \/ BlockComment(s[1], s[2])}
<1>1. <<k, hi>> \in Spans
  BY DEF Spans
<1>2. <<k, hi>> \in S
  BY <1>1
<1>3. Pieces(lo, k - 1, S)
  BY DEF Blank
<1> HIDE DEF S
<1>4. k \in Nat /\ hi \in Nat /\ 1 <= k /\ k <= hi
  OBVIOUS
<1>5. Pieces(lo, hi, S)
  BY <1>2, <1>3, <1>4, PiecesLast
<1> QED
  BY <1>5 DEF Blank, S

LEMMA InnerFacts ==
  ASSUME End \in Nat, NEW s \in Spans
  PROVE  /\ Nested[s] <=> /\ s[2] >= s[1] + 3 /\ Opens(s[1]) /\ Closes(s[2] - 1)
                          /\ Pieces(s[1] + 2, s[2] - 2, Inner)
         /\ s \in Inner <=> Nested[s] \/ (s[1] = s[2] /\ ~Opens(s[1]) /\ ~Closes(s[1]))
<1>1. (Nested[s] <=> Commented(Nested, s)) /\ Below(Nested) = Inner
  BY NestedIs DEF End
<1> QED
  BY <1>1 DEF Commented, Inner

LEMMA MarkFacts ==
  ASSUME text \in Seq(Char), NEW p \in Nat
  PROVE  /\ ~(Opens(p) /\ Closes(p))
         /\ Opens(p) <=> Get(p) = "/" /\ Get(p + 1) = "*"
         /\ Closes(p) <=> Get(p) = "*" /\ Get(p + 1) = "/"
         /\ p >= 1 /\ (Opens(p) \/ Closes(p)) => p + 1 <= End
<1>1. "/" # "*"
  OBVIOUS
<1>2. /\ Opens(p) <=> Get(p) = "/" /\ Get(p + 1) = "*"
      /\ Closes(p) <=> Get(p) = "*" /\ Get(p + 1) = "/"
  BY DEF Opens, Closes, Pair
<1>3. End \in Nat /\ (p + 1 > End => Get(p + 1) = NUL)
  BY TextFacts
<1> QED
  BY <1>1, <1>2, <1>3 DEF NUL

-----------------------------------------------------------------------------
(* A comment, mark by mark.                                                *)

(* Inside of a comment that is to end, the first piece of what is left.    *)
LEMMA InnerFirst ==
  ASSUME text \in Seq(Char), NEW p \in 1..End, NEW hi \in Nat, p <= hi, Pieces(p, hi, Inner)
  PROVE  \E k \in p..hi :
           /\ Pieces(k + 1, hi, Inner) /\ ~Closes(p) /\ k <= End
           /\ \/ k = p /\ ~Opens(p)
              \/ /\ Opens(p) /\ Closes(k - 1) /\ k >= p + 3
                 /\ Pieces(p + 2, k - 2, Inner)
<1>1. PICK k \in p..hi : <<p, k>> \in Inner /\ Pieces(k + 1, hi, Inner)
  <2>1. p \in Nat
    OBVIOUS
  <2> QED
    BY <2>1, PiecesFirst
<1>2. <<p, k>> \in Spans
  BY <1>1 DEF Inner
<1>3. End \in Nat
  BY TextFacts
<1>4. /\ Nested[<<p, k>>] <=> /\ k >= p + 3 /\ Opens(p) /\ Closes(k - 1)
                              /\ Pieces(p + 2, k - 2, Inner)
      /\ Nested[<<p, k>>] \/ (p = k /\ ~Opens(p) /\ ~Closes(p))
  BY <1>1, <1>2, <1>3, InnerFacts
<1>5. ~(Opens(p) /\ Closes(p))
  BY MarkFacts
<1>6. k <= End
  BY <1>2 DEF Spans
<1> QED
  BY <1>1, <1>4, <1>5, <1>6

LEMMA CommentBegins ==
  ASSUME text \in Seq(Char), Fresh \in Nat, NEW p \in 1..End, Fresh <= p,
         Blank(Fresh, p - 1), Opens(p)
  PROVE  CommentInv(p + 2, 1)
<1> DEFINE o == [i \in 1..(1 + 1) |-> IF i = 1 THEN p ELSE p + 2]
<1>1. End \in Nat /\ p + 1 <= End /\ p \in Nat
  BY TextFacts, MarkFacts
<1>2. o \in Chains(1) /\ o[1] = p /\ o[1 + 1] = p + 2
  BY <1>1 DEF Chains
<1>3. Opened(o, 1)
  <2>1. Pieces(p + 2, p + 2 - 1, Inner)
    BY DEF Pieces
  <2>2. ASSUME NEW i \in 1..1 PROVE o[i] = p /\ o[i + 1] = p + 2
    BY <1>2
  <2> HIDE DEF o
  <2> QED
    BY <1>1, <2>1, <2>2 DEF Opened
<1>4. ASSUME NEW h \in 1..End, BlockComment(p, h)
      PROVE  \E e \in Chains(1) : Closing(e, 1) /\ e[1] = h /\ e[1 + 1] = p + 2 - 1
  <2> DEFINE e == [i \in 1..(1 + 1) |-> IF i = 1 THEN h ELSE p + 2 - 1]
  <2>1. e \in Chains(1) /\ e[1] = h /\ e[1 + 1] = p + 2 - 1
    BY <1>1 DEF Chains
  <2>2. <<p, h>> \in Spans /\ Nested[<<p, h>>]
    BY <1>4 DEF BlockComment
  <2>3. h >= p + 3 /\ Closes(h - 1) /\ Pieces(p + 2, h - 2, Inner)
    BY <1>1, <2>2, InnerFacts
  <2>4. ASSUME NEW i \in 1..1 PROVE e[i] = h /\ e[i + 1] = p + 1
    BY <2>1
  <2> HIDE DEF e
  <2>5. h \in Nat /\ p + 1 + 1 = p + 2 /\ p + 2 <= h - 1
    BY <1>1, <2>3
  <2>6. Closing(e, 1)
    BY <2>3, <2>4, <2>5 DEF Closing
  <2> QED
    BY <2>1, <2>6
<1> HIDE DEF o
<1> QED
  BY <1>1, <1>2, <1>3, <1>4 DEF CommentInv

(* A character that is part of no mark.                                    *)
LEMMA CommentGoes ==
  ASSUME text \in Seq(Char), NEW d \in Nat, d > 0, NEW p \in 1..End, ~Opens(p), ~Closes(p),
         CommentInv(p, d)
  PROVE  CommentInv(p + 1, d)
<1>1. PICK o \in Chains(d) :
        /\ Fresh <= o[1] /\ Blank(Fresh, o[1] - 1)
        /\ Opened(o, d) /\ o[d + 1] = p
        /\ \A h \in 1..End : BlockComment(o[1], h) =>
             \E e \in Chains(d) : Closing(e, d) /\ e[1] = h /\ e[d + 1] = p - 1
  BY DEF CommentInv
<1> DEFINE n == [i \in 1..(d + 1) |-> IF i = d + 1 THEN p + 1 ELSE o[i]]
<1>2. End \in Nat /\ p \in Nat /\ p <= End
  BY TextFacts
<1>3. \A i \in 1..(d + 1) : o[i] \in 0..(End + 1)
  BY <1>1 DEF Chains
<1>4. n \in Chains(d)
  BY <1>2, <1>3 DEF Chains
<1>5. n[d + 1] = p + 1 /\ \A i \in 1..d : n[i] = o[i]
  OBVIOUS
<1> HIDE DEF n
<1>6. <<p, p>> \in Inner
  BY <1>2 DEF Inner, Spans
<1>7. Opened(n, d)
  <2>1. ASSUME NEW i \in 1..d
        PROVE  /\ n[i] > 0 /\ n[i] + 2 <= n[i + 1] /\ Opens(n[i])
               /\ Pieces(n[i] + 2, n[i + 1] - 1, Inner)
    <3>1. /\ o[i] > 0 /\ o[i] + 2 <= o[i + 1] /\ Opens(o[i])
          /\ Pieces(o[i] + 2, o[i + 1] - 1, Inner)
      BY <1>1 DEF Opened
    <3>2. CASE i < d
      <4>1. i + 1 \in 1..d
        BY <3>2
      <4> QED
        BY <1>5, <3>1, <4>1
    <3>3. CASE i = d
      <4>1. n[i] = o[i] /\ n[i + 1] = p + 1 /\ o[i + 1] = p /\ o[i] \in Nat
        BY <1>1, <1>3, <1>5, <3>3
      <4>2. o[i] + 2 \in Nat /\ 1 <= p /\ o[i] + 2 <= p /\ Pieces(o[i] + 2, p - 1, Inner)
        BY <3>1, <4>1
      <4>3. Pieces(o[i] + 2, p, Inner)
        BY <1>2, <1>6, <4>2, PiecesLast
      <4>4. p + 1 - 1 = p /\ o[i] + 2 <= p + 1
        BY <1>2, <4>1, <4>2
      <4> QED
        BY <3>1, <4>1, <4>3, <4>4
    <3> QED
      BY <3>2, <3>3
  <2> QED
    BY <2>1 DEF Opened
<1>8. ASSUME NEW h \in 1..End, BlockComment(n[1], h)
      PROVE  \E e \in Chains(d) : Closing(e, d) /\ e[1] = h /\ e[d + 1] = p + 1 - 1
  <2>1. n[1] = o[1]
    BY <1>5
  <2>2. PICK e \in Chains(d) : Closing(e, d) /\ e[1] = h /\ e[d + 1] = p - 1
    BY <1>1, <1>8, <2>1
  <2> DEFINE m == [i \in 1..(d + 1) |-> IF i = d + 1 THEN p ELSE e[i]]
  <2>3. \A i \in 1..(d + 1) : e[i] \in 0..(End + 1)
    BY <2>2 DEF Chains
  <2>4. m \in Chains(d)
    BY <1>2, <2>3 DEF Chains
  <2>5. m[d + 1] = p /\ \A i \in 1..d : m[i] = e[i]
    OBVIOUS
  <2> HIDE DEF m
  <2>6. ASSUME NEW i \in 1..d
        PROVE  /\ m[i + 1] + 1 <= m[i] - 1 /\ Closes(m[i] - 1)
               /\ Pieces(m[i + 1] + 1, m[i] - 2, Inner)
    <3>1. /\ e[i + 1] + 1 <= e[i] - 1 /\ Closes(e[i] - 1)
          /\ Pieces(e[i + 1] + 1, e[i] - 2, Inner)
      BY <2>2 DEF Closing
    <3>2. CASE i < d
      <4>1. i + 1 \in 1..d
        BY <3>2
      <4> QED
        BY <2>5, <3>1, <4>1
    <3>3. CASE i = d
      <4>1. m[i] = e[i] /\ m[i + 1] = p /\ e[i + 1] = p - 1 /\ e[i] \in Nat
        BY <2>2, <2>3, <2>5, <3>3
      <4>2. p - 1 + 1 = p /\ p <= e[i] - 1 /\ Pieces(p, e[i] - 2, Inner)
        BY <1>2, <3>1, <4>1
      <4>3. p # e[i] - 1
        BY <3>1
      <4>4. e[i] - 2 \in Nat /\ p <= e[i] - 2
        BY <1>2, <4>1, <4>2, <4>3
      <4>5. Pieces(p + 1, e[i] - 2, Inner)
        BY <4>2, <4>4, InnerFirst
      <4>6. p + 1 <= e[i] - 1
        BY <1>2, <4>1, <4>4
      <4> QED
        BY <3>1, <4>1, <4>5, <4>6
    <3> QED
      BY <3>2, <3>3
  <2>7. m[1] = h
    BY <2>2, <2>5
  <2>8. m[d + 1] = p + 1 - 1
    BY <1>2, <2>5
  <2> QED
    BY <2>4, <2>6, <2>7, <2>8 DEF Closing
<1>9. n[1] = o[1]
  BY <1>5
<1> QED
  BY <1>1, <1>4, <1>5, <1>7, <1>8, <1>9 DEF CommentInv

(* A comment begins inside of the one that is open.                        *)
LEMMA CommentDeepens ==
  ASSUME text \in Seq(Char), NEW d \in Nat, d > 0, NEW p \in 1..End, Opens(p),
         CommentInv(p, d)
  PROVE  CommentInv(p + 2, d + 1)
<1>1. PICK o \in Chains(d) :
        /\ Fresh <= o[1] /\ Blank(Fresh, o[1] - 1)
        /\ Opened(o, d) /\ o[d + 1] = p
        /\ \A h \in 1..End : BlockComment(o[1], h) =>
             \E e \in Chains(d) : Closing(e, d) /\ e[1] = h /\ e[d + 1] = p - 1
  BY DEF CommentInv
<1> DEFINE n == [i \in 1..(d + 1 + 1) |-> IF i = d + 1 + 1 THEN p + 2 ELSE o[i]]
<1>2. End \in Nat /\ p \in Nat /\ p + 1 <= End /\ p >= 1
  BY TextFacts, MarkFacts
<1>3. \A i \in 1..(d + 1) : o[i] \in 0..(End + 1)
  BY <1>1 DEF Chains
<1>4. n \in Chains(d + 1)
  BY <1>2, <1>3 DEF Chains
<1>5. n[d + 1 + 1] = p + 2 /\ \A i \in 1..(d + 1) : n[i] = o[i]
  OBVIOUS
<1> HIDE DEF n
<1>7. Opened(n, d + 1)
  <2>1. ASSUME NEW i \in 1..(d + 1)
        PROVE  /\ n[i] > 0 /\ n[i] + 2 <= n[i + 1] /\ Opens(n[i])
               /\ Pieces(n[i] + 2, n[i + 1] - 1, Inner)
    <3>2. CASE i \in 1..d
      <4>1. i + 1 \in 1..(d + 1) /\ i \in 1..(d + 1)
        BY <3>2
      <4>2. /\ o[i] > 0 /\ o[i] + 2 <= o[i + 1] /\ Opens(o[i])
            /\ Pieces(o[i] + 2, o[i + 1] - 1, Inner)
        BY <1>1, <3>2 DEF Opened
      <4> QED
        BY <1>5, <4>1, <4>2
    <3>3. CASE i = d + 1
      <4>1. n[i] = p /\ n[i + 1] = p + 2
        BY <1>1, <1>5, <3>3
      <4>2. Pieces(p + 2, p + 2 - 1, Inner)
        BY <1>2 DEF Pieces
      <4> QED
        BY <1>2, <4>1, <4>2
    <3> QED
      BY <3>2, <3>3
  <2> QED
    BY <2>1 DEF Opened
<1>8. ASSUME NEW h \in 1..End, BlockComment(n[1], h)
      PROVE  \E e \in Chains(d + 1) : Closing(e, d + 1) /\ e[1] = h /\ e[d + 1 + 1] = p + 2 - 1
  <2>1. n[1] = o[1]
    BY <1>5
  <2>2. PICK e \in Chains(d) : Closing(e, d) /\ e[1] = h /\ e[d + 1] = p - 1
    BY <1>1, <1>8, <2>1
  <2>3. \A i \in 1..(d + 1) : e[i] \in 0..(End + 1)
    BY <2>2 DEF Chains
  <2>4. /\ e[d + 1] + 1 <= e[d] - 1 /\ Closes(e[d] - 1)
        /\ Pieces(e[d + 1] + 1, e[d] - 2, Inner)
    BY <2>2 DEF Closing
  <2>5. e[d] \in Nat
    BY <2>3
  <2>6. p - 1 + 1 = p /\ p <= e[d] - 1 /\ Pieces(p, e[d] - 2, Inner)
    BY <1>2, <2>2, <2>4
  <2>7. p # e[d] - 1
    BY <2>4, MarkFacts
  <2>8. e[d] - 2 \in Nat /\ p <= e[d] - 2
    BY <1>2, <2>5, <2>6, <2>7
  <2>9. PICK k \in p..(e[d] - 2) :
          /\ Pieces(k + 1, e[d] - 2, Inner) /\ Closes(k - 1) /\ k >= p + 3
          /\ Pieces(p + 2, k - 2, Inner) /\ k <= End
    BY <2>6, <2>8, InnerFirst
  <2> DEFINE m == [i \in 1..(d + 1 + 1) |-> IF i = d + 1 + 1 THEN p + 1
                                            ELSE IF i = d + 1 THEN k ELSE e[i]]
  <2>10. k \in Nat /\ k \in 0..(End + 1) /\ p + 1 \in 0..(End + 1)
    BY <1>2, <2>9
  <2>11. m \in Chains(d + 1)
    BY <2>3, <2>10 DEF Chains
  <2>12. m[d + 1 + 1] = p + 1 /\ m[d + 1] = k /\ \A i \in 1..d : m[i] = e[i]
    OBVIOUS
  <2> HIDE DEF m
  <2>13. ASSUME NEW i \in 1..(d + 1)
         PROVE  /\ m[i + 1] + 1 <= m[i] - 1 /\ Closes(m[i] - 1)
                /\ Pieces(m[i + 1] + 1, m[i] - 2, Inner)
    <3>1. CASE i < d
      <4>1. i \in 1..d /\ i + 1 \in 1..d
        BY <3>1
      <4>2. /\ e[i + 1] + 1 <= e[i] - 1 /\ Closes(e[i] - 1)
            /\ Pieces(e[i + 1] + 1, e[i] - 2, Inner)
        BY <2>2, <4>1 DEF Closing
      <4> QED
        BY <2>12, <4>1, <4>2
    <3>2. CASE i = d
      <4>1. m[i] = e[d] /\ m[i + 1] = k
        BY <2>12, <3>2
      <4>2. k + 1 <= e[d] - 1
        BY <2>5, <2>9, <2>10
      <4> QED
        BY <2>4, <2>9, <4>1, <4>2
    <3>3. CASE i = d + 1
      <4>1. m[i] = k /\ m[i + 1] = p + 1 /\ p + 1 + 1 = p + 2 /\ p + 2 <= k - 1
        BY <1>2, <2>9, <2>10, <2>12, <3>3
      <4> QED
        BY <2>9, <4>1
    <3> QED
      BY <3>1, <3>2, <3>3
  <2>14. m[1] = h
    BY <2>2, <2>12
  <2>15. m[d + 1 + 1] = p + 2 - 1
    BY <1>2, <2>12
  <2> QED
    BY <2>11, <2>13, <2>14, <2>15 DEF Closing
<1>9. n[1] = o[1]
  BY <1>5
<1>10. d + 1 \in Nat
  OBVIOUS
<1> QED
  BY <1>1, <1>4, <1>5, <1>7, <1>8, <1>9 DEF CommentInv

(* A pair of marks and what is between them.                               *)
LEMMA NestedHere ==
  ASSUME End \in Nat, NEW a \in 1..End, NEW b \in 1..End, b >= a + 3, Opens(a), Closes(b - 1),
         Pieces(a + 2, b - 2, Inner)
  PROVE  <<a, b>> \in Inner /\ BlockComment(a, b)
<1> DEFINE s == <<a, b>>
<1>1. s \in Spans /\ s[1] = a /\ s[2] = b
  BY DEF Spans
<1> HIDE DEF s
<1>2. Nested[s] /\ s \in Inner
  BY <1>1, InnerFacts
<1> QED
  BY <1>1, <1>2 DEF BlockComment, s

(* The comment that was opened last ends: one that is inside of another.   *)
LEMMA CommentCloses ==
  ASSUME text \in Seq(Char), NEW d \in Nat, d > 1, NEW p \in 1..End, Closes(p),
         CommentInv(p, d)
  PROVE  CommentInv(p + 2, d - 1)
<1>1. PICK o \in Chains(d) :
        /\ Fresh <= o[1] /\ Blank(Fresh, o[1] - 1)
        /\ Opened(o, d) /\ o[d + 1] = p
        /\ \A h \in 1..End : BlockComment(o[1], h) =>
             \E e \in Chains(d) : Closing(e, d) /\ e[1] = h /\ e[d + 1] = p - 1
  BY DEF CommentInv
<1> DEFINE c == d - 1
           n == [i \in 1..(c + 1) |-> IF i = d THEN p + 2 ELSE o[i]]
<1>2. End \in Nat /\ p \in Nat /\ p + 1 <= End /\ p >= 1
  BY TextFacts, MarkFacts
<1>3. \A i \in 1..(d + 1) : o[i] \in 0..(End + 1)
  BY <1>1 DEF Chains
<1>12. c \in Nat /\ c + 1 = d /\ c >= 1
  OBVIOUS
<1>4. n \in Chains(c)
  BY <1>2, <1>3, <1>12 DEF Chains
<1>5. n[c + 1] = p + 2 /\ \A i \in 1..c : n[i] = o[i]
  OBVIOUS
<1> HIDE DEF n, c
<1>6. /\ o[d] > 0 /\ o[d] + 2 <= p /\ Opens(o[d])
      /\ Pieces(o[d] + 2, p - 1, Inner) /\ o[d] \in Nat
  <2>1. d \in 1..d /\ d \in 1..(d + 1)
    OBVIOUS
  <2>2. o[d] \in Nat
    BY <1>3, <2>1
  <2> QED
    BY <1>1, <2>1, <2>2 DEF Opened
<1>7. <<o[d], p + 1>> \in Inner
  <2>1. /\ p + 1 - 1 = p /\ p + 1 - 2 = p - 1 /\ p + 1 >= o[d] + 3
        /\ o[d] \in 1..End /\ p + 1 \in 1..End
    BY <1>2, <1>6
  <2> QED
    BY <1>2, <1>6, <2>1, NestedHere
<1>8. Opened(n, c)
  <2>1. ASSUME NEW i \in 1..c
        PROVE  /\ n[i] > 0 /\ n[i] + 2 <= n[i + 1] /\ Opens(n[i])
               /\ Pieces(n[i] + 2, n[i + 1] - 1, Inner)
    <3>0. i \in 1..d
      BY <1>12
    <3>1. /\ o[i] > 0 /\ o[i] + 2 <= o[i + 1] /\ Opens(o[i])
          /\ Pieces(o[i] + 2, o[i + 1] - 1, Inner)
      BY <1>1, <3>0 DEF Opened
    <3>2. CASE i < c
      <4>1. i + 1 \in 1..c
        BY <1>12, <3>2
      <4> QED
        BY <1>5, <3>1, <4>1
    <3>3. CASE i = c
      <4>1. n[i] = o[i] /\ n[i + 1] = p + 2 /\ o[i + 1] = o[d]
        BY <1>5, <1>12, <3>3
      <4>2. o[i] \in Nat
        <5>1. i \in 1..(d + 1)
          BY <3>0
        <5> QED
          BY <1>3, <5>1
      <4>3. o[i] + 2 \in Nat /\ o[i] + 2 <= o[d] /\ Pieces(o[i] + 2, o[d] - 1, Inner)
        BY <3>1, <4>1, <4>2
      <4>4. 1 <= o[d] /\ o[d] <= p + 1 /\ p + 1 \in Nat
        BY <1>2, <1>6
      <4>5. Pieces(o[i] + 2, p + 1, Inner)
        BY <1>6, <1>7, <4>3, <4>4, PiecesLast
      <4>6. p + 2 - 1 = p + 1 /\ o[i] + 2 <= p + 2
        BY <1>2, <1>6, <4>2, <4>3
      <4> QED
        BY <3>1, <4>1, <4>5, <4>6
    <3> QED
      BY <1>12, <3>2, <3>3
  <2> QED
    BY <2>1 DEF Opened
<1>9. ASSUME NEW h \in 1..End, BlockComment(n[1], h)
      PROVE  \E e \in Chains(c) : Closing(e, c) /\ e[1] = h /\ e[c + 1] = p + 2 - 1
  <2>1. n[1] = o[1]
    BY <1>5, <1>12
  <2>2. PICK e \in Chains(d) : Closing(e, d) /\ e[1] = h /\ e[d + 1] = p - 1
    BY <1>1, <1>9, <2>1
  <2>3. \A i \in 1..(d + 1) : e[i] \in 0..(End + 1)
    BY <2>2 DEF Chains
  <2>4. /\ p - 1 + 1 <= e[d] - 1 /\ Pieces(p - 1 + 1, e[d] - 2, Inner) /\ e[d] \in Nat
    <3>1. d \in 1..d /\ d \in 1..(d + 1)
      OBVIOUS
    <3>2. e[d] \in Nat
      BY <2>3, <3>1
    <3> QED
      BY <2>2, <3>1, <3>2 DEF Closing
  <2>5. p - 1 + 1 = p
    BY <1>2
  <2>6. e[d] = p + 1
    <3>1. CASE p <= e[d] - 2
      <4>1. e[d] - 2 \in Nat /\ Pieces(p, e[d] - 2, Inner)
        BY <1>2, <2>4, <2>5, <3>1
      <4> QED
        BY <3>1, <4>1, InnerFirst
    <3>2. CASE ~(p <= e[d] - 2)
      BY <1>2, <2>4, <3>2
    <3> QED
      BY <3>1, <3>2
  <2> DEFINE m == [i \in 1..(c + 1) |-> e[i]]
  <2>7. m \in Chains(c)
    BY <1>12, <2>3 DEF Chains
  <2>8. \A i \in 1..(c + 1) : m[i] = e[i]
    OBVIOUS
  <2> HIDE DEF m
  <2>9. ASSUME NEW i \in 1..c
        PROVE  /\ m[i + 1] + 1 <= m[i] - 1 /\ Closes(m[i] - 1)
               /\ Pieces(m[i + 1] + 1, m[i] - 2, Inner)
    <3>1. i \in 1..d /\ i \in 1..(c + 1) /\ i + 1 \in 1..(c + 1)
      BY <1>12
    <3>2. /\ e[i + 1] + 1 <= e[i] - 1 /\ Closes(e[i] - 1)
          /\ Pieces(e[i + 1] + 1, e[i] - 2, Inner)
      BY <2>2, <3>1 DEF Closing
    <3> QED
      BY <2>8, <3>1, <3>2
  <2>10. m[1] = h
    <3>1. 1 \in 1..(c + 1)
      BY <1>12
    <3> QED
      BY <2>2, <2>8, <3>1
  <2>11. m[c + 1] = p + 2 - 1
    <3>1. c + 1 \in 1..(c + 1)
      BY <1>12
    <3> QED
      BY <1>2, <1>12, <2>6, <2>8, <3>1
  <2> QED
    BY <2>7, <2>9, <2>10, <2>11 DEF Closing
<1>10. n[1] = o[1]
  BY <1>5, <1>12
<1>11. CommentInv(p + 2, c)
  BY <1>1, <1>4, <1>5, <1>8, <1>9, <1>10 DEF CommentInv
<1> QED
  BY <1>11 DEF c

(* The one that is not inside of another.                                  *)
LEMMA CommentEnds ==
  ASSUME text \in Seq(Char), Fresh \in Nat, NEW p \in 1..End, Closes(p), CommentInv(p, 1)
  PROVE  Fresh <= p + 2 /\ Blank(Fresh, p + 1)
<1>1. PICK o \in Chains(1) :
        /\ Fresh <= o[1] /\ Blank(Fresh, o[1] - 1)
        /\ Opened(o, 1) /\ o[1 + 1] = p
  BY DEF CommentInv
<1>2. End \in Nat /\ p \in Nat /\ p + 1 <= End /\ p >= 1
  BY TextFacts, MarkFacts
<1>3. o[1] \in 0..(End + 1) /\ 1 \in 1..1
  BY <1>1 DEF Chains
<1>4. /\ o[1] > 0 /\ o[1] + 2 <= p /\ Opens(o[1]) /\ Pieces(o[1] + 2, p - 1, Inner)
  BY <1>1, <1>3 DEF Opened
<1> DEFINE b == p + 1
<1>6. /\ b - 1 = p /\ b - 2 = p - 1 /\ b >= o[1] + 3
      /\ o[1] \in 1..End /\ b \in o[1]..End /\ b \in 1..End
  BY <1>2, <1>3, <1>4
<1> HIDE DEF b
<1>7. BlockComment(o[1], b)
  BY <1>2, <1>4, <1>6, NestedHere
<1>8. Blank(Fresh, b)
  BY <1>1, <1>2, <1>6, <1>7, BlankMore
<1> QED
  BY <1>1, <1>2, <1>3, <1>4, <1>8 DEF b

(* The text ends before the comment does.                                  *)
LEMMA CommentUnclosed ==
  ASSUME text \in Seq(Char), Fresh \in Nat, NEW d \in Nat, d > 0, NEW p, p = End + 1,
         CommentInv(p, d)
  PROVE  BlankToEnd(Fresh)
<1>1. PICK o \in Chains(d) :
        /\ Fresh <= o[1] /\ Blank(Fresh, o[1] - 1)
        /\ Opened(o, d)
        /\ \A h \in 1..End : BlockComment(o[1], h) =>
             \E e \in Chains(d) : Closing(e, d) /\ e[1] = h /\ e[d + 1] = p - 1
  BY DEF CommentInv
<1>2. End \in Nat
  BY TextFacts
<1>3. 1 \in 1..d /\ 1 \in 1..(d + 1) /\ d \in 1..d /\ d \in 1..(d + 1)
  OBVIOUS
<1>4. o[1] \in Nat
  BY <1>1, <1>3 DEF Chains
<1>5. o[1] > 0 /\ Opens(o[1])
  BY <1>1, <1>3 DEF Opened
<1>6. o[1] + 1 <= End
  BY <1>4, <1>5, MarkFacts
<1>7. ASSUME NEW k \in o[1]..End, BlockComment(o[1], k) PROVE FALSE
  <2>1. k \in 1..End
    BY <1>2, <1>4, <1>5
  <2>2. PICK e \in Chains(d) : Closing(e, d) /\ e[d + 1] = p - 1
    BY <1>1, <1>7, <2>1
  <2>3. e[d] \in 0..(End + 1)
    BY <1>3, <2>2 DEF Chains
  <2>4. e[d + 1] + 1 <= e[d] - 1
    BY <1>3, <2>2 DEF Closing
  <2> QED
    BY <1>2, <2>2, <2>3, <2>4
<1>8. UnclosedAt(o[1])
  BY <1>5, <1>7 DEF UnclosedAt, Opens
<1>9. o[1] \in Fresh..End
  BY <1>1, <1>2, <1>4, <1>6
<1> QED
  BY <1>1, <1>8, <1>9 DEF BlankToEnd

-----------------------------------------------------------------------------
(* A comment on one line.                                                  *)

LEMMA LineCommentBegins ==
  ASSUME text \in Seq(Char), Fresh \in Nat, NEW p \in 1..End, Fresh <= p,
         Blank(Fresh, p - 1), Pair(p) = <<"/", "/">>
  PROVE  p + 1 <= End /\ LineCommentInv(p + 2)
<1>1. End \in Nat /\ p \in Nat
  BY TextFacts
<1>2. Get(p) = "/" /\ Get(p + 1) = "/"
  BY DEF Pair
<1>3. p + 1 <= End
  <2>1. p + 1 > End => Get(p + 1) = NUL
    BY <1>1, TextFacts
  <2> QED
    BY <1>1, <1>2, <2>1 DEF NUL
<1>4. text[p] = "/" /\ text[p + 1] = "/"
  BY <1>1, <1>2, <1>3 DEF Get
<1>5. \A i \in p..(p + 2 - 1) : i = p \/ i = p + 1
  BY <1>1
<1>6. \A i \in p..(p + 2 - 1) : text[i] # NL
  BY <1>4, <1>5 DEF NL
<1> QED
  BY <1>1, <1>3, <1>6 DEF LineCommentInv

LEMMA LineCommentGoes ==
  ASSUME text \in Seq(Char), NEW p \in 1..End, text[p] # NL, LineCommentInv(p)
  PROVE  LineCommentInv(p + 1)
<1>1. PICK k \in 1..End :
        /\ Fresh <= k /\ Blank(Fresh, k - 1) /\ Pair(k) = <<"/", "/">> /\ k + 2 <= p
        /\ \A i \in k..(p - 1) : text[i] # NL
  BY DEF LineCommentInv
<1>2. \A i \in k..(p + 1 - 1) : i = p \/ i \in k..(p - 1)
  BY <1>1
<1>3. k + 2 <= p + 1
  BY <1>1
<1> QED
  BY <1>1, <1>2, <1>3 DEF LineCommentInv

(* It ends with the line, or with the text.                                *)
LEMMA LineCommentEnds ==
  ASSUME text \in Seq(Char), Fresh \in Nat, NEW p \in 1..End, text[p] = NL \/ p = End,
         LineCommentInv(p)
  PROVE  Fresh <= p + 1 /\ Blank(Fresh, p)
<1>1. PICK k \in 1..End :
        /\ Fresh <= k /\ Blank(Fresh, k - 1) /\ Pair(k) = <<"/", "/">> /\ k + 2 <= p
        /\ \A i \in k..(p - 1) : text[i] # NL
  BY DEF LineCommentInv
<1>2. OneLineComment(k, p)
  BY <1>1 DEF OneLineComment
<1>3. End \in Nat /\ p \in k..End
  BY <1>1, TextFacts
<1> QED
  BY <1>1, <1>2, <1>3, BlankMore

LEMMA LineCommentAtEnd ==
  ASSUME text \in Seq(Char), Fresh \in Nat, NEW p, p = End + 1, LineCommentInv(p)
  PROVE  Fresh <= End + 1 /\ Blank(Fresh, End)
<1>1. PICK k \in 1..End :
        /\ Fresh <= k /\ Blank(Fresh, k - 1) /\ Pair(k) = <<"/", "/">> /\ k + 2 <= p
        /\ \A i \in k..(p - 1) : text[i] # NL
  BY DEF LineCommentInv
<1>2. End \in Nat
  BY TextFacts
<1>3. OneLineComment(k, End)
  BY <1>1, <1>2 DEF OneLineComment
<1>4. End \in k..End
  BY <1>1, <1>2
<1> QED
  BY <1>1, <1>2, <1>3, <1>4, BlankMore

-----------------------------------------------------------------------------
(* Lexemes by their first characters.                                      *)

(* An interval of the text as a sequence.                                  *)
LEMMA SliceFacts ==
  ASSUME text \in Seq(Char), NEW lo \in 1..End, NEW hi \in lo..End
  PROVE  /\ Slice(lo, hi) \in Seq(Char) /\ Len(Slice(lo, hi)) = hi - lo + 1
         /\ \A i \in 1..(hi - lo + 1) : Slice(lo, hi)[i] = text[lo + i - 1]
         /\ Slice(lo, hi)[1] = text[lo] /\ Slice(lo, hi) # <<>>
<1>1. End = Len(text) /\ End \in Nat /\ lo \in Nat /\ hi \in Nat /\ lo <= hi /\ 1 <= lo /\ hi <= End
  BY TextFacts
<1>2. \A i \in lo..hi : text[i] \in Char
  BY <1>1, TextFacts
<1>3. /\ Slice(lo, hi) \in Seq(Char) /\ Len(Slice(lo, hi)) = hi - lo + 1
      /\ \A i \in 1..(hi - lo + 1) : Slice(lo, hi)[i] = text[lo + i - 1]
  BY <1>1, <1>2, SubSeqProperties DEF Slice
<1>4. 1 \in 1..(hi - lo + 1) /\ lo + 1 - 1 = lo
  BY <1>1
<1>5. Slice(lo, hi) # <<>>
  BY <1>1, <1>3, EmptySeq
<1> QED
  BY <1>3, <1>4, <1>5

LEMMA SliceNone ==
  ASSUME NEW lo \in Nat
  PROVE  Slice(lo, lo - 1) = <<>>
BY DEF Slice

LEMMA SliceMore ==
  ASSUME text \in Seq(Char), NEW lo \in 1..End, NEW p \in lo..End
  PROVE  Append(Slice(lo, p - 1), text[p]) = Slice(lo, p)
<1>1. End = Len(text) /\ End \in Nat /\ lo \in Nat /\ p \in Nat /\ lo <= p /\ 1 <= lo /\ p <= End
  BY TextFacts
<1>2. text[p] \in Char
  BY <1>1, TextFacts
<1>3. Slice(lo, p) \in Seq(Char) /\ Len(Slice(lo, p)) = p - lo + 1
      /\ \A i \in 1..(p - lo + 1) : Slice(lo, p)[i] = text[lo + i - 1]
  BY SliceFacts
<1>4. /\ Slice(lo, p - 1) \in Seq(Char) /\ Len(Slice(lo, p - 1)) = p - lo
      /\ \A i \in 1..(p - lo) : Slice(lo, p - 1)[i] = text[lo + i - 1]
  <2>1. CASE lo = p
    <3>1. Slice(lo, p - 1) = <<>>
      BY <1>1, <2>1, SliceNone
    <3>2. <<>> \in Seq(Char) /\ Len(<<>>) = 0
      BY EmptySeq
    <3>3. p - lo = 0 /\ \A i \in 1..0 : FALSE
      BY <1>1, <2>1
    <3> QED
      BY <3>1, <3>2, <3>3
  <2>2. CASE lo < p
    <3>1. p - 1 \in lo..End /\ p - 1 - lo + 1 = p - lo
      BY <1>1, <2>2
    <3> QED
      BY <3>1, SliceFacts
  <2> QED
    BY <1>1, <2>1, <2>2
<1> DEFINE a == Append(Slice(lo, p - 1), text[p])
<1>5. /\ a \in Seq(Char) /\ Len(a) = p - lo + 1
      /\ \A i \in 1..(p - lo) : a[i] = text[lo + i - 1]
      /\ a[p - lo + 1] = text[p]
  <2>1. PICK f : f = Slice(lo, p - 1)
    OBVIOUS
  <2>2. PICK c \in Char : c = text[p]
    BY <1>2
  <2>3. PICK j \in Nat : j = p - lo
    BY <1>1
  <2>4. f \in Seq(Char) /\ Len(f) = j /\ \A i \in 1..j : f[i] = text[lo + i - 1]
    BY <1>4, <2>1, <2>3
  <2>5. /\ Append(f, c) \in Seq(Char) /\ Len(Append(f, c)) = j + 1
        /\ \A i \in 1..j : Append(f, c)[i] = f[i]
        /\ Append(f, c)[j + 1] = c
    BY <2>4, AppendProperties
  <2> QED
    BY <2>1, <2>2, <2>3, <2>4, <2>5
<1>6. \A i \in 1..(p - lo + 1) : i \in 1..(p - lo) \/ (i = p - lo + 1 /\ lo + i - 1 = p)
  BY <1>1
<1>7. \A i \in 1..(p - lo + 1) : a[i] = Slice(lo, p)[i]
  BY <1>3, <1>5, <1>6
<1> HIDE DEF a
<1>8. a = Slice(lo, p)
  BY <1>3, <1>5, <1>7, SeqEqual
<1> QED
  BY <1>8 DEF a

LEMMA OperatorShape ==
  ASSUME NEW op \in operators
  PROVE  /\ Len(op) \in {1, 2} /\ op # <<>>
         /\ op[1] \in isCharPunctuation \ {"_", "quote", "apostrophe"}
         /\ Len(op) = 2 => op[2] \in isCharPunctuation
<1> DEFINE P == isCharPunctuation \ {"_", "quote", "apostrophe"}
<1>1. ASSUME NEW x, NEW y
      PROVE  /\ Len(<<x>>) = 1 /\ <<x>>[1] = x /\ <<x>> # <<>>
             /\ Len(<<x, y>>) = 2 /\ <<x, y>>[1] = x /\ <<x, y>>[2] = y /\ <<x, y>> # <<>>
  OBVIOUS
<1>2. {"=", "+", "-", "*", "/", "%", "<", ">", ".", "!", "(", ")", "{", "}", "[", "]", ":", ";", ","}
        \subseteq P
  BY Zenon DEF isCharPunctuation
<1>3. {"+", "-", "*", "/", "%", "=", "!", "<", ">"} \subseteq P /\ {"&", "|", "-"} \subseteq P
  BY Zenon DEF isCharPunctuation
<1>4. {"=", "&", "|", ">"} \subseteq isCharPunctuation
  BY Zenon DEF isCharPunctuation
<1> HIDE DEF P
<1>5. (\E x \in P : op = <<x>>) \/ \E x \in P, y \in isCharPunctuation : op = <<x, y>>
  BY <1>2, <1>3, <1>4, Zenon DEF operators
<1>6. P \subseteq isCharPunctuation \ {"_", "quote", "apostrophe"}
  BY DEF P
<1>7. CASE \E x \in P : op = <<x>>
  BY <1>1, <1>6, <1>7
<1>8. CASE \E x \in P, y \in isCharPunctuation : op = <<x, y>>
  <2>1. PICK x \in P, y \in isCharPunctuation : op = <<x, y>>
    BY <1>8
  <2> QED
    BY <1>1, <1>6, <2>1
<1> QED
  BY <1>5, <1>7, <1>8

(* What each type of lexeme begins with.                                   *)
LEMMA BeginsAs ==
  ASSUME text \in Seq(Char), NEW s \in 1..End, NEW k \in s..End, NEW type,
         Lexeme(type, s, k)
  PROVE  /\ type \in TokenType
         /\ type \in {"identifier", "keyword"} =>
              /\ Get(s) \in isValidIdentifierBeginningChar /\ IsWord(s, k)
              /\ type = "keyword" <=> Slice(s, k) \in Keywords
         /\ type \in {"integer", "float"} =>
              NumberAt(s) /\ (IsNumber(type, s, k) \/ IsByte(s, k))
         /\ type = "operator" => OperatorAt(s) /\ IsOperator(s, k)
         /\ type \in Literals => LiteralAt(s) /\ IsLiteral(type, s, k)
         /\ type = "DEFAULT" => Get(s) \in Stray /\ k = s
<1>1. Get(s) = text[s] /\ text[s] \in Char /\ End \in Nat
  BY TextFacts
<1>2. CASE type \in {"identifier", "keyword"} /\ IsWord(s, k)
           /\ (type = "keyword" <=> Slice(s, k) \in Keywords)
  BY <1>1, <1>2 DEF IsWord, TokenType, Literals
<1>3. CASE type \in {"integer", "float"} /\ IsNumber(type, s, k)
  <2>1. NumberAt(s)
    <3>1. CASE \E j \in s..k : /\ InSet(s, j, isCharDigit \cup {"."})
                               /\ text[s] # "." \/ Get(s + 1) \in isCharDigit
      <4>1. text[s] \in isCharDigit \cup {"."}
        BY <3>1 DEF InSet
      <4> QED
        BY <1>1, <3>1, <4>1 DEF NumberAt
    <3>2. CASE text[s] = "0"
      BY <1>1, <3>2 DEF NumberAt, isCharDigit, isCharOctDigit, isCharBinDigit
    <3> QED
      BY <1>3, <3>1, <3>2 DEF IsNumber
  <2> QED
    BY <1>3, <2>1 DEF TokenType, Literals
<1>4. CASE type = "operator" /\ IsOperator(s, k)
  <2>1. Slice(s, k) \in operators /\ Slice(s, k)[1] = text[s]
    BY <1>4, SliceFacts DEF IsOperator
  <2>2. text[s] \in isCharPunctuation \ {"_", "quote", "apostrophe"}
    BY <2>1, OperatorShape
  <2>3. text[s] \notin isCharDigit \cup {"b", "c"}
    BY <2>2 DEF isCharPunctuation, isCharDigit, isCharOctDigit, isCharBinDigit
  <2>4. ~LiteralAt(s)
    BY <1>1, <2>2, <2>3 DEF LiteralAt, Pair
  <2>5. ~NumberAt(s) /\ Pair(s) \notin {<<"/", "/">>, <<"/", "*">>}
    BY <1>1, <1>4, <2>3 DEF NumberAt, IsOperator
  <2>6. OperatorAt(s)
    BY <1>1, <2>2, <2>4, <2>5 DEF OperatorAt
  <2> QED
    BY <1>4, <2>6 DEF TokenType, Literals
<1>5. CASE IsLiteral(type, s, k)
  <2>1. text[s] \in {"apostrophe", "b", "quote", "c"} /\ type = LiteralType[text[s]]
        /\ Get(s + IF text[s] \in {"b", "c"} THEN 1 ELSE 0) = Quote(text[s])
    BY <1>5 DEF IsLiteral, LiteralType
  <2>2. type \in Literals
    BY <2>1 DEF LiteralType, Literals
  <2>3. LiteralAt(s)
    BY <1>1, <2>1 DEF LiteralAt, Pair, Quote
  <2> QED
    BY <1>5, <2>2, <2>3 DEF TokenType, Literals
<1>6. CASE type = "DEFAULT" /\ s = k /\ text[s] \in {"DEL", "umlaut"}
  BY <1>1, <1>6 DEF Stray, isCharControlCharacter, TokenType, Literals, isCharWhitespace, NL
<1>7. CASE type = "integer" /\ IsByte(s, k)
  <2>1. Get(s) = "0"
    BY <1>7 DEF IsByte, Pair
  <2>2. NumberAt(s)
    BY <2>1 DEF NumberAt, isCharDigit, isCharOctDigit, isCharBinDigit
  <2> QED
    BY <1>7, <2>2 DEF TokenType, Literals
<1> QED
  BY <1>2, <1>3, <1>4, <1>5, <1>6, <1>7 DEF Lexeme

LEMMA Kinds ==
  ASSUME NEW s
  PROVE  /\ NumberAt(s) => /\ Get(s) \notin isValidIdentifierBeginningChar \cup Stray
                           /\ ~LiteralAt(s) /\ ~OperatorAt(s) /\ Get(s) # NUL
         /\ WordAt(s) => /\ Get(s) \notin Stray /\ ~NumberAt(s)
                         /\ ~LiteralAt(s) /\ ~OperatorAt(s) /\ Get(s) # NUL
         /\ OperatorAt(s) => /\ Get(s) \notin isValidIdentifierBeginningChar \cup Stray
                             /\ ~LiteralAt(s) /\ ~NumberAt(s) /\ Get(s) # NUL
         /\ LiteralAt(s) => /\ Get(s) \notin Stray /\ ~NumberAt(s) /\ ~OperatorAt(s)
                            /\ Get(s) # NUL
         /\ Get(s) \in Stray => /\ Get(s) \notin isValidIdentifierBeginningChar
                                /\ ~LiteralAt(s) /\ ~NumberAt(s) /\ ~OperatorAt(s)
<1>1. /\ isCharDigit \cap (isCharPunctuation \cup isValidIdentifierBeginningChar \cup Stray) = {}
      /\ isValidIdentifierBeginningChar \cap (isCharPunctuation \ {"_"}) = {}
      /\ isValidIdentifierBeginningChar \cap Stray = {}
      /\ isCharPunctuation \cap Stray = {}
      /\ NUL \notin isCharDigit \cup isCharPunctuation \cup isValidIdentifierBeginningChar \cup Stray
      /\ {"quote", "apostrophe", ".", "_"} \subseteq isCharPunctuation
      /\ {"b", "c"} \subseteq isValidIdentifierBeginningChar
      /\ "." \notin isValidIdentifierBeginningChar
      /\ {"quote", "apostrophe", "b", "c"} \cap (isCharDigit \cup {"."}) = {}
  BY DEF isCharDigit, isCharOctDigit, isCharBinDigit, isCharPunctuation,
    isValidIdentifierBeginningChar, isCharAlpha, Stray, isCharControlCharacter, isCharWhitespace,
    NL, NUL
<1>2. NumberAt(s) => Get(s) \in isCharDigit \cup {"."}
  BY DEF NumberAt
<1>3. LiteralAt(s) => Get(s) \in {"quote", "apostrophe", "b", "c"}
  BY DEF LiteralAt, Pair
<1>4. OperatorAt(s) => Get(s) \in isCharPunctuation \ {"_"} /\ ~LiteralAt(s) /\ ~NumberAt(s)
  BY DEF OperatorAt
<1>5. WordAt(s) => Get(s) \in isValidIdentifierBeginningChar /\ ~LiteralAt(s)
  BY DEF WordAt
<1> QED
  BY <1>1, <1>2, <1>3, <1>4, <1>5

-----------------------------------------------------------------------------
(* Words and operators, character by character.                            *)

LEMMA WordBegins ==
  ASSUME NEW s \in Nat, WordAt(s)
  PROVE  ReadWord(s, s, <<>>)
<1>1. Slice(s, s - 1) = <<>>
  BY SliceNone
<1>2. InSet(s, s - 1, isValidIdentifierChar)
  BY DEF InSet
<1> QED
  BY <1>1, <1>2 DEF ReadWord

LEMMA WordGoes ==
  ASSUME text \in Seq(Char), NEW s \in 1..End, NEW p \in 1..End, NEW b, ReadWord(s, p, b),
         text[p] \in isValidIdentifierChar
  PROVE  ReadWord(s, p + 1, Append(b, text[p]))
<1>1. WordAt(s) /\ s <= p /\ InSet(s, p - 1, isValidIdentifierChar) /\ b = Slice(s, p - 1)
  BY DEF ReadWord
<1>2. p \in s..End /\ p + 1 - 1 = p
  BY <1>1, TextFacts
<1>3. Slice(s, p) = Append(b, text[p])
  BY <1>1, <1>2, SliceMore
<1>4. InSet(s, p, isValidIdentifierChar)
  <2>1. \A i \in s..p : i = p \/ i \in s..(p - 1)
    BY <1>2
  <2> QED
    BY <1>1, <2>1 DEF InSet
<1> QED
  BY <1>1, <1>2, <1>3, <1>4 DEF ReadWord

(* It ends where the longest word does.                                    *)
LEMMA WordEnds ==
  ASSUME text \in Seq(Char), NEW s \in 1..End, NEW p \in 1..(End + 1), NEW b, ReadWord(s, p, b),
         Get(p) \notin isValidIdentifierChar
  PROVE  /\ s < p /\ Longest(s, p - 1)
         /\ Lexeme(IF b \in Keywords THEN "keyword" ELSE "identifier", s, p - 1)
<1>1. WordAt(s) /\ s <= p /\ InSet(s, p - 1, isValidIdentifierChar) /\ b = Slice(s, p - 1)
  BY DEF ReadWord
<1>2. Get(s) = text[s] /\ End \in Nat /\ s \in Nat /\ p \in Nat
  BY TextFacts
<1>3. isValidIdentifierBeginningChar \subseteq isValidIdentifierChar
  BY DEF isValidIdentifierBeginningChar, isValidIdentifierChar, isCharAlnum
<1>4. text[s] \in isValidIdentifierBeginningChar
  BY <1>1, <1>2 DEF WordAt
<1>5. s < p
  <2>1. s # p
    BY <1>2, <1>3, <1>4
  <2> QED
    BY <1>1, <1>2, <2>1
<1>6. IsWord(s, p - 1)
  BY <1>1, <1>4 DEF IsWord
<1>7. Longest(s, p - 1)
  <2>1. SUFFICES ASSUME NEW type \in TokenType, NEW k \in (p - 1 + 1)..End, Lexeme(type, s, k)
                 PROVE  FALSE
    BY DEF Longest
  <2>2. k \in s..End /\ p \in s..k /\ p \in 1..End
    BY <1>2, <1>5
  <2>3. type \in {"identifier", "keyword"} /\ IsWord(s, k)
    BY <1>1, <2>1, <2>2, BeginsAs, Kinds DEF TokenType, Literals
  <2>4. text[p] \in isValidIdentifierChar
    BY <2>2, <2>3 DEF IsWord, InSet
  <2> QED
    BY <2>2, <2>4, TextFacts
<1> QED
  BY <1>1, <1>5, <1>6, <1>7 DEF Lexeme

LEMMA OperatorBegins ==
  ASSUME NEW s \in Nat, OperatorAt(s)
  PROVE  ReadOperator(s, s, <<>>)
<1>1. Slice(s, s - 1) = <<>>
  BY SliceNone
<1>2. InSet(s, s - 1, isCharPunctuation) /\ \A k \in s..(s - 1) : FALSE
  BY DEF InSet
<1> QED
  BY <1>1, <1>2 DEF ReadOperator

LEMMA OperatorGoes ==
  ASSUME text \in Seq(Char), NEW s \in 1..End, NEW p \in 1..End, NEW b, ReadOperator(s, p, b),
         text[p] \in isCharPunctuation, b \in operators => Append(b, text[p]) \in operators
  PROVE  ReadOperator(s, p + 1, Append(b, text[p]))
<1>1. /\ OperatorAt(s) /\ s <= p /\ InSet(s, p - 1, isCharPunctuation) /\ b = Slice(s, p - 1)
      /\ \A k \in s..(p - 1) : Slice(s, k) \in operators => b \in operators
  BY DEF ReadOperator
<1>2. p \in s..End /\ p + 1 - 1 = p /\ s <= p + 1
  BY <1>1, TextFacts
<1>3. Slice(s, p) = Append(b, text[p])
  BY <1>1, <1>2, SliceMore
<1>5. \A i \in s..p : i = p \/ i \in s..(p - 1)
  BY <1>2
<1>4. InSet(s, p, isCharPunctuation)
  BY <1>1, <1>5 DEF InSet
<1>6. \A k \in s..p : Slice(s, k) \in operators => Append(b, text[p]) \in operators
  BY <1>1, <1>3, <1>5
<1> QED
  BY <1>1, <1>2, <1>3, <1>4, <1>6 DEF ReadOperator

(* What is known is as long as can be, and of what is not nothing is.      *)
LEMMA OperatorEnds ==
  ASSUME text \in Seq(Char), NEW s \in 1..End, NEW p \in 1..(End + 1), NEW b,
         ReadOperator(s, p, b),
         ~(Get(p) \in isCharPunctuation /\ (b \in operators => Append(b, Get(p)) \in operators))
  PROVE  /\ s < p
         /\ b \in operators => Lexeme("operator", s, p - 1) /\ Longest(s, p - 1)
         /\ b \notin operators => \A type \in TokenType : \A k \in s..End : ~Lexeme(type, s, k)
<1>1. /\ OperatorAt(s) /\ s <= p /\ InSet(s, p - 1, isCharPunctuation) /\ b = Slice(s, p - 1)
      /\ \A k \in s..(p - 1) : Slice(s, k) \in operators => b \in operators
  BY DEF ReadOperator
<1>2. Get(s) = text[s] /\ End \in Nat /\ s \in Nat /\ p \in Nat
  BY TextFacts
<1>3. text[s] \in isCharPunctuation
  BY <1>1, <1>2, Zenon DEF OperatorAt
<1>4. s < p
  <2>1. CASE s = p
    <3>1. b = <<>>
      BY <1>1, <1>2, <2>1, SliceNone
    <3>2. b \notin operators
      BY <3>1, OperatorShape
    <3> QED
      BY <1>2, <1>3, <2>1, <3>2
  <2> QED
    BY <1>1, <1>2, <2>1
<1>5. ASSUME NEW type, NEW k \in s..End, Lexeme(type, s, k)
      PROVE  type = "operator" /\ Slice(s, k) \in operators
  <2>1. type = "operator" /\ IsOperator(s, k)
    BY <1>1, <1>5, BeginsAs, Kinds DEF TokenType, Literals
  <2> QED
    BY <2>1 DEF IsOperator
<1>6. ASSUME NEW k \in p..End, Slice(s, k) \in operators
      PROVE  k = p /\ Get(p) \in isCharPunctuation /\ Slice(s, p) = Append(b, Get(p)) /\ s + 1 = p
  <2>1. k \in s..End /\ k - s + 1 \in Nat /\ p \in 1..End /\ k \in Nat
    BY <1>2, <1>4
  <2>2. Len(Slice(s, k)) = k - s + 1 /\ Len(Slice(s, k)) \in {1, 2}
    BY <1>6, <2>1, SliceFacts, OperatorShape
  <2>3. k = p /\ k = s + 1 /\ s + 1 = p
    BY <1>2, <1>4, <2>1, <2>2
  <2>4. Slice(s, p)[2] = text[p]
    <3>1. p \in s..End /\ 2 \in 1..(p - s + 1) /\ s + 2 - 1 = p
      BY <1>2, <2>1, <2>3
    <3> QED
      BY <3>1, SliceFacts
  <2>5. Slice(s, p)[2] \in isCharPunctuation
    <3>1. Len(Slice(s, k)) = 2
      BY <1>2, <2>2, <2>3
    <3> QED
      BY <1>6, <2>3, <3>1, OperatorShape
  <2>6. Slice(s, p) = Append(b, text[p])
    <3>1. p \in s..End
      BY <1>2, <2>1, <1>4
    <3> QED
      BY <1>1, <3>1, SliceMore
  <2>7. Get(p) = text[p]
    BY <2>1, TextFacts
  <2> QED
    BY <2>3, <2>4, <2>5, <2>6, <2>7
<1>7. ASSUME b \in operators PROVE Lexeme("operator", s, p - 1) /\ Longest(s, p - 1)
  <2>1. IsOperator(s, p - 1)
    BY <1>1, <1>7 DEF IsOperator, OperatorAt, NumberAt
  <2>2. ASSUME NEW type \in TokenType, NEW k \in (p - 1 + 1)..End, Lexeme(type, s, k)
        PROVE  FALSE
    <3>1. k \in p..End /\ k \in s..End
      BY <1>2, <1>4
    <3>2. Slice(s, k) \in operators
      BY <1>5, <2>2, <3>1
    <3>3. k = p /\ Get(p) \in isCharPunctuation /\ Slice(s, p) = Append(b, Get(p))
      BY <1>6, <3>1, <3>2
    <3> QED
      BY <1>7, <3>2, <3>3
  <2> QED
    BY <2>1, <2>2 DEF Lexeme, Longest
<1>8. ASSUME b \notin operators, NEW type \in TokenType, NEW k \in s..End, Lexeme(type, s, k)
      PROVE  FALSE
  <2>1. Slice(s, k) \in operators
    BY <1>5, <1>8
  <2>2. k \notin s..(p - 1)
    BY <1>1, <1>8, <2>1
  <2>3. k \in p..End
    BY <1>2, <2>2
  <2>4. Get(p) \in isCharPunctuation
    BY <1>6, <2>1, <2>3
  <2> QED
    BY <1>8, <2>4
<1> QED
  BY <1>4, <1>7, <1>8

(* A character nothing begins with.                                        *)
LEMMA StrayEnds ==
  ASSUME text \in Seq(Char), NEW s \in 1..End, Get(s) \in Stray
  PROVE  Lexeme("DEFAULT", s, s) /\ Longest(s, s)
<1>1. text[s] \in {"DEL", "umlaut"} /\ s \in Nat
  <2>1. Get(s) = text[s] /\ End \in Nat
    BY TextFacts
  <2>2. Stray \subseteq {"DEL", "umlaut"}
    BY DEF Stray, isCharControlCharacter, isCharWhitespace
  <2>3. s \in Nat
    BY <2>1
  <2>4. text[s] \in Stray
    BY <2>1, TextFacts
  <2> QED
    BY <2>2, <2>3, <2>4
<1>2. ASSUME NEW type \in TokenType, NEW k \in (s + 1)..End, Lexeme(type, s, k) PROVE FALSE
  <2>1. k \in s..End /\ k # s
    BY <1>1
  <2> QED
    BY <1>2, <2>1, BeginsAs, Kinds DEF TokenType, Literals
<1> QED
  BY <1>1, <1>2 DEF Lexeme, Longest

-----------------------------------------------------------------------------
(* Literals, character by character.                                       *)

OpenOf(s) == s + IF text[s] \in {"b", "c"} THEN 1 ELSE 0

(* The opening quote.                                                      *)
LEMMA OpenFacts ==
  ASSUME text \in Seq(Char), NEW s \in 1..End, LiteralAt(s)
  PROVE  /\ OpenOf(s) \in s..End /\ OpenOf(s) \in Nat /\ OpenOf(s) >= 1
         /\ Get(OpenOf(s)) = Quote(text[s]) /\ text[OpenOf(s)] = Quote(text[s])
         /\ text[s] \in DOMAIN LiteralType
         /\ Quote(text[s]) \in {"quote", "apostrophe"}
<1>1. Get(s) = text[s] /\ End \in Nat /\ s \in Nat /\ s >= 1 /\ s <= End
  BY TextFacts
<1>2. CASE Get(s) \in {"quote", "apostrophe"}
  <2>1. OpenOf(s) = s
    BY <1>1, <1>2 DEF OpenOf
  <2> QED
    BY <1>1, <1>2, <2>1 DEF Quote, LiteralType
<1>3. CASE Pair(s) \in {<<"b", "apostrophe">>, <<"c", "quote">>}
  <2>1. /\ Get(s) \in {"b", "c"} /\ Get(s + 1) = Quote(text[s])
        /\ Quote(text[s]) \in {"quote", "apostrophe"}
    BY <1>1, <1>3 DEF Pair, Quote
  <2>2. OpenOf(s) = s + 1
    BY <1>1, <2>1 DEF OpenOf
  <2>3. s + 1 <= End
    <3>1. s + 1 > End => Get(s + 1) = NUL
      BY <1>1, TextFacts
    <3> QED
      BY <1>1, <2>1, <3>1 DEF NUL
  <2>4. Get(s + 1) = text[s + 1] /\ s + 1 \in s..End
    BY <1>1, <2>3, TextFacts
  <2>5. text[s] \in DOMAIN LiteralType
    BY <1>1, <2>1 DEF LiteralType
  <2> QED
    BY <1>1, <2>1, <2>2, <2>4, <2>5
<1> QED
  BY <1>2, <1>3 DEF LiteralAt

LEMMA LiteralBegins ==
  ASSUME text \in Seq(Char), NEW s \in 1..End, LiteralAt(s)
  PROVE  ReadLiteral(s, OpenOf(s))
<1>1. OpenOf(s) \in s..End /\ OpenOf(s) \in Nat
  BY OpenFacts
<1>2. \A i \in (OpenOf(s) + 1)..OpenOf(s) : FALSE
  BY <1>1
<1>3. OpenOf(s) <= OpenOf(s) /\ OpenOf(s) <= End
  BY <1>1
<1> HIDE DEF OpenOf
<1> QED
  BY <1>1, <1>2, <1>3 DEF ReadLiteral, OpenOf

LEMMA LiteralGoes ==
  ASSUME text \in Seq(Char), NEW s \in 1..End, NEW p \in 1..End, ReadLiteral(s, p),
         p + 1 <= End, text[p + 1] # NL,
         text[p + 1] = Quote(text[s]) => text[p] = "backslash" /\ text[p - 1] # "backslash"
  PROVE  ReadLiteral(s, p + 1)
<1>1. /\ LiteralAt(s) /\ OpenOf(s) <= p
      /\ \A i \in (OpenOf(s) + 1)..p :
           /\ text[i] # NL
           /\ text[i] = Quote(text[s]) => text[i - 1] = "backslash" /\ text[i - 2] # "backslash"
  BY DEF ReadLiteral, OpenOf
<1>2. OpenOf(s) \in Nat /\ End \in Nat /\ p \in Nat
  BY <1>1, OpenFacts, TextFacts
<1>3. p + 1 - 1 = p /\ p + 1 - 2 = p - 1
  BY <1>2
<1>4. ASSUME NEW i \in (OpenOf(s) + 1)..(p + 1)
      PROVE  /\ text[i] # NL
             /\ text[i] = Quote(text[s]) => text[i - 1] = "backslash" /\ text[i - 2] # "backslash"
  <2>1. i = p + 1 \/ i \in (OpenOf(s) + 1)..p
    BY <1>2
  <2> QED
    BY <1>1, <1>3, <2>1
<1>5. OpenOf(s) <= p + 1
  BY <1>1, <1>2
<1> QED
  BY <1>1, <1>4, <1>5 DEF ReadLiteral, OpenOf

(* An escaped quote does not end a literal.                                *)
LEMMA EscapedGoesOn ==
  ASSUME NEW open \in Nat, NEW quote, NEW i \in Nat, i > open,
         text[i - 1] = "backslash", text[i - 2] # "backslash"
  PROVE  ~EndsAt(open, quote, i)
<1>1. SUFFICES ASSUME NEW k \in (open + 1)..i, InSet(k, i - 1, {"backslash"}),
                      text[k - 1] # "backslash", (i - k) % 2 = 0
               PROVE  FALSE
  BY DEF EndsAt
<1>2. CASE k = i
  BY <1>1, <1>2
<1>3. CASE k = i - 1
  <2>1. i - k = 1
    BY <1>3
  <2>2. 1 % 2 # 0
    OBVIOUS
  <2> QED
    BY <1>1, <2>1, <2>2
<1>4. CASE k <= i - 2
  <2>1. i - 2 \in k..(i - 1)
    BY <1>4
  <2> QED
    BY <1>1, <2>1 DEF InSet
<1> QED
  BY <1>2, <1>3, <1>4

(* One that is not does, unless three backslashes are before it.           *)
LEMMA UnescapedEnds ==
  ASSUME NEW open \in Nat, open >= 1, NEW quote \in {"quote", "apostrophe"}, text[open] = quote,
         NEW i \in Nat, i > open, text[i] = quote,
         ~(text[i - 1] = "backslash" /\ text[i - 2] # "backslash")
  PROVE  \/ EndsAt(open, quote, i)
         \/ open + 3 < i /\ InSet(i - 3, i - 1, {"backslash"})
<1>1. text[open] # "backslash"
  OBVIOUS
<1>2. CASE text[i - 1] # "backslash"
  <2>1. i \in (open + 1)..i /\ InSet(i, i - 1, {"backslash"}) /\ i - i = 0
    BY DEF InSet
  <2>2. 0 % 2 = 0
    OBVIOUS
  <2> QED
    BY <1>2, <2>1, <2>2 DEF EndsAt
<1>3. CASE text[i - 1] = "backslash"
  <2>1. text[i - 2] = "backslash"
    BY <1>3
  <2>2. i - 1 # open /\ i - 2 # open
    BY <1>1, <1>3, <2>1
  <2>3. i - 2 \in (open + 1)..i /\ i - (i - 2) = 2 /\ i - 3 \in Nat /\ i - 3 >= open
    BY <2>2
  <2>4. \A j \in (i - 2)..(i - 1) : j = i - 2 \/ j = i - 1
    BY <2>3
  <2>5. InSet(i - 2, i - 1, {"backslash"})
    BY <1>3, <2>1, <2>4 DEF InSet
  <2>6. CASE text[i - 3] # "backslash"
    <3>1. i - 2 - 1 = i - 3 /\ 2 % 2 = 0
      BY <2>3
    <3> QED
      BY <2>3, <2>5, <2>6, <3>1 DEF EndsAt
  <2>7. CASE text[i - 3] = "backslash"
    <3>1. i - 3 # open
      BY <1>1, <2>7
    <3>2. \A j \in (i - 3)..(i - 1) : j = i - 3 \/ j = i - 2 \/ j = i - 1
      BY <2>3
    <3> QED
      BY <1>3, <2>1, <2>3, <2>7, <3>1, <3>2 DEF InSet
  <2> QED
    BY <2>6, <2>7
<1> QED
  BY <1>2, <1>3

(* Of what the loop has passed, nothing ends the literal.                  *)
LEMMA LiteralOpen ==
  ASSUME text \in Seq(Char), NEW s \in 1..End, NEW p, ReadLiteral(s, p)
  PROVE  \A i \in (OpenOf(s) + 1)..p :
           text[i] # NL /\ ~EndsAt(OpenOf(s), Quote(text[s]), i)
<1> DEFINE o == OpenOf(s)
           q == Quote(text[s])
<1>1. /\ LiteralAt(s)
      /\ \A i \in (o + 1)..p :
           text[i] # NL /\ (text[i] = q => text[i - 1] = "backslash" /\ text[i - 2] # "backslash")
  BY DEF ReadLiteral, OpenOf
<1>2. o \in Nat
  BY <1>1, OpenFacts
<1> HIDE DEF o
<1> SUFFICES ASSUME NEW i \in (o + 1)..p PROVE text[i] # NL /\ ~EndsAt(o, q, i)
  BY DEF o
<1>3. i \in Nat /\ i > o
  BY <1>2
<1>4. CASE text[i] = q
  <2>1. text[i - 1] = "backslash" /\ text[i - 2] # "backslash"
    BY <1>1, <1>4
  <2> QED
    BY <1>1, <1>2, <1>3, <2>1, EscapedGoesOn
<1>5. CASE text[i] # q
  BY <1>1, <1>5 DEF EndsAt
<1> QED
  BY <1>4, <1>5

LEMMA LiteralEnds ==
  ASSUME text \in Seq(Char), NEW s \in 1..End, NEW p \in 1..End, ReadLiteral(s, p),
         NEW h, h = p + 1, h <= End, text[h] = Quote(text[s]),
         ~(text[p] = "backslash" /\ text[p - 1] # "backslash")
  PROVE  \/ Lexeme(LiteralType[text[s]], s, h) /\ Longest(s, h)
         \/ EndsElsewhere(s, h)
<1> DEFINE o == OpenOf(s)
           q == Quote(text[s])
<1>1. /\ LiteralAt(s) /\ o <= p
      /\ \A i \in (o + 1)..p :
           text[i] # NL /\ (text[i] = q => text[i - 1] = "backslash" /\ text[i - 2] # "backslash")
  BY DEF ReadLiteral, OpenOf
<1>2. /\ o \in s..End /\ o \in Nat /\ o >= 1 /\ Get(o) = q /\ text[o] = q
      /\ text[s] \in DOMAIN LiteralType /\ q \in {"quote", "apostrophe"}
  BY <1>1, OpenFacts
<1>3. o = s + IF text[s] \in {"b", "c"} THEN 1 ELSE 0
  BY DEF OpenOf
<1>4. \A i \in (o + 1)..p : text[i] # NL /\ ~EndsAt(o, q, i)
  BY LiteralOpen
<1> HIDE DEF o
<1>5. /\ h \in Nat /\ End \in Nat /\ s \in Nat /\ p \in Nat /\ h - 1 = p /\ h - 2 = p - 1
      /\ o < h
  BY <1>1, <1>2, TextFacts
<1>6. \/ EndsAt(o, q, h)
      \/ o + 3 < h /\ InSet(h - 3, h - 1, {"backslash"})
  <2> HIDE DEF q
  <2> QED
    BY <1>2, <1>5, UnescapedEnds DEF q
<1>7. CASE ~EndsAt(o, q, h)
  <2>1. \A i \in (o + 1)..h : text[i] # NL /\ ~EndsAt(o, q, i)
    <3>1. \A i \in (o + 1)..h : i = h \/ i \in (o + 1)..p
      BY <1>2, <1>5
    <3>2. text[h] # NL
      BY <1>2 DEF NL
    <3> QED
      BY <1>4, <1>7, <3>1, <3>2
  <2> QED
    BY <1>2, <1>3, <1>6, <1>7, <2>1 DEF EndsElsewhere
<1>8. SUFFICES ASSUME EndsAt(o, q, h)
               PROVE  Lexeme(LiteralType[text[s]], s, h) /\ Longest(s, h)
  BY <1>7
<1>9. IsLiteral(LiteralType[text[s]], s, h)
  BY <1>2, <1>3, <1>4, <1>5, <1>8 DEF IsLiteral
<1>10. ASSUME NEW type \in TokenType, NEW k \in (h + 1)..End, Lexeme(type, s, k) PROVE FALSE
  <2>1. k \in s..End /\ h \in (o + 1)..(k - 1) /\ k \in Nat
    BY <1>2, <1>5
  <2>2. \/ type \in Literals /\ IsLiteral(type, s, k)
        \/ IsWord(s, k)
    BY <1>1, <1>10, <2>1, BeginsAs, Kinds DEF TokenType, Literals
  <2>3. CASE IsLiteral(type, s, k)
    <3>1. \A i \in (o + 1)..(k - 1) : ~EndsAt(o, q, i)
      BY <1>3, <2>3 DEF IsLiteral
    <3> QED
      BY <1>8, <2>1, <3>1
  <2>4. CASE IsWord(s, k)
    <3>1. o \in s..k
      BY <1>2, <1>5, <2>1
    <3>2. q \in isValidIdentifierChar
      BY <1>2, <2>4, <3>1 DEF IsWord, InSet
    <3>3. {"quote", "apostrophe"} \cap isValidIdentifierChar = {}
      BY DEF isValidIdentifierChar, isCharAlnum, isCharAlpha, isCharDigit, isCharOctDigit,
        isCharBinDigit
    <3> QED
      BY <1>2, <3>2, <3>3
  <2> QED
    BY <2>2, <2>3, <2>4
<1> QED
  BY <1>9, <1>10 DEF Lexeme, Longest

(* The end of the text closes what is open.                                *)
LEMMA LiteralCut ==
  ASSUME text \in Seq(Char), NEW s \in 1..End, ReadLiteral(s, End)
  PROVE  EndsElsewhere(s, End)
<1>1. LiteralAt(s)
  BY DEF ReadLiteral
<1>2. /\ Get(OpenOf(s)) = Quote(text[s]) /\ text[s] \in DOMAIN LiteralType
      /\ \A i \in (OpenOf(s) + 1)..End :
           text[i] # NL /\ ~EndsAt(OpenOf(s), Quote(text[s]), i)
  BY <1>1, OpenFacts, LiteralOpen
<1> QED
  BY <1>2 DEF EndsElsewhere, OpenOf

-----------------------------------------------------------------------------
(* The digits of a number, and its suffixes.                               *)

LEMMA DigitFacts ==
  /\ isCharDigit \subseteq isCharAlnum /\ isCharHexDigit \subseteq isCharAlnum
  /\ isCharBinDigit \subseteq isCharHexDigit /\ isCharOctDigit \subseteq isCharHexDigit
  /\ "." \notin isCharAlnum /\ NUL \notin isCharAlnum
  /\ {"i", "o"} \cap isCharHexDigit = {} /\ {"i", "o", "f", "d", "l"} \cap isCharDigit = {}
  /\ isCharDigit \subseteq isCharHexDigit /\ "0" \in isCharDigit
BY DEF isCharAlnum, isCharHexDigit, isCharDigit, isCharOctDigit, isCharBinDigit, isCharAlpha, NUL

LEMMA Bases ==
  /\ DOMAIN PrefixOf = {"x", "o", "b"} /\ DOMAIN DigitsOf = {"dec", "bin", "oct", "hex"}
  /\ PrefixOf["x"] = "hex" /\ PrefixOf["o"] = "oct" /\ PrefixOf["b"] = "bin"
  /\ DigitsOf["hex"] = isCharHexDigit /\ DigitsOf["oct"] = isCharOctDigit
  /\ DigitsOf["bin"] = isCharBinDigit /\ DigitsOf["dec"] = isCharDigit
BY DEF PrefixOf, DigitsOf

LEMMA BaseFacts ==
  ASSUME NEW s \in Nat, PrefixAt(s)
  PROVE  /\ Get(s) = "0" /\ Get(s + 1) \in {"x", "o", "b"} /\ First(s) = s + 2
         /\ PrefixOf[Get(s + 1)] # "dec" /\ PrefixOf[Get(s + 1)] \in DOMAIN DigitsOf
         /\ Numerals(s) = DigitsOf[PrefixOf[Get(s + 1)]]
         /\ {"i", "o"} \cap Numerals(s) = {}
         /\ Get(s + 1) = "o" => Numerals(s) = isCharOctDigit
<1>1. /\ Get(s) = "0" /\ Get(s + 1) \in {"x", "o", "b"} /\ First(s) = s + 2
      /\ Numerals(s) = DigitsOf[PrefixOf[Get(s + 1)]]
  BY Bases DEF PrefixAt, First, Numerals
<1>2. PrefixOf[Get(s + 1)] # "dec" /\ PrefixOf[Get(s + 1)] \in {"hex", "oct", "bin"}
  BY <1>1, Bases
<1>3. Get(s + 1) = "o" => Numerals(s) = isCharOctDigit
  BY <1>1, Bases
<1>4. Numerals(s) \in {isCharHexDigit, isCharOctDigit, isCharBinDigit}
  BY <1>1, <1>2, Bases
<1> QED
  BY <1>1, <1>2, <1>3, <1>4, Bases, DigitFacts

LEMMA NumeralFacts ==
  ASSUME NEW s \in Nat
  PROVE  /\ ~PrefixAt(s) => First(s) = s /\ Numerals(s) = isCharDigit /\ Numerals(s) = DigitsOf["dec"]
         /\ Numerals(s) \subseteq isCharAlnum /\ "." \notin Numerals(s)
<1>1. ASSUME ~PrefixAt(s)
      PROVE  First(s) = s /\ Numerals(s) = isCharDigit /\ Numerals(s) = DigitsOf["dec"]
  BY <1>1, Bases DEF First, Numerals
<1>2. PrefixAt(s) => Numerals(s) \in {isCharHexDigit, isCharOctDigit, isCharBinDigit}
  <2>1. SUFFICES ASSUME PrefixAt(s) PROVE Numerals(s) \in {isCharHexDigit, isCharOctDigit, isCharBinDigit}
    OBVIOUS
  <2>2. Numerals(s) = DigitsOf[PrefixOf[Get(s + 1)]] /\ Get(s + 1) \in {"x", "o", "b"}
    BY <2>1, BaseFacts
  <2> QED
    BY <2>2, Bases
<1>3. Numerals(s) \subseteq isCharAlnum /\ "." \notin Numerals(s)
  BY <1>1, <1>2, DigitFacts
<1> QED
  BY <1>1, <1>3

LEMMA SuffixShape ==
  ASSUME NEW t, t \in IntSuffix \cup FloatSuffix
  PROVE  /\ Len(t) \in {1, 2, 3} /\ t # <<>> /\ \A i \in 1..Len(t) : t[i] \in isCharAlnum
         /\ t \in IntSuffix =>
              \/ t[1] = "o" /\ Len(t) = 1
              \/ t[1] = "i" /\ t[2] = "8" /\ Len(t) = 2
              \/ t[1] = "i" /\ t[2] \in {"6", "3", "1"} /\ Len(t) = 3
         /\ t \in FloatSuffix => \/ t[1] \in {"d", "l"} /\ Len(t) = 1
                                 \/ t[1] = "f" /\ Len(t) = 3
<1>1. {"i", "o", "f", "d", "l", "1", "2", "3", "4", "6", "8"} \subseteq isCharAlnum
  BY DEF isCharAlnum, isCharAlpha, isCharDigit, isCharOctDigit, isCharBinDigit
<1>2. CASE t \in IntSuffix
  BY <1>1, <1>2 DEF IntSuffix, FloatSuffix
<1>4. {<<"d">>, <<"l">>, <<"f", "3", "2">>, <<"f", "6", "4">>} \cap IntSuffix = {}
  BY DEF IntSuffix
<1>3. CASE t \in FloatSuffix
  <2>1. t \in {<<"d">>, <<"l">>, <<"f", "3", "2">>, <<"f", "6", "4">>}
    BY <1>3 DEF FloatSuffix
  <2>2. t \notin IntSuffix
    BY <1>4, <2>1
  <2> QED
    BY <1>1, <2>1, <2>2
<1> QED
  BY <1>2, <1>3

(* The first of a number of suffixes.                                      *)
LEMMA SuffixStarts ==
  ASSUME text \in Seq(Char), NEW lo \in 1..End, NEW hi \in lo..End, NEW L,
         L \subseteq IntSuffix \/ L \subseteq FloatSuffix, Suffixed(lo, hi, L)
  PROVE  /\ L \subseteq IntSuffix => text[lo] \in {"i", "o"}
         /\ L \subseteq FloatSuffix => text[lo] \in {"f", "d", "l"}
         /\ L \subseteq IntSuffix /\ text[lo] = "o" => \E R \in SUBSET L : Suffixed(lo + 1, hi, R)
<1>1. lo \in Nat /\ hi \in Nat /\ lo <= hi /\ End \in Nat
  BY TextFacts
<1>2. PICK k \in lo..hi : Slice(lo, k) \in L /\ Suffixed(k + 1, hi, L \ {Slice(lo, k)})
  BY <1>1, SuffixesFirst
<1>3. k \in lo..End /\ k \in Nat
  BY <1>1
<1>4. Slice(lo, k)[1] = text[lo] /\ Len(Slice(lo, k)) = k - lo + 1
  BY <1>3, SliceFacts
<1>5. Slice(lo, k) \in IntSuffix \cup FloatSuffix
  BY <1>2
<1>6. ASSUME L \subseteq IntSuffix
      PROVE  text[lo] \in {"i", "o"} /\ (text[lo] = "o" => k = lo)
  <2>1. Slice(lo, k) \in IntSuffix
    BY <1>2, <1>6
  <2>2. text[lo] = "o" => k - lo + 1 = 1
    BY <1>4, <1>5, <2>1, SuffixShape
  <2>3. text[lo] \in {"i", "o"}
    BY <1>4, <1>5, <2>1, SuffixShape
  <2> QED
    BY <1>1, <1>3, <2>2, <2>3
<1>7. ASSUME L \subseteq FloatSuffix
      PROVE  text[lo] \in {"f", "d", "l"}
  <2>1. Slice(lo, k) \in FloatSuffix
    BY <1>2, <1>7
  <2> QED
    BY <1>4, <1>5, <2>1, SuffixShape
<1>8. L \ {Slice(lo, k)} \in SUBSET L
  OBVIOUS
<1> QED
  BY <1>2, <1>6, <1>7, <1>8

(* No suffix begins with another: what has been read of one is taken.      *)
LEMMA SuffixTaken ==
  ASSUME text \in Seq(Char), NEW lo \in 1..End, NEW p \in lo..End, NEW hi \in p..End, NEW L,
         L \subseteq IntSuffix \/ L \subseteq FloatSuffix, Slice(lo, p) \in L
  PROVE  Suffixed(lo, hi, L) <=> Suffixed(p + 1, hi, L \ {Slice(lo, p)})
<1>1. lo \in Nat /\ hi \in Nat /\ lo <= hi /\ p \in lo..hi /\ p \in Nat /\ End \in Nat /\ hi <= End
  BY TextFacts
<1>2. ASSUME Suffixed(lo, hi, L) PROVE Suffixed(p + 1, hi, L \ {Slice(lo, p)})
  <2>1. PICK k \in lo..hi : Slice(lo, k) \in L /\ Suffixed(k + 1, hi, L \ {Slice(lo, k)})
    BY <1>1, <1>2, SuffixesFirst
  <2>2. k \in lo..End /\ k \in Nat
    BY <1>1
  <2> DEFINE t == Slice(lo, k)
             u == Slice(lo, p)
  <2>3. t[1] = text[lo] /\ Len(t) = k - lo + 1 /\ \A i \in 1..(k - lo + 1) : t[i] = text[lo + i - 1]
    BY <2>2, SliceFacts
  <2>4. u[1] = text[lo] /\ Len(u) = p - lo + 1 /\ \A i \in 1..(p - lo + 1) : u[i] = text[lo + i - 1]
    BY SliceFacts
  <2>5. t \in L /\ u \in L /\ t \in IntSuffix \cup FloatSuffix /\ u \in IntSuffix \cup FloatSuffix
    BY <2>1
  <2> HIDE DEF t, u
  <2>6. Len(t) >= 2 => t[2] = text[lo + 1]
    <3>1. Len(t) >= 2 => 2 \in 1..(k - lo + 1) /\ lo + 2 - 1 = lo + 1
      BY <1>1, <2>2, <2>3
    <3> QED
      BY <2>3, <3>1
  <2>7. Len(u) >= 2 => u[2] = text[lo + 1]
    <3>1. Len(u) >= 2 => 2 \in 1..(p - lo + 1) /\ lo + 2 - 1 = lo + 1
      BY <1>1, <2>4
    <3> QED
      BY <2>4, <3>1
  <2>8. CASE L \subseteq IntSuffix
    <3>1. /\ \/ t[1] = "o" /\ Len(t) = 1
             \/ t[1] = "i" /\ t[2] = "8" /\ Len(t) = 2
             \/ t[1] = "i" /\ t[2] \in {"6", "3", "1"} /\ Len(t) = 3
          /\ \/ u[1] = "o" /\ Len(u) = 1
             \/ u[1] = "i" /\ u[2] = "8" /\ Len(u) = 2
             \/ u[1] = "i" /\ u[2] \in {"6", "3", "1"} /\ Len(u) = 3
      BY <2>5, <2>8, SuffixShape
    <3>2. Len(t) = Len(u)
      BY <2>3, <2>4, <2>6, <2>7, <3>1
    <3>3. k = p
      BY <1>1, <2>2, <2>3, <2>4, <3>2
    <3> QED
      BY <2>1, <3>3
  <2>9. CASE L \subseteq FloatSuffix
    <3>1. /\ (t[1] \in {"d", "l"} /\ Len(t) = 1) \/ (t[1] = "f" /\ Len(t) = 3)
          /\ (u[1] \in {"d", "l"} /\ Len(u) = 1) \/ (u[1] = "f" /\ Len(u) = 3)
      BY <2>5, <2>9, SuffixShape
    <3>2. k = p
      BY <1>1, <2>2, <2>3, <2>4, <3>1
    <3> QED
      BY <2>1, <3>2
  <2> QED
    BY <2>8, <2>9
<1>3. ASSUME Suffixed(p + 1, hi, L \ {Slice(lo, p)}) PROVE Suffixed(lo, hi, L)
  BY <1>1, <1>3, SuffixesMore
<1> QED
  BY <1>2, <1>3

(* All digits are taken before the suffixes begin.                         *)
LEMMA AllDigits ==
  ASSUME text \in Seq(Char), NEW s \in 1..End, NEW hi \in s..End, NEW q, DigitsEnd(s, q),
         NEW k \in First(s)..hi, InSet(First(s), k, Numerals(s) \cup {"."}), Get(k + 1) # ".",
         Get(hi + 1) \notin isCharAlnum, NEW L, Suffixed(k + 1, hi, L),
         L \subseteq IntSuffix \/ (L \subseteq FloatSuffix /\ ~PrefixAt(s))
  PROVE  k = q - 1
<1>1. /\ q \in (First(s) + 1)..(End + 1) /\ Get(q) \notin Numerals(s) \cup {"."}
      /\ InSet(First(s), q - 1, Numerals(s) \cup {"."})
  BY DEF DigitsEnd
<1>2. s \in Nat /\ hi \in Nat /\ End \in Nat /\ hi <= End /\ First(s) \in Nat /\ First(s) >= 1
  BY TextFacts DEF First
<1>3. k \in Nat /\ q \in Nat /\ k >= 1 /\ k <= hi
  BY <1>1, <1>2
<1>4. CASE k >= q
  <2>1. q \in First(s)..k /\ q \in 1..End
    BY <1>1, <1>2, <1>3, <1>4
  <2>2. text[q] \in Numerals(s) \cup {"."}
    BY <2>1 DEF InSet
  <2> QED
    BY <1>1, <2>1, <2>2, TextFacts
<1>5. CASE k < q - 1
  <2>1. k + 1 \in First(s)..(q - 1) /\ k + 1 \in 1..End
    BY <1>1, <1>2, <1>3, <1>5
  <2>2. text[k + 1] \in Numerals(s) /\ Get(k + 1) = text[k + 1]
    BY <1>1, <2>1, TextFacts DEF InSet
  <2>3. text[k + 1] \in isCharAlnum
    BY <1>2, <2>2, NumeralFacts
  <2>4. k # hi
    BY <2>2, <2>3
  <2>5. hi \in (k + 1)..End
    BY <1>2, <1>3, <2>4
  <2>6. /\ L \subseteq IntSuffix => text[k + 1] \in {"i", "o"}
        /\ L \subseteq FloatSuffix => text[k + 1] \in {"f", "d", "l"}
    BY <2>1, <2>5, SuffixStarts
  <2>7. {"i", "o"} \cap Numerals(s) = {}
    <3>1. CASE PrefixAt(s)
      BY <1>2, <3>1, BaseFacts
    <3>2. CASE ~PrefixAt(s)
      BY <1>2, <3>2, NumeralFacts, DigitFacts
    <3> QED
      BY <3>1, <3>2
  <2>8. ~PrefixAt(s) => {"f", "d", "l"} \cap Numerals(s) = {}
    BY <1>2, NumeralFacts, DigitFacts
  <2> QED
    BY <2>2, <2>6, <2>7, <2>8
<1> QED
  BY <1>2, <1>3, <1>4, <1>5

(* With and without dots.                                                  *)
LEMMA DotFacts ==
  ASSUME text \in Seq(Char), NEW s \in 1..End, NEW q, DigitsEnd(s, q)
  PROVE  InSet(First(s), q - 1, Numerals(s)) <=> ~Dotted(s, q - 1)
<1>1. /\ q \in (First(s) + 1)..(End + 1)
      /\ InSet(First(s), q - 1, Numerals(s) \cup {"."})
  BY DEF DigitsEnd
<1>2. s \in Nat /\ End \in Nat /\ First(s) \in Nat /\ First(s) >= 1
  BY TextFacts DEF First
<1>3. \A i \in First(s)..(q - 1) : i \in 1..End
  BY <1>1, <1>2
<1>4. \A i \in First(s)..(q - 1) : Get(i) = text[i]
  BY <1>3, TextFacts
<1>5. "." \notin Numerals(s)
  BY <1>2, NumeralFacts
<1> QED
  BY <1>1, <1>4, <1>5 DEF InSet, Dotted

(* The code takes for a number what begins with these digits.              *)
LEMMA NumberIs ==
  ASSUME text \in Seq(Char), NEW s \in 1..End, NumberAt(s), NEW q, DigitsEnd(s, q),
         NEW hi \in s..End, q - 1 <= hi, Get(hi + 1) \notin isCharAlnum,
         Suffixed(q, hi, Codes(s, q)), ~(PrefixAt(s) /\ Dotted(s, q - 1))
  PROVE  IsNumber(NumberType(s, q), s, hi)
<1>1. /\ q \in (First(s) + 1)..(End + 1) /\ Get(q) \notin Numerals(s) \cup {"."}
      /\ InSet(First(s), q - 1, Numerals(s) \cup {"."})
  BY DEF DigitsEnd
<1>2. s \in Nat /\ hi \in Nat /\ End \in Nat /\ hi <= End /\ First(s) \in Nat /\ First(s) >= 1
  BY TextFacts DEF First
<1>3. q \in Nat /\ q - 1 + 1 = q /\ q - 1 \in First(s)..hi
  BY <1>1, <1>2
<1>4. InSet(First(s), q - 1, Numerals(s)) <=> ~Dotted(s, q - 1)
  BY DotFacts
<1>5. Get(s) = text[s]
  BY TextFacts
<1>6. CASE PrefixAt(s)
  <2>1. /\ Get(s) = "0" /\ Get(s + 1) \in {"x", "o", "b"} /\ First(s) = s + 2
        /\ Numerals(s) = DigitsOf[PrefixOf[Get(s + 1)]]
    BY <1>2, <1>6, BaseFacts
  <2>2. s + 1 \in 1..End
    BY <1>1, <1>2, <2>1, <1>3
  <2>3. text[s + 1] = Get(s + 1)
    BY <2>2, TextFacts
  <2>4. s + 2 <= hi /\ q - 1 \in (s + 2)..hi
    BY <1>2, <1>3, <2>1
  <2>5. Codes(s, q) = IntSuffix /\ NumberType(s, q) = "integer"
    BY <1>6 DEF Codes, NumberType
  <2>6. InSet(s + 2, q - 1, DigitsOf[PrefixOf[text[s + 1]]])
    BY <1>4, <1>6, <2>1, <2>3
  <2>7. Get(q - 1 + 1) # "." /\ Suffixed(q - 1 + 1, hi, IntSuffix)
    BY <1>1, <1>3, <2>5
  <2>8. text[s + 1] \in DOMAIN PrefixOf
    BY <2>1, <2>3, Bases
  <2> QED
    BY <1>5, <2>1, <2>4, <2>5, <2>6, <2>7, <2>8 DEF IsNumber
<1>7. CASE ~PrefixAt(s)
  <2>1. First(s) = s /\ Numerals(s) = isCharDigit
    BY <1>2, <1>7, NumeralFacts
  <2>2. ~InSet(s, q - 1, {"."})
    <3>1. CASE text[s] # "."
      <4>1. s \in s..(q - 1)
        BY <1>1, <1>2, <1>3, <2>1
      <4> QED
        BY <3>1, <4>1 DEF InSet
    <3>2. CASE text[s] = "."
      <4>1. Get(s + 1) \in isCharDigit
        BY <1>5, <3>2, DigitFacts DEF NumberAt
      <4>2. q # s + 1
        BY <1>1, <2>1, <4>1
      <4>3. s + 1 \in s..(q - 1) /\ s + 1 \in 1..End
        BY <1>1, <1>2, <1>3, <2>1, <4>2
      <4>4. text[s + 1] # "."
        BY <4>1, <4>3, TextFacts, DigitFacts
      <4> QED
        BY <4>3, <4>4 DEF InSet
    <3> QED
      BY <3>1, <3>2
  <2>3. text[s] # "." \/ Get(s + 1) \in isCharDigit
    BY <1>5, DigitFacts DEF NumberAt
  <2>4. Get(q - 1 + 1) # "." /\ Suffixed(q - 1 + 1, hi, Codes(s, q))
    BY <1>1, <1>3
  <2>5. InSet(s, q - 1, isCharDigit \cup {"."}) /\ q - 1 \in s..hi
    BY <1>1, <1>3, <2>1
  <2>6. IF InSet(s, q - 1, isCharDigit)
        THEN NumberType(s, q) = "integer" /\ Codes(s, q) = IntSuffix
        ELSE NumberType(s, q) = "float" /\ Codes(s, q) = FloatSuffix
    BY <1>4, <2>1 DEF NumberType, Codes
  <2>7. IF InSet(s, q - 1, isCharDigit)
        THEN NumberType(s, q) = "integer" /\ Suffixed(q - 1 + 1, hi, IntSuffix)
        ELSE NumberType(s, q) = "float" /\ Suffixed(q - 1 + 1, hi, FloatSuffix)
    BY <2>4, <2>6
  <2> QED
    BY <2>2, <2>3, <2>4, <2>5, <2>7 DEF IsNumber
<1> QED
  BY <1>6, <1>7

(* And nothing else.                                                       *)
LEMMA OnlyNumber ==
  ASSUME text \in Seq(Char), NEW s \in 1..End, NumberAt(s), ~TakenUnseen(s), NEW q,
         DigitsEnd(s, q), NEW hi \in s..End, NEW type, IsNumber(type, s, hi)
  PROVE  /\ type = NumberType(s, q) /\ q - 1 <= hi /\ Suffixed(q, hi, Codes(s, q))
         /\ Get(hi + 1) \notin isCharAlnum /\ ~(PrefixAt(s) /\ Dotted(s, q - 1))
<1>1. /\ q \in (First(s) + 1)..(End + 1) /\ Get(q) \notin Numerals(s) \cup {"."}
      /\ InSet(First(s), q - 1, Numerals(s) \cup {"."})
  BY DEF DigitsEnd
<1>2. s \in Nat /\ hi \in Nat /\ End \in Nat /\ hi <= End /\ First(s) \in Nat /\ First(s) >= 1
  BY TextFacts DEF First
<1>3. q \in Nat /\ q - 1 + 1 = q /\ Get(s) = text[s]
  BY <1>1, <1>2, TextFacts
<1>4. InSet(First(s), q - 1, Numerals(s)) <=> ~Dotted(s, q - 1)
  BY DotFacts
<1>5. Get(hi + 1) \notin isCharAlnum
  BY DEF IsNumber
<1>6. ASSUME NEW k \in s..hi, InSet(s, k, isCharDigit \cup {"."}), Get(k + 1) # ".",
             IF InSet(s, k, isCharDigit)
             THEN type = "integer" /\ Suffixed(k + 1, hi, IntSuffix)
             ELSE type = "float" /\ Suffixed(k + 1, hi, FloatSuffix)
      PROVE  /\ type = NumberType(s, q) /\ q - 1 <= hi /\ Suffixed(q, hi, Codes(s, q))
             /\ ~PrefixAt(s)
  <2>1. CASE PrefixAt(s)
    <3>1. /\ Get(s) = "0" /\ Get(s + 1) \in {"x", "o", "b"} /\ First(s) = s + 2
          /\ Numerals(s) = DigitsOf[PrefixOf[Get(s + 1)]]
          /\ Get(s + 1) = "o" => Numerals(s) = isCharOctDigit
      BY <1>2, <2>1, BaseFacts
    <3>2. s + 1 \in 1..End /\ s + 2 \in 1..(End + 1)
      BY <1>1, <1>2, <3>1, <1>3
    <3>3. text[s + 1] = Get(s + 1)
      BY <3>2, TextFacts
    <3>4. text[s + 1] \notin isCharDigit \cup {"."} /\ text[s + 1] \in isCharAlnum
      BY <3>1, <3>3 DEF isCharDigit, isCharOctDigit, isCharBinDigit, isCharAlnum, isCharAlpha
    <3>5. k = s
      <4>1. s + 1 \notin s..k
        BY <1>6, <3>4 DEF InSet
      <4> QED
        BY <1>2, <4>1
    <3>6. text[s] \in isCharDigit /\ InSet(s, k, isCharDigit)
      <4>1. text[s] \in isCharDigit
        BY <1>3, <3>1, DigitFacts
      <4>2. \A i \in s..k : i = s
        BY <1>2, <3>5
      <4> QED
        BY <4>1, <4>2 DEF InSet
    <3>7. hi \in (s + 1)..End
      <4>1. hi # s
        BY <1>5, <3>3, <3>4
      <4> QED
        BY <1>2, <4>1
    <3>8. Suffixed(s + 1, hi, IntSuffix)
      BY <1>6, <3>5, <3>6
    <3>9. text[s + 1] = "o" /\ \E R \in SUBSET IntSuffix : Suffixed(s + 1 + 1, hi, R)
      <4>1. text[s + 1] \in {"i", "o"}
        BY <3>2, <3>7, <3>8, SuffixStarts
      <4>2. text[s + 1] = "o"
        BY <3>1, <3>3, <4>1
      <4> QED
        BY <3>2, <3>7, <3>8, <4>2, SuffixStarts
    <3>10. PICK R \in SUBSET IntSuffix : Suffixed(s + 1 + 1, hi, R)
      BY <3>9
    <3>11. Get(s + 2) \in isCharOctDigit
      BY <2>1, <3>1, <3>3, <3>9 DEF TakenUnseen, PrefixAt
    <3>12. isCharOctDigit \subseteq isCharAlnum /\ isCharOctDigit \cap {"i", "o"} = {}
           /\ NUL \notin isCharOctDigit
      BY DEF isCharAlnum, isCharDigit, isCharOctDigit, isCharBinDigit, NUL
    <3>13. s + 2 <= End
      <4>1. s + 2 > End => Get(s + 2) = NUL
        BY <1>2, TextFacts
      <4> QED
        BY <1>2, <3>11, <3>12, <4>1
    <3>14. hi # s + 1
      <4>1. s + 1 + 1 = s + 2
        BY <1>2
      <4> QED
        BY <1>5, <3>11, <3>12, <4>1
    <3>15. hi \in (s + 2)..End /\ s + 2 \in 1..End /\ s + 1 + 1 = s + 2
      BY <1>2, <3>7, <3>13, <3>14
    <3>16. text[s + 2] \in {"i", "o"}
      BY <3>10, <3>15, SuffixStarts
    <3> QED
      BY <3>11, <3>12, <3>15, <3>16, TextFacts
  <2>2. CASE ~PrefixAt(s)
    <3>1. First(s) = s /\ Numerals(s) = isCharDigit
      BY <1>2, <2>2, NumeralFacts
    <3>2. k \in First(s)..hi /\ InSet(First(s), k, Numerals(s) \cup {"."})
      BY <1>6, <3>1
    <3>3. PICK L : /\ L \subseteq IntSuffix \/ (L \subseteq FloatSuffix /\ ~PrefixAt(s))
                   /\ Suffixed(k + 1, hi, L)
      BY <1>6, <2>2
    <3>4. k = q - 1
      BY <1>5, <1>6, <3>2, <3>3, AllDigits
    <3>5. k + 1 = q /\ q - 1 <= hi
      BY <1>2, <1>3, <3>4
    <3>6. InSet(s, k, isCharDigit) <=> ~Dotted(s, q - 1)
      BY <1>4, <3>1, <3>4
    <3> QED
      BY <1>6, <2>2, <3>5, <3>6 DEF NumberType, Codes
  <2> QED
    BY <2>1, <2>2
<1>7. ASSUME type = "integer", text[s] = "0", text[s + 1] \in DOMAIN PrefixOf, s + 2 <= hi,
             NEW k \in (s + 2)..hi, Get(k + 1) # ".",
             InSet(s + 2, k, DigitsOf[PrefixOf[text[s + 1]]]), Suffixed(k + 1, hi, IntSuffix)
      PROVE  /\ type = NumberType(s, q) /\ q - 1 <= hi /\ Suffixed(q, hi, Codes(s, q))
             /\ ~Dotted(s, q - 1)
  <2>1. s + 1 \in 1..End
    BY <1>2, <1>7
  <2>2. PrefixAt(s) /\ text[s + 1] = Get(s + 1)
    BY <1>3, <1>7, <2>1, TextFacts DEF PrefixAt
  <2>3. First(s) = s + 2 /\ Numerals(s) = DigitsOf[PrefixOf[Get(s + 1)]]
    BY <1>2, <2>2, BaseFacts
  <2>4. k \in First(s)..hi /\ InSet(First(s), k, Numerals(s) \cup {"."})
    BY <1>7, <2>2, <2>3 DEF InSet
  <2>5. k = q - 1
    BY <1>5, <1>7, <2>4, AllDigits
  <2>6. ~Dotted(s, q - 1)
    BY <1>4, <1>7, <2>2, <2>3, <2>5
  <2>7. k + 1 = q /\ q - 1 <= hi
    BY <1>2, <1>3, <2>5
  <2> QED
    BY <1>7, <2>6, <2>7 DEF NumberType, Codes
<1> QED
  BY <1>5, <1>6, <1>7 DEF IsNumber

-----------------------------------------------------------------------------
(* A number, digit by digit, and its suffixes.                             *)

LEMMA NumberBegins ==
  ASSUME text \in Seq(Char), NEW s \in 1..End, NumberAt(s), ~TakenUnseen(s), NEW n,
         n.base = (IF PrefixAt(s) THEN PrefixOf[Get(s + 1)] ELSE "dec"), n.float = (Get(s) = ".")
  PROVE  ReadNumber(s, First(s), n)
<1>1. s \in Nat /\ End \in Nat /\ First(s) \in Nat /\ \A i \in First(s)..First(s) : i = First(s)
  BY TextFacts DEF First
<1>2. Get(First(s)) \in Numerals(s) \cup {"."} /\ n.float = (Get(First(s)) = ".")
  <2>1. CASE PrefixAt(s)
    <3>1. /\ Get(s) = "0" /\ First(s) = s + 2 /\ Get(s + 1) \in DOMAIN PrefixOf
          /\ Numerals(s) = DigitsOf[PrefixOf[Get(s + 1)]]
      BY <1>1, <2>1, BaseFacts, Bases
    <3>2. Get(s + 2) \in Numerals(s)
      BY <3>1 DEF TakenUnseen
    <3>3. "." \notin Numerals(s)
      BY <1>1, NumeralFacts
    <3> QED
      BY <3>1, <3>2, <3>3
  <2>2. CASE ~PrefixAt(s)
    <3>1. First(s) = s /\ Numerals(s) = isCharDigit
      BY <1>1, <2>2, NumeralFacts
    <3> QED
      BY <3>1 DEF NumberAt
  <2> QED
    BY <2>1, <2>2
<1>3. First(s) <= End
  <2>1. First(s) > End => Get(First(s)) = NUL
    BY <1>1, TextFacts
  <2>2. NUL \notin Numerals(s) \cup {"."}
    BY <1>1, NumeralFacts, DigitFacts DEF NUL
  <2> QED
    BY <1>1, <1>2, <2>1, <2>2
<1>4. Get(First(s)) = text[First(s)]
  BY <1>1, <1>3 DEF Get
<1>5. InSet(First(s), First(s), Numerals(s) \cup {"."})
  BY <1>1, <1>2, <1>4 DEF InSet
<1>6. Dotted(s, First(s)) <=> Get(First(s)) = "."
  BY <1>1 DEF Dotted
<1>7. n.float = Dotted(s, First(s))
  BY <1>2, <1>6 DEF Dotted
<1> QED
  BY <1>1, <1>3, <1>5, <1>7 DEF ReadNumber

LEMMA NumberGoes ==
  ASSUME text \in Seq(Char), NEW s \in 1..End, NEW p \in 1..End, NEW n, ReadNumber(s, p, n),
         NEW m, m.base = n.base, m.float = (n.float \/ Get(p + 1) = "."),
         Get(p + 1) \in Numerals(s) \cup {"."}
  PROVE  p + 1 <= End /\ ReadNumber(s, p + 1, m)
<1>1. /\ First(s) <= p /\ InSet(First(s), p, Numerals(s) \cup {"."})
      /\ n.base = (IF PrefixAt(s) THEN PrefixOf[Get(s + 1)] ELSE "dec")
      /\ n.float = Dotted(s, p)
  BY DEF ReadNumber
<1>2. s \in Nat /\ End \in Nat /\ First(s) \in Nat /\ p \in Nat
  BY TextFacts DEF First
<1>3. p + 1 <= End
  <2>1. p + 1 > End => Get(p + 1) = NUL
    BY <1>2, TextFacts
  <2>2. NUL \notin Numerals(s) \cup {"."}
    BY <1>2, NumeralFacts, DigitFacts DEF NUL
  <2> QED
    BY <1>2, <2>1, <2>2
<1>4. text[p + 1] = Get(p + 1)
  BY <1>2, <1>3 DEF Get
<1>5. \A i \in First(s)..(p + 1) : i = p + 1 \/ i \in First(s)..p
  BY <1>2
<1>6. InSet(First(s), p + 1, Numerals(s) \cup {"."})
  BY <1>1, <1>4, <1>5 DEF InSet
<1>7. p + 1 \in First(s)..(p + 1) /\ \A i \in First(s)..p : i \in First(s)..(p + 1)
  BY <1>1, <1>2
<1>8. Dotted(s, p + 1) <=> Dotted(s, p) \/ Get(p + 1) = "."
  BY <1>5, <1>7 DEF Dotted
<1>9. m.float = Dotted(s, p + 1)
  BY <1>1, <1>8 DEF Dotted
<1>10. First(s) <= p + 1
  BY <1>1, <1>2
<1> QED
  BY <1>1, <1>3, <1>6, <1>9, <1>10 DEF ReadNumber

LEMMA SuffixBegins ==
  ASSUME text \in Seq(Char), NEW s \in 1..End, NEW p \in 1..End, NEW n, ReadNumber(s, p, n),
         NEW q, q = p + 1, Get(q) \notin Numerals(s) \cup {"."},
         NEW m, m.base = n.base, m.left = (IF n.float THEN FloatSuffix ELSE IntSuffix),
         NEW tok, tok.type = IF n.float THEN "float" ELSE "integer"
  PROVE  ReadSuffix(s, q, <<>>, m, tok)
<1>1. /\ First(s) <= p /\ InSet(First(s), p, Numerals(s) \cup {"."})
      /\ n.base = (IF PrefixAt(s) THEN PrefixOf[Get(s + 1)] ELSE "dec")
      /\ n.float = Dotted(s, p)
  BY DEF ReadNumber
<1>2. s \in Nat /\ End \in Nat /\ First(s) \in Nat /\ p \in Nat
  BY TextFacts DEF First
<1>3. q \in (First(s) + 1)..q /\ q - 1 = p /\ q \in Nat
  BY <1>1, <1>2
<1>4. Len(<<>>) = 0 /\ q - 0 = q /\ q + 0 <= q /\ \A k \in q..(q - 1) : FALSE
  BY <1>3
<1>5. Slice(q, q - 1) = <<>> /\ InSet(q, q - 1, isCharAlnum)
  BY <1>3, <1>4, SliceNone DEF InSet
<1>6. m.left = Codes(s, q) /\ tok.type = NumberType(s, q)
  BY <1>1, <1>3 DEF Codes, NumberType
<1>7. InSet(First(s), q - 1, Numerals(s) \cup {"."})
  BY <1>1, <1>3
<1>8. m.base = IF PrefixAt(s) THEN PrefixOf[Get(s + 1)] ELSE "dec"
  BY <1>1
<1>9. DigitsEnd(s, q)
  BY <1>2, <1>3, <1>7 DEF DigitsEnd
<1>10. SuffixFrom(q, s, q, <<>>, m, tok)
  BY <1>3, <1>4, <1>5, <1>6, <1>8, <1>9 DEF SuffixFrom
<1> QED
  BY <1>3, <1>10 DEF ReadSuffix

(* Where what has been read of a suffix begins, also after one step more.  *)
LEMMA SuffixPlace ==
  ASSUME text \in Seq(Char), NEW s \in 1..End, NEW p \in 1..End, NEW h, h = p + 1,
         NEW q \in (First(s) + 1)..p
  PROVE  /\ First(s) \in Nat /\ End \in Nat /\ p \in Nat /\ p <= End /\ p >= 1
         /\ First(s) >= 1 /\ h \in Nat /\ h - 1 = p /\ q \in Nat /\ q >= 1
         /\ \A k \in Nat : q + k <= p =>
              /\ p - k \in Nat /\ p - k >= q /\ p - k <= p /\ p - k \in 1..End
              /\ p \in (p - k)..End
              /\ \A j : j = k + 1 => h - j = p - k /\ q + j <= h
<1>1. First(s) \in Nat /\ End \in Nat /\ First(s) >= 1
  BY TextFacts DEF First
<1>2. p \in Nat /\ p <= End /\ p >= 1
  BY <1>1
<1>3. h \in Nat /\ h - 1 = p
  BY <1>2
<1>4. q \in Nat /\ q >= 1 /\ q <= p
  BY <1>1, <1>2
<1>5. ASSUME NEW k \in Nat, q + k <= p
      PROVE  /\ p - k \in Nat /\ p - k >= q /\ p - k <= p /\ p - k \in 1..End
             /\ p \in (p - k)..End
  <2>1. p - k \in Int /\ p - k >= q /\ p - k <= p
    BY <1>2, <1>4, <1>5
  <2> QED
    BY <1>1, <1>2, <1>4, <2>1
<1>6. ASSUME NEW k \in Nat, q + k <= p, NEW j, j = k + 1
      PROVE  h - j = p - k /\ q + j <= h
  BY <1>2, <1>4, <1>6
<1> QED
  BY <1>1, <1>2, <1>3, <1>4, <1>5, <1>6

(* One more letter or digit, with which a suffix has been read,            *)
LEMMA SuffixWhole ==
  ASSUME text \in Seq(Char), NEW s \in 1..End, NEW p \in 1..End, NEW b, NEW n, NEW tok,
         Len(b) \in Nat, NEW q \in (First(s) + 1)..p, SuffixFrom(q, s, p, b, n, tok),
         text[p] \in isCharAlnum, Append(b, text[p]) \in n.left,
         NEW m, m.base = n.base, m.left = n.left \ {Append(b, text[p])},
         NEW t, t.type = tok.type, NEW h, h = p + 1
  PROVE  SuffixFrom(q, s, h, <<>>, m, t)
<1>1. First(s) \in Nat /\ End \in Nat /\ p \in Nat /\ p <= End /\ p >= 1 /\ First(s) >= 1
      /\ h \in Nat /\ h - 1 = p
  BY SuffixPlace
<1>2. /\ DigitsEnd(s, q)
      /\ tok.type = NumberType(s, q)
      /\ n.base = (IF PrefixAt(s) THEN PrefixOf[Get(s + 1)] ELSE "dec")
      /\ InSet(q, p - 1, isCharAlnum)
      /\ q + Len(b) <= p /\ b = Slice(p - Len(b), p - 1)
      /\ n.left \subseteq Codes(s, q)
      /\ \A hi \in (p - 1)..End :
           Suffixed(q, hi, Codes(s, q)) <=> Suffixed(p - Len(b), hi, n.left)
  BY DEF SuffixFrom
<1> DEFINE a == p - Len(b)
<1>3. q \in Nat /\ q >= 1 /\ a \in Nat /\ a >= q /\ a <= p /\ a \in 1..End /\ p \in a..End
  BY <1>2, SuffixPlace
<1>4. b = Slice(a, p - 1)
  BY <1>2
<1>5. \A hi \in p..End : Suffixed(q, hi, Codes(s, q)) <=> Suffixed(a, hi, n.left)
  <2>1. \A hi \in p..End : hi \in (p - 1)..End
    BY <1>1
  <2> QED
    BY <1>2, <2>1
<1> HIDE DEF a
<1>6. Append(b, text[p]) = Slice(a, p)
  BY <1>3, <1>4, SliceMore
<1>7. n.left \subseteq IntSuffix \/ n.left \subseteq FloatSuffix
  BY <1>2 DEF Codes
<1>8. ASSUME NEW hi \in p..End
      PROVE  Suffixed(q, hi, Codes(s, q)) <=> Suffixed(h, hi, m.left)
  <2>1. Suffixed(a, hi, n.left) <=> Suffixed(p + 1, hi, n.left \ {Slice(a, p)})
    BY <1>3, <1>6, <1>7, SuffixTaken
  <2> QED
    BY <1>5, <1>6, <2>1
<1>9. InSet(q, h - 1, isCharAlnum)
  <2>1. \A i \in q..p : i = p \/ i \in q..(p - 1)
    BY <1>1, <1>3
  <2> QED
    BY <1>1, <1>2, <2>1 DEF InSet
<1>10. Len(<<>>) = 0 /\ h - 0 = h /\ q + 0 <= h /\ \A k \in h..(h - 1) : FALSE
  BY <1>1, <1>3
<1>11. Slice(h, h - 1) = <<>>
  BY <1>1, SliceNone
<1>12. m.left \subseteq Codes(s, q)
  BY <1>2
<1>13. \A hi \in (h - 1)..End : Suffixed(q, hi, Codes(s, q)) <=> Suffixed(h, hi, m.left)
  BY <1>1, <1>8
<1>14. t.type = NumberType(s, q) /\ m.base = IF PrefixAt(s) THEN PrefixOf[Get(s + 1)] ELSE "dec"
  BY <1>2
<1> QED
  BY <1>2, <1>9, <1>10, <1>11, <1>12, <1>13, <1>14 DEF SuffixFrom

(* or none yet.                                                            *)
LEMMA SuffixPart ==
  ASSUME text \in Seq(Char), NEW s \in 1..End, NEW p \in 1..End, NEW b, NEW n, NEW tok,
         Len(b) \in Nat, NEW q \in (First(s) + 1)..p, SuffixFrom(q, s, p, b, n, tok),
         text[p] \in isCharAlnum,
         NEW c, c = Append(b, text[p]), Len(c) = Len(b) + 1, c \notin n.left,
         NEW m, m.base = n.base, m.left = n.left,
         NEW t, t.type = tok.type, NEW h, h = p + 1
  PROVE  SuffixFrom(q, s, h, c, m, t)
<1>1. First(s) \in Nat /\ End \in Nat /\ p \in Nat /\ p <= End /\ p >= 1 /\ First(s) >= 1
      /\ h \in Nat /\ h - 1 = p
  BY SuffixPlace
<1>2. /\ DigitsEnd(s, q)
      /\ tok.type = NumberType(s, q)
      /\ n.base = (IF PrefixAt(s) THEN PrefixOf[Get(s + 1)] ELSE "dec")
      /\ InSet(q, p - 1, isCharAlnum)
      /\ q + Len(b) <= p /\ b = Slice(p - Len(b), p - 1)
      /\ n.left \subseteq Codes(s, q)
      /\ \A k \in (p - Len(b))..(p - 1) : Slice(p - Len(b), k) \notin n.left
      /\ \A hi \in (p - 1)..End :
           Suffixed(q, hi, Codes(s, q)) <=> Suffixed(p - Len(b), hi, n.left)
  BY DEF SuffixFrom
<1> DEFINE a == p - Len(b)
<1>3. /\ q \in Nat /\ q >= 1 /\ a \in Nat /\ a >= q /\ a <= p /\ a \in 1..End /\ p \in a..End
      /\ h - Len(c) = a /\ q + Len(c) <= h
  <2>1. PICK k \in Nat : k = Len(b)
    OBVIOUS
  <2>2. PICK j : j = Len(c)
    OBVIOUS
  <2>3. q + k <= p /\ j = k + 1
    BY <1>2, <2>1, <2>2
  <2>4. /\ q \in Nat /\ q >= 1 /\ p - k \in Nat /\ p - k >= q /\ p - k <= p
        /\ p - k \in 1..End /\ p \in (p - k)..End
        /\ h - j = p - k /\ q + j <= h
    BY <2>3, SuffixPlace
  <2> QED
    BY <2>1, <2>2, <2>4
<1>4. b = Slice(a, p - 1) /\ \A k \in a..(p - 1) : Slice(a, k) \notin n.left
  BY <1>2
<1>5. \A hi \in p..End : Suffixed(q, hi, Codes(s, q)) <=> Suffixed(a, hi, n.left)
  <2>1. \A hi \in p..End : hi \in (p - 1)..End
    BY <1>1
  <2> QED
    BY <1>2, <2>1
<1> HIDE DEF a
<1>6. c = Slice(a, p)
  BY <1>3, <1>4, SliceMore
<1>7. ASSUME NEW k \in a..p PROVE Slice(a, k) \notin m.left
  <2>1. k = p \/ k \in a..(p - 1)
    BY <1>1, <1>3
  <2> QED
    BY <1>4, <1>6, <2>1
<1>9. InSet(q, h - 1, isCharAlnum)
  <2>1. \A i \in q..p : i = p \/ i \in q..(p - 1)
    BY <1>1, <1>3
  <2> QED
    BY <1>1, <1>2, <2>1 DEF InSet
<1>10. c = Slice(h - Len(c), h - 1)
  BY <1>1, <1>3, <1>6
<1>11. \A k \in (h - Len(c))..(h - 1) : Slice(h - Len(c), k) \notin m.left
  BY <1>1, <1>3, <1>7
<1>12. m.left \subseteq Codes(s, q)
  BY <1>2
<1>13. \A hi \in (h - 1)..End :
         Suffixed(q, hi, Codes(s, q)) <=> Suffixed(h - Len(c), hi, m.left)
  BY <1>1, <1>3, <1>5
<1>14. t.type = NumberType(s, q) /\ m.base = IF PrefixAt(s) THEN PrefixOf[Get(s + 1)] ELSE "dec"
  BY <1>2
<1> QED
  BY <1>2, <1>3, <1>9, <1>10, <1>11, <1>12, <1>13, <1>14 DEF SuffixFrom

(* All of the suffixes' characters are letters and digits.                 *)
LEMMA SuffixedAlnum ==
  ASSUME text \in Seq(Char), NEW lo \in Nat, lo >= 1, NEW hi \in Nat, hi <= End, NEW L,
         L \subseteq IntSuffix \cup FloatSuffix, Suffixed(lo, hi, L), NEW i \in lo..hi
  PROVE  text[i] \in isCharAlnum
<1>0. lo <= hi /\ i \in Nat /\ lo <= i /\ i <= hi
  OBVIOUS
<1>1. PICK C \in SUBSET ((lo + 1)..hi) : \A c \in C \cup {lo} : Slice(c, Stop(C, hi, c)) \in L
  BY <1>0 DEF Suffixed
<1>2. C \subseteq Nat /\ \A c \in C : lo < c /\ c <= hi
  BY <1>1
<1> DEFINE T == {c \in C \cup {lo} : c <= i}
<1>3. lo \in T /\ T \subseteq 1..i /\ i \in Nat /\ i <= hi
  <2>1. \A c \in C \cup {lo} : c \in Nat /\ c >= 1
    BY <1>2
  <2>2. \A c \in T : c \in 1..i
    BY <1>0, <2>1
  <2>3. lo \in T
    BY <1>0
  <2> HIDE DEF T
  <2> QED
    BY <1>0, <2>2, <2>3
<1>4. PICK c \in T : \A d \in T : d <= c
  <2>1. T \subseteq 1..i /\ T # {} /\ i \in Nat
    BY <1>3
  <2> HIDE DEF T
  <2> QED
    BY <2>1, GreatestExists
<1>5. c \in C \cup {lo} /\ c <= i /\ c \in Nat /\ c >= 1 /\ End \in Nat
  BY <1>2, <1>4, TextFacts
<1> DEFINE m == Stop(C, hi, c)
<1>6. /\ m = hi \/ (m + 1 \in C /\ m >= c)
      /\ m <= hi /\ m \in Int
  BY <1>2, <1>5, StopFacts
<1>7. Slice(c, m) \in L
  BY <1>1, <1>5
<1> HIDE DEF m
<1>8. i <= m
  <2>1. CASE m < i
    <3>1. m + 1 \in T /\ m + 1 > c
      BY <1>3, <1>5, <1>6, <2>1
    <3> HIDE DEF T
    <3> QED
      BY <1>4, <1>5, <1>6, <3>1
  <2> QED
    BY <1>3, <1>6, <2>1
<1> HIDE DEF T
<1>9. c \in 1..End /\ m \in c..End /\ m \in Nat
  BY <1>3, <1>5, <1>6, <1>8
<1>10. /\ Len(Slice(c, m)) = m - c + 1
       /\ \A j \in 1..(m - c + 1) : Slice(c, m)[j] = text[c + j - 1]
  BY <1>9, SliceFacts
<1>11. \A j \in 1..Len(Slice(c, m)) : Slice(c, m)[j] \in isCharAlnum
  BY <1>7, SuffixShape
<1>12. i - c + 1 \in 1..(m - c + 1) /\ c + (i - c + 1) - 1 = i
  BY <1>3, <1>5, <1>8, <1>9
<1> QED
  BY <1>10, <1>11, <1>12

(* The guide's byte is letters and digits.                                 *)
LEMMA ByteFacts ==
  ASSUME text \in Seq(Char), NEW s \in 1..End, NEW k \in s..End, IsByte(s, k),
         NEW i \in (s + 1)..k
  PROVE  Get(i) \in isCharAlnum
<1>1. /\ End \in Nat /\ s \in Nat /\ k \in Nat /\ i \in Nat /\ i \in 1..End
      /\ Get(i) = text[i] /\ Get(s + 1) = "b" /\ text[k] = "b"
      /\ InSet(s + 2, k - 1, isCharBinDigit)
  BY TextFacts DEF IsByte, Pair
<1>2. i = s + 1 \/ i = k \/ i \in (s + 2)..(k - 1)
  BY <1>1
<1>3. {"b"} \cup isCharBinDigit \subseteq isCharAlnum
  BY DEF isCharAlnum, isCharAlpha, isCharDigit, isCharOctDigit
<1> QED
  BY <1>1, <1>2, <1>3 DEF InSet

(* No further suffix: a number, or none of any length but the guide's byte.*)
LEMMA SuffixEnds ==
  ASSUME text \in Seq(Char), NEW s \in 1..End, NEW p \in 1..(End + 1), NEW b, NEW n, NEW tok,
         Len(b) \in Nat, b # <<>> => Len(b) > 0, NumberAt(s), ~TakenUnseen(s),
         ReadSuffix(s, p, b, n, tok), Get(p) \notin isCharAlnum
  PROVE  IF b # <<>> \/ (tok.type = "float" /\ n.base # "dec")
         THEN \/ \A type \in TokenType : \A k \in s..End : ~Lexeme(type, s, k)
              \/ \E k \in s..End : IsByte(s, k)
         ELSE s < p /\ Lexeme(tok.type, s, p - 1) /\ Longest(s, p - 1)
<1>1. First(s) \in Nat /\ End \in Nat /\ p \in Nat /\ p >= 1 /\ First(s) >= s /\ s \in Nat
      /\ p <= End + 1
  BY TextFacts DEF First
<1>3. PICK q \in (First(s) + 1)..p :
        /\ DigitsEnd(s, q)
        /\ tok.type = NumberType(s, q)
        /\ n.base = (IF PrefixAt(s) THEN PrefixOf[Get(s + 1)] ELSE "dec")
        /\ InSet(q, p - 1, isCharAlnum)
        /\ q + Len(b) <= p /\ b = Slice(p - Len(b), p - 1)
        /\ n.left \subseteq Codes(s, q)
        /\ \A k \in (p - Len(b))..(p - 1) : Slice(p - Len(b), k) \notin n.left
        /\ \A hi \in (p - 1)..End :
             Suffixed(q, hi, Codes(s, q)) <=> Suffixed(p - Len(b), hi, n.left)
  BY DEF ReadSuffix, SuffixFrom
<1>2. q \in Nat /\ q > s /\ s < p /\ p - 1 \in s..End /\ p - 1 \in (p - 1)..End
  BY <1>1, <1>3
<1>4. (tok.type = "float" /\ n.base # "dec") <=> (PrefixAt(s) /\ Dotted(s, q - 1))
  <2>1. PrefixAt(s) <=> n.base # "dec"
    BY <1>1, <1>3, BaseFacts
  <2>2. Dotted(s, q - 1) <=> tok.type = "float"
    BY <1>3 DEF NumberType
  <2> QED
    BY <2>1, <2>2
<1>5. ASSUME NEW k \in s..End, NEW type, Lexeme(type, s, k), ~IsByte(s, k)
      PROVE  /\ k = p - 1 /\ Suffixed(q, k, Codes(s, q)) /\ ~(PrefixAt(s) /\ Dotted(s, q - 1))
  <2>1. IsNumber(type, s, k)
    BY <1>5, BeginsAs, Kinds DEF TokenType, Literals
  <2>2. /\ q - 1 <= k /\ Suffixed(q, k, Codes(s, q)) /\ Get(k + 1) \notin isCharAlnum
        /\ ~(PrefixAt(s) /\ Dotted(s, q - 1))
    BY <1>3, <2>1, OnlyNumber
  <2>3. k \in Nat /\ k <= End
    BY <1>1
  <2>4. CASE k < p - 1
    <3>1. k + 1 \in q..(p - 1) /\ k + 1 \in 1..End
      BY <1>1, <1>2, <2>2, <2>3, <2>4
    <3>2. text[k + 1] \in isCharAlnum /\ Get(k + 1) = text[k + 1]
      BY <1>3, <3>1, TextFacts DEF InSet
    <3> QED
      BY <2>2, <3>2
  <2>5. CASE k > p - 1
    <3>1. p \in q..k /\ p \in 1..End
      BY <1>1, <1>2, <1>3, <2>3, <2>5
    <3>2. text[p] \in isCharAlnum
      BY <1>2, <2>2, <2>3, <3>1, SuffixedAlnum DEF Codes
    <3> QED
      BY <3>1, <3>2, TextFacts
  <2> QED
    BY <1>1, <2>2, <2>3, <2>4, <2>5
<1>6. ASSUME b # <<>> \/ (PrefixAt(s) /\ Dotted(s, q - 1)),
             NEW type \in TokenType, NEW k \in s..End, Lexeme(type, s, k), ~IsByte(s, k)
      PROVE  FALSE
  <2>1. k = p - 1 /\ Suffixed(q, k, Codes(s, q)) /\ b # <<>>
    BY <1>5, <1>6
  <2> DEFINE a == p - Len(b)
  <2>2. Suffixed(a, p - 1, n.left)
    BY <1>2, <1>3, <2>1
  <2>3. a \in Nat /\ p - 1 \in Nat /\ a <= p - 1
    BY <1>1, <1>2, <1>3, <2>1
  <2>4. \A j \in a..(p - 1) : Slice(a, j) \notin n.left
    BY <1>3
  <2> HIDE DEF a
  <2> QED
    BY <2>2, <2>3, <2>4, SuffixesFirst
<1>7. ASSUME b = <<>>, ~(PrefixAt(s) /\ Dotted(s, q - 1))
      PROVE  Lexeme(tok.type, s, p - 1) /\ Longest(s, p - 1)
  <2>1. Len(b) = 0 /\ p - Len(b) = p
    BY <1>1, <1>7
  <2>2. Suffixed(q, p - 1, Codes(s, q))
    <3>1. Suffixed(p - Len(b), p - 1, n.left)
      BY <1>1, <2>1 DEF Suffixed
    <3> QED
      BY <1>2, <1>3, <3>1
  <2>3. p - 1 + 1 = p /\ q - 1 <= p - 1
    BY <1>1, <1>2, <1>3
  <2>4. IsNumber(tok.type, s, p - 1)
    BY <1>2, <1>3, <1>7, <2>2, <2>3, NumberIs
  <2>5. tok.type \in {"integer", "float"}
    BY <1>3 DEF NumberType
  <2>6. ASSUME NEW type \in TokenType, NEW k \in (p - 1 + 1)..End, Lexeme(type, s, k) PROVE FALSE
    <3>1. k \in s..End /\ k # p - 1 /\ p \in (s + 1)..k /\ p \in 1..End
      BY <1>1, <1>2
    <3>2. ~IsByte(s, k)
      BY <3>1, ByteFacts
    <3> QED
      BY <1>5, <2>6, <3>1, <3>2
  <2> QED
    BY <2>4, <2>5, <2>6 DEF Lexeme, Longest
<1> QED
  BY <1>2, <1>4, <1>6, <1>7

-----------------------------------------------------------------------------
(* What the steps share.                                                   *)

LEMMA StillTiled ==
  ASSUME text' = text, UNCHANGED <<tokens, spans>>
  PROVE  /\ Fresh' = Fresh
         /\ \A k : Tile(k)' <=> Tile(k)
<1>1. \A k : After(k)' = After(k)
  BY DEF After
<1>2. ASSUME NEW k PROVE Tile(k)' <=> Tile(k)
  <2>1. PICK type : type = tokens[k].type
    OBVIOUS
  <2>2. PICK sp : sp = spans[k]
    OBVIOUS
  <2>3. PICK from : from = After(k - 1)
    OBVIOUS
  <2>4. Tile(k) <=> Tiles(type, sp, from)
    BY <2>1, <2>2, <2>3, TileIs
  <2>5. Tiles(type, sp, from)' <=> Tiles(type, sp, from)
    BY SameMarks
  <2>6. tokens'[k].type = type /\ spans'[k] = sp /\ After(k - 1)' = from
    BY <1>1, <2>1, <2>2, <2>3
  <2>7. Tile(k)' <=> Tiles(type, sp, from)'
    BY <2>6 DEF Tile, Tiles
  <2> QED
    BY <2>4, <2>5, <2>7
<1>3. Fresh' = Fresh
  BY <1>1 DEF Fresh
<1> QED
  BY <1>2, <1>3

LEMMA NewTile ==
  ASSUME text' = text, NEW k, NEW type, NEW sp, NEW from,
         tokens'[k].type = type, spans'[k] = sp, After(k - 1)' = from, Tiles(type, sp, from)
  PROVE  Tile(k)'
<1>1. Tile(k)' <=> Tiles(type, sp, from)'
  BY DEF Tile, Tiles
<1> QED
  BY <1>1, SameMarks

(* The rest of TInv, for a loop that goes on: no token is delivered.       *)
LEMMA GoesOn ==
  ASSUME TInv, Reading, text' = text, UNCHANGED <<tokens, spans>>, Reading', level' # "error",
         BetweenInv', LexemeInv'
  PROVE  TInv'
<1>1. TiledInv'
  <2>1. \A k \in 1..Len(tokens) : Tile(k)'
    BY StillTiled DEF TInv, TiledInv
  <2> QED
    BY <2>1 DEF TiledInv
<1>2. EndInv'
  BY DEF TInv, EndInv, Reading
<1> QED
  BY <1>1, <1>2 DEF TInv

(* Between tokens.                                                         *)
LEMMA BlankOn ==
  ASSUME TInv, Reading, text' = text, UNCHANGED <<tokens, spans>>, level' # "error",
         mode' = "next", NEW p, it'.pos = p,
         \/ Fresh <= p /\ Blank(Fresh, p - 1)
         \/ p = End + 1 /\ BlankToEnd(Fresh)
  PROVE  TInv'
<1>1. PICK f : f = Fresh
  OBVIOUS
<1>2. PICK q : q = p - 1
  OBVIOUS
<1>3. Fresh' = f /\ f \in Nat /\ it'.pos - 1 = q
  BY <1>1, <1>2, StillTiled DEF TInv, BetweenInv
<1>4. (Blank(f, q)' <=> Blank(f, q)) /\ (BlankToEnd(f)' <=> BlankToEnd(f)) /\ End' = End
  BY SameBlank, SamePlaces
<1>5. BetweenInv'
  BY <1>1, <1>2, <1>3, <1>4 DEF BetweenInv
<1>6. LexemeInv' /\ Reading'
  BY DEF LexemeInv, Reading
<1> QED
  BY <1>5, <1>6, GoesOn

LEMMA LineCommentOn ==
  ASSUME TInv, Reading, text' = text, UNCHANGED <<tokens, spans>>, level' # "error",
         mode' = "line comment", NEW p, it'.pos = p, LineCommentInv(p)
  PROVE  TInv'
<1>1. LineCommentInv(p)' <=> LineCommentInv(p)
  BY SameComments
<1>2. Fresh' \in Nat
  BY StillTiled DEF TInv, BetweenInv
<1>3. BetweenInv'
  BY <1>1, <1>2 DEF BetweenInv
<1>4. LexemeInv' /\ Reading'
  BY DEF LexemeInv, Reading
<1> QED
  BY <1>3, <1>4, GoesOn

LEMMA CommentOn ==
  ASSUME TInv, Reading, text' = text, UNCHANGED <<tokens, spans>>, level' # "error",
         mode' = "comment", NEW p, it'.pos = p, NEW d, depth' = d, CommentInv(p, d)
  PROVE  TInv'
<1>1. CommentInv(p, d)' <=> CommentInv(p, d)
  BY SameComments
<1>2. Fresh' \in Nat
  BY StillTiled DEF TInv, BetweenInv
<1>3. BetweenInv'
  BY <1>1, <1>2 DEF BetweenInv
<1>4. LexemeInv' /\ Reading'
  BY DEF LexemeInv, Reading
<1> QED
  BY <1>3, <1>4, GoesOn

(* In a token.                                                             *)
LEMMA LexemeOn ==
  ASSUME TInv, Reading, text' = text, UNCHANGED <<tokens, spans>>, level' # "error",
         mode' \in {"word", "number", "suffix", "literal", "operator"}, NEW s, start' = s,
         Fresh <= s, s <= End, Blank(Fresh, s - 1), LexemeInv'
  PROVE  TInv'
<1>1. PICK f : f = Fresh
  OBVIOUS
<1>2. PICK q : q = s - 1
  OBVIOUS
<1>3. Fresh' = f /\ f \in Nat /\ start' - 1 = q
  BY <1>1, <1>2, StillTiled DEF TInv, BetweenInv
<1>4. (Blank(f, q)' <=> Blank(f, q)) /\ End' = End
  BY SameBlank, SamePlaces
<1>5. BetweenInv'
  BY <1>1, <1>2, <1>3, <1>4 DEF BetweenInv
<1>6. Reading'
  BY DEF Reading
<1> QED
  BY <1>5, <1>6, GoesOn

LEMMA RefusedStill ==
  ASSUME text' = text, start' = start, Refused
  PROVE  Refused'
<1>1. PICK s : s = start
  OBVIOUS
<1>2. \A type : \A k : Lexeme(type, s, k)' <=> Lexeme(type, s, k)
  BY SameLexemes
<1>3. /\ TakenUnseen(s)' <=> TakenUnseen(s)
      /\ \A k : IsByte(s, k)' <=> IsByte(s, k)
      /\ End' = End
  BY SameReads, SamePlaces, SameLexemes
<1>4. TokenType' = TokenType
  BY DEF TokenType
<1> QED
  BY <1>1, <1>2, <1>3, <1>4 DEF Refused

LEMMA GivenUp == ASSUME TInv, Undefined PROVE TInv'
<1>1. /\ text' = text /\ UNCHANGED <<tokens, spans>> /\ mode' = "undefined"
  BY DEF Undefined, Goto
<1>2. TiledInv'
  <2>1. \A k \in 1..Len(tokens) : Tile(k)'
    BY <1>1, StillTiled DEF TInv, TiledInv
  <2> QED
    BY <1>1, <2>1 DEF TiledInv
<1>3. Fresh' \in Nat
  BY <1>1, StillTiled DEF TInv, BetweenInv
<1>4. BetweenInv' /\ LexemeInv'
  BY <1>1, <1>3 DEF BetweenInv, LexemeInv
<1>5. EndInv'
  <2>1. level' = level /\ start' = start
    BY DEF Undefined, Goto
  <2>2. level' = "error" => Refused'
    BY <1>1, <2>1, RefusedStill DEF TInv, EndInv
  <2> QED
    BY <1>1, <2>2 DEF TInv, EndInv, Reading
<1> QED
  BY <1>2, <1>4, <1>5 DEF TInv

-----------------------------------------------------------------------------
(* A token is delivered, or the text refused.                              *)

LEMMA NothingBlank ==
  ASSUME NEW lo \in Nat
  PROVE  Blank(lo, lo - 1)
<1>1. lo > lo - 1
  OBVIOUS
<1> QED
  BY <1>1 DEF Blank, Pieces

LEMMA Appending ==
  ASSUME IInv, TInv, text' = text, NEW tok, NEW from \in Nat, NEW h \in Int, from <= h + 1,
         tokens' = Append(tokens, tok), spans' = Append(spans, <<from, h>>),
         Tiles(tok.type, <<from, h>>, Fresh)
  PROVE  /\ TiledInv' /\ Fresh' = h + 1
         /\ Len(tokens') = Len(tokens) + 1 /\ Len(tokens) \in Nat
         /\ \A k \in 1..Len(tokens) : tokens'[k] = tokens[k]
         /\ tokens'[Len(tokens) + 1] = tok
<1>1. PICK n : n = Len(tokens)
  OBVIOUS
<1>2. PICK sp : sp = <<from, h>>
  OBVIOUS
<1>3. sp[2] = h
  BY <1>2
<1>4. IsSeq(tokens) /\ IsSeq(spans) /\ Len(spans) = n /\ n \in Nat
  BY <1>1, SeqFacts DEF IInv, TokensInv, TokensOK
<1>5. /\ Len(tokens') = n + 1 /\ \A k \in 1..n : tokens'[k] = tokens[k]
      /\ tokens'[n + 1] = tok
  BY <1>1, <1>4, Appended
<1>6. \A k \in 1..n : spans'[k] = spans[k]
  BY <1>4, Appended
<1>7. spans'[n + 1] = sp
  BY <1>2, <1>4, Appended
<1>8. \A k \in 0..n : After(k)' = After(k)
  BY <1>4, <1>6 DEF After
<1>9. ASSUME NEW k \in 1..n PROVE Tile(k)'
  <2>1. PICK type : type = tokens[k].type
    OBVIOUS
  <2>2. PICK s : s = spans[k]
    OBVIOUS
  <2>3. PICK a : a = After(k - 1)
    OBVIOUS
  <2>4. k - 1 \in 0..n
    BY <1>4
  <2>5. After(k - 1)' = a
    BY <1>8, <2>3, <2>4
  <2>6. Tiles(type, s, a)
    BY <1>1, <2>1, <2>2, <2>3, TileIs DEF TInv, TiledInv
  <2>7. tokens'[k].type = type /\ spans'[k] = s
    BY <1>5, <1>6, <2>1, <2>2
  <2> QED
    BY <2>5, <2>6, <2>7, NewTile
<1>10. Tile(n + 1)'
  <2>1. PICK a : a = Fresh
    OBVIOUS
  <2>2. (n + 1) - 1 = n /\ n \in 0..n
    BY <1>4
  <2>3. After(n)' = a
    BY <1>1, <1>8, <2>1, <2>2 DEF Fresh
  <2>4. After((n + 1) - 1)' = a
    BY <2>2, <2>3
  <2>5. PICK type : type = tok.type
    OBVIOUS
  <2>6. Tiles(type, sp, a)
    BY <1>2, <2>1, <2>5
  <2>7. tokens'[n + 1].type = type /\ spans'[n + 1] = sp
    BY <1>5, <1>7, <2>5
  <2>8. PICK k : k = n + 1
    OBVIOUS
  <2>9. After(k - 1)' = a /\ tokens'[k].type = type /\ spans'[k] = sp
    BY <2>4, <2>7, <2>8
  <2>10. Tile(k)'
    BY <2>6, <2>9, NewTile
  <2> QED
    BY <2>8, <2>10
<1>11. TiledInv'
  <2>1. \A k \in 1..(n + 1) : k \in 1..n \/ k = n + 1
    BY <1>4
  <2>2. \A k \in 1..(n + 1) : Tile(k)'
    BY <1>9, <1>10, <2>1
  <2> QED
    BY <1>5, <2>2 DEF TiledInv
<1>12. Fresh' = h + 1
  <2>1. n + 1 # 0
    BY <1>4
  <2>2. After(n + 1)' = h + 1
    BY <1>3, <1>7, <2>1 DEF After
  <2> QED
    BY <1>5, <2>2 DEF Fresh
<1> QED
  BY <1>1, <1>4, <1>5, <1>11, <1>12

LEMMA TokenGiven ==
  ASSUME IInv, TInv, Reading, text' = text,
         NEW tok, NEW from \in Nat, NEW end, end.pos \in Nat, from <= end.pos,
         NEW lv, lv # "error", Deliver(tok, from, end, lv),
         Tiles(tok.type, <<from, end.pos - 1>>, Fresh)
  PROVE  TInv'
<1>1. PICK p \in Nat : p = end.pos
  OBVIOUS
<1>2. /\ it'.pos = p /\ level' = lv
      /\ mode' = (IF tok.type = "EOF" THEN "finish" ELSE "next")
      /\ tokens' = Append(tokens, tok) /\ spans' = Append(spans, <<from, p - 1>>)
  BY <1>1 DEF Deliver
<1>3. Fresh \in Nat
  BY DEF TInv, BetweenInv
<1>4. PICK h \in Int : h = p - 1
  OBVIOUS
<1>5. /\ TiledInv' /\ Fresh' = h + 1
      /\ Len(tokens') = Len(tokens) + 1 /\ Len(tokens) \in Nat
      /\ \A k \in 1..Len(tokens) : tokens'[k] = tokens[k]
      /\ tokens'[Len(tokens) + 1] = tok
  <2>1. from <= h + 1 /\ Tiles(tok.type, <<from, h>>, Fresh) /\ spans' = Append(spans, <<from, h>>)
    BY <1>1, <1>2, <1>4
  <2> QED
    BY <1>2, <2>1, Appending
<1>6. BetweenInv'
  <2>1. Fresh' = p /\ it'.pos = p /\ it'.pos - 1 = h /\ p \in Nat
    BY <1>2, <1>4, <1>5
  <2>2. Blank(p, h)
    BY <1>4, NothingBlank
  <2>3. Blank(p, h)' <=> Blank(p, h)
    BY SameBlank
  <2>4. mode' \in {"finish", "next"}
    BY <1>2
  <2>5. Fresh' <= it'.pos /\ Blank(Fresh, it.pos - 1)'
    BY <2>1, <2>2, <2>3
  <2> QED
    BY <2>1, <2>4, <2>5 DEF BetweenInv
<1>7. LexemeInv'
  BY <1>2 DEF LexemeInv
<1>8. EndInv'
  <2>1. \A k \in 1..Len(tokens) : tokens'[k].type # "EOF"
    BY <1>5 DEF TInv, EndInv
  <2>2. \A k \in 1..Len(tokens') : k \in 1..Len(tokens) \/ k = Len(tokens')
    BY <1>5
  <2>3. tokens'[Len(tokens')] = tok
    BY <1>5
  <2>4. \A k \in 1..Len(tokens') : tokens'[k].type = "EOF" => k = Len(tokens')
    BY <2>1, <2>2
  <2>5. CASE tok.type = "EOF"
    <3>1. mode' = "finish" /\ level' # "error"
      BY <1>2, <2>5
    <3>2. tokens' # <<>>
      <4>1. Len(tokens') # 0
        BY <1>5
      <4> QED
        BY <4>1, NothingIsSeq
    <3> QED
      BY <2>3, <2>4, <2>5, <3>1, <3>2 DEF EndInv, Reading
  <2>6. CASE tok.type # "EOF"
    <3>1. mode' = "next" /\ level' # "error"
      BY <1>2, <2>6
    <3>2. \A k \in 1..Len(tokens') : tokens'[k].type # "EOF"
      BY <2>1, <2>2, <2>3, <2>6
    <3> QED
      BY <2>4, <3>1, <3>2 DEF EndInv, Reading
  <2> QED
    BY <2>5, <2>6
<1> QED
  BY <1>5, <1>6, <1>7, <1>8 DEF TInv

LEMMA TextRefused ==
  ASSUME IInv, TInv, Reading, text' = text,
         NEW tok, NEW from, NEW end, Deliver(tok, from, end, "error"),
         NEW s, start' = s,
         \/ \A type \in TokenType : \A k \in s..End : ~Lexeme(type, s, k)
         \/ TakenUnseen(s)
         \/ \E k \in s..End : IsByte(s, k)
  PROVE  TInv'
<1>1. /\ level' = "error" /\ mode' = "finish" /\ UNCHANGED <<tokens, spans>>
  BY DEF Deliver
<1>2. TiledInv'
  <2>1. \A k \in 1..Len(tokens) : Tile(k)'
    BY <1>1, StillTiled DEF TInv, TiledInv
  <2> QED
    BY <1>1, <2>1 DEF TiledInv
<1>3. Fresh' \in Nat
  BY <1>1, StillTiled DEF TInv, BetweenInv
<1>4. BetweenInv' /\ LexemeInv'
  BY <1>1, <1>3 DEF BetweenInv, LexemeInv
<1>5. Refused'
  <2>1. \A type : \A k : Lexeme(type, s, k)' <=> Lexeme(type, s, k)
    BY SameLexemes
  <2>2. /\ TakenUnseen(s)' <=> TakenUnseen(s)
        /\ \A k : IsByte(s, k)' <=> IsByte(s, k)
    BY SameReads, SameLexemes
  <2>3. End' = End
    BY SamePlaces
  <2>4. TokenType' = TokenType
    BY DEF TokenType
  <2> QED
    BY <2>1, <2>2, <2>3, <2>4 DEF Refused
<1>6. EndInv'
  BY <1>1, <1>5 DEF TInv, EndInv, Reading
<1> QED
  BY <1>2, <1>4, <1>6 DEF TInv

-----------------------------------------------------------------------------
(* The steps between tokens.                                               *)

LEMMA ReadingFacts ==
  ASSUME IInv, TInv, Reading
  PROVE  /\ text \in Seq(Char) /\ End \in Nat /\ it.pos \in 1..(End + 1) /\ it.pos \in Nat
         /\ Here = Get(it.pos) /\ There = Get(it.pos + 1)
         /\ More <=> it.pos <= End
         /\ Here # NUL <=> it.pos <= End
         /\ it.pos <= End => /\ it.pos \in 1..End /\ Here = text[it.pos]
                             /\ Forward(text, it).pos = it.pos + 1
         /\ it.pos > End => Forward(text, it).pos = it.pos
         /\ it.pos + 1 <= End => Twice(text, it).pos = it.pos + 2
         /\ Fresh \in Nat /\ level # "error"
<1>1. /\ text \in Seq(Char) /\ it.pos \in 1..(End + 1) /\ it.pos \in Nat
      /\ Here = Get(it.pos) /\ There = Get(it.pos + 1)
      /\ More <=> it.pos <= End
      /\ it.pos <= End => Forward(text, it).pos = it.pos + 1
      /\ it.pos > End => Forward(text, it).pos = it.pos
      /\ it.pos + 1 <= End => Twice(text, it).pos = it.pos + 2
  BY Looking DEF IInv
<1>2. /\ End \in Nat
      /\ \A i \in 1..End : Get(i) = text[i] /\ text[i] \in Char /\ Get(i) # NUL
      /\ \A i \in Int : i > End => Get(i) = NUL
  BY <1>1, TextFacts
<1>3. it.pos <= End => it.pos \in 1..End
  BY <1>1
<1>4. Fresh \in Nat /\ level # "error"
  BY DEF TInv, BetweenInv, EndInv
<1> QED
  BY <1>1, <1>2, <1>3, <1>4

LEMMA NextFacts ==
  ASSUME IInv, TInv, mode = "next"
  PROVE  /\ Reading
         /\ \/ Fresh <= it.pos /\ Blank(Fresh, it.pos - 1)
            \/ it.pos = End + 1 /\ BlankToEnd(Fresh)
         /\ it.pos <= End => Fresh <= it.pos /\ Blank(Fresh, it.pos - 1)
<1>1. Reading
  BY DEF Reading
<1>2. End \in Nat /\ it.pos \in Nat
  BY <1>1, ReadingFacts
<1>3. \/ Fresh <= it.pos /\ Blank(Fresh, it.pos - 1)
      \/ it.pos = End + 1 /\ BlankToEnd(Fresh)
  BY DEF TInv, BetweenInv
<1>4. it.pos <= End => it.pos # End + 1
  BY <1>2
<1> QED
  BY <1>1, <1>3, <1>4

LEMMA EndOfTextTiled == ASSUME IInv, TInv, EndOfText PROVE TInv'
<1> DEFINE tok == createToken("EOF", <<>>, it)
<1>1. tok.type = "EOF"
  BY DEF createToken
<1> HIDE DEF tok
<1>2. mode = "next" /\ ~More /\ Deliver(tok, it.pos, it, level) /\ text' = text
  BY DEF EndOfText, tok
<1>3. /\ Reading
      /\ \/ Fresh <= it.pos /\ Blank(Fresh, it.pos - 1)
         \/ it.pos = End + 1 /\ BlankToEnd(Fresh)
  BY <1>2, NextFacts
<1>4. it.pos \in Nat /\ it.pos \in 1..(End + 1) /\ End \in Nat /\ ~(it.pos <= End) /\ level # "error"
  BY <1>2, <1>3, ReadingFacts
<1>5. it.pos = End + 1 /\ it.pos - 1 = End
  BY <1>4
<1>6. BlankToEnd(Fresh)
  BY <1>3, <1>5 DEF BlankToEnd
<1>7. PICK p \in Nat : p = it.pos
  BY <1>4
<1>8. Tiles("EOF", <<p, p - 1>>, Fresh)
  <2>1. <<p, p - 1>>[1] = End + 1
    BY <1>5, <1>7
  <2> QED
    BY <1>6, <2>1 DEF Tiles
<1> QED
  BY <1>1, <1>2, <1>3, <1>4, <1>7, <1>8, TokenGiven

LEMMA SkipWhitespaceTiled == ASSUME IInv, TInv, SkipWhitespace PROVE TInv'
<1>1. /\ mode = "next" /\ Here \in isCharWhitespace /\ it' = Forward(text, it)
      /\ mode' = "next" /\ UNCHANGED <<text, level, tokens, spans>>
  BY DEF SkipWhitespace, Goto
<1>2. Reading
  BY <1>1, NextFacts
<1>3. Here # NUL
  BY <1>1, CharFacts DEF isCharWhitespace, NUL, NL
<1>4. /\ it.pos \in 1..End /\ Here = text[it.pos] /\ Forward(text, it).pos = it.pos + 1
      /\ Fresh \in Nat /\ level # "error" /\ End \in Nat /\ it.pos <= End
  BY <1>2, <1>3, ReadingFacts
<1>5. PICK p \in 1..End : p = it.pos
  BY <1>4
<1>6. Fresh <= p /\ Blank(Fresh, p - 1)
  BY <1>1, <1>4, <1>5, NextFacts
<1>7. p \in p..End /\ text[p] \in isCharWhitespace
  BY <1>1, <1>4, <1>5
<1>8. Blank(Fresh, p)
  BY <1>4, <1>6, <1>7, BlankMore
<1>9. PICK q : q = p + 1
  OBVIOUS
<1>10. it'.pos = q /\ q - 1 = p /\ Fresh <= q
  BY <1>1, <1>4, <1>5, <1>6, <1>9
<1> QED
  BY <1>1, <1>2, <1>4, <1>8, <1>10, BlankOn

LEMMA BeginCommentTiled == ASSUME IInv, TInv, BeginComment PROVE TInv'
<1>1. /\ mode = "next" /\ Here = "/" /\ There \in {"/", "*"} /\ it' = Twice(text, it)
      /\ mode' = (IF There = "/" THEN "line comment" ELSE "comment")
      /\ depth' = (IF There = "/" THEN 0 ELSE 1)
      /\ UNCHANGED <<text, level, tokens, spans>>
  BY DEF BeginComment, CommentHere, Goto
<1>2. Reading
  BY <1>1, NextFacts
<1>3. /\ text \in Seq(Char) /\ End \in Nat /\ Fresh \in Nat /\ level # "error"
      /\ Here = Get(it.pos) /\ There = Get(it.pos + 1) /\ it.pos \in Nat
      /\ it.pos + 1 <= End => Twice(text, it).pos = it.pos + 2
      /\ Here # NUL => it.pos <= End
  BY <1>2, ReadingFacts
<1>4. it.pos <= End
  BY <1>1, <1>3 DEF NUL
<1>5. it.pos \in 1..End
  BY <1>2, <1>4, ReadingFacts
<1>6. PICK p \in 1..End : p = it.pos
  BY <1>5
<1>7. Fresh <= p /\ Blank(Fresh, p - 1) /\ Get(p) = "/" /\ Get(p + 1) \in {"/", "*"}
  BY <1>1, <1>3, <1>4, <1>6, NextFacts
<1>8. p + 1 <= End
  <2>1. p + 1 > End => Get(p + 1) = NUL
    BY <1>3, TextFacts
  <2> QED
    BY <1>3, <1>7, <2>1 DEF NUL
<1>9. PICK q : q = p + 2
  OBVIOUS
<1>10. it'.pos = q
  BY <1>1, <1>3, <1>6, <1>8, <1>9
<1>11. CASE There = "/"
  <2>1. Pair(p) = <<"/", "/">>
    BY <1>3, <1>6, <1>7, <1>11 DEF Pair
  <2>2. LineCommentInv(q)
    BY <1>3, <1>7, <1>9, <2>1, LineCommentBegins
  <2> QED
    BY <1>1, <1>2, <1>3, <1>10, <1>11, <2>2, LineCommentOn
<1>12. CASE There = "*"
  <2>1. Opens(p)
    BY <1>3, <1>6, <1>7, <1>12 DEF Pair, Opens
  <2>2. CommentInv(q, 1)
    BY <1>3, <1>7, <1>9, <2>1, CommentBegins
  <2>3. mode' = "comment" /\ depth' = 1
    BY <1>1, <1>12
  <2> QED
    BY <1>1, <1>2, <1>3, <1>10, <2>2, <2>3, CommentOn
<1> QED
  BY <1>1, <1>11, <1>12

LEMMA LineCommentTiled == ASSUME IInv, TInv, LineComment PROVE TInv'
<1>1. /\ mode = "line comment" /\ it' = Forward(text, it)
      /\ mode' = (IF Here = NL \/ ~HasMore(text, it') THEN "next" ELSE "line comment")
      /\ UNCHANGED <<text, level, tokens, spans>>
  BY DEF LineComment, Goto
<1>2. Reading
  BY <1>1 DEF Reading
<1>3. /\ text \in Seq(Char) /\ End \in Nat /\ Fresh \in Nat /\ level # "error"
      /\ it.pos \in Nat /\ it.pos \in 1..(End + 1)
      /\ Here # NUL <=> it.pos <= End
      /\ it.pos <= End => /\ it.pos \in 1..End /\ Here = text[it.pos]
                          /\ Forward(text, it).pos = it.pos + 1
      /\ it.pos > End => Forward(text, it).pos = it.pos
  BY <1>2, ReadingFacts
<1>4. PICK p \in Nat : p = it.pos
  BY <1>3
<1>5. LineCommentInv(p)
  BY <1>1, <1>4 DEF TInv, BetweenInv
<1>6. HasMore(text, it') <=> it'.pos <= End
  <2>1. Exact(text, it')
    BY <1>1, CursorFacts DEF IInv
  <2> QED
    BY <1>3, <2>1, PlaceFacts DEF End
<1>9. mode' = (IF Here = NL \/ ~(it'.pos <= End) THEN "next" ELSE "line comment")
  BY <1>1, <1>6
<1>7. CASE p <= End
  <2>1. p \in 1..End /\ Here = text[p] /\ it'.pos = p + 1
    BY <1>1, <1>3, <1>4, <1>7
  <2>2. PICK q : q = p + 1
    OBVIOUS
  <2>3. q - 1 = p /\ it'.pos = q
    BY <2>1, <2>2
  <2>4. CASE text[p] = NL \/ p = End
    <3>1. Fresh <= q /\ Blank(Fresh, q - 1)
      BY <1>3, <1>5, <2>1, <2>2, <2>3, <2>4, LineCommentEnds
    <3>2. mode' = "next"
      <4>1. ~(it'.pos <= End) \/ Here = NL
        BY <1>3, <2>1, <2>4
      <4> QED
        BY <1>9, <4>1
    <3> QED
      BY <1>1, <1>2, <1>3, <2>3, <3>1, <3>2, BlankOn
  <2>5. CASE text[p] # NL /\ p # End
    <3>1. LineCommentInv(q)
      BY <1>3, <1>5, <2>1, <2>2, <2>5, LineCommentGoes
    <3>2. mode' = "line comment"
      <4>1. it'.pos <= End /\ Here # NL
        BY <1>3, <2>1, <2>5
      <4> QED
        BY <1>9, <4>1
    <3> QED
      BY <1>1, <1>2, <1>3, <2>3, <3>1, <3>2, LineCommentOn
  <2> QED
    BY <2>4, <2>5
<1>8. CASE p = End + 1
  <2>0. it.pos > End /\ p - 1 = End
    BY <1>3, <1>4, <1>8
  <2>1. it'.pos = p /\ p - 1 = End
    BY <1>1, <1>3, <1>4, <2>0
  <2>2. Fresh <= p /\ Blank(Fresh, p - 1)
    BY <1>3, <1>5, <1>8, <2>1, LineCommentAtEnd
  <2>3. mode' = "next"
    <3>1. ~(it'.pos <= End)
      BY <1>3, <1>8, <2>1
    <3> QED
      BY <1>9, <3>1
  <2> QED
    BY <1>1, <1>2, <1>3, <2>1, <2>2, <2>3, BlankOn
<1> QED
  BY <1>3, <1>4, <1>7, <1>8

LEMMA CommentTiled == ASSUME IInv, TInv, Comment PROVE TInv'
<1> DEFINE opens == Here = "/" /\ There = "*"
           closes == Here = "*" /\ There = "/"
<1>1. /\ mode = "comment" /\ More
      /\ depth' = (IF opens THEN depth + 1 ELSE IF closes THEN depth - 1 ELSE depth)
      /\ it' = (IF opens \/ closes THEN Twice(text, it) ELSE Forward(text, it))
      /\ mode' = (IF depth' = 0 THEN "next" ELSE "comment")
      /\ UNCHANGED <<text, level, tokens, spans>>
  BY DEF Comment, Goto
<1>2. Reading
  BY <1>1 DEF Reading
<1>3. /\ text \in Seq(Char) /\ End \in Nat /\ Fresh \in Nat /\ level # "error"
      /\ Here = Get(it.pos) /\ There = Get(it.pos + 1) /\ it.pos \in 1..End
      /\ Forward(text, it).pos = it.pos + 1
      /\ it.pos + 1 <= End => Twice(text, it).pos = it.pos + 2
  BY <1>1, <1>2, ReadingFacts
<1>4. PICK p \in 1..End : p = it.pos
  BY <1>3
<1>5. PICK d \in Nat : d = depth /\ d > 0
  BY <1>1 DEF IInv, DataInv, LoopInv
<1>6. CommentInv(p, d)
  BY <1>1, <1>4, <1>5 DEF TInv, BetweenInv
<1>7. /\ p \in Nat /\ ~(Opens(p) /\ Closes(p)) /\ (Opens(p) <=> opens) /\ (Closes(p) <=> closes)
      /\ Opens(p) \/ Closes(p) => p + 1 <= End
  BY <1>3, <1>4, MarkFacts
<1> HIDE DEF opens, closes
<1>8. PICK q : q = p + 2
  OBVIOUS
<1>9. CASE Opens(p)
  <2>1. CommentInv(q, d + 1)
    BY <1>3, <1>5, <1>6, <1>8, <1>9, CommentDeepens
  <2>2. it'.pos = q /\ depth' = d + 1 /\ d + 1 # 0
    BY <1>1, <1>3, <1>4, <1>5, <1>7, <1>8, <1>9
  <2>3. mode' = "comment"
    BY <1>1, <2>2
  <2> QED
    BY <1>1, <1>2, <1>3, <2>1, <2>2, <2>3, CommentOn
<1>10. CASE Closes(p)
  <2>1. it'.pos = q /\ depth' = d - 1
    BY <1>1, <1>3, <1>4, <1>5, <1>7, <1>8, <1>10
  <2>2. CASE d = 1
    <3>1. q - 1 = p + 1 /\ mode' = "next"
      BY <1>1, <1>7, <1>8, <2>1, <2>2
    <3>2. Fresh <= q /\ Blank(Fresh, q - 1)
      BY <1>3, <1>6, <1>8, <1>10, <2>2, <3>1, CommentEnds
    <3> QED
      BY <1>1, <1>2, <1>3, <2>1, <3>1, <3>2, BlankOn
  <2>3. CASE d > 1
    <3>1. CommentInv(q, d - 1)
      BY <1>3, <1>6, <1>8, <1>10, <2>3, CommentCloses
    <3>2. mode' = "comment"
      BY <1>1, <2>1, <2>3
    <3> QED
      BY <1>1, <1>2, <1>3, <2>1, <3>1, <3>2, CommentOn
  <2> QED
    BY <1>5, <2>2, <2>3
<1>11. CASE ~Opens(p) /\ ~Closes(p)
  <2>1. PICK h : h = p + 1
    OBVIOUS
  <2>2. CommentInv(h, d)
    BY <1>3, <1>5, <1>6, <1>11, <2>1, CommentGoes
  <2>3. it'.pos = h /\ depth' = d /\ mode' = "comment"
    BY <1>1, <1>3, <1>4, <1>5, <1>7, <1>11, <2>1
  <2> QED
    BY <1>1, <1>2, <1>3, <2>2, <2>3, CommentOn
<1> QED
  BY <1>9, <1>10, <1>11

LEMMA UnclosedCommentTiled == ASSUME IInv, TInv, UnclosedComment PROVE TInv'
<1>1. mode = "comment" /\ ~More
  BY DEF UnclosedComment
<1>2. Reading
  BY <1>1 DEF Reading
<1>3. CASE Undefined
  BY <1>3, GivenUp
<1>4. CASE /\ mode' = "next" /\ level' = "warning" /\ UNCHANGED <<text, it, tokens, spans>>
  <2>1. /\ text \in Seq(Char) /\ End \in Nat /\ Fresh \in Nat /\ it.pos \in 1..(End + 1)
        /\ ~(it.pos <= End)
    BY <1>1, <1>2, ReadingFacts
  <2>2. PICK p : p = it.pos
    OBVIOUS
  <2>3. p = End + 1
    BY <2>1, <2>2
  <2>4. PICK d \in Nat : d = depth /\ d > 0
    BY <1>1 DEF IInv, DataInv, LoopInv
  <2>5. CommentInv(p, d)
    BY <1>1, <2>2, <2>4 DEF TInv, BetweenInv
  <2>6. BlankToEnd(Fresh)
    BY <2>1, <2>3, <2>4, <2>5, CommentUnclosed
  <2>7. it'.pos = p
    BY <1>4, <2>2
  <2> QED
    BY <1>2, <1>4, <2>3, <2>6, <2>7, BlankOn
<1> QED
  BY <1>3, <1>4 DEF UnclosedComment

LEMMA UnrecognizedTiled == ASSUME IInv, TInv, Unrecognized PROVE TInv'
<1>1. mode = "next" /\ Here \in Stray /\ More
  BY DEF Unrecognized
<1>2. Reading
  BY <1>1, NextFacts
<1>3. CASE Undefined
  BY <1>3, GivenUp
<1> DEFINE end == Forward(text, it)
           tok == createToken("DEFAULT", <<Here>>, end)
<1>4. CASE Deliver(tok, it.pos, end, "warning") /\ text' = text
  <2>1. tok.type = "DEFAULT"
    BY DEF createToken
  <2> HIDE DEF tok
  <2>2. /\ text \in Seq(Char) /\ End \in Nat /\ Fresh \in Nat /\ it.pos \in 1..End
        /\ Here = Get(it.pos) /\ end.pos = it.pos + 1 /\ it.pos <= End
    BY <1>1, <1>2, ReadingFacts
  <2> HIDE DEF end
  <2>3. PICK p \in 1..End : p = it.pos
    BY <2>2
  <2>4. Fresh <= p /\ Blank(Fresh, p - 1)
    BY <1>1, <2>2, <2>3, NextFacts
  <2>5. Lexeme("DEFAULT", p, p) /\ Longest(p, p)
    BY <1>1, <2>2, <2>3, StrayEnds
  <2>6. end.pos - 1 = p /\ end.pos \in Nat /\ p \in Nat /\ p <= end.pos
    BY <2>2, <2>3
  <2>7. Tiles("DEFAULT", <<p, p>>, Fresh)
    <3>1. <<p, p>>[1] = p /\ <<p, p>>[2] = p
      OBVIOUS
    <3> QED
      BY <2>4, <2>5, <3>1 DEF Tiles
  <2>8. Tiles(tok.type, <<p, end.pos - 1>>, Fresh)
    BY <2>1, <2>6, <2>7
  <2> QED
    BY <1>2, <1>4, <2>3, <2>6, <2>8, TokenGiven
<1> QED
  BY <1>3, <1>4 DEF Unrecognized

-----------------------------------------------------------------------------
(* The steps in a word, an operator or a literal.                          *)

LEMMA BeginFacts ==
  ASSUME IInv, TInv, mode = "next", Here # NUL
  PROVE  /\ it.pos \in 1..End /\ it.pos \in Nat /\ Fresh <= it.pos /\ Blank(Fresh, it.pos - 1)
         /\ Here = Get(it.pos) /\ There = Get(it.pos + 1) /\ Here = text[it.pos]
         /\ LiteralHere <=> LiteralAt(it.pos)
         /\ NumberHere <=> NumberAt(it.pos)
         /\ WordHere <=> WordAt(it.pos)
         /\ OperatorHere => OperatorAt(it.pos)
<1>1. Reading
  BY NextFacts
<1>2. /\ it.pos \in 1..End /\ it.pos <= End /\ it.pos \in Nat
      /\ Here = Get(it.pos) /\ There = Get(it.pos + 1) /\ Here = text[it.pos]
  BY <1>1, ReadingFacts
<1>3. Fresh <= it.pos /\ Blank(Fresh, it.pos - 1)
  BY <1>2, NextFacts
<1>4. Pair(it.pos) = <<Here, There>>
  BY <1>2 DEF Pair
<1>5. LiteralHere <=> LiteralAt(it.pos)
  BY <1>2, <1>4 DEF LiteralHere, LiteralAt
<1>6. NumberHere <=> NumberAt(it.pos)
  BY <1>2 DEF NumberHere, NumberAt
<1>7. WordHere <=> WordAt(it.pos)
  BY <1>2, <1>5 DEF WordHere, WordAt
<1>8. OperatorHere => OperatorAt(it.pos)
  <2>1. SUFFICES ASSUME OperatorHere PROVE OperatorAt(it.pos)
    OBVIOUS
  <2>2. Here \in isCharPunctuation \ {"_"} /\ ~LiteralHere /\ ~NumberHere /\ ~CommentHere
    BY <2>1 DEF OperatorHere
  <2>3. Pair(it.pos) \notin {<<"/", "/">>, <<"/", "*">>}
    <3>1. ~(Here = "/" /\ There \in {"/", "*"})
      BY <2>2 DEF CommentHere
    <3>2. ASSUME NEW a, NEW b, <<a, b>> \in {<<"/", "/">>, <<"/", "*">>}
          PROVE  a = "/" /\ b \in {"/", "*"}
      BY <3>2
    <3> QED
      BY <1>4, <3>1, <3>2
  <2> QED
    BY <1>2, <1>5, <1>6, <2>2, <2>3 DEF OperatorAt
<1> QED
  BY <1>2, <1>3, <1>5, <1>6, <1>7, <1>8

LEMMA TokenFacts ==
  ASSUME IInv, TInv, mode \in {"word", "number", "suffix", "literal", "operator"}
  PROVE  /\ Reading /\ start \in 1..End /\ start \in Nat /\ start >= 1
         /\ Fresh <= start /\ start <= End /\ Blank(Fresh, start - 1) /\ start <= it.pos
<1>1. Reading
  BY DEF Reading
<1>2. Fresh <= start /\ start <= End /\ Blank(Fresh, start - 1)
  BY DEF TInv, BetweenInv
<1>3. start \in 1..it.pos /\ start \in Nat /\ it.pos \in Nat
  BY CursorFacts DEF IInv
<1>4. End \in Nat
  BY <1>1, ReadingFacts
<1> QED
  BY <1>1, <1>2, <1>3, <1>4

LEMMA LexemeTile ==
  ASSUME NEW type, type # "EOF", NEW s, NEW h, NEW p, h = p - 1, Blank(Fresh, s - 1),
         \/ Lexeme(type, s, h) /\ Longest(s, h)
         \/ TakenUnseen(s) /\ type \in {"integer", "float"}
         \/ EndsElsewhere(s, h) /\ type = LiteralType[text[s]]
  PROVE  Tiles(type, <<s, p - 1>>, Fresh)
<1>1. <<s, p - 1>>[1] = s /\ <<s, p - 1>>[2] = h
  OBVIOUS
<1> QED
  BY <1>1 DEF Tiles

LEMMA BeginWordTiled == ASSUME IInv, TInv, BeginWord PROVE TInv'
<1>1. /\ it' = it /\ mode' = "word" /\ start' = it.pos /\ buf' = <<>> /\ mode = "next" /\ WordHere
      /\ UNCHANGED <<text, tokens, spans, level>>
  BY DEF BeginWord, Begin, Goto
<1>2. Here # NUL
  BY <1>1, CharFacts DEF WordHere, isValidIdentifierBeginningChar, isCharAlpha, NUL
<1>3. PICK s \in 1..End : s = it.pos
  BY <1>1, <1>2, BeginFacts
<1>4. Fresh <= s /\ s <= End /\ Blank(Fresh, s - 1) /\ WordAt(s) /\ s \in Nat
  BY <1>1, <1>2, <1>3, BeginFacts
<1>5. Reading /\ level # "error"
  BY <1>1, NextFacts, ReadingFacts
<1>6. PICK b : b = <<>>
  OBVIOUS
<1>7. ReadWord(s, s, b)
  BY <1>4, <1>6, WordBegins
<1>8. ReadWord(s, s, b)'
  BY <1>1, <1>7, SameReads
<1>9. LexemeInv'
  BY <1>1, <1>3, <1>6, <1>8 DEF LexemeInv
<1> QED
  BY <1>1, <1>3, <1>4, <1>5, <1>9, LexemeOn

LEMMA WordTiled == ASSUME IInv, TInv, Word PROVE TInv'
<1>1. /\ mode = "word" /\ Here \in isValidIdentifierChar
      /\ buf' = Append(buf, Here) /\ it' = Forward(text, it) /\ mode' = "word"
      /\ UNCHANGED <<text, tokens, spans, level, start>>
  BY DEF Word, Goto
<1>2. Here # NUL
  BY <1>1, CharFacts
<1>3. PICK s \in 1..End : s = start
  BY <1>1, TokenFacts
<1>4. Fresh <= s /\ s <= End /\ Blank(Fresh, s - 1) /\ Reading
  BY <1>1, <1>3, TokenFacts
<1>5. /\ text \in Seq(Char) /\ level # "error" /\ it.pos \in 1..End /\ Here = text[it.pos]
      /\ Forward(text, it).pos = it.pos + 1
  BY <1>2, <1>4, ReadingFacts
<1>6. PICK p \in 1..End : p = it.pos
  BY <1>5
<1>7. PICK b : b = buf
  OBVIOUS
<1>8. PICK q : q = p + 1
  OBVIOUS
<1>9. PICK c : c = Append(b, text[p])
  OBVIOUS
<1>10. ReadWord(s, q, c)
  <2>1. ReadWord(s, p, b)
    BY <1>1, <1>3, <1>6, <1>7 DEF TInv, LexemeInv
  <2> QED
    BY <1>1, <1>5, <1>6, <1>8, <1>9, <2>1, WordGoes
<1>11. it'.pos = q /\ buf' = c /\ start' = s
  BY <1>1, <1>3, <1>5, <1>6, <1>7, <1>8, <1>9
<1>12. ReadWord(s, q, c)'
  BY <1>1, <1>10, SameReads
<1>13. LexemeInv'
  BY <1>1, <1>11, <1>12 DEF LexemeInv
<1> QED
  BY <1>1, <1>4, <1>5, <1>11, <1>13, LexemeOn

LEMMA EndWordTiled == ASSUME IInv, TInv, EndWord PROVE TInv'
<1> DEFINE tok == createToken(IF buf \in Keywords THEN "keyword" ELSE "identifier", buf, it)
<1>1. /\ mode = "word" /\ Here \notin isValidIdentifierChar
      /\ Deliver(tok, start, it, level) /\ text' = text
  BY DEF EndWord
<1>2. tok.type = IF buf \in Keywords THEN "keyword" ELSE "identifier"
  BY DEF createToken
<1> HIDE DEF tok
<1>3. PICK s \in 1..End : s = start
  BY <1>1, TokenFacts
<1>4. /\ Fresh <= s /\ s <= End /\ Blank(Fresh, s - 1) /\ Reading /\ s \in Nat /\ s <= it.pos
  BY <1>1, <1>3, TokenFacts
<1>5. /\ text \in Seq(Char) /\ level # "error" /\ it.pos \in 1..(End + 1) /\ Here = Get(it.pos)
      /\ it.pos \in Nat
  BY <1>4, ReadingFacts
<1>6. PICK p \in 1..(End + 1) : p = it.pos
  BY <1>5
<1>7. ReadWord(s, p, buf)
  BY <1>1, <1>3, <1>6 DEF TInv, LexemeInv
<1>8. PICK h : h = p - 1
  OBVIOUS
<1>9. Lexeme(tok.type, s, h) /\ Longest(s, h)
  BY <1>1, <1>2, <1>5, <1>6, <1>7, <1>8, WordEnds
<1>10. tok.type # "EOF"
  BY <1>2
<1>11. Tiles(tok.type, <<s, p - 1>>, Fresh)
  BY <1>4, <1>8, <1>9, <1>10, LexemeTile
<1> QED
  BY <1>1, <1>3, <1>4, <1>5, <1>6, <1>11, TokenGiven

LEMMA BeginOperatorTiled == ASSUME IInv, TInv, BeginOperator PROVE TInv'
<1>1. /\ it' = it /\ mode' = "operator" /\ start' = it.pos /\ buf' = <<>> /\ mode = "next"
      /\ OperatorHere /\ UNCHANGED <<text, tokens, spans, level>>
  BY DEF BeginOperator, Begin, Goto
<1>2. Here # NUL
  BY <1>1, CharFacts DEF OperatorHere
<1>3. PICK s \in 1..End : s = it.pos
  BY <1>1, <1>2, BeginFacts
<1>4. Fresh <= s /\ s <= End /\ Blank(Fresh, s - 1) /\ OperatorAt(s) /\ s \in Nat
  BY <1>1, <1>2, <1>3, BeginFacts
<1>5. Reading /\ level # "error"
  BY <1>1, NextFacts, ReadingFacts
<1>6. PICK b : b = <<>>
  OBVIOUS
<1>7. ReadOperator(s, s, b)
  BY <1>4, <1>6, OperatorBegins
<1>8. ReadOperator(s, s, b)'
  BY <1>1, <1>7, SameReads
<1>9. LexemeInv'
  BY <1>1, <1>3, <1>6, <1>8 DEF LexemeInv
<1> QED
  BY <1>1, <1>3, <1>4, <1>5, <1>9, LexemeOn

LEMMA OperatorTiled == ASSUME IInv, TInv, Operator PROVE TInv'
<1>1. /\ mode = "operator" /\ Here \in isCharPunctuation
      /\ buf \in operators => Append(buf, Here) \in operators
      /\ buf' = Append(buf, Here) /\ it' = Forward(text, it) /\ mode' = "operator"
      /\ UNCHANGED <<text, tokens, spans, level, start>>
  BY DEF Operator, Extends, Goto
<1>2. Here # NUL
  BY <1>1, CharFacts
<1>3. PICK s \in 1..End : s = start
  BY <1>1, TokenFacts
<1>4. Fresh <= s /\ s <= End /\ Blank(Fresh, s - 1) /\ Reading
  BY <1>1, <1>3, TokenFacts
<1>5. /\ text \in Seq(Char) /\ level # "error" /\ it.pos \in 1..End /\ Here = text[it.pos]
      /\ Forward(text, it).pos = it.pos + 1
  BY <1>2, <1>4, ReadingFacts
<1>6. PICK p \in 1..End : p = it.pos
  BY <1>5
<1>7. PICK b : b = buf
  OBVIOUS
<1>8. PICK q : q = p + 1
  OBVIOUS
<1>9. PICK c : c = Append(b, text[p])
  OBVIOUS
<1>10. ReadOperator(s, q, c)
  <2>1. ReadOperator(s, p, b)
    BY <1>1, <1>3, <1>6, <1>7 DEF TInv, LexemeInv
  <2>2. text[p] \in isCharPunctuation /\ (b \in operators => Append(b, text[p]) \in operators)
    BY <1>1, <1>5, <1>6, <1>7
  <2> QED
    BY <1>5, <1>8, <1>9, <2>1, <2>2, OperatorGoes
<1>11. it'.pos = q /\ buf' = c /\ start' = s
  BY <1>1, <1>3, <1>5, <1>6, <1>7, <1>8, <1>9
<1>12. ReadOperator(s, q, c)'
  BY <1>1, <1>10, SameReads
<1>13. LexemeInv'
  BY <1>1, <1>11, <1>12 DEF LexemeInv
<1> QED
  BY <1>1, <1>4, <1>5, <1>11, <1>13, LexemeOn

LEMMA EndOperatorTiled == ASSUME IInv, TInv, EndOperator PROVE TInv'
<1> DEFINE tok == createToken("operator", buf, it)
           lv == IF buf \in operators THEN level ELSE "error"
<1>1. /\ mode = "operator"
      /\ ~(Here \in isCharPunctuation /\ (buf \in operators => Append(buf, Here) \in operators))
      /\ \/ Deliver(tok, start, it, lv) /\ text' = text /\ start' = start
         \/ Undefined
  BY DEF EndOperator, Extends
<1>2. tok.type = "operator"
  BY DEF createToken
<1> HIDE DEF tok
<1>3. PICK s \in 1..End : s = start
  BY <1>1, TokenFacts
<1>4. /\ Fresh <= s /\ s <= End /\ Blank(Fresh, s - 1) /\ Reading /\ s \in Nat /\ s <= it.pos
  BY <1>1, <1>3, TokenFacts
<1>5. /\ text \in Seq(Char) /\ level # "error" /\ it.pos \in 1..(End + 1) /\ Here = Get(it.pos)
      /\ it.pos \in Nat
  BY <1>4, ReadingFacts
<1>6. PICK p \in 1..(End + 1) : p = it.pos
  BY <1>5
<1>7. PICK b : b = buf
  OBVIOUS
<1>8. PICK h : h = p - 1
  OBVIOUS
<1>9. /\ b \in operators => Lexeme("operator", s, h) /\ Longest(s, h)
      /\ b \notin operators => \A type \in TokenType : \A k \in s..End : ~Lexeme(type, s, k)
  <2>1. ReadOperator(s, p, b)
    BY <1>1, <1>3, <1>6, <1>7 DEF TInv, LexemeInv
  <2>2. ~(Get(p) \in isCharPunctuation /\ (b \in operators => Append(b, Get(p)) \in operators))
    BY <1>1, <1>5, <1>6, <1>7
  <2> QED
    BY <1>5, <1>8, <2>1, <2>2, OperatorEnds
<1>10. CASE Undefined
  BY <1>10, GivenUp
<1>11. CASE Deliver(tok, start, it, lv) /\ text' = text /\ start' = start /\ b \in operators
  <2>1. Tiles(tok.type, <<s, p - 1>>, Fresh)
    BY <1>2, <1>4, <1>8, <1>9, <1>11, LexemeTile
  <2>2. lv = level
    BY <1>7, <1>11
  <2> HIDE DEF lv
  <2> QED
    BY <1>3, <1>4, <1>5, <1>6, <1>11, <2>1, <2>2, TokenGiven
<1>12. CASE Deliver(tok, start, it, lv) /\ text' = text /\ start' = start /\ b \notin operators
  <2>1. lv = "error"
    BY <1>7, <1>12
  <2> HIDE DEF lv
  <2> QED
    BY <1>3, <1>4, <1>9, <1>12, <2>1, TextRefused
<1> QED
  BY <1>1, <1>10, <1>11, <1>12

LEMMA BeginLiteralTiled == ASSUME IInv, TInv, BeginLiteral PROVE TInv'
<1>1. /\ mode = "next" /\ LiteralHere /\ mode' = "literal" /\ start' = it.pos
      /\ it' = IF Here \in {"b", "c"} THEN Forward(text, it) ELSE it
      /\ UNCHANGED <<text, tokens, spans, level>>
  BY DEF BeginLiteral, Begin, Goto
<1>2. Here # NUL
  BY <1>1 DEF LiteralHere, NUL
<1>3. PICK s \in 1..End : s = it.pos
  BY <1>1, <1>2, BeginFacts
<1>4. /\ Fresh <= s /\ s <= End /\ Blank(Fresh, s - 1) /\ LiteralAt(s) /\ s \in Nat
      /\ Here = text[s]
  BY <1>1, <1>2, <1>3, BeginFacts
<1>5. Reading
  BY <1>1, NextFacts
<1>6. level # "error" /\ text \in Seq(Char) /\ Forward(text, it).pos = s + 1
  BY <1>3, <1>4, <1>5, ReadingFacts
<1>7. PICK p : p = OpenOf(s)
  OBVIOUS
<1>8. it'.pos = p
  <2>1. s + 0 = s
    BY <1>4
  <2> QED
    BY <1>1, <1>3, <1>4, <1>6, <1>7, <2>1 DEF OpenOf
<1>9. ReadLiteral(s, p)
  BY <1>4, <1>6, <1>7, LiteralBegins
<1>10. ReadLiteral(s, p)'
  BY <1>1, <1>9, SameReads
<1>11. LexemeInv'
  BY <1>1, <1>3, <1>8, <1>10 DEF LexemeInv
<1> QED
  BY <1>1, <1>3, <1>4, <1>5, <1>6, <1>11, LexemeOn

(* What the loop looks at: the character behind the cursor's, and, when it *)
(* is a quote, the two before it.                                          *)
LEMMA LiteralLooks ==
  ASSUME IInv, TInv, mode = "literal"
  PROVE  \E s \in 1..End : \E p \in 1..End :
           /\ s = start /\ p = it.pos /\ ReadLiteral(s, p)
           /\ text \in Seq(Char) /\ End \in Nat /\ level # "error" /\ Reading
           /\ Fresh <= s /\ s <= End /\ Blank(Fresh, s - 1) /\ s <= p /\ p <= End
           /\ s \in Nat /\ p \in Nat
           /\ Forward(text, it).pos = p + 1
           /\ HasMore(text, Forward(text, it)) <=> p + 1 <= End
           /\ p + 1 <= End => At(text, Forward(text, it)) = text[p + 1]
           /\ QuoteEscaped(Forward(text, it))
                <=> text[p] = "backslash" /\ text[p - 1] # "backslash"
           /\ Forward(text, Forward(text, it)).pos = IF p + 1 <= End THEN p + 2 ELSE p + 1
<1>1. PICK s \in 1..End : s = start
  BY TokenFacts
<1>2. /\ Fresh <= s /\ s <= End /\ Blank(Fresh, s - 1) /\ Reading /\ s \in Nat /\ s <= it.pos
  BY <1>1, TokenFacts
<1>3. /\ text \in Seq(Char) /\ level # "error" /\ it.pos \in Nat /\ End \in Nat
      /\ it.pos \in 1..(End + 1)
  BY <1>2, ReadingFacts
<1>4. PICK p : p = it.pos
  OBVIOUS
<1>5. ReadLiteral(s, p)
  BY <1>1, <1>4 DEF TInv, LexemeInv
<1>6. p <= End
  BY <1>5 DEF ReadLiteral
<1>7. p \in 1..End /\ p \in Nat
  BY <1>3, <1>4, <1>6
<1> DEFINE here == Forward(text, it)
<1>8. Exact(text, here) /\ here.pos = p + 1
  BY <1>4, LiteralFacts
<1>9. HasMore(text, here) <=> p + 1 <= End
  BY <1>8 DEF HasMore, End
<1>10. p + 1 <= End => At(text, here) = text[p + 1]
  BY <1>8, <1>9 DEF At
<1>11. QuoteEscaped(here) <=> text[p] = "backslash" /\ text[p - 1] # "backslash"
  <2>1. here.pos - 1 = p /\ here.pos - 2 = p - 1
    BY <1>7, <1>8
  <2> QED
    BY <2>1 DEF QuoteEscaped
<1>12. Forward(text, here).pos = IF p + 1 <= End THEN p + 2 ELSE p + 1
  <2>1. Forward(text, here).pos = IF here.pos <= Len(text) THEN here.pos + 1 ELSE here.pos
    BY <1>3, <1>8, PlaceFacts, ForwardExact
  <2>2. here.pos + 1 = p + 2
    BY <1>7, <1>8
  <2> QED
    BY <1>8, <2>1, <2>2 DEF End
<1> QED
  BY <1>1, <1>2, <1>3, <1>4, <1>5, <1>6, <1>7, <1>8, <1>9, <1>10, <1>11, <1>12

LEMMA LiteralTiled == ASSUME IInv, TInv, Literal PROVE TInv'
<1> DEFINE here == Forward(text, it)
           ch == At(text, here)
<1>1. /\ mode = "literal" /\ HasMore(text, here) /\ ch # NL
      /\ ch = Quote(text[start]) => QuoteEscaped(here)
      /\ it' = here /\ mode' = "literal"
      /\ UNCHANGED <<text, tokens, spans, level, start>>
  BY DEF Literal, Goto
<1>2. PICK s \in 1..End, p \in 1..End :
        /\ s = start /\ p = it.pos /\ ReadLiteral(s, p)
        /\ text \in Seq(Char) /\ End \in Nat /\ level # "error" /\ Reading
        /\ Fresh <= s /\ s <= End /\ Blank(Fresh, s - 1)
        /\ here.pos = p + 1
        /\ HasMore(text, here) <=> p + 1 <= End
        /\ p + 1 <= End => ch = text[p + 1]
        /\ QuoteEscaped(here) <=> text[p] = "backslash" /\ text[p - 1] # "backslash"
  BY <1>1, LiteralLooks
<1> HIDE DEF here, ch
<1>3. PICK q : q = p + 1
  OBVIOUS
<1>4. ReadLiteral(s, q)
  BY <1>1, <1>2, <1>3, LiteralGoes
<1>5. ReadLiteral(s, q)'
  BY <1>1, <1>4, SameReads
<1>6. it'.pos = q /\ start' = s
  BY <1>1, <1>2, <1>3
<1>7. LexemeInv'
  BY <1>1, <1>5, <1>6 DEF LexemeInv
<1> QED
  BY <1>1, <1>2, <1>6, <1>7, LexemeOn

LEMMA EndLiteralTiled == ASSUME IInv, TInv, EndLiteral PROVE TInv'
<1> DEFINE here == Forward(text, it)
           r == Escaped(buf, Quote(text[start]))
           end == Forward(text, here)
           tok == createToken(LiteralType[text[start]], r.value, end)
           lv == IF r.warned THEN "warning" ELSE level
<1>1. /\ mode = "literal"
      /\ HasMore(text, here) => At(text, here) = Quote(text[start]) /\ ~QuoteEscaped(here)
      /\ \/ Deliver(tok, start, end, lv) /\ text' = text
         \/ Undefined
  BY DEF EndLiteral, CloseLiteral, Twice
<1>2. tok.type = LiteralType[text[start]]
  BY DEF createToken
<1> HIDE DEF tok
<1>3. PICK s \in 1..End, p \in 1..End :
        /\ s = start /\ p = it.pos /\ ReadLiteral(s, p)
        /\ text \in Seq(Char) /\ End \in Nat /\ level # "error" /\ Reading
        /\ Fresh <= s /\ s <= End /\ Blank(Fresh, s - 1) /\ s <= p /\ p <= End
        /\ s \in Nat /\ p \in Nat
        /\ HasMore(text, here) <=> p + 1 <= End
        /\ p + 1 <= End => At(text, here) = text[p + 1]
        /\ QuoteEscaped(here) <=> text[p] = "backslash" /\ text[p - 1] # "backslash"
        /\ end.pos = IF p + 1 <= End THEN p + 2 ELSE p + 1
  BY <1>1, LiteralLooks
<1>4. lv # "error"
  BY <1>3
<1>5. CASE Undefined
  BY <1>5, GivenUp
<1>6. tok.type # "EOF"
  <2>1. text[s] \in DOMAIN LiteralType
    BY <1>3, OpenFacts DEF ReadLiteral
  <2> QED
    BY <1>2, <1>3, <2>1, QuoteFacts DEF Literals
<1> HIDE DEF here, end, lv
<1>7. PICK q \in Nat : q = end.pos
  BY <1>3
<1>8. PICK h : h = q - 1
  OBVIOUS
<1>9. \/ Lexeme(tok.type, s, h) /\ Longest(s, h)
      \/ EndsElsewhere(s, h)
  <2>1. CASE p + 1 <= End
    <3>1. h = p + 1
      BY <1>3, <1>7, <1>8, <2>1
    <3>2. text[h] = Quote(text[s]) /\ ~(text[p] = "backslash" /\ text[p - 1] # "backslash")
      BY <1>1, <1>3, <2>1, <3>1
    <3> QED
      BY <1>2, <1>3, <2>1, <3>1, <3>2, LiteralEnds
  <2>2. CASE ~(p + 1 <= End)
    <3>1. h = End /\ p = End
      BY <1>3, <1>7, <1>8, <2>2
    <3>2. ReadLiteral(s, End)
      BY <1>3, <3>1
    <3>3. EndsElsewhere(s, End)
      BY <1>3, <3>2, LiteralCut
    <3> QED
      BY <1>2, <1>3, <3>1, <3>3
  <2> QED
    BY <2>1, <2>2
<1>10. Tiles(tok.type, <<s, q - 1>>, Fresh)
  BY <1>2, <1>3, <1>6, <1>8, <1>9, LexemeTile
<1>11. s <= q
  BY <1>3, <1>7
<1> QED
  BY <1>1, <1>3, <1>4, <1>5, <1>7, <1>10, <1>11, TokenGiven

-----------------------------------------------------------------------------
(* The steps in a number.                                                  *)

LEMMA BeginNumberTiled == ASSUME IInv, TInv, BeginNumber PROVE TInv'
<1> DEFINE prefixed == Here = "0" /\ There \in DOMAIN PrefixOf
<1>1. /\ mode = "next" /\ NumberHere /\ mode' = "number" /\ start' = it.pos
      /\ it' = (IF prefixed THEN Twice(text, it) ELSE it)
      /\ number' = [base |-> IF prefixed THEN PrefixOf[There] ELSE "dec",
                    float |-> Here = ".", left |-> {}]
      /\ UNCHANGED <<text, tokens, spans, level>>
  BY DEF BeginNumber, Begin, Goto
<1>2. Here # NUL
  BY <1>1, DigitFacts DEF NumberHere, isCharAlnum, NUL
<1>3. PICK s \in 1..End : s = it.pos
  BY <1>1, <1>2, BeginFacts
<1>4. /\ Fresh <= s /\ s <= End /\ Blank(Fresh, s - 1) /\ NumberAt(s) /\ s \in Nat
      /\ Here = Get(s) /\ There = Get(s + 1)
  BY <1>1, <1>2, <1>3, BeginFacts
<1>5. Reading
  BY <1>1, NextFacts
<1>6. /\ level # "error" /\ text \in Seq(Char) /\ End \in Nat
      /\ s + 1 <= End => Twice(text, it).pos = s + 2
  BY <1>3, <1>4, <1>5, ReadingFacts
<1>7. prefixed <=> PrefixAt(s)
  BY <1>4 DEF PrefixAt
<1> HIDE DEF prefixed
<1>8. /\ number'.base = (IF PrefixAt(s) THEN PrefixOf[Get(s + 1)] ELSE "dec")
      /\ number'.float = (Get(s) = ".")
      /\ DOMAIN number' = {"base", "float", "left"}
  BY <1>1, <1>4, <1>7
<1>9. PICK n : n = number'
  OBVIOUS
<1>10. it'.pos = First(s)
  <2>1. CASE PrefixAt(s)
    <3>1. Get(s + 1) \in {"x", "o", "b"} /\ First(s) = s + 2
      BY <1>4, <2>1, BaseFacts
    <3>2. s + 1 > End => Get(s + 1) = NUL
      BY <1>4, <1>6, TextFacts
    <3>3. s + 1 <= End
      BY <1>4, <1>6, <3>1, <3>2 DEF NUL
    <3> QED
      BY <1>1, <1>6, <1>7, <2>1, <3>1, <3>3
  <2>2. CASE ~PrefixAt(s)
    BY <1>1, <1>3, <1>4, <1>7, <2>2, NumeralFacts
  <2> QED
    BY <2>1, <2>2
<1>11. PICK p : p = First(s)
  OBVIOUS
<1>12. TakenUnseen(s) \/ ReadNumber(s, p, n)
  BY <1>4, <1>6, <1>8, <1>9, <1>11, NumberBegins
<1>13. (TakenUnseen(s)' \/ ReadNumber(s, p, n)') /\ NumberAt(s)'
  BY <1>1, <1>4, <1>12, SameReads
<1>14. LexemeInv'
  BY <1>1, <1>3, <1>8, <1>9, <1>10, <1>11, <1>13 DEF LexemeInv
<1> QED
  BY <1>1, <1>3, <1>4, <1>5, <1>6, <1>14, LexemeOn

LEMMA BaseDigits ==
  ASSUME NEW s \in Nat, NEW base,
         base = (IF PrefixAt(s) THEN PrefixOf[Get(s + 1)] ELSE "dec")
  PROVE  DigitsOf[base] = Numerals(s)
BY BaseFacts, NumeralFacts

LEMMA NumberTiled == ASSUME IInv, TInv, Number PROVE TInv'
<1> DEFINE end == Forward(text, it)
           ch == At(text, end)
           float == number.float \/ ch = "."
<1>1. /\ mode = "number" /\ it' = end
      /\ UNCHANGED <<text, tokens, spans, level, start>>
      /\ \/ /\ ch \in DigitsOf[number.base] \cup {"."} /\ mode' = "number"
            /\ number' = [number EXCEPT !.float = float]
         \/ /\ ch \notin DigitsOf[number.base] \cup {"."} /\ mode' = "suffix"
            /\ token'.type = (IF float THEN "float" ELSE "integer") /\ buf' = <<>>
            /\ number' = [number EXCEPT !.left = IF float THEN FloatSuffix ELSE IntSuffix]
  BY DEF Number, Goto, createToken
<1>2. PICK s \in 1..End : s = start
  BY <1>1, TokenFacts
<1>3. /\ Fresh <= s /\ s <= End /\ Blank(Fresh, s - 1) /\ Reading /\ s \in Nat
  BY <1>1, <1>2, TokenFacts
<1>4. /\ text \in Seq(Char) /\ level # "error" /\ it.pos \in Nat /\ it.pos \in 1..(End + 1)
      /\ There = Get(it.pos + 1)
      /\ it.pos <= End => end.pos = it.pos + 1
  BY <1>3, ReadingFacts
<1>5. There = ch
  BY DEF There
<1>6. PICK p \in Nat : p = it.pos
  BY <1>4
<1>7. PICK n : n = number
  OBVIOUS
<1>8. /\ NumberAt(s) /\ DOMAIN n = {"base", "float", "left"}
      /\ TakenUnseen(s) \/ ReadNumber(s, p, n)
  BY <1>1, <1>2, <1>6, <1>7 DEF TInv, LexemeInv
<1> HIDE DEF end, ch
<1>9. DOMAIN number' = {"base", "float", "left"} /\ number'.base = n.base
  BY <1>1, <1>7, <1>8
<1>10. mode' = "suffix" => token'.type \in {"integer", "float"}
  BY <1>1
<1>11. NumberAt(s)'
  BY <1>1, <1>8, SameReads
<1>12. CASE TakenUnseen(s)
  <2>1. TakenUnseen(s)'
    BY <1>1, <1>12, SameReads
  <2>2. LexemeInv'
    BY <1>1, <1>2, <1>9, <1>10, <1>11, <2>1 DEF LexemeInv
  <2> QED
    BY <1>1, <1>2, <1>3, <1>4, <2>2, LexemeOn
<1>13. CASE ReadNumber(s, p, n)
  <2>1. p <= End /\ n.base = (IF PrefixAt(s) THEN PrefixOf[Get(s + 1)] ELSE "dec")
    BY <1>13 DEF ReadNumber
  <2>2. p \in 1..End
    BY <1>4, <1>6, <2>1
  <2>3. DigitsOf[n.base] = Numerals(s)
    BY <1>3, <2>1, BaseDigits
  <2>4. PICK q : q = p + 1
    OBVIOUS
  <2>5. it'.pos = q /\ ch = Get(q)
    BY <1>1, <1>4, <1>5, <1>6, <2>1, <2>4
  <2>6. PICK m : m = number'
    OBVIOUS
  <2>7. CASE ch \in DigitsOf[number.base] \cup {"."}
    <3>1. mode' = "number" /\ m.float = (n.float \/ Get(p + 1) = ".") /\ m.base = n.base
      BY <1>1, <1>7, <1>8, <1>9, <2>4, <2>5, <2>6, <2>7
    <3>2. Get(p + 1) \in Numerals(s) \cup {"."}
      BY <1>7, <2>3, <2>4, <2>5, <2>7
    <3>3. ReadNumber(s, q, m)
      BY <1>4, <1>13, <2>2, <2>4, <3>1, <3>2, NumberGoes
    <3>4. ReadNumber(s, q, m)'
      BY <1>1, <3>3, SameReads
    <3>5. LexemeInv'
      BY <1>1, <1>2, <1>9, <1>11, <2>5, <2>6, <3>1, <3>4 DEF LexemeInv
    <3> QED
      BY <1>1, <1>2, <1>3, <1>4, <3>5, LexemeOn
  <2>8. CASE ch \notin DigitsOf[number.base] \cup {"."}
    <3>1. Get(q) \notin Numerals(s) \cup {"."}
      BY <1>7, <2>3, <2>5, <2>8
    <3>2. /\ mode' = "suffix" /\ buf' = <<>>
          /\ number' = [number EXCEPT !.left = IF float THEN FloatSuffix ELSE IntSuffix]
          /\ token'.type = (IF float THEN "float" ELSE "integer")
      BY <1>1, <2>8
    <3>3. float <=> n.float
      <4>1. ch # "."
        BY <2>8
      <4> QED
        BY <1>7, <4>1
    <3> HIDE DEF float
    <3>4. m.left = (IF n.float THEN FloatSuffix ELSE IntSuffix) /\ m.base = n.base
      BY <1>7, <1>8, <1>9, <2>6, <3>2, <3>3
    <3>5. PICK t : t = token'
      OBVIOUS
    <3>6. t.type = (IF n.float THEN "float" ELSE "integer")
      BY <3>2, <3>3, <3>5
    <3>7. PICK e : e = <<>>
      OBVIOUS
    <3>8. ReadSuffix(s, q, e, m, t)
      BY <1>4, <1>13, <2>2, <2>4, <3>1, <3>4, <3>6, <3>7, SuffixBegins
    <3>9. ReadSuffix(s, q, e, m, t)'
      BY <1>1, <3>8, SameReads
    <3>10. LexemeInv'
      BY <1>1, <1>2, <1>9, <1>10, <1>11, <2>5, <2>6, <3>2, <3>5, <3>7, <3>9 DEF LexemeInv
    <3> QED
      BY <1>1, <1>2, <1>3, <1>4, <3>2, <3>10, LexemeOn
  <2> QED
    BY <2>7, <2>8
<1> QED
  BY <1>8, <1>12, <1>13

(* What the suffix loop looks at.                                          *)
LEMMA SuffixLooks ==
  ASSUME IInv, TInv, mode = "suffix"
  PROVE  \E s \in 1..End : \E p \in 1..(End + 1) :
           /\ s = start /\ p = it.pos /\ s \in Nat /\ p \in Nat /\ s <= p
           /\ text \in Seq(Char) /\ End \in Nat /\ level # "error" /\ Reading
           /\ Fresh <= s /\ s <= End /\ Blank(Fresh, s - 1)
           /\ cur = Get(p)
           /\ cur \in isCharAlnum => p \in 1..End /\ cur = text[p] /\ Forward(text, it).pos = p + 1
           /\ buf \in Seq(Char \cup {NUL}) /\ Len(buf) \in Nat
           /\ buf # <<>> => Len(buf) > 0
           /\ NumberAt(s) /\ DOMAIN number = {"base", "float", "left"}
           /\ "type" \in DOMAIN token /\ token.type \in {"integer", "float"}
           /\ TakenUnseen(s) \/ ReadSuffix(s, p, buf, number, token)
<1>1. PICK s \in 1..End : s = start
  BY TokenFacts
<1>2. /\ Fresh <= s /\ s <= End /\ Blank(Fresh, s - 1) /\ Reading /\ s \in Nat /\ s <= it.pos
  BY <1>1, TokenFacts
<1>3. /\ text \in Seq(Char) /\ level # "error" /\ End \in Nat /\ Here = Get(it.pos)
      /\ it.pos \in 1..(End + 1) /\ it.pos \in Nat
      /\ Here # NUL <=> it.pos <= End
      /\ it.pos <= End => /\ it.pos \in 1..End /\ Here = text[it.pos]
                          /\ Forward(text, it).pos = it.pos + 1
  BY <1>2, ReadingFacts
<1>4. PICK p \in 1..(End + 1) : p = it.pos
  BY <1>3
<1>5. SuffixInv(text, it, start, cur, token)
  BY DEF IInv, LoopInv
<1>6. cur = Here /\ "type" \in DOMAIN token
  BY <1>5 DEF SuffixInv, Here
<1>7. cur \in isCharAlnum => cur # NUL
  BY DigitFacts
<1>8. buf \in Seq(Char \cup {NUL})
  BY DEF IInv, DataInv
<1>9. Len(buf) \in Nat /\ (buf # <<>> => Len(buf) > 0)
  BY <1>8, SeqIsSeq, SeqFacts
<1>10. /\ NumberAt(s) /\ DOMAIN number = {"base", "float", "left"}
       /\ token.type \in {"integer", "float"}
       /\ TakenUnseen(s) \/ ReadSuffix(s, p, buf, number, token)
  BY <1>1, <1>4 DEF TInv, LexemeInv
<1> QED
  BY <1>1, <1>2, <1>3, <1>4, <1>6, <1>7, <1>8, <1>9, <1>10

LEMMA SuffixTiled == ASSUME IInv, TInv, Suffix PROVE TInv'
<1> DEFINE longer == Append(buf, cur)
           known == longer \in number.left
<1>1. /\ mode = "suffix" /\ cur \in isCharAlnum /\ it' = Forward(text, it) /\ mode' = "suffix"
      /\ buf' = (IF known THEN <<>> ELSE longer)
      /\ number' = [number EXCEPT !.left = @ \ {longer}]
      /\ token' = [token EXCEPT !.suffix = @ \cup (IF known THEN {longer} ELSE {})]
      /\ UNCHANGED <<text, tokens, spans, level, start>>
  BY DEF Suffix, Goto
<1>2. PICK s \in 1..End, p \in 1..(End + 1) :
           /\ s = start /\ p = it.pos /\ s \in Nat /\ p \in Nat
           /\ text \in Seq(Char) /\ End \in Nat /\ level # "error" /\ Reading
           /\ Fresh <= s /\ s <= End /\ Blank(Fresh, s - 1)
           /\ p \in 1..End /\ cur = text[p] /\ Forward(text, it).pos = p + 1
           /\ buf \in Seq(Char \cup {NUL}) /\ Len(buf) \in Nat
           /\ NumberAt(s) /\ DOMAIN number = {"base", "float", "left"}
           /\ "type" \in DOMAIN token /\ token.type \in {"integer", "float"}
           /\ TakenUnseen(s) \/ ReadSuffix(s, p, buf, number, token)
  BY <1>1, SuffixLooks
<1>3. PICK b : b = buf
  OBVIOUS
<1>4. PICK n : n = number
  OBVIOUS
<1>5. PICK c : c = Append(b, text[p])
  OBVIOUS
<1>6. longer = c
  BY <1>2, <1>3, <1>5
<1>7. cur \in Char \cup {NUL}
  BY <1>1, CharFacts
<1>8. Len(c) = Len(b) + 1
  BY <1>2, <1>3, <1>6, <1>7, AppendProperties
<1> HIDE DEF longer
<1>9. /\ DOMAIN number' = {"base", "float", "left"} /\ number'.base = n.base
      /\ number'.left = n.left \ {c}
  BY <1>1, <1>2, <1>4, <1>6
<1>10. token'.type = token.type
  BY <1>1, <1>2
<1>11. NumberAt(s)'
  BY <1>1, <1>2, SameReads
<1>12. PICK m : m = number'
  OBVIOUS
<1>13. PICK t : t = token'
  OBVIOUS
<1>14. PICK tok : tok = token
  OBVIOUS
<1>15. PICK h : h = p + 1
  OBVIOUS
<1>16. PICK e : e = buf'
  OBVIOUS
<1>17. TakenUnseen(s) \/ ReadSuffix(s, h, e, m, t)
  <2>1. SUFFICES ASSUME ~TakenUnseen(s) PROVE ReadSuffix(s, h, e, m, t)
    OBVIOUS
  <2>2. PICK q \in (First(s) + 1)..p : SuffixFrom(q, s, p, b, n, tok)
    BY <1>2, <1>3, <1>4, <1>14, <2>1 DEF ReadSuffix
  <2>3. CASE c \in n.left
    <3>1. e = <<>>
      BY <1>1, <1>4, <1>6, <1>16, <2>3
    <3>2. SuffixFrom(q, s, h, <<>>, m, t)
      BY <1>1, <1>2, <1>3, <1>5, <1>9, <1>10, <1>12, <1>13, <1>14, <1>15, <2>2, <2>3, SuffixWhole
    <3>3. q \in (First(s) + 1)..h
      BY <1>2, <1>15, <2>2
    <3> QED
      BY <3>1, <3>2, <3>3 DEF ReadSuffix
  <2>4. CASE c \notin n.left
    <3>1. e = c /\ m.left = n.left
      BY <1>1, <1>4, <1>6, <1>9, <1>12, <1>16, <2>4
    <3>2. SuffixFrom(q, s, h, c, m, t)
      BY <1>1, <1>2, <1>3, <1>5, <1>8, <1>9, <1>10, <1>12, <1>13, <1>14, <1>15, <2>2, <2>4, <3>1,
         SuffixPart
    <3>3. q \in (First(s) + 1)..h
      BY <1>2, <1>15, <2>2
    <3> QED
      BY <3>1, <3>2, <3>3 DEF ReadSuffix
  <2> QED
    BY <2>3, <2>4
<1>18. TakenUnseen(s)' \/ ReadSuffix(s, h, e, m, t)'
  BY <1>1, <1>17, SameReads
<1>19. it'.pos = h /\ start' = s
  BY <1>1, <1>2, <1>15
<1>20. LexemeInv'
  BY <1>1, <1>2, <1>9, <1>10, <1>11, <1>12, <1>13, <1>16, <1>18, <1>19 DEF LexemeInv
<1> QED
  BY <1>1, <1>2, <1>19, <1>20, LexemeOn

LEMMA EndNumberTiled == ASSUME IInv, TInv, EndNumber PROVE TInv'
<1> DEFINE wrong == buf # <<>> \/ (token.type = "float" /\ number.base # "dec")
<1>1. /\ mode = "suffix" /\ cur \notin isCharAlnum
      /\ \/ wrong /\ Deliver(token, start, it, "error") /\ text' = text /\ start' = start
         \/ Undefined
         \/ ~wrong /\ Deliver(token, start, it, level) /\ text' = text /\ start' = start
  BY DEF EndNumber, WrongNumber
<1>2. PICK s \in 1..End, p \in 1..(End + 1) :
           /\ s = start /\ p = it.pos /\ s \in Nat /\ p \in Nat /\ s <= p
           /\ text \in Seq(Char) /\ End \in Nat /\ level # "error" /\ Reading
           /\ Fresh <= s /\ s <= End /\ Blank(Fresh, s - 1)
           /\ cur = Get(p)
           /\ Len(buf) \in Nat
           /\ buf # <<>> => Len(buf) > 0
           /\ NumberAt(s) /\ token.type \in {"integer", "float"}
           /\ TakenUnseen(s) \/ ReadSuffix(s, p, buf, number, token)
  BY <1>1, SuffixLooks
<1>3. PICK h : h = p - 1
  OBVIOUS
<1>4. \/ TakenUnseen(s)
      \/ IF wrong THEN \/ \A type \in TokenType : \A k \in s..End : ~Lexeme(type, s, k)
                       \/ \E k \in s..End : IsByte(s, k)
         ELSE Lexeme(token.type, s, h) /\ Longest(s, h)
  BY <1>1, <1>2, <1>3, SuffixEnds
<1> HIDE DEF wrong
<1>5. CASE Undefined
  BY <1>5, GivenUp
<1>6. CASE wrong /\ Deliver(token, start, it, "error") /\ text' = text /\ start' = start
  BY <1>2, <1>4, <1>6, TextRefused
<1>7. CASE ~wrong /\ Deliver(token, start, it, level) /\ text' = text /\ start' = start
  <2>1. token.type # "EOF"
    BY <1>2
  <2>2. Tiles(token.type, <<s, p - 1>>, Fresh)
    BY <1>2, <1>3, <1>4, <1>7, <2>1, LexemeTile
  <2> QED
    BY <1>2, <1>7, <2>2, TokenGiven
<1> QED
  BY <1>1, <1>5, <1>6, <1>7

-----------------------------------------------------------------------------
(* All of the steps.                                                       *)

LEMMA FinishTiled == ASSUME IInv, TInv, Finish PROVE TInv'
<1>1. /\ mode = "finish" /\ mode' = (IF tokens = <<>> THEN "undefined" ELSE "done")
      /\ level' = (IF tokens = <<>> THEN "error"
                   ELSE IF tokens[Len(tokens)].type # "EOF" THEN "error" ELSE level)
      /\ text' = text /\ start' = start /\ UNCHANGED <<tokens, spans>>
  BY DEF Finish
<1>2. TiledInv'
  <2>1. \A k \in 1..Len(tokens) : Tile(k)'
    BY <1>1, StillTiled DEF TInv, TiledInv
  <2> QED
    BY <1>1, <2>1 DEF TiledInv
<1>3. Fresh' \in Nat
  BY <1>1, StillTiled DEF TInv, BetweenInv
<1>4. mode' \in {"undefined", "done"}
  BY <1>1
<1>5. BetweenInv' /\ LexemeInv'
  BY <1>3, <1>4 DEF BetweenInv, LexemeInv
<1>6. EndInv'
  <2>1. level = "error" => Refused'
    BY <1>1, RefusedStill DEF TInv, EndInv
  <2>2. level # "error" => tokens # <<>> /\ tokens[Len(tokens)].type = "EOF"
    BY <1>1 DEF TInv, EndInv
  <2>3. \A k \in 1..Len(tokens) : tokens[k].type = "EOF" => k = Len(tokens)
    BY DEF TInv, EndInv
  <2>4. CASE tokens = <<>>
    <3>1. mode' = "undefined" /\ Refused'
      BY <1>1, <2>1, <2>2, <2>4
    <3> QED
      BY <1>1, <2>3, <3>1 DEF EndInv, Reading
  <2>5. CASE tokens # <<>> /\ level = "error"
    <3>1. level' = "error" /\ mode' = "done"
      BY <1>1, <2>5
    <3> QED
      BY <1>1, <2>1, <2>3, <2>5, <3>1 DEF EndInv, Reading
  <2>6. CASE tokens # <<>> /\ level # "error"
    <3>1. level' = level /\ mode' = "done"
      BY <1>1, <2>2, <2>6
    <3> QED
      BY <1>1, <2>2, <2>3, <2>6, <3>1 DEF EndInv, Reading
  <2> QED
    BY <2>4, <2>5, <2>6
<1> QED
  BY <1>2, <1>5, <1>6 DEF TInv

LEMMA UnchangedTiled == ASSUME TInv, UNCHANGED vars PROVE TInv'
<1>1. /\ text' = text /\ it' = it /\ mode' = mode /\ start' = start /\ depth' = depth
      /\ buf' = buf /\ number' = number /\ token' = token /\ level' = level
      /\ tokens' = tokens /\ spans' = spans
  BY DEF vars
<1>2. TiledInv'
  <2>1. \A k \in 1..Len(tokens) : Tile(k)'
    BY <1>1, StillTiled DEF TInv, TiledInv
  <2> QED
    BY <1>1, <2>1 DEF TiledInv
<1>3. PICK f : f = Fresh
  OBVIOUS
<1>4. PICK p : p = it.pos
  OBVIOUS
<1>5. PICK q : q = p - 1
  OBVIOUS
<1>6. PICK s : s = start
  OBVIOUS
<1>7. PICK r : r = s - 1
  OBVIOUS
<1>8. PICK d : d = depth
  OBVIOUS
<1>9. Fresh' = f /\ End' = End
  BY <1>1, <1>3, StillTiled, SamePlaces
<1>10. BetweenInv'
  <2>1. /\ f \in Nat
        /\ mode = "next" => \/ f <= p /\ Blank(f, q)
                            \/ p = End + 1 /\ BlankToEnd(f)
        /\ mode = "line comment" => LineCommentInv(p)
        /\ mode = "comment" => CommentInv(p, d)
        /\ mode \in {"word", "number", "suffix", "literal", "operator"} =>
             f <= s /\ s <= End /\ Blank(f, r)
    BY <1>3, <1>4, <1>5, <1>6, <1>7, <1>8 DEF TInv, BetweenInv
  <2>2. /\ Blank(f, q)' <=> Blank(f, q)
        /\ Blank(f, r)' <=> Blank(f, r)
        /\ BlankToEnd(f)' <=> BlankToEnd(f)
    BY <1>1, SameBlank
  <2>3. /\ LineCommentInv(p)' <=> LineCommentInv(p)
        /\ CommentInv(p, d)' <=> CommentInv(p, d)
    BY <1>1, SameComments
  <2>4. it'.pos = p /\ it'.pos - 1 = q /\ start' = s /\ start' - 1 = r /\ depth' = d
    BY <1>1, <1>4, <1>5, <1>6, <1>7, <1>8
  <2> QED
    BY <1>1, <1>9, <2>1, <2>2, <2>3, <2>4 DEF BetweenInv
<1>11. EndInv'
  <2>1. Refused => Refused'
    BY <1>1, RefusedStill
  <2> QED
    BY <1>1, <2>1 DEF TInv, EndInv, Reading
<1>12. LexemeInv'
  <2>1. PICK b : b = buf
    OBVIOUS
  <2>2. PICK n : n = number
    OBVIOUS
  <2>3. PICK t : t = token
    OBVIOUS
  <2>4. /\ ReadWord(s, p, b)' <=> ReadWord(s, p, b)
        /\ ReadOperator(s, p, b)' <=> ReadOperator(s, p, b)
        /\ ReadNumber(s, p, n)' <=> ReadNumber(s, p, n)
        /\ ReadSuffix(s, p, b, n, t)' <=> ReadSuffix(s, p, b, n, t)
        /\ ReadLiteral(s, p)' <=> ReadLiteral(s, p)
        /\ TakenUnseen(s)' <=> TakenUnseen(s)
        /\ NumberAt(s)' <=> NumberAt(s)
    BY <1>1, SameReads
  <2>5. LexemeInv
    BY DEF TInv
  <2> QED
    BY <1>1, <1>4, <1>6, <2>1, <2>2, <2>3, <2>4, <2>5 DEF LexemeInv
<1> QED
  BY <1>2, <1>10, <1>11, <1>12 DEF TInv

LEMMA InitTiled == ASSUME Init PROVE TInv
<1>1. it = Start /\ Start.pos = 1 /\ mode = "next" /\ tokens = <<>> /\ level = "none"
  BY DEF Init, Start
<1>2. Len(tokens) = 0
  BY <1>1, NothingIsSeq
<1>3. Fresh = 1
  BY <1>2 DEF Fresh, After
<1>4. Blank(1, 1 - 1)
  BY NothingBlank
<1>5. TiledInv
  BY <1>2 DEF TiledInv
<1>6. BetweenInv
  BY <1>1, <1>3, <1>4 DEF BetweenInv
<1>7. EndInv
  BY <1>1, <1>2 DEF EndInv, Reading
<1>8. LexemeInv
  BY <1>1 DEF LexemeInv
<1> QED
  BY <1>5, <1>6, <1>7, <1>8 DEF TInv

LEMMA NextTiled == ASSUME IInv, TInv, [Next]_vars PROVE TInv'
<1>1. CASE BrokenLiteral
  <2>1. Undefined
    BY <1>1 DEF BrokenLiteral
  <2> QED
    BY <2>1, GivenUp
<1>0. CASE BarePrefix
  BY <1>0, GivenUp DEF BarePrefix
<1>2. CASE getNextToken
  BY <1>0, <1>1, <1>2, EndOfTextTiled, SkipWhitespaceTiled, BeginCommentTiled, LineCommentTiled,
     CommentTiled, UnclosedCommentTiled, UnrecognizedTiled, BeginWordTiled, WordTiled,
     EndWordTiled, BeginNumberTiled, NumberTiled, SuffixTiled, EndNumberTiled,
     BeginLiteralTiled, LiteralTiled, EndLiteralTiled, BeginOperatorTiled, OperatorTiled,
     EndOperatorTiled
     DEF getNextToken
<1>3. CASE Finish
  BY <1>3, FinishTiled
<1>4. CASE Over \/ UNCHANGED vars
  BY <1>4, UnchangedTiled DEF Over
<1> QED
  BY <1>2, <1>3, <1>4 DEF Next

(* In every loop, what is behind the cursor is known for what it is: blanks*)
(* and comments, whole or open, or the beginning of one lexeme.            *)
THEOREM ReadSoFar == Spec => [](IInv /\ TInv)
<1>1. Init => IInv /\ TInv
  BY InitInv, InitTiled
<1>2. IInv /\ TInv /\ [Next]_vars => IInv' /\ TInv'
  BY NextInv, NextTiled
<1> QED
  BY <1>1, <1>2, PTL DEF Spec

(* The tokens of every text are its longest lexemes, in order, and between *)
(* them is nothing but blanks and comments, which nest; but for a number   *)
(* whose prefix stands before no digit, and a literal that the end of the  *)
(* text closes or whose quote has three backslashes before it.             *)
THEOREM TokensAreLexemes == Spec => []TokensTile
<1>1. TInv => TokensTile
  BY DEF TInv, TiledInv, EndInv, TokensTile
<1> QED
  BY <1>1, ReadSoFar, PTL

(* A text is refused, at its first token or a later one, only where no     *)
(* lexeme of any length begins, where a prefix is before no digit, or at   *)
(* the guide's binary byte; of one that is not, nothing is left unread.    *)
THEOREM RefusalsHaveCause == Spec => []RefusedForCause
<1>1. TInv => RefusedForCause
  BY DEF TInv, EndInv, Refused, RefusedForCause
<1> QED
  BY <1>1, ReadSoFar, PTL
=============================================================================

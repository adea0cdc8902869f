---------------------------- MODULE ManifestProofs ----------------------------
(***************************************************************************)
(* What the pure part of the quality gate computes, for all inputs: the    *)
(* glob matcher against the meaning of its dialect, the command line       *)
(* against its grammar.  Recursion and folds are reasoned about by         *)
(* induction over sets of naturals.                                        *)
(***************************************************************************)
EXTENDS Manifest, FiniteSetTheorems, WellFoundedInduction, SequenceTheorems, TLAPS

-----------------------------------------------------------------------------
(* Induction and recursion.                                                *)

Smaller == {pair \in Nat \X Nat : pair[1] < pair[2]}

LEMMA SmallerWellFounded == IsWellFoundedOn(Smaller, Nat)
  BY NatLessThanWellFounded DEF OpToRel, Smaller

LEMMA SetInduction ==
    ASSUME NEW S, 0 \in S, \A n \in Nat : n \in S => n + 1 \in S
    PROVE  Nat \subseteq S
<1> SUFFICES ASSUME Nat \ S # {} PROVE FALSE
  OBVIOUS
<1>1. PICK x \in Nat \ S : \A y \in Nat \ S : <<y, x>> \notin Smaller
  BY SmallerWellFounded, WFMin, Nat \ S \subseteq Nat
<1>2. \A y \in Nat \ S : ~(y < x)
  BY <1>1 DEF Smaller
<1>3. x # 0 /\ x - 1 \in Nat
  OBVIOUS
<1>4. x - 1 \in S
  BY <1>2, <1>3
<1> QED
  BY <1>3, <1>4

\* The same up to a bound, from below and from above.
LEMMA UpTo ==
    ASSUME NEW n \in Nat, NEW S, 0 \in S, \A k \in 0..(n - 1) : k \in S => k + 1 \in S
    PROVE  0..n \subseteq S
<1> DEFINE T == {k \in Nat : k <= n => k \in S}
<1>1. 0 \in T /\ \A k \in Nat : k \in T => k + 1 \in T
  OBVIOUS
<1>2. Nat \subseteq T
  <2> HIDE DEF T
  <2> QED
    BY <1>1, SetInduction
<1> QED
  BY <1>2

LEMMA DownFrom ==
    ASSUME NEW n \in Nat, NEW S, n \in S, \A k \in 0..(n - 1) : k + 1 \in S => k \in S
    PROVE  0..n \subseteq S
<1> DEFINE T == {k \in 0..n : n - k \in S}
<1>1. 0 \in T /\ \A k \in 0..(n - 1) : k \in T => k + 1 \in T
  OBVIOUS
<1>2. 0..n \subseteq T
  <2> HIDE DEF T
  <2> QED
    BY <1>1, UpTo
<1>3. ASSUME NEW k \in 0..n PROVE k \in S
  <2>1. n - k \in 0..n /\ n - (n - k) = k
    OBVIOUS
  <2> QED
    BY <1>2, <2>1
<1> QED
  BY <1>3

\* A recursion in which the value at a point depends on those of smaller points only has a
\* solution.
WellFounded(S, V, size, bound, Body) ==
    /\ V # {} /\ bound \in Nat
    /\ size \in [S -> Nat] /\ \A x \in S : size[x] <= bound
    /\ Body \in [[S -> V] -> [S -> V]]
    /\ \A g, h \in [S -> V], x \in S :
          (\A y \in S : size[y] < size[x] => g[y] = h[y]) => Body[g][x] = Body[h][x]

LEMMA Solution ==
    ASSUME NEW S, NEW V, NEW size, NEW bound, NEW Body, WellFounded(S, V, size, bound, Body)
    PROVE  \E g \in [S -> V] : g = Body[g]
<1> USE DEF WellFounded
<1> DEFINE Solves(g, k) == \A x \in S : size[x] < k => g[x] = Body[g][x]
           K == {k \in Nat : \E g \in [S -> V] : Solves(g, k)}
<1>1. 0 \in K
  <2>1. PICK v : v \in V
    OBVIOUS
  <2>2. [x \in S |-> v] \in [S -> V] /\ Solves([x \in S |-> v], 0)
    BY <2>1
  <2> QED
    BY <2>2
<1>2. ASSUME NEW k \in Nat, k \in K PROVE k + 1 \in K
  <2>1. PICK g \in [S -> V] : Solves(g, k)
    BY <1>2
  <2> DEFINE h == Body[g]
  <2>2. h \in [S -> V]
    OBVIOUS
  <2>3. \A x \in S : size[x] < k + 1 => \A y \in S : size[y] < size[x] => g[y] = h[y]
    BY <2>1
  <2>4. \A x \in S : size[x] < k + 1 => Body[g][x] = Body[h][x]
    BY <2>2, <2>3
  <2> QED
    BY <2>2, <2>4
<1>3. bound + 1 \in K
  BY <1>1, <1>2, SetInduction
<1>4. PICK g \in [S -> V] : Solves(g, bound + 1)
  BY <1>3
<1>5. \A x \in S : g[x] = Body[g][x]
  BY <1>4
<1>6. g = Body[g]
  BY <1>5
<1> QED
  BY <1>6

\* Folding a sequence of length n: the equation has a solution, whichever end is taken first.
Foldable(n, V, base, step, first) ==
    /\ n \in Nat /\ base \in V /\ step \in [1..n -> [V -> V]]
    /\ first \in [(SUBSET (1..n)) \ {{}} -> 1..n]
    /\ \A s \in (SUBSET (1..n)) \ {{}} : first[s] \in s

Folds(n, V, base, step, first, iter) ==
    /\ iter \in [SUBSET (1..n) -> V]
    /\ \A s \in SUBSET (1..n) :
          iter[s] = IF s = {} THEN base ELSE step[first[s]][iter[s \ {first[s]}]]

LEMMA FoldSolution ==
    ASSUME NEW n, NEW V, NEW base, NEW step, NEW first, Foldable(n, V, base, step, first)
    PROVE  \E iter : Folds(n, V, base, step, first, iter)
<1> USE DEF Foldable, Folds
<1> DEFINE D == SUBSET (1..n)
           size == [s \in D |-> Cardinality(s)]
           value(g, s) == IF s = {} THEN base ELSE step[first[s]][g[s \ {first[s]}]]
           Body == [g \in [D -> V] |-> [s \in D |-> value(g, s)]]
<1>1. \A s \in D : IsFiniteSet(s) /\ Cardinality(s) \in Nat /\ Cardinality(s) <= n
  <2>1. IsFiniteSet(1..n) /\ Cardinality(1..n) = n
    BY FS_Interval
  <2>2. \A s \in D : IsFiniteSet(s) /\ Cardinality(s) <= Cardinality(1..n)
    BY <2>1, FS_Subset, Zenon
  <2>3. \A s \in D : Cardinality(s) \in Nat
    BY <2>2, FS_CardinalityType, Zenon
  <2> QED
    BY <2>1, <2>2, <2>3
<1>2. ASSUME NEW s \in D, s # {} PROVE Cardinality(s \ {first[s]}) < Cardinality(s)
  <2>1. first[s] \in s /\ IsFiniteSet(s)
    BY <1>1, <1>2
  <2>2. Cardinality(s \ {first[s]}) = Cardinality(s) - 1
    <3>1. Cardinality(s \ {first[s]})
             = IF first[s] \in s THEN Cardinality(s) - 1 ELSE Cardinality(s)
      BY <2>1, FS_RemoveElement
    <3> QED
      BY <2>1, <3>1
  <2> QED
    BY <1>1, <2>2
<1>3. size \in [D -> Nat] /\ \A s \in D : size[s] <= n
  BY <1>1
<1>4. ASSUME NEW g \in [D -> V], NEW s \in D PROVE value(g, s) \in V
  <2>1. CASE s # {}
    <3>1. first[s] \in 1..n /\ s \ {first[s]} \in D
      BY <2>1
    <3>2. g[s \ {first[s]}] \in V /\ step[first[s]] \in [V -> V]
      BY <3>1
    <3> QED
      BY <2>1, <3>2
  <2> QED
    BY <2>1
<1>5. Body \in [[D -> V] -> [D -> V]]
  BY <1>4
<1>6. ASSUME NEW g \in [D -> V], NEW h \in [D -> V], NEW s \in D,
             \A t \in D : size[t] < size[s] => g[t] = h[t]
      PROVE  Body[g][s] = Body[h][s]
  <2>1. CASE s # {}
    <3>1. s \ {first[s]} \in D /\ size[s \ {first[s]}] < size[s]
      BY <1>2, <2>1
    <3>2. g[s \ {first[s]}] = h[s \ {first[s]}]
      BY <1>6, <3>1
    <3> QED
      BY <2>1, <3>2
  <2> QED
    BY <2>1
<1>7. PICK g \in [D -> V] : g = Body[g]
  <2>1. WellFounded(D, V, size, n, Body)
    <3> HIDE DEF D, size, Body, value
    <3> QED
      BY <1>3, <1>5, <1>6 DEF WellFounded
  <2> HIDE DEF D, size, Body, value
  <2> QED
    BY <2>1, Solution
<1>8. \A s \in D : g[s] = value(g, s)
  <2>1. g = [s \in D |-> value(g, s)]
    BY <1>7
  <2> HIDE DEF D, Body, value
  <2> QED
    BY <2>1
<1> QED
  BY <1>8

-----------------------------------------------------------------------------
(* The matcher's rows: each is the solution of its recursive equation.     *)

Bits(n) == [0..n -> BOOLEAN]

TakenEquation(path, next, taken) ==
    taken = [i \in 0..Len(path) |->
               i < Len(path) /\ ((path[i + 1] = "/" /\ next[i + 1]) \/ taken[i + 1])]

LEMMA TakenChosen ==
    ASSUME NEW path, NEW next
    PROVE  Taken(path, next) = CHOOSE taken : TakenEquation(path, next, taken)
  BY DEF Taken, TakenEquation

RowEquation(token, path, next, cur) ==
    cur = [i \in 0..Len(path) |->
            \/ token.kind # "lit" /\ next[i]
            \/ token.kind = "globslash" /\ Taken(path, next)[i]
            \/ /\ i < Len(path)
               /\ \/ token.kind = "lit" /\ path[i + 1] = token.ch /\ next[i + 1]
                  \/ token.kind = "star" /\ path[i + 1] # "/" /\ cur[i + 1]
                  \/ token.kind = "globstar" /\ cur[i + 1]]

LEMMA RowChosen ==
    ASSUME NEW token, NEW path, NEW next
    PROVE  Row(token, path, next) = CHOOSE cur : RowEquation(token, path, next, cur)
  BY DEF Row, RowEquation

\* A recursion from the right over 0..n has a solution.
LEMMA RowSolution ==
    ASSUME NEW n \in Nat, NEW Body \in [Bits(n) -> Bits(n)],
           \A g, h \in Bits(n), i \in 0..n :
              (i < n => g[i + 1] = h[i + 1]) => Body[g][i] = Body[h][i]
    PROVE  \E g \in Bits(n) : g = Body[g]
<1> DEFINE S == 0..n
           size == [i \in S |-> n - i]
<1>1. size \in [S -> Nat] /\ \A i \in S : size[i] <= n
  OBVIOUS
<1>2. ASSUME NEW g \in [S -> BOOLEAN], NEW h \in [S -> BOOLEAN], NEW i \in S,
             \A j \in S : size[j] < size[i] => g[j] = h[j]
      PROVE  Body[g][i] = Body[h][i]
  <2>1. i < n => i + 1 \in S /\ size[i + 1] < size[i]
    OBVIOUS
  <2> HIDE DEF size
  <2>2. i < n => g[i + 1] = h[i + 1]
    BY <1>2, <2>1
  <2>3. g \in Bits(n) /\ h \in Bits(n)
    BY DEF Bits
  <2> HIDE DEF S
  <2> QED
    BY <2>2, <2>3 DEF S
<1>3. WellFounded(S, BOOLEAN, size, n, Body)
  <2>1. Body \in [[S -> BOOLEAN] -> [S -> BOOLEAN]]
    BY DEF Bits
  <2> HIDE DEF S, size
  <2> QED
    BY <1>1, <1>2, <2>1 DEF WellFounded
<1>4. \E g \in [S -> BOOLEAN] : g = Body[g]
  <2> HIDE DEF S, size
  <2> QED
    BY <1>3, Solution
<1> QED
  BY <1>4 DEF Bits

LEMMA TakenSolved ==
    ASSUME NEW Chars, NEW path \in Seq(Chars), NEW next \in Bits(Len(path))
    PROVE  TakenEquation(path, next, Taken(path, next))
<1> DEFINE n == Len(path)
           value(g, i) == i < n /\ ((path[i + 1] = "/" /\ next[i + 1]) \/ g[i + 1])
           Body == [g \in Bits(n) |-> [i \in 0..n |-> value(g, i)]]
<1>1. n \in Nat
  OBVIOUS
<1>2. \A g : [i \in 0..n |-> value(g, i)] \in Bits(n)
  BY DEF Bits
<1>3. \A g, h \in Bits(n), i \in 0..n :
         (i < n => g[i + 1] = h[i + 1]) => Body[g][i] = Body[h][i]
  OBVIOUS
<1>4. PICK g \in Bits(n) : g = Body[g]
  <2>1. Body \in [Bits(n) -> Bits(n)]
    BY <1>2
  <2> HIDE DEF n, Body
  <2> QED
    BY <1>1, <1>3, <2>1, RowSolution
<1>5. TakenEquation(path, next, g)
  BY <1>4 DEF TakenEquation
<1> QED
  BY <1>5, TakenChosen

LEMMA RowSolved ==
    ASSUME NEW Chars, NEW path \in Seq(Chars), NEW next \in Bits(Len(path)), NEW token
    PROVE  RowEquation(token, path, next, Row(token, path, next))
<1> DEFINE n == Len(path)
           value(g, i) ==
            \/ token.kind # "lit" /\ next[i]
            \/ token.kind = "globslash" /\ Taken(path, next)[i]
            \/ /\ i < n
               /\ \/ token.kind = "lit" /\ path[i + 1] = token.ch /\ next[i + 1]
                  \/ token.kind = "star" /\ path[i + 1] # "/" /\ g[i + 1]
                  \/ token.kind = "globstar" /\ g[i + 1]
           Body == [g \in Bits(n) |-> [i \in 0..n |-> value(g, i)]]
<1>1. n \in Nat
  OBVIOUS
<1>2. \A g : [i \in 0..n |-> value(g, i)] \in Bits(n)
  BY DEF Bits
<1>3. \A g, h \in Bits(n), i \in 0..n :
         (i < n => g[i + 1] = h[i + 1]) => Body[g][i] = Body[h][i]
  OBVIOUS
<1>4. PICK g \in Bits(n) : g = Body[g]
  <2>1. Body \in [Bits(n) -> Bits(n)]
    BY <1>2
  <2> HIDE DEF n, Body
  <2> QED
    BY <1>1, <1>3, <2>1, RowSolution
<1>5. RowEquation(token, path, next, g)
  BY <1>4 DEF RowEquation
<1> QED
  BY <1>5, RowChosen

-----------------------------------------------------------------------------
(* One token: its row at a place holds if the next row does somewhere the  *)
(* token leads to.                                                         *)

\* A place is reached from i on if it is i + 1, or is reached from i + 1 on.
LEMMA TakenReaches ==
    ASSUME NEW Chars, NEW path \in Seq(Chars), NEW next \in Bits(Len(path))
    PROVE  \A i \in 0..Len(path) :
              Taken(path, next)[i] <=> \E q \in (i + 1)..Len(path) : path[q] = "/" /\ next[q]
<1> DEFINE n == Len(path)
           taken == Taken(path, next)
           Reached(i) == \E q \in (i + 1)..n : path[q] = "/" /\ next[q]
           T == {i \in 0..n : taken[i] <=> Reached(i)}
<1>1. n \in Nat
  OBVIOUS
<1>2. \A i \in 0..n : taken[i] = (i < n /\ ((path[i + 1] = "/" /\ next[i + 1]) \/ taken[i + 1]))
  BY TakenSolved DEF TakenEquation
<1>3. n \in T
  <2>1. n \in 0..n /\ ~(n < n) /\ (n + 1)..n = {}
    BY <1>1
  <2>2. ~taken[n]
    BY <1>2, <2>1
  <2> QED
    BY <2>1, <2>2
<1>4. ASSUME NEW i \in 0..(n - 1), i + 1 \in T PROVE i \in T
  <2>1. i \in 0..n /\ i + 1 \in 0..n /\ i < n
    BY <1>1
  <2>2. taken[i] <=> (path[i + 1] = "/" /\ next[i + 1]) \/ taken[i + 1]
    BY <1>2, <2>1
  <2>3. taken[i + 1] <=> Reached(i + 1)
    BY <1>4
  <2>4. Reached(i) <=> (path[i + 1] = "/" /\ next[i + 1]) \/ Reached(i + 1)
    <3>1. \A q : q \in (i + 1)..n <=> q = i + 1 \/ q \in (i + 1 + 1)..n
      BY <2>1, <1>1
    <3> HIDE DEF n
    <3> QED
      BY <3>1
  <2> QED
    BY <2>1, <2>2, <2>3, <2>4
<1>5. 0..n \subseteq T
  <2> HIDE DEF T, n
  <2> QED
    BY <1>1, <1>3, <1>4, DownFrom
<1> QED
  BY <1>5

\* "*" and "**" lead over characters they pass one at a time.
Passing(n, next, Pass, cur) ==
    /\ n \in Nat
    /\ \A i \in 0..n : cur[i] <=> (next[i] \/ (i < n /\ Pass[i + 1] /\ cur[i + 1]))

LEMMA PassReaches ==
    ASSUME NEW n, NEW next, NEW Pass, NEW cur, Passing(n, next, Pass, cur)
    PROVE  \A i \in 0..n : cur[i] <=> \E q \in i..n : (\A j \in (i + 1)..q : Pass[j]) /\ next[q]
<1> USE DEF Passing
<1> DEFINE Reached(i) == \E q \in i..n : (\A j \in (i + 1)..q : Pass[j]) /\ next[q]
           T == {i \in 0..n : cur[i] <=> Reached(i)}
<1>1. n \in T
  <2>1. cur[n] <=> next[n]
    OBVIOUS
  <2>2. Reached(n) <=> next[n]
    OBVIOUS
  <2> QED
    BY <2>1, <2>2
<1>2. ASSUME NEW i \in 0..(n - 1), i + 1 \in T PROVE i \in T
  <2>1. i \in 0..n /\ i + 1 \in 0..n /\ i < n
    OBVIOUS
  <2>2. cur[i] <=> next[i] \/ (Pass[i + 1] /\ Reached(i + 1))
    BY <1>2, <2>1
  <2>3. Reached(i) => next[i] \/ (Pass[i + 1] /\ Reached(i + 1))
    <3> SUFFICES ASSUME Reached(i), ~next[i] PROVE Pass[i + 1] /\ Reached(i + 1)
      OBVIOUS
    <3>1. PICK q \in i..n : (\A j \in (i + 1)..q : Pass[j]) /\ next[q]
      OBVIOUS
    <3>2. q \in (i + 1)..n
      BY <3>1
    <3>3. i + 1 \in (i + 1)..q /\ \A j \in (i + 1 + 1)..q : j \in (i + 1)..q
      BY <3>2
    <3> QED
      BY <3>1, <3>2, <3>3
  <2>4. next[i] => Reached(i)
    BY <2>1
  <2>5. Pass[i + 1] /\ Reached(i + 1) => Reached(i)
    <3> SUFFICES ASSUME Pass[i + 1], Reached(i + 1) PROVE Reached(i)
      OBVIOUS
    <3>1. PICK q \in (i + 1)..n : (\A j \in (i + 1 + 1)..q : Pass[j]) /\ next[q]
      OBVIOUS
    <3>2. q \in i..n /\ \A j \in (i + 1)..q : j = i + 1 \/ j \in (i + 1 + 1)..q
      BY <2>1
    <3> QED
      BY <3>1, <3>2
  <2> QED
    BY <2>1, <2>2, <2>3, <2>4, <2>5
<1>3. 0..n \subseteq T
  <2> HIDE DEF T
  <2> QED
    BY <1>1, <1>2, DownFrom
<1> QED
  BY <1>3

Kinds == {"lit", "star", "globstar", "globslash"}

LEMMA RowReaches ==
    ASSUME NEW Chars, NEW path \in Seq(Chars), NEW next \in Bits(Len(path)),
           NEW token, token.kind \in Kinds
    PROVE  /\ Row(token, path, next) \in Bits(Len(path))
           /\ \A i \in 0..Len(path) :
                 /\ Reach(token, path, i) \subseteq 0..Len(path)
                 /\ Row(token, path, next)[i] <=> \E q \in Reach(token, path, i) : next[q]
<1> DEFINE n == Len(path)
           cur == Row(token, path, next)
<1>1. n \in Nat
  OBVIOUS
<1>2. RowEquation(token, path, next, cur)
  BY RowSolved
<1>3. cur \in Bits(n)
  BY <1>2 DEF RowEquation, Bits
<1>4. CASE token.kind = "lit"
  <2>1. \A i \in 0..n : cur[i] <=> (i < n /\ path[i + 1] = token.ch /\ next[i + 1])
    BY <1>2, <1>4 DEF RowEquation
  <2>2. \A i \in 0..n : Reach(token, path, i) = {q \in {i + 1} : q <= n /\ path[q] = token.ch}
    BY <1>4 DEF Reach
  <2>3. ASSUME NEW i \in 0..n
        PROVE  /\ Reach(token, path, i) \subseteq 0..n
               /\ cur[i] <=> \E q \in Reach(token, path, i) : next[q]
    <3>1. i + 1 <= n <=> i < n
      BY <1>1
    <3>2. i + 1 <= n => i + 1 \in 0..n
      BY <1>1
    <3> HIDE DEF n, cur
    <3>3. Reach(token, path, i) \subseteq 0..n
      BY <2>2, <3>2
    <3>4. cur[i] <=> \E q \in Reach(token, path, i) : next[q]
      BY <2>1, <2>2, <3>1
    <3> QED
      BY <3>3, <3>4
  <2> QED
    BY <1>3, <2>3
<1>5. CASE token.kind = "star"
  <2> DEFINE Pass == [i \in 1..n |-> path[i] # "/"]
  <2>1. \A i \in 0..n : cur[i] <=> (next[i] \/ (i < n /\ path[i + 1] # "/" /\ cur[i + 1]))
    BY <1>2, <1>5 DEF RowEquation
  <2>2. \A i \in 0..n : cur[i] <=> (next[i] \/ (i < n /\ Pass[i + 1] /\ cur[i + 1]))
    <3>1. \A i \in 0..n : i < n => (Pass[i + 1] <=> path[i + 1] # "/")
      <4>1. \A i \in 0..n : i < n => i + 1 \in 1..n
        BY <1>1
      <4> HIDE DEF n
      <4> QED
        BY <4>1
    <3> HIDE DEF Pass, n, cur
    <3> QED
      BY <2>1, <3>1
  <2>3. \A i \in 0..n : cur[i] <=> \E q \in i..n : (\A j \in (i + 1)..q : Pass[j]) /\ next[q]
    <3> HIDE DEF Pass, n, cur
    <3>1. Passing(n, next, Pass, cur)
      BY <1>1, <2>2 DEF Passing
    <3> QED
      BY <3>1, PassReaches
  <2>4. \A i \in 0..n : Reach(token, path, i) = {q \in i..n : \A j \in (i + 1)..q : Pass[j]}
    <3>1. \A i \in 0..n : Reach(token, path, i) = {q \in i..n : \A j \in (i + 1)..q : path[j] # "/"}
      BY <1>5 DEF Reach
    <3>2. ASSUME NEW i \in 0..n, NEW q \in i..n, NEW j \in (i + 1)..q
          PROVE  Pass[j] <=> path[j] # "/"
      <4>1. j \in 1..n
        BY <1>1
      <4> HIDE DEF n
      <4> QED
        BY <4>1
    <3> HIDE DEF Pass, n
    <3> QED
      BY <3>1, <3>2
  <2>5. \A i \in 0..n : i..n \subseteq 0..n
    BY <1>1
  <2> HIDE DEF Pass
  <2> QED
    BY <1>3, <2>3, <2>4, <2>5
<1>6. CASE token.kind = "globstar"
  <2> DEFINE Pass == [i \in 1..n |-> TRUE]
  <2>1. \A i \in 0..n : cur[i] <=> (next[i] \/ (i < n /\ cur[i + 1]))
    BY <1>2, <1>6 DEF RowEquation
  <2>2. \A i \in 0..n : cur[i] <=> (next[i] \/ (i < n /\ Pass[i + 1] /\ cur[i + 1]))
    <3>1. \A i \in 0..n : i < n => Pass[i + 1]
      BY <1>1
    <3> HIDE DEF Pass, n, cur
    <3> QED
      BY <2>1, <3>1
  <2>3. \A i \in 0..n : cur[i] <=> \E q \in i..n : (\A j \in (i + 1)..q : Pass[j]) /\ next[q]
    <3> HIDE DEF Pass, n, cur
    <3>1. Passing(n, next, Pass, cur)
      BY <1>1, <2>2 DEF Passing
    <3> QED
      BY <3>1, PassReaches
  <2>4. \A i \in 0..n : \A q \in i..n : \A j \in (i + 1)..q : Pass[j]
    <3>1. \A i \in 0..n : \A q \in i..n : \A j \in (i + 1)..q : j \in 1..n
      BY <1>1
    <3> HIDE DEF n
    <3> QED
      BY <3>1
  <2>5. \A i \in 0..n : Reach(token, path, i) = i..n
    BY <1>6 DEF Reach
  <2>6. \A i \in 0..n : i..n \subseteq 0..n
    BY <1>1
  <2> HIDE DEF Pass, n, cur
  <2>7. \A i \in 0..n : cur[i] <=> \E q \in i..n : next[q]
    BY <2>3, <2>4
  <2> QED
    BY <1>3, <2>5, <2>6, <2>7 DEF n, cur
<1>7. CASE token.kind = "globslash"
  <2>1. \A i \in 0..n : cur[i] <=> (next[i] \/ Taken(path, next)[i])
    BY <1>2, <1>7 DEF RowEquation
  <2>2. \A i \in 0..n : Reach(token, path, i) = {i} \cup {q \in (i + 1)..n : path[q] = "/"}
    BY <1>7 DEF Reach
  <2>3. \A i \in 0..n : Taken(path, next)[i] <=> \E q \in (i + 1)..n : path[q] = "/" /\ next[q]
    BY TakenReaches
  <2>4. \A i \in 0..n : (i + 1)..n \subseteq 0..n
    BY <1>1
  <2> HIDE DEF n, cur
  <2>5. ASSUME NEW i \in 0..n
        PROVE  /\ Reach(token, path, i) \subseteq 0..n
               /\ cur[i] <=> \E q \in Reach(token, path, i) : next[q]
    <3>1. Reach(token, path, i) \subseteq 0..n
      BY <2>2, <2>4
    <3>2. cur[i] <=> \E q \in Reach(token, path, i) : next[q]
      BY <2>1, <2>2, <2>3
    <3> QED
      BY <3>1, <3>2
  <2> QED
    BY <1>3, <2>5 DEF n, cur
<1> QED
  BY <1>4, <1>5, <1>6, <1>7 DEF Kinds

-----------------------------------------------------------------------------
(* The pattern: a sequence of tokens of the four kinds.                    *)

TokensOf(pattern) == {TokenAt(pattern, i).token : i \in 1..Len(pattern)}

FromEquation(pattern, from) ==
    from = [i \in 1..(Len(pattern) + 1) |->
              IF i > Len(pattern) THEN <<>>
              ELSE <<TokenAt(pattern, i).token>> \o from[i + TokenAt(pattern, i).width]]

LEMMA TokensChosen ==
    ASSUME NEW pattern
    PROVE  Tokenize(pattern) = (CHOOSE from : FromEquation(pattern, from))[1]
  BY DEF Tokenize, FromEquation

\* A token is of a known kind and its characters are all in the pattern.
LEMMA TokenFits ==
    ASSUME NEW Chars, NEW pattern \in Seq(Chars), NEW i \in 1..Len(pattern)
    PROVE  /\ TokenAt(pattern, i).token.kind \in Kinds
           /\ TokenAt(pattern, i).width \in 1..3
           /\ i + TokenAt(pattern, i).width \in 1..(Len(pattern) + 1)
<1> DEFINE n == Len(pattern)
<1>1. n \in Nat /\ DOMAIN pattern = 1..n
  OBVIOUS
<1>2. CASE pattern[i] # "*"
  <2>1. TokenAt(pattern, i) = [token |-> [kind |-> "lit", ch |-> pattern[i]], width |-> 1]
    BY <1>2 DEF TokenAt
  <2> QED
    BY <1>1, <2>1 DEF Kinds
<1>3. CASE pattern[i] = "*" /\ CharAt(pattern, i + 1) # "*"
  <2>1. TokenAt(pattern, i) = [token |-> [kind |-> "star"], width |-> 1]
    BY <1>3 DEF TokenAt
  <2> QED
    BY <1>1, <2>1 DEF Kinds
<1>4. CASE pattern[i] = "*" /\ CharAt(pattern, i + 1) = "*" /\ CharAt(pattern, i + 2) # "/"
  <2>1. TokenAt(pattern, i) = [token |-> [kind |-> "globstar"], width |-> 2]
    BY <1>4 DEF TokenAt
  <2>2. i + 1 \in 1..n
    BY <1>1, <1>4 DEF CharAt
  <2> QED
    BY <1>1, <2>1, <2>2 DEF Kinds
<1>5. CASE pattern[i] = "*" /\ CharAt(pattern, i + 1) = "*" /\ CharAt(pattern, i + 2) = "/"
  <2>1. TokenAt(pattern, i) = [token |-> [kind |-> "globslash"], width |-> 3]
    BY <1>5 DEF TokenAt
  <2>2. i + 2 \in 1..n
    BY <1>1, <1>5 DEF CharAt
  <2> QED
    BY <1>1, <2>1, <2>2 DEF Kinds
<1> QED
  BY <1>2, <1>3, <1>4, <1>5

LEMMA TokenizeType ==
    ASSUME NEW Chars, NEW pattern \in Seq(Chars)
    PROVE  /\ Tokenize(pattern) \in Seq(TokensOf(pattern))
           /\ \A k \in 1..Len(Tokenize(pattern)) : Tokenize(pattern)[k].kind \in Kinds
<1> DEFINE n == Len(pattern)
           S == 1..(n + 1)
           V == Seq(TokensOf(pattern))
           value(g, i) == IF i > n THEN <<>>
                          ELSE <<TokenAt(pattern, i).token>> \o g[i + TokenAt(pattern, i).width]
           Body == [g \in [S -> V] |-> [i \in S |-> value(g, i)]]
           size == [i \in S |-> n + 1 - i]
<1>1. n \in Nat /\ size \in [S -> Nat] /\ \A i \in S : size[i] <= n
  OBVIOUS
<1>2. \A i \in 1..n : /\ i + TokenAt(pattern, i).width \in S
                      /\ size[i + TokenAt(pattern, i).width] < size[i]
  <2>1. \A i \in 1..n : TokenAt(pattern, i).width \in 1..3 /\ i + TokenAt(pattern, i).width \in S
    BY TokenFits
  <2>2. \A i \in 1..n, w \in 1..3 : i + w \in S => size[i + w] < size[i]
    BY <1>1
  <2> HIDE DEF n, S, size
  <2> QED
    BY <2>1, <2>2
<1>3. ASSUME NEW g \in [S -> V], NEW i \in S PROVE value(g, i) \in V
  <2>1. CASE i > n
    BY <2>1
  <2>2. CASE ~(i > n)
    <3>1. i \in 1..n
      BY <1>1, <2>2
    <3>2. g[i + TokenAt(pattern, i).width] \in V
      <4> HIDE DEF V, S, n
      <4> QED
        BY <1>2, <3>1
    <3>3. TokenAt(pattern, i).token \in TokensOf(pattern)
      BY <3>1 DEF TokensOf
    <3>4. <<TokenAt(pattern, i).token>> \in V
      BY <3>3
    <3> QED
      BY <2>2, <3>2, <3>4, ConcatProperties
  <2> QED
    BY <2>1, <2>2
<1>4. Body \in [[S -> V] -> [S -> V]]
  <2> HIDE DEF S, V, value
  <2> QED
    BY <1>3
<1>5. ASSUME NEW g \in [S -> V], NEW h \in [S -> V], NEW i \in S,
             \A j \in S : size[j] < size[i] => g[j] = h[j]
      PROVE  Body[g][i] = Body[h][i]
  <2>1. i > n \/ i \in 1..n
    BY <1>1
  <2>2. i \in 1..n => g[i + TokenAt(pattern, i).width] = h[i + TokenAt(pattern, i).width]
    <3> HIDE DEF n, S, size, V
    <3> QED
      BY <1>2, <1>5
  <2>3. value(g, i) = value(h, i)
    BY <2>1, <2>2
  <2> HIDE DEF n, S, V, value
  <2> QED
    BY <2>3
<1>6. <<>> \in V
  OBVIOUS
<1>7. PICK g \in [S -> V] : g = Body[g]
  <2>1. WellFounded(S, V, size, n, Body)
    <3> HIDE DEF n, S, size, Body, V, value
    <3> QED
      BY <1>1, <1>4, <1>5, <1>6 DEF WellFounded
  <2> HIDE DEF n, S, size, Body, V, value
  <2> QED
    BY <2>1, Solution
<1>8. g = [i \in S |-> value(g, i)]
  <2> HIDE DEF S, V, value
  <2> QED
    BY <1>7
<1>9. FromEquation(pattern, g)
  BY <1>8 DEF FromEquation
<1>10. PICK from : FromEquation(pattern, from) /\ Tokenize(pattern) = from[1]
  BY <1>9, TokensChosen
<1>11. from \in [S -> V]
  <2> DEFINE T == {k \in 0..n : \A i \in S : n + 1 - i <= k => from[i] \in V}
  <2>1. \A i \in S : from[i] = value(from, i)
    BY <1>10 DEF FromEquation
  <2>2. ASSUME NEW i \in S, \A j \in S : j > i => from[j] \in V PROVE from[i] \in V
    <3>1. CASE i > n
      <4>1. value(from, i) = <<>>
        BY <3>1
      <4> HIDE DEF V, value
      <4> QED
        BY <1>6, <2>1, <4>1
    <3>2. CASE i \in 1..n
      <4>1. TokenAt(pattern, i).width \in 1..3 /\ i + TokenAt(pattern, i).width \in S
        BY <3>2, TokenFits
      <4>2. i + TokenAt(pattern, i).width > i
        BY <4>1
      <4>3. from[i + TokenAt(pattern, i).width] \in V
        BY <2>2, <4>1, <4>2
      <4>4. <<TokenAt(pattern, i).token>> \in V
        BY <3>2 DEF TokensOf
      <4>5. value(from, i) \in V
        BY <1>1, <3>2, <4>3, <4>4, ConcatProperties
      <4> QED
        BY <2>1, <4>5
    <3> QED
      BY <1>1, <3>1, <3>2
  <2>3. 0 \in T
    BY <1>1, <2>2
  <2>4. ASSUME NEW k \in 0..(n - 1), k \in T PROVE k + 1 \in T
    <3>1. ASSUME NEW i \in S, n + 1 - i <= k + 1 PROVE from[i] \in V
      <4>1. \A j \in S : j > i => n + 1 - j <= k
        BY <1>1, <3>1
      <4>2. \A j \in S : j > i => from[j] \in V
        BY <2>4, <4>1
      <4> QED
        BY <2>2, <4>2
    <3> QED
      BY <1>1, <3>1
  <2>5. 0..n \subseteq T
    <3> HIDE DEF T, n
    <3> QED
      BY <1>1, <2>3, <2>4, UpTo
  <2>6. \A i \in S : from[i] \in V
    BY <1>1, <2>5
  <2>7. from = [i \in S |-> value(from, i)]
    BY <1>10 DEF FromEquation
  <2> HIDE DEF S, V, value
  <2> QED
    BY <2>6, <2>7
<1>12. Tokenize(pattern) \in V
  BY <1>1, <1>10, <1>11
<1>13. \A token \in TokensOf(pattern) : token.kind \in Kinds
  BY TokenFits DEF TokensOf
<1> QED
  BY <1>12, <1>13

-----------------------------------------------------------------------------
(* The whole pattern: the rows from the right against the places from the  *)
(* left.                                                                   *)

LEMMA LeastFirst ==
    ASSUME NEW n \in Nat, NEW s \in (SUBSET (1..n)) \ {{}}
    PROVE  Min(s) \in s /\ \A y \in s : Min(s) <= y
<1>1. s \subseteq Nat /\ s # {}
  OBVIOUS
<1>2. PICK x \in s : \A y \in s : <<y, x>> \notin Smaller
  BY <1>1, SmallerWellFounded, WFMin
<1>3. \A y \in s : x <= y
  <2>1. \A y \in s : x \in Nat /\ y \in Nat
    BY <1>1
  <2>2. \A y \in s : ~(y < x)
    BY <1>2, <2>1 DEF Smaller
  <2> QED
    BY <2>1, <2>2
<1> QED
  BY <1>3 DEF Min

LEMMA GreatestLast ==
    ASSUME NEW n \in Nat, NEW s \in (SUBSET (1..n)) \ {{}}
    PROVE  Max(s) \in s /\ \A y \in s : Max(s) >= y
<1> DEFINE mirror == {n + 1 - x : x \in s}
<1>1. mirror \in (SUBSET (1..n)) \ {{}}
  OBVIOUS
<1>2. Min(mirror) \in mirror /\ \A y \in mirror : Min(mirror) <= y
  <2> HIDE DEF mirror
  <2> QED
    BY <1>1, LeastFirst
<1>3. PICK x \in s : Min(mirror) = n + 1 - x
  BY <1>2
<1>4. \A y \in s : x >= y
  <2>1. \A y \in s : n + 1 - x <= n + 1 - y
    BY <1>2, <1>3
  <2> QED
    BY <2>1
<1> QED
  BY <1>4 DEF Max

\* What is left to fold is an end or a beginning of the sequence.
LEMMA Ends ==
    ASSUME NEW n \in Nat, NEW k \in 0..(n - 1)
    PROVE  /\ Min((k + 1)..n) = k + 1 /\ ((k + 1)..n) \ {k + 1} = (k + 1 + 1)..n
           /\ (k + 1)..n # {} /\ (k + 1)..n \in SUBSET (1..n)
           /\ Max(1..(k + 1)) = k + 1 /\ (1..(k + 1)) \ {k + 1} = 1..k
           /\ 1..(k + 1) # {} /\ 1..(k + 1) \in SUBSET (1..n)
<1> DEFINE suffix == (k + 1)..n
           prefix == 1..(k + 1)
<1>1. k + 1 \in suffix /\ suffix \in (SUBSET (1..n)) \ {{}}
  OBVIOUS
<1>2. k + 1 \in prefix /\ prefix \in (SUBSET (1..n)) \ {{}}
  OBVIOUS
<1>3. Min(suffix) \in suffix /\ Min(suffix) <= k + 1
  <2> HIDE DEF suffix
  <2> QED
    BY <1>1, LeastFirst
<1>4. Max(prefix) \in prefix /\ Max(prefix) >= k + 1
  <2> HIDE DEF prefix
  <2> QED
    BY <1>2, GreatestLast
<1>5. Min(suffix) = k + 1
  BY <1>3
<1>6. Max(prefix) = k + 1
  BY <1>4
<1>7. suffix \ {k + 1} = (k + 1 + 1)..n /\ prefix \ {k + 1} = 1..k
  OBVIOUS
<1> QED
  BY <1>1, <1>2, <1>5, <1>6, <1>7

LastRow(path) == [i \in 0..Len(path) |-> i = Len(path)]

RowsEquation(path, tokens, iter) ==
    iter = [s \in SUBSET DOMAIN tokens |->
              IF s = {} THEN LastRow(path)
              ELSE Row(tokens[Min(s)], path, iter[s \ {Min(s)}])]

LEMMA MatchesChosen ==
    ASSUME NEW path, NEW pattern
    PROVE  Matches(path, pattern)
           = (CHOOSE iter : RowsEquation(path, Tokenize(pattern), iter))[DOMAIN Tokenize(pattern)][0]
  BY DEF Matches, FoldRight, MapThenFoldSet, RowsEquation, LastRow

NextPlaces(path, token, places) == UNION {Reach(token, path, p) : p \in places}

PlacesEquation(path, tokens, iter) ==
    iter = [s \in SUBSET DOMAIN tokens |->
              IF s = {} THEN {0} ELSE NextPlaces(path, tokens[Max(s)], iter[s \ {Max(s)}])]

LEMMA GlobMeansChosen ==
    ASSUME NEW path, NEW pattern
    PROVE  GlobMeans(path, pattern)
           <=> Len(path) \in (CHOOSE iter : PlacesEquation(path, Tokenize(pattern), iter))
                                [DOMAIN Tokenize(pattern)]
  BY DEF GlobMeans, FoldLeft, MapThenFoldSet, PlacesEquation, NextPlaces

KnownTokens(tokens) ==
    /\ \E T : tokens \in Seq(T)
    /\ \A k \in 1..Len(tokens) : tokens[k].kind \in Kinds

LEMMA RowsSolved ==
    ASSUME NEW Chars, NEW path \in Seq(Chars), NEW tokens, KnownTokens(tokens)
    PROVE  \E iter : RowsEquation(path, tokens, iter)
<1> DEFINE n == Len(tokens)
           D == SUBSET (1..n)
           V == Bits(Len(path))
           step == [k \in 1..n |-> [next \in V |-> Row(tokens[k], path, next)]]
           first == [s \in D \ {{}} |-> Min(s)]
<1>1. n \in Nat /\ DOMAIN tokens = 1..n /\ Len(path) \in Nat
  BY DEF KnownTokens
<1>2. LastRow(path) \in V
  BY DEF LastRow, Bits
<1>3. step \in [1..n -> [V -> V]]
  <2>1. \A k \in 1..n : tokens[k].kind \in Kinds
    BY DEF KnownTokens
  <2>2. \A k \in 1..n, next \in V : Row(tokens[k], path, next) \in V
    <3> HIDE DEF n
    <3> QED
      BY <2>1, RowReaches
  <2> HIDE DEF n, V
  <2> QED
    BY <2>2
<1>4. \A s \in D \ {{}} : Min(s) \in s /\ Min(s) \in 1..n
  <2>1. \A s \in D \ {{}} : Min(s) \in s
    BY <1>1, LeastFirst
  <2> QED
    BY <2>1
<1>5. /\ first \in [(SUBSET (1..n)) \ {{}} -> 1..n]
      /\ \A s \in (SUBSET (1..n)) \ {{}} : first[s] \in s
  BY <1>4
<1>6. PICK iter : Folds(n, V, LastRow(path), step, first, iter)
  <2> HIDE DEF n, V, step, first
  <2>1. Foldable(n, V, LastRow(path), step, first)
    BY <1>1, <1>2, <1>3, <1>5 DEF Foldable
  <2> QED
    BY <2>1, FoldSolution
<1> USE DEF Folds
<1>7. ASSUME NEW s \in D
      PROVE  iter[s] = IF s = {} THEN LastRow(path)
                       ELSE Row(tokens[Min(s)], path, iter[s \ {Min(s)}])
  <2>1. CASE s = {}
    BY <1>6, <2>1
  <2>2. CASE s # {}
    <3>1. iter[s \ {Min(s)}] \in V
      BY <1>6
    <3> HIDE DEF V
    <3> QED
      BY <1>4, <1>6, <2>2, <3>1
  <2> QED
    BY <2>1, <2>2
<1> QED
  <2> HIDE DEF n, V
  <2>1. iter = [s \in D |-> IF s = {} THEN LastRow(path)
                            ELSE Row(tokens[Min(s)], path, iter[s \ {Min(s)}])]
    BY <1>6, <1>7
  <2> QED
    BY <1>1, <2>1 DEF RowsEquation

LEMMA PlacesSolved ==
    ASSUME NEW Chars, NEW path \in Seq(Chars), NEW tokens, KnownTokens(tokens)
    PROVE  \E iter : PlacesEquation(path, tokens, iter)
<1> DEFINE n == Len(tokens)
           D == SUBSET (1..n)
           V == SUBSET (0..Len(path))
           step == [k \in 1..n |-> [places \in V |-> NextPlaces(path, tokens[k], places)]]
           first == [s \in D \ {{}} |-> Max(s)]
<1>1. n \in Nat /\ DOMAIN tokens = 1..n /\ Len(path) \in Nat
  BY DEF KnownTokens
<1>2. {0} \in V
  BY <1>1
<1>3. step \in [1..n -> [V -> V]]
  <2>1. \A k \in 1..n : tokens[k].kind \in Kinds
    BY DEF KnownTokens
  <2>2. LastRow(path) \in Bits(Len(path))
    BY DEF LastRow, Bits
  <2>3. \A k \in 1..n : \A p \in 0..Len(path) : Reach(tokens[k], path, p) \subseteq 0..Len(path)
    <3> HIDE DEF n
    <3> QED
      BY <2>1, <2>2, RowReaches
  <2>4. \A k \in 1..n, places \in V : NextPlaces(path, tokens[k], places) \in V
    <3> HIDE DEF n
    <3> QED
      BY <2>3 DEF NextPlaces
  <2> HIDE DEF n, V
  <2> QED
    BY <2>4
<1>4. \A s \in D \ {{}} : Max(s) \in s /\ Max(s) \in 1..n
  <2>1. \A s \in D \ {{}} : Max(s) \in s
    BY <1>1, GreatestLast
  <2> QED
    BY <2>1
<1>5. /\ first \in [(SUBSET (1..n)) \ {{}} -> 1..n]
      /\ \A s \in (SUBSET (1..n)) \ {{}} : first[s] \in s
  BY <1>4
<1>6. PICK iter : Folds(n, V, {0}, step, first, iter)
  <2> HIDE DEF n, V, step, first
  <2>1. Foldable(n, V, {0}, step, first)
    BY <1>1, <1>2, <1>3, <1>5 DEF Foldable
  <2> QED
    BY <2>1, FoldSolution
<1> USE DEF Folds
<1>7. ASSUME NEW s \in D
      PROVE  iter[s] = IF s = {} THEN {0} ELSE NextPlaces(path, tokens[Max(s)], iter[s \ {Max(s)}])
  <2>1. CASE s = {}
    BY <1>6, <2>1
  <2>2. CASE s # {}
    <3>1. iter[s \ {Max(s)}] \in V
      BY <1>6
    <3> HIDE DEF V
    <3> QED
      BY <1>4, <1>6, <2>2, <3>1
  <2> QED
    BY <2>1, <2>2
<1> QED
  <2> HIDE DEF n, V
  <2>1. iter = [s \in D |-> IF s = {} THEN {0}
                            ELSE NextPlaces(path, tokens[Max(s)], iter[s \ {Max(s)}])]
    BY <1>6, <1>7
  <2> QED
    BY <1>1, <2>1 DEF PlacesEquation

\* The rows of the suffixes, as the matcher computes them from the right.
LEMMA RowsOfSuffixes ==
    ASSUME NEW Chars, NEW path \in Seq(Chars), NEW tokens, KnownTokens(tokens),
           NEW iter, RowsEquation(path, tokens, iter)
    PROVE  /\ \A k \in 0..Len(tokens) : iter[(k + 1)..Len(tokens)] \in Bits(Len(path))
           /\ iter[(Len(tokens) + 1)..Len(tokens)] = LastRow(path)
           /\ \A k \in 0..(Len(tokens) - 1) :
                 iter[(k + 1)..Len(tokens)]
                 = Row(tokens[k + 1], path, iter[(k + 1 + 1)..Len(tokens)])
<1> DEFINE n == Len(tokens)
           rows(k) == iter[(k + 1)..n]
           T == {k \in 0..n : rows(k) \in Bits(Len(path))}
<1>1. n \in Nat /\ DOMAIN tokens = 1..n
  BY DEF KnownTokens
<1>2. rows(n) = LastRow(path)
  <2>1. (n + 1)..n = {}
    BY <1>1
  <2>2. iter[{}] = LastRow(path)
    BY DEF RowsEquation
  <2> QED
    BY <2>1, <2>2
<1>3. ASSUME NEW k \in 0..(n - 1)
      PROVE  rows(k) = Row(tokens[k + 1], path, rows(k + 1))
  <2>1. /\ Min((k + 1)..n) = k + 1 /\ ((k + 1)..n) \ {k + 1} = (k + 1 + 1)..n
        /\ (k + 1)..n # {} /\ (k + 1)..n \in SUBSET DOMAIN tokens
    BY <1>1, Ends
  <2> HIDE DEF n
  <2> QED
    BY <2>1 DEF RowsEquation
<1>4. n \in T
  <2>1. LastRow(path) \in Bits(Len(path))
    BY DEF LastRow, Bits
  <2> QED
    BY <1>1, <1>2, <2>1
<1>5. ASSUME NEW k \in 0..(n - 1), k + 1 \in T PROVE k \in T
  <2>1. k + 1 \in 1..n /\ k \in 0..n
    BY <1>1
  <2>2. tokens[k + 1].kind \in Kinds
    BY <2>1 DEF KnownTokens
  <2>3. rows(k + 1) \in Bits(Len(path))
    BY <1>5
  <2> HIDE DEF n, rows
  <2>4. rows(k) \in Bits(Len(path))
    BY <1>3, <2>2, <2>3, RowReaches
  <2> QED
    BY <2>1, <2>4
<1>6. 0..n \subseteq T
  <2> HIDE DEF T, n
  <2> QED
    BY <1>1, <1>4, <1>5, DownFrom
<1> QED
  BY <1>2, <1>3, <1>6

\* The places the prefixes lead to, read from the left.
LEMMA PlacesOfPrefixes ==
    ASSUME NEW Chars, NEW path \in Seq(Chars), NEW tokens, KnownTokens(tokens),
           NEW iter, PlacesEquation(path, tokens, iter)
    PROVE  /\ \A k \in 0..Len(tokens) : iter[1..k] \subseteq 0..Len(path)
           /\ iter[1..0] = {0}
           /\ \A k \in 0..(Len(tokens) - 1) :
                 iter[1..(k + 1)] = NextPlaces(path, tokens[k + 1], iter[1..k])
<1> DEFINE n == Len(tokens)
           places(k) == iter[1..k]
           T == {k \in 0..n : places(k) \subseteq 0..Len(path)}
<1>1. n \in Nat /\ DOMAIN tokens = 1..n
  BY DEF KnownTokens
<1>2. places(0) = {0}
  <2>1. 1..0 = {}
    OBVIOUS
  <2>2. iter[{}] = {0}
    BY DEF PlacesEquation
  <2> QED
    BY <2>1, <2>2
<1>3. ASSUME NEW k \in 0..(n - 1)
      PROVE  places(k + 1) = NextPlaces(path, tokens[k + 1], places(k))
  <2>1. /\ Max(1..(k + 1)) = k + 1 /\ (1..(k + 1)) \ {k + 1} = 1..k
        /\ 1..(k + 1) # {} /\ 1..(k + 1) \in SUBSET DOMAIN tokens
    BY <1>1, Ends
  <2> HIDE DEF n
  <2> QED
    BY <2>1 DEF PlacesEquation
<1>4. 0 \in T
  BY <1>1, <1>2
<1>5. ASSUME NEW k \in 0..(n - 1), k \in T PROVE k + 1 \in T
  <2>1. k + 1 \in 1..n /\ k + 1 \in 0..n
    BY <1>1
  <2>2. tokens[k + 1].kind \in Kinds
    BY <2>1 DEF KnownTokens
  <2>3. LastRow(path) \in Bits(Len(path))
    BY DEF LastRow, Bits
  <2>4. \A p \in 0..Len(path) : Reach(tokens[k + 1], path, p) \subseteq 0..Len(path)
    BY <2>2, <2>3, RowReaches
  <2>5. places(k) \subseteq 0..Len(path)
    BY <1>5
  <2> HIDE DEF n, places
  <2>6. places(k + 1) \subseteq 0..Len(path)
    BY <1>3, <2>4, <2>5 DEF NextPlaces
  <2> QED
    BY <2>1, <2>6
<1>6. 0..n \subseteq T
  <2> HIDE DEF T, n
  <2> QED
    BY <1>1, <1>4, <1>5, UpTo
<1> QED
  BY <1>2, <1>3, <1>6

\* glob.ts, matches: for every path and every pattern, the rows computed from the right decide
\* whether the pattern, read from the left, leads from the start of the path to its end.
THEOREM MatchesMeans ==
    ASSUME NEW Chars, NEW path \in Seq(Chars), NEW pattern \in Seq(Chars)
    PROVE  Matches(path, pattern) <=> GlobMeans(path, pattern)
<1> DEFINE tokens == Tokenize(pattern)
           n == Len(tokens)
           N == Len(path)
           right == CHOOSE iter : RowsEquation(path, tokens, iter)
           left == CHOOSE iter : PlacesEquation(path, tokens, iter)
           rows(k) == right[(k + 1)..n]
           places(k) == left[1..k]
           Crosses(k) == \E p \in places(k) : rows(k)[p]
           T == {k \in 0..n : Crosses(k) <=> Crosses(0)}
<1>1. KnownTokens(tokens)
  BY TokenizeType DEF KnownTokens
<1>2. n \in Nat /\ DOMAIN tokens = 1..n /\ N \in Nat
  BY <1>1 DEF KnownTokens
<1>3. RowsEquation(path, tokens, right)
  BY <1>1, RowsSolved
<1>4. PlacesEquation(path, tokens, left)
  BY <1>1, PlacesSolved
<1>5. /\ \A k \in 0..n : rows(k) \in Bits(N)
      /\ rows(n) = LastRow(path)
      /\ \A k \in 0..(n - 1) : rows(k) = Row(tokens[k + 1], path, rows(k + 1))
  <2> HIDE DEF tokens, right
  <2> QED
    BY <1>1, <1>3, RowsOfSuffixes
<1>6. /\ \A k \in 0..n : places(k) \subseteq 0..N
      /\ places(0) = {0}
      /\ \A k \in 0..(n - 1) : places(k + 1) = NextPlaces(path, tokens[k + 1], places(k))
  <2> HIDE DEF tokens, left
  <2> QED
    BY <1>1, <1>4, PlacesOfPrefixes
<1>7. ASSUME NEW k \in 0..(n - 1) PROVE Crosses(k) <=> Crosses(k + 1)
  <2>1. k \in 0..n /\ k + 1 \in 0..n /\ k + 1 \in 1..n
    BY <1>2
  <2>2. tokens[k + 1].kind \in Kinds
    <3> HIDE DEF tokens
    <3> QED
      BY <1>1, <2>1 DEF KnownTokens
  <2> HIDE DEF tokens, right, left, rows, places, n
  <2>3. rows(k + 1) \in Bits(Len(path))
    BY <1>5, <2>1
  <2>4. \A p \in 0..N : Row(tokens[k + 1], path, rows(k + 1))[p]
                        <=> \E q \in Reach(tokens[k + 1], path, p) : rows(k + 1)[q]
    BY <2>2, <2>3, RowReaches
  <2> HIDE DEF N
  <2>5. \A p \in places(k) : rows(k)[p]
                             <=> \E q \in Reach(tokens[k + 1], path, p) : rows(k + 1)[q]
    BY <1>5, <1>6, <2>1, <2>4
  <2> QED
    BY <1>6, <2>5 DEF NextPlaces
<1>8. n \in T
  <2>1. 0..n \subseteq T
    <3>1. 0 \in T
      BY <1>2
    <3>2. ASSUME NEW k \in 0..(n - 1), k \in T PROVE k + 1 \in T
      <4>1. k \in 0..n /\ k + 1 \in 0..n
        BY <1>2
      <4> HIDE DEF n, Crosses
      <4> QED
        BY <1>7, <3>2, <4>1
    <3> HIDE DEF T, n
    <3> QED
      BY <1>2, <3>1, <3>2, UpTo
  <2> HIDE DEF T
  <2> QED
    BY <1>2, <2>1
<1>9. Matches(path, pattern) <=> Crosses(0)
  <2>1. DOMAIN tokens = (0 + 1)..n
    BY <1>2
  <2>2. Matches(path, pattern) = rows(0)[0]
    <3>1. Matches(path, pattern) = right[DOMAIN tokens][0]
      BY MatchesChosen
    <3> HIDE DEF tokens, right, n
    <3> QED
      BY <2>1, <3>1
  <2> HIDE DEF rows, places
  <2> QED
    BY <1>6, <2>2
<1>10. GlobMeans(path, pattern) <=> Crosses(n)
  <2>1. GlobMeans(path, pattern) <=> N \in places(n)
    <3>1. GlobMeans(path, pattern) <=> N \in left[DOMAIN tokens]
      BY GlobMeansChosen
    <3> HIDE DEF tokens, left, n, N
    <3> QED
      BY <1>2, <3>1
  <2>2. \A p \in 0..N : rows(n)[p] <=> p = N
    <3> HIDE DEF rows, tokens, n
    <3> QED
      BY <1>5 DEF LastRow
  <2>3. places(n) \subseteq 0..N
    <3> HIDE DEF places, n, N
    <3> QED
      BY <1>2, <1>6
  <2>4. N \in 0..N
    BY <1>2
  <2> HIDE DEF rows, places, tokens, n, N
  <2> QED
    BY <2>1, <2>2, <2>3, <2>4
<1> QED
  <2> HIDE DEF tokens, right, left, rows, places, n
  <2> QED
    BY <1>8, <1>9, <1>10

\* git.ts, expandFileset: the files it keeps are those an include pattern means and no exclude
\* pattern means.
THEOREM ExpandSelects ==
    ASSUME NEW Characters, NEW candidates \in SUBSET Seq(Characters),
           NEW fileset, TypedFileset(fileset, Characters)
    PROVE  ExpandFileset(fileset, candidates) = {file \in candidates : Selects(fileset, file)}
<1>1. ASSUME NEW patterns \in Seq(Seq(Characters)), NEW file \in candidates,
             NEW i \in DOMAIN patterns
      PROVE  Matches(file, patterns[i]) <=> GlobMeans(file, patterns[i])
  <2>1. patterns[i] \in Seq(Characters) /\ file \in Seq(Characters)
    OBVIOUS
  <2> QED
    BY <2>1, MatchesMeans
<1> QED
  BY <1>1 DEF ExpandFileset, Selects, TypedFileset

=============================================================================

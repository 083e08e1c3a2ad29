----------------------------- MODULE Induction -----------------------------
(***************************************************************************)
(* Induction over the natural numbers in a form that needs no predicate    *)
(* as a parameter, and what it shows of the left fold of the community     *)
(* modules, for any operation Op.                                          *)
(***************************************************************************)
EXTENDS Naturals, Sequences, SequencesExt, WellFoundedInduction, TLAPS

CONSTANT Op(_, _, _)

\* Every non-empty set of natural numbers has a least element.
LEMMA LeastNumber ==
    ASSUME NEW T, T \subseteq Nat, T # {}
    PROVE  \E x \in T : \A y \in T : x <= y
<1> DEFINE R == {ss \in Nat \X Nat : ss[1] < ss[2]}
<1>1. IsWellFoundedOn(R, Nat)
  BY NatLessThanWellFounded DEF OpToRel
<1>2. \E x \in T : \A y \in T : ~ (<<y, x>> \in R)
  <2> HIDE DEF R
  <2> QED
    BY <1>1, WFMin
<1>3. \A x, y \in Nat : <<y, x>> \notin R => x <= y
  OBVIOUS
<1> HIDE DEF R
<1> QED
  BY <1>2, <1>3

\* A set that holds 0 and, with every number, the next one holds them all.
LEMMA ByInduction ==
    ASSUME NEW S, 0 \in S, \A n \in Nat : n \in S => n + 1 \in S
    PROVE  Nat \subseteq S
<1> SUFFICES ASSUME Nat \ S # {} PROVE FALSE
  OBVIOUS
<1>1. PICK x \in Nat \ S : \A y \in Nat \ S : x <= y
  BY LeastNumber
<1>2. x # 0 /\ x - 1 \in Nat /\ ~(x <= x - 1) /\ (x - 1) + 1 = x
  BY <1>1
<1>3. x - 1 \in S
  BY <1>1, <1>2
<1> QED
  BY <1>1, <1>2, <1>3

\* g[s] is the fold over the elements of q at the places s, for s within 1 .. n:
\* the recursive function inside FoldLeft, as far as n.
Folding(g, n, p, base, q) ==
    g = [s \in SUBSET (1 .. n) |->
            IF s = {} THEN base ELSE Op(p, g[s \ {Max(s)}], q[Max(s)])]

\* What FoldLeft and MapThenFoldSet unfold to.
Folded(n, p, base, q) ==
    (CHOOSE iter : iter = [s \in SUBSET (1 .. n) |->
        IF s = {} THEN base ELSE Op(p, iter[s \ {Max(s)}], q[Max(s)])])[1 .. n]

\* A left fold is what its steps lead to: it starts at the base, and each element
\* is one application of Op.
Steps(n, p, base, q) ==
    \E v : /\ v[0] = base
           /\ \A i \in 1 .. n : v[i] = Op(p, v[i - 1], q[i])
           /\ Folded(n, p, base, q) = v[n]

\* The last place.
LEMMA LastPlace ==
    ASSUME NEW k \in Nat, NEW s \in SUBSET (1 .. k + 1), k + 1 \in s
    PROVE  Max(s) = k + 1
<1>1. \A y \in s : k + 1 >= y
  OBVIOUS
<1>2. \A x \in s : (\A y \in s : x >= y) => x = k + 1
  OBVIOUS
<1> QED
  BY <1>1, <1>2 DEF Max

\* The recursive function exists.
LEMMA FoldingExists ==
    ASSUME NEW p, NEW base, NEW q, NEW n \in Nat
    PROVE  \E g : Folding(g, n, p, base, q)
<1> DEFINE S == {k \in Nat : \E g : Folding(g, k, p, base, q)}
<1>1. 0 \in S
  <2> DEFINE g == [s \in SUBSET (1 .. 0) |-> base]
  <2>1. \A s \in SUBSET (1 .. 0) : s = {}
    OBVIOUS
  <2>2. Folding(g, 0, p, base, q)
    BY <2>1 DEF Folding
  <2> QED
    BY <2>2
<1>2. ASSUME NEW k \in Nat, k \in S PROVE k + 1 \in S
  <2>1. PICK g : Folding(g, k, p, base, q)
    BY <1>2
  <2> DEFINE h == [s \in SUBSET (1 .. k + 1) |->
                      IF k + 1 \in s THEN Op(p, g[s \ {k + 1}], q[k + 1]) ELSE g[s]]
  <2>2. \A s \in SUBSET (1 .. k) :
           g[s] = IF s = {} THEN base ELSE Op(p, g[s \ {Max(s)}], q[Max(s)])
    BY <2>1 DEF Folding
  <2>3. \A s \in SUBSET (1 .. k) : h[s] = g[s]
    <3> TAKE s \in SUBSET (1 .. k)
    <3>1. s \in SUBSET (1 .. k + 1) /\ k + 1 \notin s
      OBVIOUS
    <3> QED
      BY <3>1
  <2>4. ASSUME NEW s \in SUBSET (1 .. k + 1)
        PROVE  h[s] = IF s = {} THEN base ELSE Op(p, h[s \ {Max(s)}], q[Max(s)])
    <3>1. CASE k + 1 \in s
      <4>1. Max(s) = k + 1 /\ s # {}
        BY <3>1, LastPlace
      <4>2. s \ {k + 1} \in SUBSET (1 .. k)
        OBVIOUS
      <4>3. h[s] = Op(p, g[s \ {k + 1}], q[k + 1])
        BY <3>1
      <4>4. h[s \ {k + 1}] = g[s \ {k + 1}]
        BY <4>2, <2>3
      <4> HIDE DEF h
      <4> QED
        BY <4>1, <4>3, <4>4
    <3>2. CASE k + 1 \notin s
      <4>1. s \in SUBSET (1 .. k)
        BY <3>2
      <4>2. s \ {Max(s)} \in SUBSET (1 .. k)
        BY <4>1
      <4> HIDE DEF h
      <4> QED
        BY <4>1, <4>2, <2>2, <2>3
    <3> QED
      BY <3>1, <3>2
  <2>5. Folding(h, k + 1, p, base, q)
    <3>1. h = [s \in SUBSET (1 .. k + 1) |-> h[s]]
      OBVIOUS
    <3> HIDE DEF h
    <3> QED
      BY <3>1, <2>4 DEF Folding
  <2> QED
    BY <2>5
<1>3. Nat \subseteq S
  BY <1>1, <1>2, ByInduction
<1> QED
  BY <1>3

\* A left fold is what its steps lead to: it starts at the base, and each element
\* is one application of Op.
LEMMA FoldLeftSteps ==
    ASSUME NEW p, NEW base, NEW q, NEW n \in Nat
    PROVE  Steps(n, p, base, q)
<1> DEFINE iter == CHOOSE iter : iter = [s \in SUBSET (1 .. n) |->
              IF s = {} THEN base ELSE Op(p, iter[s \ {Max(s)}], q[Max(s)])]
           v == [i \in 0 .. n |-> iter[1 .. i]]
<1>1. Folding(iter, n, p, base, q)
  <2>1. PICK g : Folding(g, n, p, base, q)
    BY FoldingExists
  <2>2. g = [s \in SUBSET (1 .. n) |->
                IF s = {} THEN base ELSE Op(p, g[s \ {Max(s)}], q[Max(s)])]
    BY <2>1 DEF Folding
  <2>3. iter = [s \in SUBSET (1 .. n) |->
                  IF s = {} THEN base ELSE Op(p, iter[s \ {Max(s)}], q[Max(s)])]
    BY <2>2, Zenon
  <2> QED
    BY <2>3 DEF Folding
<1>2. Folded(n, p, base, q) = iter[1 .. n]
  BY DEF Folded
<1> HIDE DEF iter
<1>3. \A s \in SUBSET (1 .. n) :
         iter[s] = IF s = {} THEN base ELSE Op(p, iter[s \ {Max(s)}], q[Max(s)])
  BY <1>1 DEF Folding
<1>4. v[0] = base
  <2>1. v[0] = iter[1 .. 0] /\ 1 .. 0 = {}
    OBVIOUS
  <2> QED
    BY <1>3, <2>1
<1>5. ASSUME NEW i \in 1 .. n PROVE v[i] = Op(p, v[i - 1], q[i])
  <2>1. /\ i - 1 \in Nat /\ (i - 1) + 1 = i /\ 1 .. i \in SUBSET (1 .. n) /\ i \in 1 .. i
        /\ (1 .. i) \ {i} = 1 .. (i - 1) /\ i \in 0 .. n /\ i - 1 \in 0 .. n
    OBVIOUS
  <2>2. Max(1 .. i) = i
    BY <2>1, LastPlace
  <2>3. iter[1 .. i] = Op(p, iter[(1 .. i) \ {Max(1 .. i)}], q[Max(1 .. i)])
    BY <1>3, <2>1
  <2>4. v[i] = iter[1 .. i] /\ v[i - 1] = iter[1 .. (i - 1)]
    BY <2>1
  <2> HIDE DEF v
  <2> QED
    BY <2>1, <2>2, <2>3, <2>4
<1>6. v[n] = iter[1 .. n]
  OBVIOUS
<1> HIDE DEF v
<1> QED
  BY <1>2, <1>4, <1>5, <1>6 DEF Steps

\* What a left fold yields is in the last of the sets that its steps lead through.
LEMMA FoldedThrough ==
    ASSUME NEW p, NEW base, NEW q, NEW n \in Nat, NEW S,
           base \in S[0],
           \A i \in 1 .. n : \A x \in S[i - 1] : Op(p, x, q[i]) \in S[i]
    PROVE  Folded(n, p, base, q) \in S[n]
<1>1. Steps(n, p, base, q)
  BY FoldLeftSteps
<1>2. PICK v : /\ v[0] = base
               /\ \A i \in 1 .. n : v[i] = Op(p, v[i - 1], q[i])
               /\ Folded(n, p, base, q) = v[n]
  BY <1>1 DEF Steps
<1> DEFINE T == {i \in Nat : i <= n => v[i] \in S[i]}
<1>3. 0 \in T
  BY <1>2
<1>4. ASSUME NEW i \in Nat, i \in T PROVE i + 1 \in T
  <2> SUFFICES ASSUME i + 1 <= n PROVE v[i + 1] \in S[i + 1]
    OBVIOUS
  <2>1. i + 1 \in 1 .. n /\ (i + 1) - 1 = i /\ i <= n
    OBVIOUS
  <2>2. v[i] \in S[i]
    BY <1>4, <2>1
  <2>3. v[i + 1] = Op(p, v[i], q[i + 1])
    BY <1>2, <2>1
  <2>4. \A x \in S[(i + 1) - 1] : Op(p, x, q[i + 1]) \in S[i + 1]
    BY <2>1
  <2> QED
    BY <2>1, <2>2, <2>3, <2>4
<1>5. n \in T
  BY <1>3, <1>4, ByInduction
<1> QED
  BY <1>2, <1>5

\* In particular it stays in a set that Op does not lead out of.
LEMMA FoldedIn ==
    ASSUME NEW p, NEW base, NEW q, NEW n \in Nat, NEW X,
           base \in X,
           \A i \in 1 .. n : \A x \in X : Op(p, x, q[i]) \in X
    PROVE  Folded(n, p, base, q) \in X
<1> DEFINE S == [i \in 0 .. n |-> X]
<1>1. S[0] = X /\ S[n] = X /\ \A i \in 1 .. n : S[i - 1] = X /\ S[i] = X
  OBVIOUS
<1> HIDE DEF S
<1>2. base \in S[0]
  BY <1>1
<1>3. \A i \in 1 .. n : \A x \in S[i - 1] : Op(p, x, q[i]) \in S[i]
  BY <1>1
<1>4. Folded(n, p, base, q) \in S[n]
  BY <1>2, <1>3, FoldedThrough
<1> QED
  BY <1>1, <1>4
=============================================================================

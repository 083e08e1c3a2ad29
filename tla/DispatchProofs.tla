--------------------------- MODULE DispatchProofs ---------------------------
(***************************************************************************)
(* What Dispatch shows for an order of any size, any number of dialogs and *)
(* any amounts.                                                            *)
(***************************************************************************)
EXTENDS Dispatch, FiniteSetTheorems, TLAPS

\* Typing, for every number of dialogs: the two writes of updateDispatchAmount
\* keep the order document readable as an OrderCartModel.
THEOREM TypeCorrect == Spec => []TypeOK
<1> USE LinesAssumption, TotalAssumption, AmountsAssumption
<1>1. Closed \in DialogState /\ Stuck \in DialogState
  BY DEF Closed, Stuck, DialogState, Entry
<1>2. Init => TypeOK
  BY <1>1 DEF Init, TypeOK, OrderCartModel, OrderStatus, Entry
<1>3. TypeOK /\ [Next]_vars => TypeOK'
  <2> SUFFICES ASSUME TypeOK, [Next]_vars PROVE TypeOK'
    OBVIOUS
  <2> USE DEF TypeOK
  <2>0. ASSUME NEW d \in Dialogs
        PROVE  /\ dialog[d] \in DialogState /\ dialog[d].e.line \in Lines
               /\ dialog[d].amount \in Nat
               /\ Dispatched(d) \in Entry /\ StatusAfter(d) \in OrderStatus
    BY DEF Dispatched, StatusAfter, DialogState, Entry, OrderStatus
  <2>1. ASSUME NEW d \in Dialogs, NEW e \in order.items, Open(d, e)
        PROVE  TypeOK'
    BY <2>1 DEF Open, OpenOn, OrderCartModel, DialogState, Entry, histories
  <2>2. ASSUME NEW d \in Dialogs, NEW c \in Dialogs,
               NEW e \in order.items \cup {Dispatched(c)}, OpenOver(d, c, e)
        PROVE  TypeOK'
    <3>1. e \in Entry
      BY <2>0 DEF OrderCartModel
    <3>2. order.deliveredQuantity + dialog[c].amount \in Nat
      BY <2>0 DEF OrderCartModel
    <3> QED
      BY <2>2, <3>1, <3>2 DEF OpenOver, OpenOn, Increment, DialogState, histories
  <2>3. ASSUME NEW d \in Dialogs, Cancel(d) \/ OkEmpty(d) PROVE TypeOK'
    BY <2>3, <1>1 DEF Cancel, OkEmpty, histories
  <2>4. ASSUME NEW d \in Dialogs, NEW n \in Amounts, Ok(d, n) PROVE TypeOK'
    <3>1. n \in Nat /\ dialog[d] \in DialogState
      OBVIOUS
    <3>2. [dialog[d] EXCEPT !.step = "removing", !.amount = n] \in DialogState
      BY <3>1 DEF DialogState
    <3>3. dialog' \in [Dialogs -> DialogState]
      BY <2>4, <3>2 DEF Ok
    <3> QED
      BY <2>4, <3>3 DEF Ok, histories
  <2>5. ASSUME NEW d \in Dialogs, NEW answered \in BOOLEAN, RemoveLine(d, answered)
        PROVE  TypeOK'
    <3>1. dialog'[d] \in DialogState /\ dialog' \in [Dialogs -> DialogState]
      BY <2>5, <1>1 DEF RemoveLine, DialogState
    <3> QED
      BY <2>5, <2>0, <3>1 DEF RemoveLine, ArrayRemove, OrderCartModel
  <2>6. ASSUME NEW d \in Dialogs, NEW answered \in BOOLEAN, AddLine(d, answered)
        PROVE  TypeOK'
    <3>1. order' \in OrderCartModel
      BY <2>6, <2>0 DEF AddLine, ArrayUnion, Increment, OrderCartModel
    <3>2. dialog' \in [Dialogs -> DialogState]
      BY <2>6, <1>1 DEF AddLine, Count, Settled, DialogState
    <3>3. shipped' \in [Lines -> Nat] /\ recounted' \in Nat
      BY <2>6, <2>0 DEF AddLine, Count
    <3> QED
      BY <2>6, <3>1, <3>2, <3>3 DEF AddLine, Count
  <2>7. ASSUME NEW d \in Dialogs, Refuse(d) PROVE TypeOK'
    <3>1. dialog' \in [Dialogs -> DialogState]
      BY <2>7, <1>1 DEF Refuse, Settled, DialogState
    <3> QED
      BY <2>7, <2>0, <3>1 DEF Refuse, DropHeldLine
  <2>8. ASSUME NEW d \in Dialogs, Kill(d) PROVE TypeOK'
    BY <2>8, <2>0, <1>1 DEF Kill, DropHeldLine
  <2>9. ASSUME NEW d \in Dialogs, KillKept(d) PROVE TypeOK'
    BY <2>9, <2>0 DEF KillKept, DropHeldLine, DialogState
  <2>10. ASSUME NEW d \in Dialogs, SignOut(d) \/ SignIn(d) PROVE TypeOK'
    BY <2>10 DEF SignOut, SignIn, Device, histories
  <2>11. CASE UNCHANGED vars
    BY <2>11 DEF vars
  <2> QED
    BY <2>1, <2>2, <2>3, <2>4, <2>5, <2>6, <2>7, <2>8, <2>9, <2>10, <2>11 DEF Next
<1> QED
  BY <1>2, <1>3, PTL DEF Spec

----------------------------------------------------------------------------
(* The sum of a function over a finite set.                                *)

\* Induction over the natural numbers; the folds of that module are not needed.
Numbers == INSTANCE Induction WITH Op <- LAMBDA p, x, y : x

Picked(s) == CHOOSE x \in s : TRUE

\* g[s] is base and the values of f on s, for s within D: the recursive function
\* inside FoldFunction.
Summing(g, D, base, f) ==
    g = [s \in SUBSET D |->
            IF s = {} THEN base ELSE f[Picked(s)] + g[s \ {Picked(s)}]]

\* What FoldFunction unfolds to, with the sum.
Sum(base, f) ==
    (CHOOSE iter : iter = [s \in SUBSET DOMAIN f |->
        IF s = {} THEN base ELSE f[Picked(s)] + iter[s \ {Picked(s)}]])[DOMAIN f]

\* The subsets of a finite set, by their size.
LEMMA Smaller ==
    ASSUME NEW D, IsFiniteSet(D), NEW s \in SUBSET D
    PROVE  /\ Cardinality(D) \in Nat /\ Cardinality(s) \in Nat
           /\ Cardinality(s) <= Cardinality(D)
           /\ Cardinality(s) = 0 <=> s = {}
           /\ s # {} => /\ Picked(s) \in s /\ s \ {Picked(s)} \in SUBSET D
                        /\ Cardinality(s \ {Picked(s)}) = Cardinality(s) - 1
<1>1. /\ IsFiniteSet(s) /\ Cardinality(s) <= Cardinality(D)
      /\ Cardinality(D) \in Nat /\ Cardinality(s) \in Nat
  BY FS_Subset, FS_CardinalityType
<1>2. Cardinality(s) = 0 <=> s = {}
  BY <1>1, FS_EmptySet
<1>3. s # {} => Picked(s) \in s
  BY DEF Picked
<1>4. \A x \in s : Cardinality(s \ {x}) = Cardinality(s) - 1
  BY <1>1, FS_RemoveElement
<1> QED
  BY <1>1, <1>2, <1>3, <1>4

\* The recursive function exists.
LEMMA SummingExists ==
    ASSUME NEW D, IsFiniteSet(D), NEW base, NEW f
    PROVE  \E g : Summing(g, D, base, f)
<1> DEFINE Upto(g, n) == \A s \in SUBSET D : Cardinality(s) <= n =>
               g[s] = IF s = {} THEN base ELSE f[Picked(s)] + g[s \ {Picked(s)}]
           T == {n \in Nat : \E g : Upto(g, n)}
<1>1. 0 \in T
  <2> DEFINE g == [s \in SUBSET D |-> base]
  <2>1. \A s \in SUBSET D : g[s] = base
    OBVIOUS
  <2> HIDE DEF g
  <2>2. ASSUME NEW s \in SUBSET D, Cardinality(s) <= 0 PROVE s = {}
    <3> DEFINE c == Cardinality(s)
    <3>1. c \in Nat /\ c <= 0 /\ (c = 0 => s = {})
      BY <2>2, Smaller
    <3> HIDE DEF c
    <3> QED
      BY <3>1
  <2>3. Upto(g, 0)
    BY <2>1, <2>2
  <2> QED
    BY <2>3
<1>2. ASSUME NEW n \in Nat, n \in T PROVE n + 1 \in T
  <2>1. PICK g : Upto(g, n)
    BY <1>2
  <2> DEFINE h == [s \in SUBSET D |->
                     IF Cardinality(s) = n + 1 THEN f[Picked(s)] + g[s \ {Picked(s)}] ELSE g[s]]
  <2>2. \A s \in SUBSET D :
           h[s] = IF Cardinality(s) = n + 1 THEN f[Picked(s)] + g[s \ {Picked(s)}] ELSE g[s]
    OBVIOUS
  <2> HIDE DEF h
  <2>3. ASSUME NEW s \in SUBSET D, Cardinality(s) <= n + 1
        PROVE  h[s] = IF s = {} THEN base ELSE f[Picked(s)] + h[s \ {Picked(s)}]
    <3> DEFINE t == s \ {Picked(s)}
    <3>1. Cardinality(s) \in Nat /\ (Cardinality(s) = 0 <=> s = {})
      BY Smaller
    <3>2. s # {} => t \in SUBSET D /\ Cardinality(t) = Cardinality(s) - 1
      BY Smaller
    <3> HIDE DEF t
    <3> DEFINE c == Cardinality(s)
    <3>3. /\ c \in Nat /\ c <= n + 1 /\ (c = 0 <=> s = {})
          /\ s # {} => Cardinality(t) = c - 1
      BY <2>3, <3>1, <3>2
    <3> HIDE DEF c
    <3>4. s # {} => c - 1 # n + 1
      BY <3>3
    <3>5. s # {} => h[t] = g[t]
      BY <2>2, <3>2, <3>3, <3>4
    <3>6. CASE Cardinality(s) = n + 1
      <4>1. s # {} /\ h[s] = f[Picked(s)] + g[t]
        BY <2>2, <3>1, <3>6 DEF t
      <4> QED
        BY <3>5, <4>1 DEF t
    <3>7. CASE Cardinality(s) # n + 1
      <4>1. c <= n /\ c # n + 1
        BY <3>7, <3>3 DEF c
      <4>2. Cardinality(s) <= n /\ h[s] = g[s]
        BY <2>2, <4>1 DEF c
      <4>3. g[s] = IF s = {} THEN base ELSE f[Picked(s)] + g[t]
        BY <2>1, <4>2 DEF t
      <4> QED
        BY <3>5, <4>2, <4>3 DEF t
    <3> QED
      BY <3>6, <3>7
  <2>4. Upto(h, n + 1) /\ n + 1 \in Nat
    BY <2>3
  <2> HIDE DEF Upto
  <2> QED
    BY <2>4
<1>3. Cardinality(D) \in T
  <2> HIDE DEF T
  <2>1. Nat \subseteq T
    BY <1>1, <1>2, Numbers!ByInduction
  <2> QED
    BY <2>1, FS_CardinalityType
<1>4. PICK g : Upto(g, Cardinality(D))
  BY <1>3
<1>5. \A s \in SUBSET D :
         g[s] = IF s = {} THEN base ELSE f[Picked(s)] + g[s \ {Picked(s)}]
  BY <1>4, Smaller
<1> DEFINE h == [s \in SUBSET D |-> g[s]]
<1>6. \A s \in SUBSET D : h[s] = g[s] /\ s \ {Picked(s)} \in SUBSET D
  OBVIOUS
<1>7. h = [s \in SUBSET D |-> h[s]]
  OBVIOUS
<1> HIDE DEF h
<1>8. Summing(h, D, base, f)
  BY <1>5, <1>6, <1>7 DEF Summing
<1> QED
  BY <1>8

\* So the sum is what that function yields.
LEMMA SumIsSumming ==
    ASSUME NEW f, IsFiniteSet(DOMAIN f), NEW base
    PROVE  \E g : Summing(g, DOMAIN f, base, f) /\ Sum(base, f) = g[DOMAIN f]
<1> DEFINE D == DOMAIN f
           iter == CHOOSE iter : iter = [s \in SUBSET D |->
                      IF s = {} THEN base ELSE f[Picked(s)] + iter[s \ {Picked(s)}]]
<1>1. PICK g : Summing(g, D, base, f)
  BY SummingExists
<1>2. g = [s \in SUBSET D |-> IF s = {} THEN base ELSE f[Picked(s)] + g[s \ {Picked(s)}]]
  BY <1>1 DEF Summing
<1>3. iter = [s \in SUBSET D |-> IF s = {} THEN base ELSE f[Picked(s)] + iter[s \ {Picked(s)}]]
  BY <1>2, Zenon
<1>4. Sum(base, f) = iter[D]
  BY DEF Sum
<1> HIDE DEF iter
<1>5. Summing(iter, D, base, f)
  BY <1>3 DEF Summing
<1> QED
  BY <1>4, <1>5

\* An order has finitely many lines.
LEMMA LinesFinite == IsFiniteSet(Lines)
  BY LinesAssumption

\* Adding to the base adds as much to the sum.
LEMMA SumRaised ==
    ASSUME NEW f \in [Lines -> Nat], NEW base \in Nat, NEW m \in Nat
    PROVE  Sum(base + m, f) = Sum(base, f) + m
<1>1. DOMAIN f = Lines /\ base + m \in Nat
  OBVIOUS
<1>2. PICK g : Summing(g, Lines, base, f) /\ Sum(base, f) = g[Lines]
  BY <1>1, LinesFinite, SumIsSumming
<1>3. PICK j : Summing(j, Lines, base + m, f) /\ Sum(base + m, f) = j[Lines]
  BY <1>1, LinesFinite, SumIsSumming
<1> DEFINE Good(s) == g[s] \in Nat /\ j[s] = g[s] + m
           T == {n \in Nat : \A s \in SUBSET Lines : Cardinality(s) = n => Good(s)}
<1>4. \A s \in SUBSET Lines :
         /\ g[s] = IF s = {} THEN base ELSE f[Picked(s)] + g[s \ {Picked(s)}]
         /\ j[s] = IF s = {} THEN base + m ELSE f[Picked(s)] + j[s \ {Picked(s)}]
  BY <1>2, <1>3 DEF Summing
<1>5. 0 \in T
  <2>1. \A s \in SUBSET Lines : Cardinality(s) = 0 => s = {}
    BY LinesFinite, Smaller
  <2>2. Good({})
    <3>1. {} \in SUBSET Lines
      OBVIOUS
    <3>2. g[{}] = base /\ j[{}] = base + m
      BY <1>4, <3>1
    <3> QED
      BY <3>2
  <2> HIDE DEF Good
  <2> QED
    BY <2>1, <2>2
<1>6. ASSUME NEW n \in Nat, n \in T PROVE n + 1 \in T
  <2> SUFFICES ASSUME NEW s \in SUBSET Lines, Cardinality(s) = n + 1 PROVE Good(s)
    OBVIOUS
  <2> DEFINE x == Picked(s)
             t == s \ {x}
  <2>1. s # {} /\ x \in s /\ t \in SUBSET Lines /\ Cardinality(t) = n
    BY LinesFinite, Smaller
  <2>2. Good(t)
    BY <1>6, <2>1
  <2>3. g[s] = f[x] + g[t] /\ j[s] = f[x] + j[t] /\ f[x] \in Nat
    BY <1>4, <2>1
  <2> HIDE DEF x, t
  <2> QED
    BY <2>2, <2>3
<1>7. Good(Lines)
  <2>1. Cardinality(Lines) \in T
    <3> HIDE DEF T
    <3>1. Nat \subseteq T
      BY <1>5, <1>6, Numbers!ByInduction
    <3> QED
      BY <3>1, LinesFinite, FS_CardinalityType
  <2> QED
    BY <2>1
<1> QED
  BY <1>2, <1>3, <1>7

\* Adding to one of the values adds as much to the sum.
LEMMA SumGrows ==
    ASSUME NEW f \in [Lines -> Nat], NEW base \in Nat, NEW k \in Nat, NEW a \in Lines
    PROVE  Sum(base, [f EXCEPT ![a] = f[a] + k]) = Sum(base, f) + k
<1> DEFINE h == [f EXCEPT ![a] = f[a] + k]
<1>1. /\ DOMAIN f = Lines /\ DOMAIN h = Lines
      /\ \A x \in Lines : f[x] \in Nat /\ h[x] = IF x = a THEN f[x] + k ELSE f[x]
  OBVIOUS
<1> HIDE DEF h
<1>2. PICK g : Summing(g, Lines, base, f) /\ Sum(base, f) = g[Lines]
  BY <1>1, LinesFinite, SumIsSumming
<1>3. PICK j : Summing(j, Lines, base, h) /\ Sum(base, h) = j[Lines]
  BY <1>1, LinesFinite, SumIsSumming
<1> DEFINE Good(s) == g[s] \in Nat /\ j[s] = g[s] + (IF a \in s THEN k ELSE 0)
           T == {n \in Nat : \A s \in SUBSET Lines : Cardinality(s) = n => Good(s)}
<1>4. \A s \in SUBSET Lines :
         /\ g[s] = IF s = {} THEN base ELSE f[Picked(s)] + g[s \ {Picked(s)}]
         /\ j[s] = IF s = {} THEN base ELSE h[Picked(s)] + j[s \ {Picked(s)}]
  BY <1>2, <1>3 DEF Summing
<1>5. 0 \in T
  <2>1. \A s \in SUBSET Lines : Cardinality(s) = 0 => s = {}
    BY LinesFinite, Smaller
  <2>2. Good({})
    <3>1. {} \in SUBSET Lines /\ a \notin {}
      OBVIOUS
    <3>2. g[{}] = base /\ j[{}] = base
      BY <1>4, <3>1
    <3> QED
      BY <3>1, <3>2
  <2> HIDE DEF Good
  <2> QED
    BY <2>1, <2>2
<1>6. ASSUME NEW n \in Nat, n \in T PROVE n + 1 \in T
  <2> SUFFICES ASSUME NEW s \in SUBSET Lines, Cardinality(s) = n + 1 PROVE Good(s)
    OBVIOUS
  <2> DEFINE x == Picked(s)
             t == s \ {x}
  <2>1. s # {} /\ x \in s /\ t \in SUBSET Lines /\ Cardinality(t) = n
    BY LinesFinite, Smaller
  <2>2. Good(t)
    BY <1>6, <2>1
  <2>3. g[s] = f[x] + g[t] /\ j[s] = h[x] + j[t]
    BY <1>4, <2>1
  <2>4. /\ x \notin t /\ (a \in s <=> a \in t \/ a = x)
        /\ f[x] \in Nat /\ h[x] = IF x = a THEN f[x] + k ELSE f[x]
    BY <1>1, <2>1
  <2> HIDE DEF x, t
  <2>5. CASE x = a
    BY <2>2, <2>3, <2>4, <2>5
  <2>6. CASE x # a
    BY <2>2, <2>3, <2>4, <2>6
  <2> QED
    BY <2>5, <2>6
<1>7. Good(Lines)
  <2>1. Cardinality(Lines) \in T
    <3> HIDE DEF T
    <3>1. Nat \subseteq T
      BY <1>5, <1>6, Numbers!ByInduction
    <3> QED
      BY <3>1, LinesFinite, FS_CardinalityType
  <2> QED
    BY <2>1
<1> QED
  BY <1>2, <1>3, <1>7 DEF h

\* The sum of nothing.
LEMMA SumZero ==
    ASSUME NEW f, f = [x \in Lines |-> 0]
    PROVE  Sum(0, f) = 0
<1>1. DOMAIN f = Lines /\ \A x \in Lines : f[x] = 0
  OBVIOUS
<1>2. PICK g : Summing(g, Lines, 0, f) /\ Sum(0, f) = g[Lines]
  BY <1>1, LinesFinite, SumIsSumming
<1> DEFINE T == {n \in Nat : \A s \in SUBSET Lines : Cardinality(s) = n => g[s] = 0}
<1>3. \A s \in SUBSET Lines : g[s] = IF s = {} THEN 0 ELSE f[Picked(s)] + g[s \ {Picked(s)}]
  BY <1>2 DEF Summing
<1>4. 0 \in T
  BY <1>3, LinesFinite, Smaller
<1>5. ASSUME NEW n \in Nat, n \in T PROVE n + 1 \in T
  <2> SUFFICES ASSUME NEW s \in SUBSET Lines, Cardinality(s) = n + 1 PROVE g[s] = 0
    OBVIOUS
  <2>1. s # {} /\ Picked(s) \in s /\ s \ {Picked(s)} \in SUBSET Lines
        /\ Cardinality(s \ {Picked(s)}) = n
    BY LinesFinite, Smaller
  <2>2. g[s \ {Picked(s)}] = 0 /\ f[Picked(s)] = 0
    BY <1>1, <1>5, <2>1
  <2>3. g[s] = f[Picked(s)] + g[s \ {Picked(s)}]
    BY <1>3, <2>1
  <2> QED
    BY <2>2, <2>3
<1>6. Cardinality(Lines) \in T
  <2> HIDE DEF T
  <2>1. Nat \subseteq T
    BY <1>4, <1>5, Numbers!ByInduction
  <2> QED
    BY <2>1, LinesFinite, FS_CardinalityType
<1> QED
  BY <1>2, <1>6

\* The property, in terms of the sum.
LEMMA LedgerIsSum == DeliveredIsLedger <=> order.deliveredQuantity = Sum(recounted, shipped)
  BY DEF DeliveredIsLedger, FoldFunction, FoldFunctionOnSet, MapThenFoldSet, Sum, Picked

\* Only the second write of updateDispatchAmount touches deliveredQuantity, and
\* what it adds there it adds to the pieces dispatched of one line, or, sent again,
\* to those counted twice.
LEMMA LedgerStep ==
    ASSUME TypeOK, order.deliveredQuantity = Sum(recounted, shipped),
           NEW d \in Dialogs, NEW answered \in BOOLEAN,
           AddLine(d, answered)
    PROVE  order'.deliveredQuantity = Sum(recounted', shipped')
<1> DEFINE l == dialog[d].e.line
           n == dialog[d].amount
           q == order.deliveredQuantity
<1>1. /\ l \in Lines /\ n \in Nat /\ q \in Nat /\ recounted \in Nat /\ shipped \in [Lines -> Nat]
  BY DEF TypeOK, DialogState, Entry, OrderCartModel
<1>2. order'.deliveredQuantity = q + n
  BY DEF AddLine, Increment
<1>3. q = Sum(recounted, shipped)
  OBVIOUS
<1>4. Sum(recounted', shipped') = Sum(recounted, shipped) + n
  <2>1. CASE dialog[d].applied
    <3>1. recounted' = recounted + n /\ shipped' = shipped
      BY <2>1 DEF AddLine, Count
    <3> HIDE DEF n, l
    <3>2. Sum(recounted + n, shipped) = Sum(recounted, shipped) + n
      BY <1>1, SumRaised
    <3> QED
      BY <3>1, <3>2
  <2>2. CASE ~dialog[d].applied
    <3>1. recounted' = recounted /\ shipped' = [shipped EXCEPT ![l] = shipped[l] + n]
      BY <2>2 DEF AddLine, Count
    <3> HIDE DEF n, l
    <3>2. Sum(recounted, [shipped EXCEPT ![l] = shipped[l] + n]) = Sum(recounted, shipped) + n
      BY <1>1, SumGrows
    <3> QED
      BY <3>1, <3>2
  <2> QED
    BY <2>1, <2>2
<1> QED
  BY <1>2, <1>3, <1>4

\* For an order of any size, any number of dialogs and any amounts: concurrent
\* increments of deliveredQuantity are not lost, and what a lost answer adds a
\* second time is the only excess.
THEOREM DeliveredIsLedgerHolds == Spec => []DeliveredIsLedger
<1> DEFINE Ledger == order.deliveredQuantity = Sum(recounted, shipped)
<1>1. Init => Ledger
  <2> SUFFICES ASSUME Init PROVE Ledger
    OBVIOUS
  <2>1. shipped = [l \in Lines |-> 0] /\ recounted = 0 /\ order.deliveredQuantity = 0
    BY DEF Init
  <2>2. Sum(0, shipped) = 0
    BY <2>1, SumZero
  <2> QED
    BY <2>1, <2>2
<1>2. TypeOK /\ Ledger /\ [Next]_vars => Ledger'
  <2> SUFFICES ASSUME TypeOK, Ledger, [Next]_vars PROVE Ledger'
    OBVIOUS
  <2>1. ASSUME order'.deliveredQuantity = order.deliveredQuantity, UNCHANGED <<shipped, recounted>>
        PROVE  Ledger'
    BY <2>1
  <2>2. ASSUME NEW d \in Dialogs, NEW e, Open(d, e) PROVE Ledger'
    BY <2>1, <2>2 DEF Open, OpenOn, histories
  <2>3. ASSUME NEW d \in Dialogs, NEW c \in Dialogs, NEW e, OpenOver(d, c, e)
        PROVE  Ledger'
    BY <2>1, <2>3 DEF OpenOver, OpenOn, histories
  <2>4. ASSUME NEW d \in Dialogs, Cancel(d) \/ OkEmpty(d) \/ (\E n \in Amounts : Ok(d, n))
        PROVE  Ledger'
    BY <2>1, <2>4 DEF Cancel, OkEmpty, Ok, histories
  <2>5. ASSUME NEW d \in Dialogs, NEW answered \in BOOLEAN, RemoveLine(d, answered)
        PROVE  Ledger'
    <3>1. order'.deliveredQuantity = order.deliveredQuantity
      BY <2>5 DEF RemoveLine, TypeOK, OrderCartModel
    <3> QED
      BY <2>1, <2>5, <3>1 DEF RemoveLine
  <2>6. ASSUME NEW d \in Dialogs, NEW answered \in BOOLEAN, AddLine(d, answered)
        PROVE  Ledger'
    BY <2>6, LedgerStep
  <2>7. ASSUME NEW d \in Dialogs, Refuse(d) \/ Kill(d) \/ KillKept(d) PROVE Ledger'
    BY <2>1, <2>7 DEF Refuse, Kill, KillKept
  <2>8. ASSUME NEW d \in Dialogs, SignOut(d) \/ SignIn(d) PROVE Ledger'
    BY <2>1, <2>8 DEF SignOut, SignIn, histories
  <2>9. CASE UNCHANGED vars
    BY <2>1, <2>9 DEF vars
  <2> QED
    BY <2>2, <2>3, <2>4, <2>5, <2>6, <2>7, <2>8, <2>9 DEF Next
<1>3. Ledger => DeliveredIsLedger
  BY LedgerIsSum
<1> HIDE DEF Ledger
<1> QED
  BY <1>1, <1>2, <1>3, TypeCorrect, PTL DEF Spec

----------------------------------------------------------------------------
(* The copies a dialog was opened with lag behind the document and the     *)
(* write they were opened over, and never run ahead of both.  This is what *)
(* makes the next two properties inductive.                                *)
EntryLags(d) ==
    \/ dialog[d].e.dispatched <= shipped[dialog[d].e.line]
    \/ dialog[d].e.line \in misled
    \/ \E c \in dialog[d].over :
          /\ dialog[d].e.line = dialog[c].e.line
          /\ dialog[d].e.dispatched = dialog[c].e.dispatched + dialog[c].amount

TotalLags(d) ==
    \/ dialog[d].delivered <= order.deliveredQuantity
    \/ misled # {}
    \/ \E c \in dialog[d].over :
          dialog[d].delivered <= order.deliveredQuantity + dialog[c].amount

\* A dialog is opened over a second write under way, whose own copies are not
\* over anything, and writes nothing before that.
OverPending(d) ==
    /\ \A c \in dialog[d].over : c # d /\ dialog[c].step = "adding"
    /\ dialog[d].over # {}
           => dialog[d].step \in {"open", "removing", "orphaned"} /\ ~dialog[d].applied

\* A second write that has taken effect has been counted.
AppliedCounts(d) ==
    dialog[d].step = "adding" /\ dialog[d].applied
        => \/ dialog[d].e.dispatched + dialog[d].amount <= shipped[dialog[d].e.line]
           \/ dialog[d].e.line \in misled

CopiesLag ==
    \A d \in Dialogs :
        EntryLags(d) /\ TotalLags(d) /\ OverPending(d) /\ AppliedCounts(d)

\* The status comes no earlier than the stored total allows.
StatusLags ==
    order.status = "delivered" => order.deliveredQuantity >= Total \/ misled # {}

LagInv == TypeOK /\ CopiesLag /\ NeverOverstated /\ StatusLags

\* The numbers in a dialog are numbers.
LEMMA DialogType ==
    ASSUME TypeOK, NEW d \in Dialogs
    PROVE  /\ dialog[d] \in DialogState
           /\ dialog[d].e \in Entry
           /\ dialog[d].e.line \in Lines /\ dialog[d].e.dispatched \in Nat
           /\ dialog[d].amount \in Nat /\ dialog[d].delivered \in Nat
           /\ dialog[d].over \subseteq Dialogs
           /\ shipped[dialog[d].e.line] \in Nat
           /\ order.deliveredQuantity \in Nat /\ order.items \subseteq Entry
           /\ Dispatched(d).line = dialog[d].e.line
           /\ Dispatched(d).dispatched = dialog[d].e.dispatched + dialog[d].amount
BY DEF TypeOK, OrderCartModel, DialogState, Entry, Dispatched

\* A dialog that is closed or stuck holds nothing back.
LEMMA ClosedFields ==
    /\ Closed.step = "closed" /\ Closed.over = {} /\ Closed.e.dispatched = 0
    /\ Closed.delivered = 0 /\ Closed.e.line \in Lines
    /\ Stuck.step = "stuck" /\ Stuck.over = {} /\ Stuck.e.dispatched = 0
    /\ Stuck.delivered = 0 /\ Stuck.e.line \in Lines
BY LinesAssumption DEF Closed, Stuck

\* Copies that stay as they are still lag when the document only grows.
LEMMA KeepLag ==
    ASSUME TypeOK, TypeOK', NEW x \in Dialogs, EntryLags(x), TotalLags(x),
           dialog'[x].e = dialog[x].e, dialog'[x].delivered = dialog[x].delivered,
           dialog'[x].over = dialog[x].over,
           \A c \in dialog[x].over :
               dialog'[c].e = dialog[c].e /\ dialog'[c].amount = dialog[c].amount,
           \A k \in Lines : shipped[k] <= shipped'[k],
           order.deliveredQuantity <= order'.deliveredQuantity,
           misled \subseteq misled'
    PROVE  EntryLags(x)' /\ TotalLags(x)'
<1>1. /\ dialog[x].e.line \in Lines /\ dialog[x].e.dispatched \in Nat
      /\ dialog[x].delivered \in Nat /\ dialog[x].over \subseteq Dialogs
      /\ order.deliveredQuantity \in Nat /\ order'.deliveredQuantity \in Nat
      /\ shipped \in [Lines -> Nat] /\ shipped' \in [Lines -> Nat]
      /\ \A c \in Dialogs : dialog[c].amount \in Nat
  BY DialogType DEF TypeOK, OrderCartModel
<1>2. EntryLags(x)'
  BY <1>1 DEF EntryLags
<1>3. TotalLags(x)'
  BY <1>1 DEF TotalLags
<1> QED
  BY <1>2, <1>3

\* A dialog that has just been closed, or got stuck, has nothing to lag.
LEMMA EmptyLag ==
    ASSUME TypeOK', NEW x \in Dialogs, dialog'[x] \in {Closed, Stuck}
    PROVE  EntryLags(x)' /\ TotalLags(x)' /\ OverPending(x)' /\ AppliedCounts(x)'
BY ClosedFields
DEF EntryLags, TotalLags, OverPending, AppliedCounts, TypeOK, OrderCartModel

\* Steps of dialog d that touch neither the totals nor a dialog opened over
\* another: every other dialog is as good as before.
LEMMA OthersKeep ==
    ASSUME TypeOK, TypeOK', CopiesLag, NEW d \in Dialogs, NEW x \in Dialogs \ {d},
           dialog[d].step # "adding", dialog'[x] = dialog[x],
           \A c \in Dialogs \ {d} : dialog'[c] = dialog[c],
           UNCHANGED <<order.deliveredQuantity, shipped, misled>>
    PROVE  EntryLags(x)' /\ TotalLags(x)' /\ OverPending(x)' /\ AppliedCounts(x)'
<1>1. d \notin dialog[x].over /\ dialog[x].over \subseteq Dialogs
  BY DialogType DEF CopiesLag, OverPending
<1>2. EntryLags(x) /\ TotalLags(x) /\ OverPending(x) /\ AppliedCounts(x)
  BY DEF CopiesLag
<1>3. \A k \in Lines : shipped[k] <= shipped'[k]
  BY DEF TypeOK
<1>4. order.deliveredQuantity <= order'.deliveredQuantity
  BY DEF TypeOK, OrderCartModel
<1>5. EntryLags(x)' /\ TotalLags(x)'
  BY <1>1, <1>2, <1>3, <1>4, KeepLag
<1>6. OverPending(x)' /\ AppliedCounts(x)'
  BY <1>1, <1>2 DEF OverPending, AppliedCounts
<1> QED
  BY <1>5, <1>6

\* The second write of dialog d takes effect.
LEMMA LagAddLine ==
    ASSUME LagInv, TypeOK', NEW d \in Dialogs, NEW answered \in BOOLEAN,
           AddLine(d, answered)
    PROVE  LagInv'
<1> DEFINE a == dialog[d].amount
           l == dialog[d].e.line
<1>0. TypeOK /\ CopiesLag /\ NeverOverstated /\ StatusLags
  BY DEF LagInv
<1>1. /\ a \in Nat /\ l \in Lines
      /\ dialog[d].delivered \in Nat /\ dialog[d].e.dispatched \in Nat
      /\ order.deliveredQuantity \in Nat /\ shipped[l] \in Nat
      /\ shipped \in [Lines -> Nat] /\ shipped' \in [Lines -> Nat]
  BY <1>0, DialogType DEF TypeOK
<1>2. /\ order'.deliveredQuantity = order.deliveredQuantity + a
      /\ order'.items = order.items \cup {Dispatched(d)}
      /\ order'.status = StatusAfter(d)
      /\ misled' = misled /\ dialog[d].step = "adding"
      /\ dialog' = IF answered THEN Settled(d, Closed)
                   ELSE [dialog EXCEPT ![d].applied = TRUE]
      /\ shipped' = IF dialog[d].applied THEN shipped
                    ELSE [shipped EXCEPT ![l] = @ + a]
  BY DEF AddLine, Count, ArrayUnion, Increment
<1>3. \A k \in Lines : shipped[k] <= shipped'[k]
  BY <1>1, <1>2
<1>4. order.deliveredQuantity <= order'.deliveredQuantity
  BY <1>1, <1>2
<1>5. EntryLags(d) /\ TotalLags(d) /\ dialog[d].over = {} /\ AppliedCounts(d)
  BY <1>0, <1>2 DEF CopiesLag, OverPending
<1>6. dialog[d].e.dispatched + a <= shipped'[l] \/ l \in misled
  <2>1. CASE dialog[d].applied
    BY <1>2, <1>5, <2>1 DEF AppliedCounts
  <2>2. CASE ~dialog[d].applied
    BY <1>1, <1>2, <1>5, <2>2 DEF EntryLags
  <2> QED
    BY <2>1, <2>2
<1>7. dialog[d].delivered + a <= order'.deliveredQuantity \/ misled # {}
  BY <1>1, <1>2, <1>5 DEF TotalLags
<1>8. ASSUME NEW x \in Dialogs
      PROVE  EntryLags(x)' /\ TotalLags(x)' /\ OverPending(x)' /\ AppliedCounts(x)'
  <2>0. /\ EntryLags(x) /\ TotalLags(x) /\ OverPending(x) /\ AppliedCounts(x)
        /\ dialog[x].over \subseteq Dialogs /\ dialog[x] \in DialogState
        /\ dialog[x].e.line \in Lines /\ dialog[x].e.dispatched \in Nat
        /\ dialog[x].delivered \in Nat /\ dialog[x].amount \in Nat
    BY <1>0, DialogType DEF CopiesLag
  <2>1. CASE ~answered
    <3>1. \A c \in Dialogs : /\ dialog'[c].e = dialog[c].e
                             /\ dialog'[c].amount = dialog[c].amount
                             /\ dialog'[c].delivered = dialog[c].delivered
                             /\ dialog'[c].over = dialog[c].over
                             /\ dialog'[c].step = dialog[c].step
                             /\ c # d => dialog'[c].applied = dialog[c].applied
      <4>1. dialog' = [dialog EXCEPT ![d].applied = TRUE]
        BY <1>2, <2>1
      <4>2. dialog \in [Dialogs -> DialogState]
        BY <1>0 DEF TypeOK
      <4>3. \A c \in Dialogs \ {d} : dialog'[c] = dialog[c]
        BY <4>1, <4>2
      <4>4. dialog'[d] = [dialog[d] EXCEPT !.applied = TRUE]
        BY <4>1, <4>2
      <4>5. dialog[d] \in DialogState
        BY <4>2
      <4> QED
        BY <4>3, <4>4, <4>5 DEF DialogState
    <3>2. EntryLags(x)' /\ TotalLags(x)'
      BY <1>0, <1>2, <1>3, <1>4, <2>0, <3>1, KeepLag
    <3>3. OverPending(x)'
      BY <1>5, <2>0, <3>1 DEF OverPending
    <3>4. AppliedCounts(x)'
      <4>0. misled' = misled
        BY <1>2
      <4>1. CASE x = d
        <5>1. dialog'[d].e = dialog[d].e /\ dialog'[d].amount = dialog[d].amount
          BY <3>1
        <5> QED
          BY <1>6, <4>0, <4>1, <5>1 DEF AppliedCounts
      <4>2. CASE x # d
        <5>1. /\ dialog'[x].e = dialog[x].e /\ dialog'[x].amount = dialog[x].amount
              /\ dialog'[x].step = dialog[x].step /\ dialog'[x].applied = dialog[x].applied
          BY <3>1, <4>2
        <5>2. /\ shipped[dialog[x].e.line] <= shipped'[dialog[x].e.line]
              /\ shipped[dialog[x].e.line] \in Nat /\ shipped'[dialog[x].e.line] \in Nat
          BY <1>1, <1>3, <2>0
        <5> QED
          BY <2>0, <4>0, <5>1, <5>2 DEF AppliedCounts
      <4> QED
        BY <4>1, <4>2
    <3> QED
      BY <3>2, <3>3, <3>4
  <2>2. CASE answered /\ x = d
    <3>1. dialog'[x] = Closed
      BY <1>2, <2>2 DEF Settled
    <3> QED
      BY <3>1, EmptyLag
  <2>3. CASE answered /\ x # d
    <3>1. \A c \in Dialogs \ {d} : dialog'[c] = [dialog[c] EXCEPT !.over = @ \ {d}]
      BY <1>2, <2>3 DEF Settled
    <3>2. \A c \in Dialogs \ {d} : /\ dialog'[c].e = dialog[c].e
                                   /\ dialog'[c].amount = dialog[c].amount
                                   /\ dialog'[c].delivered = dialog[c].delivered
                                   /\ dialog'[c].over = dialog[c].over \ {d}
                                   /\ dialog'[c].step = dialog[c].step
                                   /\ dialog'[c].applied = dialog[c].applied
      BY <1>0, <3>1 DEF TypeOK, DialogState
    <3>3. EntryLags(x)'
      <4>1. CASE dialog[x].e.dispatched <= shipped[dialog[x].e.line]
        BY <1>1, <1>3, <2>0, <2>3, <3>2, <4>1 DEF EntryLags
      <4>2. CASE dialog[x].e.line \in misled
        BY <1>2, <2>3, <3>2, <4>2 DEF EntryLags
      <4>3. ASSUME NEW c \in dialog[x].over, dialog[x].e.line = dialog[c].e.line,
                   dialog[x].e.dispatched = dialog[c].e.dispatched + dialog[c].amount
            PROVE  EntryLags(x)'
        <5>1. CASE c = d
          BY <1>2, <1>6, <2>3, <3>2, <4>3, <5>1 DEF EntryLags
        <5>2. CASE c # d
          BY <2>0, <2>3, <3>2, <4>3, <5>2 DEF EntryLags
        <5> QED
          BY <5>1, <5>2
      <4> QED
        BY <2>0, <4>1, <4>2, <4>3 DEF EntryLags
    <3>4. TotalLags(x)'
      <4>1. CASE dialog[x].delivered <= order.deliveredQuantity
        BY <1>1, <1>2, <2>0, <2>3, <3>2, <4>1 DEF TotalLags
      <4>2. CASE misled # {}
        BY <1>2, <4>2 DEF TotalLags
      <4>3. ASSUME NEW c \in dialog[x].over,
                   dialog[x].delivered <= order.deliveredQuantity + dialog[c].amount
            PROVE  TotalLags(x)'
        <5>1. CASE c = d
          BY <1>1, <1>2, <2>0, <2>3, <3>2, <4>3, <5>1 DEF TotalLags
        <5>2. CASE c # d
          <6>1. /\ c \in Dialogs \ {d} /\ dialog[c].amount \in Nat
                /\ dialog'[c].amount = dialog[c].amount
            BY <1>0, <2>0, <3>2, <5>2, DialogType
          <6> QED
            BY <1>1, <1>2, <2>0, <2>3, <3>2, <4>3, <6>1 DEF TotalLags
        <5> QED
          BY <5>1, <5>2
      <4> QED
        BY <2>0, <4>1, <4>2, <4>3 DEF TotalLags
    <3>5. OverPending(x)'
      BY <2>0, <2>3, <3>2 DEF OverPending
    <3>6. AppliedCounts(x)'
      BY <1>1, <1>2, <1>3, <2>0, <2>3, <3>2 DEF AppliedCounts
    <3> QED
      BY <3>3, <3>4, <3>5, <3>6
  <2> QED
    BY <2>1, <2>2, <2>3
<1>9. NeverOverstated'
  <2>1. /\ Dispatched(d).line = l
        /\ Dispatched(d).dispatched = dialog[d].e.dispatched + a
        /\ order.items \subseteq Entry
    BY <1>0, DialogType
  <2>2. \A e \in order.items : e.line \in Lines /\ e.dispatched \in Nat
    BY <2>1 DEF Entry
  <2>3. \A e \in order.items : e.dispatched <= shipped'[e.line] \/ e.line \in misled'
    BY <1>0, <1>1, <1>2, <1>3, <2>2 DEF NeverOverstated
  <2> QED
    BY <1>2, <1>6, <2>1, <2>3 DEF NeverOverstated
<1>10. StatusLags'
  BY <1>1, <1>2, <1>7, TotalAssumption DEF StatusAfter, StatusLags
<1> QED
  BY <1>8, <1>9, <1>10 DEF LagInv, CopiesLag

\* The write under way of dialog d is refused.
LEMMA LagRefuse ==
    ASSUME LagInv, TypeOK', NEW d \in Dialogs, Refuse(d)
    PROVE  LagInv'
<1>0. TypeOK /\ CopiesLag /\ NeverOverstated /\ StatusLags
  BY DEF LagInv
<1>1. /\ order' = order /\ shipped' = shipped /\ misled \subseteq misled'
      /\ dialog'[d] \in {Closed, Stuck}
      /\ \A c \in Dialogs \ {d} : dialog'[c] = [dialog[c] EXCEPT !.over = @ \ {d}]
      /\ \A c \in Dialogs : d \in dialog[c].over => dialog[d].e.line \in misled'
  BY DEF Refuse, Settled
<1>2. ASSUME NEW x \in Dialogs \ {d}
      PROVE  EntryLags(x)' /\ TotalLags(x)' /\ OverPending(x)' /\ AppliedCounts(x)'
  <2>0. /\ EntryLags(x) /\ TotalLags(x) /\ OverPending(x) /\ AppliedCounts(x)
        /\ dialog[x].over \subseteq Dialogs /\ dialog[x] \in DialogState
    BY <1>0, DialogType DEF CopiesLag
  <2>1. \A c \in Dialogs \ {d} : /\ dialog'[c].e = dialog[c].e
                                 /\ dialog'[c].amount = dialog[c].amount
                                 /\ dialog'[c].delivered = dialog[c].delivered
                                 /\ dialog'[c].over = dialog[c].over \ {d}
                                 /\ dialog'[c].step = dialog[c].step
                                 /\ dialog'[c].applied = dialog[c].applied
    BY <1>0, <1>1 DEF TypeOK, DialogState
  <2>2. EntryLags(x)' /\ TotalLags(x)'
    <3>1. CASE d \in dialog[x].over
      <4>1. dialog[d].e.line \in misled'
        BY <1>1, <3>1
      <4> QED
        BY <1>1, <2>0, <2>1, <4>1 DEF EntryLags, TotalLags
    <3>2. CASE d \notin dialog[x].over
      BY <1>1, <2>0, <2>1, <3>2 DEF EntryLags, TotalLags
    <3> QED
      BY <3>1, <3>2
  <2>3. OverPending(x)' /\ AppliedCounts(x)'
    BY <1>1, <2>0, <2>1 DEF OverPending, AppliedCounts
  <2> QED
    BY <2>2, <2>3
<1>3. EntryLags(d)' /\ TotalLags(d)' /\ OverPending(d)' /\ AppliedCounts(d)'
  BY <1>1, EmptyLag
<1>4. NeverOverstated' /\ StatusLags'
  BY <1>0, <1>1 DEF NeverOverstated, StatusLags
<1> QED
  BY <1>2, <1>3, <1>4 DEF LagInv, CopiesLag

\* The application of dialog d ends, and with it the dialogs opened over it.
LEMMA LagKill ==
    ASSUME LagInv, TypeOK', NEW d \in Dialogs, Kill(d)
    PROVE  LagInv'
<1>0. TypeOK /\ CopiesLag /\ NeverOverstated /\ StatusLags
  BY DEF LagInv
<1>1. /\ order' = order /\ shipped' = shipped /\ misled' = misled
      /\ dialog' = [c \in Dialogs |->
                       IF c = d \/ d \in dialog[c].over THEN Closed ELSE dialog[c]]
  BY DEF Kill
<1>2. ASSUME NEW x \in Dialogs
      PROVE  EntryLags(x)' /\ TotalLags(x)' /\ OverPending(x)' /\ AppliedCounts(x)'
  <2>0. /\ EntryLags(x) /\ TotalLags(x) /\ OverPending(x) /\ AppliedCounts(x)
        /\ dialog[x].over \subseteq Dialogs
    BY <1>0, DialogType DEF CopiesLag
  <2>1. CASE x = d \/ d \in dialog[x].over
    <3>1. dialog'[x] = Closed
      BY <1>1, <2>1
    <3> QED
      BY <3>1, EmptyLag
  <2>2. CASE ~(x = d \/ d \in dialog[x].over)
    <3>1. dialog'[x] = dialog[x]
      BY <1>1, <2>2
    <3>2. \A c \in dialog[x].over : dialog'[c] = dialog[c]
      <4> SUFFICES ASSUME NEW c \in dialog[x].over PROVE dialog'[c] = dialog[c]
        OBVIOUS
      <4>1. c \in Dialogs /\ c # d /\ dialog[c].step = "adding"
        BY <2>0, <2>2 DEF OverPending
      <4>2. dialog[c].over = {}
        BY <1>0, <4>1 DEF CopiesLag, OverPending
      <4> QED
        BY <1>1, <4>1, <4>2
    <3> QED
      BY <1>1, <2>0, <3>1, <3>2 DEF EntryLags, TotalLags, OverPending, AppliedCounts
  <2> QED
    BY <2>1, <2>2
<1>3. NeverOverstated' /\ StatusLags'
  BY <1>0, <1>1 DEF NeverOverstated, StatusLags
<1> QED
  BY <1>2, <1>3 DEF LagInv, CopiesLag

\* No step of any dialog breaks the invariant: one case per handler.
LEMMA LagStep == LagInv /\ TypeOK' /\ [Next]_vars => LagInv'
<1> SUFFICES ASSUME LagInv, TypeOK', [Next]_vars PROVE LagInv'
  OBVIOUS
<1>0. TypeOK /\ CopiesLag /\ NeverOverstated /\ StatusLags
  BY DEF LagInv
<1>a. ASSUME NEW d \in Dialogs, dialog[d].step # "adding",
             \A c \in Dialogs \ {d} : dialog'[c] = dialog[c],
             order'.deliveredQuantity = order.deliveredQuantity,
             order'.status = order.status, order'.items \subseteq order.items,
             UNCHANGED <<shipped, misled>>,
             EntryLags(d)' /\ TotalLags(d)' /\ OverPending(d)' /\ AppliedCounts(d)'
      PROVE  LagInv'
  <2>1. ASSUME NEW x \in Dialogs \ {d}
        PROVE  EntryLags(x)' /\ TotalLags(x)' /\ OverPending(x)' /\ AppliedCounts(x)'
    BY <1>0, <1>a, OthersKeep
  <2>2. NeverOverstated' /\ StatusLags'
    BY <1>0, <1>a DEF NeverOverstated, StatusLags
  <2> QED
    BY <1>a, <2>1, <2>2 DEF LagInv, CopiesLag
<1>1. ASSUME NEW d \in Dialogs, NEW e \in order.items, Open(d, e)
      PROVE  LagInv'
  <2>1. /\ dialog[d].step # "adding" /\ UNCHANGED <<order, shipped, misled>>
        /\ \A c \in Dialogs \ {d} : dialog'[c] = dialog[c]
        /\ dialog'[d].e = e /\ dialog'[d].delivered = order.deliveredQuantity
        /\ dialog'[d].step = "open" /\ dialog'[d].over = {}
    BY <1>0, <1>1 DEF Open, OpenOn, histories, TypeOK
  <2>2. order.deliveredQuantity \in Nat
    BY <1>0 DEF TypeOK, OrderCartModel
  <2>3. EntryLags(d)' /\ TotalLags(d)' /\ OverPending(d)' /\ AppliedCounts(d)'
    BY <1>0, <2>1, <2>2
    DEF EntryLags, TotalLags, OverPending, AppliedCounts, NeverOverstated
  <2> QED
    BY <1>a, <2>1, <2>3
<1>2. ASSUME NEW d \in Dialogs, NEW c \in Dialogs,
             NEW e \in order.items \cup {Dispatched(c)}, OpenOver(d, c, e)
      PROVE  LagInv'
  <2>1. /\ dialog[d].step # "adding" /\ UNCHANGED <<order, shipped, misled>>
        /\ \A x \in Dialogs \ {d} : dialog'[x] = dialog[x]
        /\ dialog'[d].e = e /\ c # d /\ dialog[c].step = "adding"
        /\ dialog'[d].delivered = order.deliveredQuantity + dialog[c].amount
        /\ dialog'[d].step = "open" /\ dialog'[d].over = {c} /\ ~dialog'[d].applied
    BY <1>0, <1>2 DEF OpenOver, OpenOn, histories, Increment, TypeOK
  <2>2. /\ order.deliveredQuantity \in Nat /\ dialog[c].amount \in Nat
        /\ Dispatched(c).line = dialog[c].e.line
        /\ Dispatched(c).dispatched = dialog[c].e.dispatched + dialog[c].amount
    BY <1>0, DialogType
  <2>3. dialog'[c] = dialog[c]
    BY <2>1
  <2>4. TotalLags(d)' /\ OverPending(d)' /\ AppliedCounts(d)'
    BY <2>1, <2>2, <2>3 DEF TotalLags, OverPending, AppliedCounts
  <2>5. EntryLags(d)'
    BY <1>0, <2>1, <2>2, <2>3 DEF EntryLags, NeverOverstated
  <2> QED
    BY <1>a, <2>1, <2>4, <2>5
<1>3. ASSUME NEW d \in Dialogs, Cancel(d) \/ OkEmpty(d) PROVE LagInv'
  <2>1. /\ dialog[d].step # "adding" /\ UNCHANGED <<order, shipped, misled>>
        /\ \A c \in Dialogs \ {d} : dialog'[c] = dialog[c]
        /\ dialog'[d] \in {Closed, Stuck}
    BY <1>0, <1>3 DEF Cancel, OkEmpty, histories, TypeOK
  <2> QED
    BY <1>a, <2>1, EmptyLag
<1>4. ASSUME NEW d \in Dialogs, NEW n \in Amounts, Ok(d, n) PROVE LagInv'
  <2>1. /\ dialog[d].step = "open" /\ UNCHANGED <<order, shipped, misled>>
        /\ \A c \in Dialogs \ {d} : dialog'[c] = dialog[c]
        /\ dialog'[d].e = dialog[d].e /\ dialog'[d].delivered = dialog[d].delivered
        /\ dialog'[d].step = "removing" /\ dialog'[d].over = dialog[d].over
        /\ dialog'[d].applied = dialog[d].applied
    BY <1>0, <1>4 DEF Ok, histories, TypeOK, DialogState
  <2>2. EntryLags(d)' /\ TotalLags(d)' /\ OverPending(d)' /\ AppliedCounts(d)'
    <3>1. EntryLags(d) /\ TotalLags(d) /\ OverPending(d) /\ dialog[d].over \subseteq Dialogs
      BY <1>0, DialogType DEF CopiesLag
    <3> QED
      BY <2>1, <3>1 DEF EntryLags, TotalLags, OverPending, AppliedCounts
  <2> QED
    BY <1>a, <2>1, <2>2
<1>5. ASSUME NEW d \in Dialogs, NEW answered \in BOOLEAN, RemoveLine(d, answered)
      PROVE  LagInv'
  <2>1. /\ dialog[d].step \in {"removing", "orphaned"} /\ dialog[d].over = {}
        /\ UNCHANGED <<shipped, misled>>
        /\ order'.deliveredQuantity = order.deliveredQuantity
        /\ order'.status = order.status /\ order'.items \subseteq order.items
        /\ \A c \in Dialogs \ {d} : dialog'[c] = dialog[c]
    BY <1>0, <1>5 DEF RemoveLine, Sent, ArrayRemove, TypeOK, OrderCartModel
  <2>2. \/ dialog'[d] = Closed
        \/ /\ dialog'[d].e = dialog[d].e /\ dialog'[d].delivered = dialog[d].delivered
           /\ dialog'[d].over = {}
           /\ dialog'[d].step = "adding" => ~dialog'[d].applied
    BY <1>0, <1>5, <2>1 DEF RemoveLine, TypeOK, DialogState
  <2>3. EntryLags(d)' /\ TotalLags(d)' /\ OverPending(d)' /\ AppliedCounts(d)'
    <3>1. EntryLags(d) /\ TotalLags(d)
      BY <1>0 DEF CopiesLag
    <3>2. CASE dialog'[d] = Closed
      BY <3>2, EmptyLag
    <3>3. CASE dialog'[d] # Closed
      BY <2>1, <2>2, <3>1, <3>3 DEF EntryLags, TotalLags, OverPending, AppliedCounts
    <3> QED
      BY <3>2, <3>3
  <2> QED
    BY <1>a, <2>1, <2>3
<1>6. ASSUME NEW d \in Dialogs, KillKept(d) PROVE LagInv'
  <2>1. /\ dialog[d].step = "removing" /\ UNCHANGED <<order, shipped, misled>>
        /\ \A c \in Dialogs \ {d} : dialog'[c] = dialog[c]
        /\ dialog'[d].e = dialog[d].e /\ dialog'[d].delivered = dialog[d].delivered
        /\ dialog'[d].step = "orphaned" /\ dialog'[d].over = dialog[d].over
        /\ dialog'[d].applied = dialog[d].applied
    BY <1>0, <1>6 DEF KillKept, TypeOK, DialogState
  <2>2. EntryLags(d)' /\ TotalLags(d)' /\ OverPending(d)' /\ AppliedCounts(d)'
    <3>1. EntryLags(d) /\ TotalLags(d) /\ OverPending(d) /\ dialog[d].over \subseteq Dialogs
      BY <1>0, DialogType DEF CopiesLag
    <3> QED
      BY <2>1, <3>1 DEF EntryLags, TotalLags, OverPending, AppliedCounts
  <2> QED
    BY <1>a, <2>1, <2>2
<1>7. CASE UNCHANGED <<order, dialog, histories>>
  BY <1>0, <1>7 DEF histories, LagInv, CopiesLag, NeverOverstated, StatusLags,
     EntryLags, TotalLags, OverPending, AppliedCounts
<1>8. ASSUME NEW d \in Dialogs, SignOut(d) \/ SignIn(d)
      PROVE  UNCHANGED <<order, dialog, histories>>
  BY <1>8 DEF SignOut, SignIn
<1>9. UNCHANGED vars => UNCHANGED <<order, dialog, histories>>
  BY DEF vars, histories
<1> QED
  BY <1>1, <1>2, <1>3, <1>4, <1>5, <1>6, <1>7, <1>8, <1>9, LagAddLine, LagRefuse, LagKill DEF Next

\* Copies of the dialogs lag behind the document in every reachable state.
LEMMA LagInvariant == Spec => []LagInv
<1>1. Init => LagInv
  <2> USE LinesAssumption, TotalAssumption
  <2> SUFFICES ASSUME Init PROVE LagInv
    OBVIOUS
  <2>1. TypeOK
    BY DEF Init, TypeOK, OrderCartModel, OrderStatus, Entry, Closed, DialogState
  <2>2. CopiesLag
    BY DEF Init, CopiesLag, Closed, EntryLags, TotalLags, OverPending, AppliedCounts
  <2>3. NeverOverstated /\ StatusLags
    BY DEF Init, NeverOverstated, StatusLags
  <2> QED
    BY <2>1, <2>2, <2>3 DEF LagInv
<1>2. LagInv /\ TypeOK' /\ [Next]_vars => LagInv'
  BY LagStep
<1> QED
  BY <1>1, <1>2, TypeCorrect, PTL DEF Spec

\* However many dialogs interleave their two writes, and whichever of the
\* writes fail, no entry of an order shows more than was dispatched.
THEOREM NeverOverstatedHolds == Spec => []NeverOverstated
<1>1. LagInv => NeverOverstated
  BY DEF LagInv
<1> QED
  BY <1>1, LagInvariant, PTL

\* An order is not marked delivered before as many pieces as it asks for have
\* been dispatched, those a write sent again has counted twice included: the
\* stored total is not short of the stale copy, and it is exactly this sum.
THEOREM DeliveredNotPrematureHolds == Spec => []DeliveredNotPremature
<1>1. LagInv /\ DeliveredIsLedger => DeliveredNotPremature
  BY DEF LagInv, StatusLags, DeliveredIsLedger, DeliveredNotPremature
<1> QED
  BY <1>1, LagInvariant, DeliveredIsLedgerHolds, PTL

----------------------------------------------------------------------------
\* Whatever the dialogs do, a line is on the order, or a dialog holds it
\* between its two writes, or a dialog that held it has failed.
THEOREM LineNotLostHolds == Spec => []LineNotLost
<1>1. Init => LineNotLost
  <2> SUFFICES ASSUME Init, NEW l \in Lines
               PROVE  \E e \in order.items : e.line = l
    BY DEF LineNotLost
  <2>1. [line |-> l, dispatched |-> 0] \in order.items
    BY DEF Init
  <2> QED
    BY <2>1
<1>2. LagInv /\ LineNotLost /\ [Next]_vars => LineNotLost'
  <2> SUFFICES ASSUME LagInv, [Next]_vars, LineNotLost,
                      NEW l \in Lines, l \notin dropped'
               PROVE  \/ \E e \in order'.items : e.line = l
                      \/ \E d \in Dialogs : Held(d)' /\ dialog'[d].e.line = l
    BY DEF LineNotLost
  <2> DEFINE Safe == \/ \E e \in order'.items : e.line = l
                     \/ \E d \in Dialogs : Held(d)' /\ dialog'[d].e.line = l
  <2>0. TypeOK /\ CopiesLag
    BY DEF LagInv
  \* The line stays where it was if that is not touched.
  <2>a. ASSUME dropped \subseteq dropped',
               \A e \in order.items : e.line = l => \E x \in order'.items : x.line = l,
               \A d \in Dialogs : Held(d) /\ dialog[d].e.line = l
                   => Held(d)' /\ dialog'[d].e.line = l
        PROVE  Safe
    BY <2>a DEF LineNotLost
  <2>1. ASSUME NEW d \in Dialogs, dialog[d].step \notin {"removing", "adding"},
               \A c \in Dialogs \ {d} : dialog'[c] = dialog[c],
               UNCHANGED <<order, dropped>>
        PROVE  Safe
    BY <2>1, <2>a DEF Held
  <2>2. ASSUME NEW d \in Dialogs, NEW e \in order.items, Open(d, e) PROVE Safe
    BY <2>0, <2>1, <2>2 DEF Open, OpenOn, histories, TypeOK
  <2>3. ASSUME NEW d \in Dialogs, NEW c \in Dialogs,
               NEW e \in order.items \cup {Dispatched(c)}, OpenOver(d, c, e)
        PROVE  Safe
    BY <2>0, <2>1, <2>3 DEF OpenOver, OpenOn, histories, TypeOK
  <2>4. ASSUME NEW d \in Dialogs, Cancel(d) \/ OkEmpty(d) PROVE Safe
    BY <2>0, <2>1, <2>4 DEF Cancel, OkEmpty, histories, TypeOK
  <2>5. ASSUME NEW d \in Dialogs, NEW n \in Amounts, Ok(d, n) PROVE Safe
    BY <2>0, <2>1, <2>5 DEF Ok, histories, TypeOK
  <2>6. ASSUME NEW d \in Dialogs, NEW answered \in BOOLEAN, RemoveLine(d, answered)
        PROVE  Safe
    <3>1. /\ order'.items = order.items \ {dialog[d].e}
          /\ dialog[d].step \in {"removing", "orphaned"}
          /\ \A c \in Dialogs \ {d} : dialog'[c] = dialog[c]
          /\ dropped' = IF dialog[d].step = "orphaned"
                        THEN dropped \cup {dialog[d].e.line} ELSE dropped
      BY <2>0, <2>6 DEF RemoveLine, ArrayRemove, TypeOK, OrderCartModel
    <3>2. CASE dialog[d].step = "removing"
      <4>1. dialog'[d] = IF answered
                         THEN [dialog[d] EXCEPT !.step = "adding", !.applied = FALSE]
                         ELSE [dialog[d] EXCEPT !.applied = TRUE]
        BY <2>0, <2>6, <3>2 DEF RemoveLine, TypeOK
      <4>2. dialog[d] \in DialogState
        BY <2>0 DEF TypeOK
      <4>3. Held(d)' /\ dialog'[d].e = dialog[d].e
        BY <3>2, <4>1, <4>2 DEF Held, DialogState
      <4>4. CASE dialog[d].e.line = l
        BY <4>3, <4>4
      <4>5. CASE dialog[d].e.line # l
        BY <2>a, <3>1, <3>2, <4>5 DEF Held
      <4> QED
        BY <4>4, <4>5
    <3>3. CASE dialog[d].step = "orphaned"
      <4>1. dialog[d].e.line # l
        BY <3>1, <3>3
      <4> QED
        BY <2>a, <3>1, <3>3, <4>1 DEF Held
    <3> QED
      BY <3>1, <3>2, <3>3
  <2>7. ASSUME NEW d \in Dialogs, NEW answered \in BOOLEAN, AddLine(d, answered)
        PROVE  Safe
    <3>1. /\ order'.items = order.items \cup {Dispatched(d)}
          /\ dropped' = dropped
          /\ dialog' = IF answered THEN Settled(d, Closed)
                       ELSE [dialog EXCEPT ![d].applied = TRUE]
      BY <2>7 DEF AddLine, Count, ArrayUnion
    <3>2. Dispatched(d).line = dialog[d].e.line
      BY <2>0, DialogType
    <3>3. CASE dialog[d].e.line = l
      BY <3>1, <3>2, <3>3
    <3>4. CASE dialog[d].e.line # l
      <4>1. \A c \in Dialogs \ {d} :
               /\ dialog'[c].e = dialog[c].e /\ dialog'[c].step = dialog[c].step
               /\ dialog'[c].applied = dialog[c].applied
        BY <2>0, <3>1 DEF Settled, TypeOK, DialogState
      <4> QED
        BY <2>a, <3>1, <3>4, <4>1 DEF Held
    <3> QED
      BY <3>3, <3>4
  <2>8. ASSUME NEW d \in Dialogs, Refuse(d) PROVE Safe
    <3>1. /\ order' = order /\ DropHeldLine(d)
          /\ \A c \in Dialogs \ {d} : dialog'[c] = [dialog[c] EXCEPT !.over = @ \ {d}]
      BY <2>8 DEF Refuse, Settled
    <3>2. \A c \in Dialogs \ {d} :
             /\ dialog'[c].e = dialog[c].e /\ dialog'[c].step = dialog[c].step
             /\ dialog'[c].applied = dialog[c].applied
      <4>1. \A c \in Dialogs : dialog[c] \in DialogState
        BY <2>0 DEF TypeOK
      <4> QED
        BY <3>1, <4>1 DEF DialogState
    <3>3. ~(Held(d) /\ dialog[d].e.line = l) /\ dropped \subseteq dropped'
      BY <3>1 DEF DropHeldLine
    <3>4. \A c \in Dialogs \ {d} : Held(c) => Held(c)'
      BY <3>2 DEF Held
    <3>5. \A c \in Dialogs : Held(c) /\ dialog[c].e.line = l
             => Held(c)' /\ dialog'[c].e.line = l
      BY <3>2, <3>3, <3>4
    <3> QED
      BY <2>a, <3>1, <3>3, <3>5
  <2>9. ASSUME NEW d \in Dialogs, Kill(d) PROVE Safe
    <3>1. /\ order' = order /\ DropHeldLine(d)
          /\ \A c \in Dialogs \ {d} : dialog[c].over = {} => dialog'[c] = dialog[c]
      BY <2>9 DEF Kill
    <3>2. \A c \in Dialogs : Held(c) => dialog[c].over = {}
      BY <2>0 DEF CopiesLag, OverPending, Held
    <3>3. ~(Held(d) /\ dialog[d].e.line = l) /\ dropped \subseteq dropped'
      BY <3>1 DEF DropHeldLine
    <3> QED
      BY <2>a, <3>1, <3>2, <3>3 DEF Held
  <2>10. ASSUME NEW d \in Dialogs, KillKept(d) PROVE Safe
    <3>1. /\ order' = order /\ DropHeldLine(d)
          /\ \A c \in Dialogs \ {d} : dialog'[c] = dialog[c]
      BY <2>0, <2>10 DEF KillKept, TypeOK
    <3>2. ~(Held(d) /\ dialog[d].e.line = l) /\ dropped \subseteq dropped'
      BY <3>1 DEF DropHeldLine
    <3> QED
      BY <2>a, <3>1, <3>2 DEF Held
  <2>11. ASSUME NEW d \in Dialogs, SignOut(d) \/ SignIn(d) PROVE Safe
    BY <2>a, <2>11 DEF SignOut, SignIn, histories, Held
  <2>12. CASE UNCHANGED vars
    BY <2>a, <2>12 DEF vars, Held
  <2> QED
    BY <2>2, <2>3, <2>4, <2>5, <2>6, <2>7, <2>8, <2>9, <2>10, <2>11, <2>12 DEF Next
<1> QED
  BY <1>1, <1>2, LagInvariant, PTL DEF Spec

----------------------------------------------------------------------------
(* One administrator, one dialog at a time.  Nobody else writes the order  *)
(* between the moment its dialog opens and the moment the second write     *)
(* takes effect, so the copies are not stale.                              *)
OneDialog == \A c, d \in Dialogs : c = d

FreshCopies ==
    \A d \in Dialogs :
        /\ dialog[d].over = {}
        /\ dialog[d].step \in {"open", "removing", "orphaned"} \/ Held(d)
               => /\ dialog[d].delivered = order.deliveredQuantity
                  /\ dialog[d].e.dispatched # Quantity[dialog[d].e.line]
        /\ dialog[d].step \in {"open", "removing", "orphaned"} /\ ~dialog[d].applied
               => dialog[d].e \in order.items
        /\ Held(d)
               => /\ \A e \in order.items : e.line # dialog[d].e.line
                  /\ dialog[d].e.dispatched = shipped[dialog[d].e.line]
                  /\ dialog[d].e.line \notin dropped
        /\ dialog[d].step = "open" => ~dialog[d].applied
        /\ dialog[d].step = "orphaned" /\ dialog[d].applied
               => dialog[d].e.line \in dropped
        /\ dialog[d].step = "adding" /\ dialog[d].applied
               => Dispatched(d) \in order.items /\ order.status = StatusAfter(d)
        /\ dialog[d].step \in {"removing", "adding", "orphaned"}
               => dialog[d].amount \in Amounts
        /\ dialog[d].applied \/ dialog[d].step = "orphaned" => Faults

EntriesExact ==
    \A e \in order.items : e.dispatched = shipped[e.line] /\ e.line \notin dropped

OneInv == TypeOK /\ FreshCopies /\ EntriesExact /\ StatusExact

\* A dialog that has nothing under way has no copies to keep fresh.
LEMMA EmptyFresh ==
    ASSUME OneDialog, NEW d \in Dialogs, dialog'[d] \in {Closed, Stuck}
    PROVE  FreshCopies'
<1>1. ~Closed.applied /\ ~Stuck.applied
  BY DEF Closed, Stuck
<1> QED
  BY <1>1, ClosedFields DEF FreshCopies, OneDialog, Held

\* The first write of the only dialog takes its line out of the order.
LEMMA OneRemoveLine ==
    ASSUME OneDialog, OneInv, TypeOK', NEW d \in Dialogs, NEW answered \in BOOLEAN,
           RemoveLine(d, answered)
    PROVE  OneInv'
<1> DEFINE l == dialog[d].e.line
<1>0. TypeOK /\ FreshCopies /\ EntriesExact /\ StatusExact
  BY DEF OneInv
<1>1. /\ order'.items = order.items \ {dialog[d].e}
      /\ order'.deliveredQuantity = order.deliveredQuantity
      /\ order'.status = order.status
      /\ dialog[d].step \in {"removing", "orphaned"}
      /\ dropped' = IF dialog[d].step = "orphaned" THEN dropped \cup {l} ELSE dropped
      /\ shipped' = shipped /\ recounted' = recounted
      /\ dialog'[d] = IF ~answered THEN [dialog[d] EXCEPT !.applied = TRUE]
                      ELSE IF dialog[d].step = "removing"
                      THEN [dialog[d] EXCEPT !.step = "adding", !.applied = FALSE]
                      ELSE Closed
      /\ answered \/ Faults
  BY <1>0 DEF RemoveLine, ArrayRemove, TypeOK, OrderCartModel
<1>2. /\ order.items \subseteq Entry /\ dialog[d].e \in Entry
      /\ dialog[d] \in DialogState
  BY <1>0, DialogType
<1>3. ~dialog[d].applied => dialog[d].e \in order.items
  BY <1>0, <1>1 DEF FreshCopies
<1>4. dialog[d].applied => Held(d) \/ l \in dropped
  BY <1>0, <1>1 DEF FreshCopies, Held
<1>5. \A x \in order'.items : x.line # l
  <2> SUFFICES ASSUME NEW x \in order'.items, x.line = l PROVE FALSE
    OBVIOUS
  <2>1. CASE ~dialog[d].applied
    <3>1. x.dispatched = dialog[d].e.dispatched
      BY <1>0, <1>1, <1>3, <2>1 DEF EntriesExact
    <3>2. x = dialog[d].e
      BY <1>1, <1>2, <3>1 DEF Entry
    <3> QED
      BY <1>1, <3>2
  <2>2. CASE dialog[d].applied
    BY <1>0, <1>1, <1>4, <2>2 DEF FreshCopies, EntriesExact
  <2> QED
    BY <2>1, <2>2
<1>6. EntriesExact' /\ StatusExact'
  BY <1>0, <1>1, <1>5 DEF EntriesExact, StatusExact
<1>7. /\ dialog[d].over = {}
      /\ dialog[d].delivered = order.deliveredQuantity
      /\ dialog[d].e.dispatched # Quantity[l]
      /\ dialog[d].amount \in Amounts
      /\ dialog[d].step = "orphaned" => Faults
  BY <1>0, <1>1 DEF FreshCopies
<1>8. CASE dialog[d].step = "removing"
  <2>1. /\ dialog'[d].e = dialog[d].e /\ dialog'[d].delivered = dialog[d].delivered
        /\ dialog'[d].amount = dialog[d].amount /\ dialog'[d].over = dialog[d].over
        /\ dialog'[d].step \in {"removing", "adding"}
        /\ dialog'[d].step = "removing" => dialog'[d].applied /\ Faults
        /\ dialog'[d].step = "adding" => ~dialog'[d].applied
    BY <1>1, <1>2, <1>8 DEF DialogState
  <2>2. dialog[d].e.dispatched = shipped[l] /\ l \notin dropped
    <3>1. CASE ~dialog[d].applied
      BY <1>0, <1>3, <3>1 DEF EntriesExact
    <3>2. CASE dialog[d].applied
      BY <1>0, <1>8, <3>2 DEF FreshCopies, Held
    <3> QED
      BY <3>1, <3>2
  <2>3. FreshCopies'
    BY <1>1, <1>5, <1>7, <1>8, <2>1, <2>2 DEF FreshCopies, OneDialog, Held
  <2> QED
    BY <1>6, <2>3 DEF OneInv
<1>9. CASE dialog[d].step = "orphaned" /\ answered
  <2>1. dialog'[d] = Closed
    BY <1>1, <1>9
  <2> QED
    BY <1>6, <2>1, EmptyFresh DEF OneInv
<1>10. CASE dialog[d].step = "orphaned" /\ ~answered
  <2>1. /\ dialog'[d].e = dialog[d].e /\ dialog'[d].delivered = dialog[d].delivered
        /\ dialog'[d].amount = dialog[d].amount /\ dialog'[d].over = dialog[d].over
        /\ dialog'[d].step = "orphaned" /\ dialog'[d].applied /\ l \in dropped'
    BY <1>1, <1>2, <1>10 DEF DialogState
  <2>2. FreshCopies'
    BY <1>1, <1>7, <1>10, <2>1 DEF FreshCopies, OneDialog, Held
  <2> QED
    BY <1>6, <2>2 DEF OneInv
<1> QED
  BY <1>1, <1>8, <1>9, <1>10

\* The second write of the only dialog puts the line back, the first time it
\* takes effect, and changes no more than the total when it does so again.
LEMMA OneAddLine ==
    ASSUME OneDialog, OneInv, TypeOK', NEW d \in Dialogs, NEW answered \in BOOLEAN,
           AddLine(d, answered)
    PROVE  OneInv'
<1> DEFINE a == dialog[d].amount
           l == dialog[d].e.line
<1>0. TypeOK /\ FreshCopies /\ EntriesExact /\ StatusExact
  BY DEF OneInv
<1>1. /\ a \in Nat /\ l \in Lines /\ dialog[d] \in DialogState
      /\ dialog[d].delivered \in Nat /\ dialog[d].e.dispatched \in Nat
      /\ order.deliveredQuantity \in Nat /\ recounted \in Nat
      /\ shipped \in [Lines -> Nat] /\ order.items \subseteq Entry
      /\ Dispatched(d).line = l
      /\ Dispatched(d).dispatched = dialog[d].e.dispatched + a
  BY <1>0, DialogType DEF TypeOK
<1>2. /\ dialog[d].step = "adding" /\ dropped' = dropped
      /\ order'.deliveredQuantity = order.deliveredQuantity + a
      /\ order'.items = order.items \cup {Dispatched(d)}
      /\ order'.status = StatusAfter(d)
      /\ answered \/ Faults
  BY DEF AddLine, Count, ArrayUnion, Increment
<1>3. /\ dialog[d].applied
             => recounted' = recounted + a /\ shipped' = shipped
      /\ ~dialog[d].applied
             => recounted' = recounted /\ shipped' = [shipped EXCEPT ![l] = @ + a]
  BY DEF AddLine, Count
<1>4. EntriesExact' /\ StatusExact'
  <2>1. CASE dialog[d].applied
    <3>1. Dispatched(d) \in order.items /\ order.status = StatusAfter(d)
      BY <1>0, <1>2, <2>1 DEF FreshCopies
    <3>2. order'.items = order.items /\ order'.status = order.status
      BY <1>2, <3>1
    <3>3. EntriesExact'
      BY <1>0, <1>2, <1>3, <2>1, <3>2 DEF EntriesExact
    <3>4. StatusExact'
      <4>1. recounted' = 0 => recounted = 0 /\ a = 0
        BY <1>1, <1>3, <2>1
      <4>2. a = 0 => order'.deliveredQuantity = order.deliveredQuantity
        BY <1>1, <1>2
      <4> QED
        BY <1>0, <3>2, <4>1, <4>2 DEF StatusExact
    <3> QED
      BY <3>3, <3>4
  <2>2. CASE ~dialog[d].applied
    <3>1. /\ \A e \in order.items : e.line # l
          /\ dialog[d].e.dispatched = shipped[l] /\ l \notin dropped
          /\ dialog[d].delivered = order.deliveredQuantity
      BY <1>0, <1>2, <2>2 DEF FreshCopies, Held
    <3>2. shipped'[l] = shipped[l] + a
      BY <1>1, <1>3, <2>2
    <3>3. \A k \in Lines \ {l} : shipped'[k] = shipped[k]
      BY <1>1, <1>3, <2>2
    <3>4. \A e \in order.items : e.line \in Lines \ {l}
      BY <1>1, <3>1 DEF Entry
    <3>5. EntriesExact'
      BY <1>0, <1>1, <1>2, <3>1, <3>2, <3>3, <3>4 DEF EntriesExact
    <3>6. StatusExact'
      BY <1>1, <1>2, <3>1, TotalAssumption DEF StatusExact, StatusAfter
    <3> QED
      BY <3>5, <3>6
  <2> QED
    BY <2>1, <2>2
<1>5. FreshCopies'
  <2>1. CASE answered
    <3>1. dialog'[d] = Closed
      BY <2>1 DEF AddLine, Count, Settled
    <3> QED
      BY <3>1, EmptyFresh
  <2>2. CASE ~answered
    <3>1. dialog'[d] = [dialog[d] EXCEPT !.applied = TRUE]
      BY <1>0, <2>2 DEF AddLine, Count, TypeOK
    <3>2. /\ dialog'[d].e = dialog[d].e /\ dialog'[d].delivered = dialog[d].delivered
          /\ dialog'[d].amount = dialog[d].amount /\ dialog'[d].over = dialog[d].over
          /\ dialog'[d].step = "adding" /\ dialog'[d].applied
      BY <1>1, <1>2, <3>1 DEF DialogState
    <3>3. Dispatched(d)' \in order'.items /\ order'.status = StatusAfter(d)'
      BY <1>2, <3>2 DEF Dispatched, StatusAfter
    <3>4. dialog[d].over = {} /\ a \in Amounts
      BY <1>0, <1>2 DEF FreshCopies
    <3> QED
      BY <1>2, <2>2, <3>2, <3>3, <3>4 DEF FreshCopies, OneDialog, Held
  <2> QED
    BY <2>1, <2>2
<1> QED
  BY <1>4, <1>5 DEF OneInv

\* Every handler keeps the copies of the only dialog fresh.
LEMMA OneStep ==
    ASSUME OneDialog, OneInv, TypeOK', [Next]_vars PROVE OneInv'
<1>0. TypeOK /\ FreshCopies /\ EntriesExact /\ StatusExact
  BY DEF OneInv
\* A dialog that ends without a write loses at most the line it holds.
<1>a. ASSUME NEW d \in Dialogs, UNCHANGED <<order, shipped, recounted>>,
             dropped' = dropped \/ DropHeldLine(d)
      PROVE  EntriesExact' /\ StatusExact'
  BY <1>0, <1>a DEF DropHeldLine, EntriesExact, StatusExact, FreshCopies
<1>1. ASSUME NEW d \in Dialogs, NEW e \in order.items, Open(d, e)
      PROVE  OneInv'
  <2>1. /\ UNCHANGED <<order, shipped, recounted, dropped>>
        /\ e.dispatched # Quantity[e.line]
        /\ dialog'[d] = [step |-> "open", e |-> e,
                         delivered |-> order.deliveredQuantity, amount |-> 0,
                         applied |-> FALSE, over |-> {}]
    BY <1>0, <1>1 DEF Open, OpenOn, histories, TypeOK
  <2>2. FreshCopies'
    BY <2>1 DEF FreshCopies, OneDialog, Held
  <2> QED
    BY <1>a, <2>1, <2>2 DEF OneInv
<1>2. ASSUME NEW d \in Dialogs, NEW c \in Dialogs,
             NEW e \in order.items \cup {Dispatched(c)}, OpenOver(d, c, e)
      PROVE  OneInv'
  BY <1>2 DEF OpenOver, OneDialog
<1>3. ASSUME NEW d \in Dialogs, Cancel(d) \/ OkEmpty(d) PROVE OneInv'
  <2>1. /\ UNCHANGED <<order, shipped, recounted, dropped>>
        /\ dialog'[d] \in {Closed, Stuck}
    BY <1>0, <1>3 DEF Cancel, OkEmpty, histories, TypeOK
  <2> QED
    BY <1>a, <2>1, EmptyFresh DEF OneInv
<1>4. ASSUME NEW d \in Dialogs, NEW n \in Amounts, Ok(d, n) PROVE OneInv'
  <2>1. /\ UNCHANGED <<order, shipped, recounted, dropped>>
        /\ dialog[d].step = "open"
        /\ dialog'[d] = [dialog[d] EXCEPT !.step = "removing", !.amount = n]
    BY <1>0, <1>4 DEF Ok, histories, TypeOK
  <2>2. dialog[d] \in DialogState
    BY <1>0, DialogType
  <2>3. /\ dialog'[d].e = dialog[d].e /\ dialog'[d].delivered = dialog[d].delivered
        /\ dialog'[d].amount = n /\ dialog'[d].over = dialog[d].over
        /\ dialog'[d].step = "removing" /\ dialog'[d].applied = dialog[d].applied
    BY <2>1, <2>2 DEF DialogState
  <2>4. /\ dialog[d].over = {} /\ ~dialog[d].applied
        /\ dialog[d].delivered = order.deliveredQuantity
        /\ dialog[d].e.dispatched # Quantity[dialog[d].e.line]
        /\ dialog[d].e \in order.items
    BY <1>0, <2>1 DEF FreshCopies
  <2>5. FreshCopies'
    BY <2>1, <2>3, <2>4 DEF FreshCopies, OneDialog, Held
  <2> QED
    BY <1>a, <2>1, <2>5 DEF OneInv
<1>5. ASSUME NEW d \in Dialogs, Refuse(d) \/ Kill(d) PROVE OneInv'
  <2>1. /\ UNCHANGED <<order, shipped, recounted>> /\ DropHeldLine(d)
        /\ dialog'[d] \in {Closed, Stuck}
    BY <1>5 DEF Refuse, Kill, Settled
  <2> QED
    BY <1>a, <2>1, EmptyFresh DEF OneInv
<1>6. ASSUME NEW d \in Dialogs, KillKept(d) PROVE OneInv'
  <2>1. /\ UNCHANGED <<order, shipped, recounted>> /\ DropHeldLine(d) /\ Faults
        /\ dialog[d].step = "removing"
        /\ dialog'[d] = [dialog[d] EXCEPT !.step = "orphaned"]
    BY <1>0, <1>6 DEF KillKept, TypeOK
  <2>2. dialog[d] \in DialogState
    BY <1>0, DialogType
  <2>3. /\ dialog'[d].e = dialog[d].e /\ dialog'[d].delivered = dialog[d].delivered
        /\ dialog'[d].amount = dialog[d].amount /\ dialog'[d].over = dialog[d].over
        /\ dialog'[d].step = "orphaned" /\ dialog'[d].applied = dialog[d].applied
    BY <2>1, <2>2 DEF DialogState
  <2>4. dialog[d].applied => dialog[d].e.line \in dropped'
    BY <2>1 DEF DropHeldLine, Held
  <2>5. /\ dialog[d].over = {} /\ dialog[d].amount \in Amounts
        /\ dialog[d].delivered = order.deliveredQuantity
        /\ dialog[d].e.dispatched # Quantity[dialog[d].e.line]
        /\ ~dialog[d].applied => dialog[d].e \in order.items
    BY <1>0, <2>1 DEF FreshCopies
  <2>6. FreshCopies'
    BY <2>1, <2>3, <2>4, <2>5 DEF FreshCopies, OneDialog, Held
  <2> QED
    BY <1>a, <2>1, <2>6 DEF OneInv
<1>7. CASE UNCHANGED <<order, dialog, histories>>
  BY <1>0, <1>7 DEF histories, OneInv, FreshCopies, EntriesExact, StatusExact, Held,
     Dispatched, StatusAfter
<1>8. ASSUME NEW d \in Dialogs, SignOut(d) \/ SignIn(d)
      PROVE  UNCHANGED <<order, dialog, histories>>
  BY <1>8 DEF SignOut, SignIn
<1>9. UNCHANGED vars => UNCHANGED <<order, dialog, histories>>
  BY DEF vars, histories
<1> QED
  BY <1>1, <1>2, <1>3, <1>4, <1>5, <1>6, <1>7, <1>8, <1>9, OneRemoveLine, OneAddLine
  DEF Next

\* With one dialog at a time its copies are fresh in every reachable state.
LEMMA OneInvariant == ASSUME OneDialog PROVE Spec => []OneInv
<1>1. Init => OneInv
  <2> USE LinesAssumption, TotalAssumption
  <2> SUFFICES ASSUME Init PROVE OneInv
    OBVIOUS
  <2>1. TypeOK
    BY DEF Init, TypeOK, OrderCartModel, OrderStatus, Entry, Closed, DialogState
  <2>2. FreshCopies /\ EntriesExact /\ StatusExact
    BY DEF Init, FreshCopies, EntriesExact, StatusExact, Closed, Held
  <2> QED
    BY <2>1, <2>2 DEF OneInv
<1>2. OneInv /\ TypeOK' /\ [Next]_vars => OneInv'
  BY OneStep
<1> QED
  BY <1>1, <1>2, TypeCorrect, PTL DEF Spec

\* With one dialog at a time, the status read from the dialog's copy is the
\* status of the document.
THEOREM StatusExactHolds == ASSUME OneDialog PROVE Spec => []StatusExact
<1>1. OneInv => StatusExact
  BY DEF OneInv
<1> QED
  BY <1>1, OneInvariant, PTL

\* With one dialog at a time, every line has exactly one entry, with exactly
\* the pieces dispatched, unless it was dropped between the two writes.
THEOREM LinesExactHolds == ASSUME OneDialog PROVE Spec => []LinesExact
<1>1. OneInv /\ LineNotLost => LinesExact
  <2> SUFFICES ASSUME OneInv, LineNotLost, NEW l \in Lines
               PROVE  {e \in order.items : e.line = l}
                        \cup {dialog[d].e : d \in {c \in Dialogs :
                                Held(c) /\ dialog[c].e.line = l}}
                      = IF l \in dropped THEN {}
                        ELSE {[line |-> l, dispatched |-> shipped[l]]}
    BY DEF LinesExact
  <2> DEFINE entries == {e \in order.items : e.line = l}
             held == {dialog[d].e : d \in {c \in Dialogs :
                        Held(c) /\ dialog[c].e.line = l}}
             exact == [line |-> l, dispatched |-> shipped[l]]
  <2>1. ASSUME NEW e \in entries PROVE e = exact /\ l \notin dropped
    BY <2>1 DEF OneInv, EntriesExact, TypeOK, OrderCartModel, Entry
  <2>2. ASSUME NEW e \in held PROVE e = exact /\ l \notin dropped
    BY <2>2 DEF OneInv, FreshCopies, TypeOK, DialogState, Entry
  <2>3. l \notin dropped => entries \cup held # {}
    BY DEF LineNotLost
  <2> HIDE DEF entries, held, exact
  <2>4. entries \cup held = IF l \in dropped THEN {} ELSE {exact}
    BY <2>1, <2>2, <2>3
  <2> QED
    BY <2>4 DEF entries, held, exact
<1> QED
  BY <1>1, OneInvariant, LineNotLostHolds, PTL

----------------------------------------------------------------------------
(* The two writes of a single dialog implement one step of OrderBook: the  *)
(* refinement mapping reads the line from its entry or, between the        *)
(* writes, from the dialog, and both show what was shipped.                *)
LEMMA RecordedIsShipped == OneInv /\ LineNotLost => Recorded = shipped
<1> SUFFICES ASSUME OneInv, LineNotLost PROVE Recorded = shipped
  OBVIOUS
<1>1. ASSUME NEW l \in Lines PROVE Recorded[l] = shipped[l]
  <2> DEFINE held == {d \in Dialogs : Held(d) /\ dialog[d].e.line = l}
  <2>1. CASE \E e \in order.items : e.line = l
    <3> DEFINE x == CHOOSE e \in order.items : e.line = l
    <3>1. x \in order.items /\ x.line = l
      BY <2>1
    <3>2. Recorded[l] = x.dispatched
      BY <2>1 DEF Recorded
    <3> QED
      BY <3>1, <3>2 DEF OneInv, EntriesExact
  <2>2. CASE (~ \E e \in order.items : e.line = l) /\ held # {}
    <3> DEFINE c == CHOOSE d \in held : TRUE
    <3>1. c \in held
      BY <2>2
    <3>2. Recorded[l] = dialog[c].e.dispatched
      BY <2>2 DEF Recorded
    <3> QED
      BY <3>1, <3>2 DEF OneInv, FreshCopies
  <2>3. CASE (~ \E e \in order.items : e.line = l) /\ held = {}
    BY <2>3 DEF Recorded, LineNotLost
  <2> QED
    BY <2>1, <2>2, <2>3
<1>2. Recorded = [l \in Lines |-> Recorded[l]]
  BY DEF Recorded
<1>3. shipped = [l \in Lines |-> shipped[l]]
  BY DEF OneInv, TypeOK
<1> QED
  BY <1>1, <1>2, <1>3

\* A step of Dispatch is a Ship, a Recount, a Lose, or nothing to the order book.
LEMMA BookStep ==
    ASSUME OneDialog, OneInv, LineNotLost, OneInv', LineNotLost', [Next]_vars
    PROVE  [Book!Next]_(Book!vars)
<1>0. TypeOK /\ FreshCopies /\ EntriesExact
  BY DEF OneInv
<1>1. Recorded = shipped /\ Recorded' = shipped'
  <2>1. Recorded = shipped
    BY RecordedIsShipped
  <2>2. (OneInv /\ LineNotLost => Recorded = shipped)'
    BY RecordedIsShipped, PTL
  <2> QED
    BY <2>1, <2>2
<1>a. ASSUME NEW l \in Lines, Faults, shipped[l] # Quantity[l],
             shipped' = shipped, order'.status = order.status,
             order'.deliveredQuantity = order.deliveredQuantity,
             dropped' = dropped \cup {l}
      PROVE  Book!Next
  <2>1. Book!Lose(l)
    BY <1>1, <1>a DEF Book!Lose
  <2> QED
    BY <2>1 DEF Book!Next
<1>b. ASSUME NEW d \in Dialogs, UNCHANGED <<order, shipped>>, Faults, DropHeldLine(d)
      PROVE  Book!Next \/ UNCHANGED Book!vars
  <2>1. CASE Held(d)
    <3>1. /\ dialog[d].e.line \in Lines
          /\ shipped[dialog[d].e.line] # Quantity[dialog[d].e.line]
      BY <1>0, <2>1, DialogType DEF FreshCopies
    <3>2. dropped' = dropped \cup {dialog[d].e.line}
      BY <1>b, <2>1 DEF DropHeldLine
    <3> QED
      BY <1>a, <1>b, <3>1, <3>2
  <2>2. CASE ~Held(d)
    BY <1>1, <1>b, <2>2 DEF DropHeldLine, Book!vars
  <2> QED
    BY <2>1, <2>2
<1>2. ASSUME NEW d \in Dialogs, NEW e \in order.items, Open(d, e)
      PROVE  UNCHANGED Book!vars
  BY <1>1, <1>2 DEF Open, OpenOn, histories, Book!vars
<1>3. ASSUME NEW d \in Dialogs, NEW c \in Dialogs,
             NEW e \in order.items \cup {Dispatched(c)}, OpenOver(d, c, e)
      PROVE  UNCHANGED Book!vars
  BY <1>1, <1>3 DEF OpenOver, OpenOn, histories, Book!vars
<1>4. ASSUME NEW d \in Dialogs, Cancel(d) \/ OkEmpty(d)
      PROVE  UNCHANGED Book!vars
  BY <1>1, <1>4 DEF Cancel, OkEmpty, histories, Book!vars
<1>5. ASSUME NEW d \in Dialogs, NEW n \in Amounts, Ok(d, n)
      PROVE  UNCHANGED Book!vars
  BY <1>1, <1>5 DEF Ok, histories, Book!vars
<1>6. ASSUME NEW d \in Dialogs, NEW answered \in BOOLEAN, RemoveLine(d, answered)
      PROVE  Book!Next \/ UNCHANGED Book!vars
  <2> DEFINE l == dialog[d].e.line
  <2>1. /\ order'.status = order.status /\ shipped' = shipped
        /\ order'.deliveredQuantity = order.deliveredQuantity
        /\ dialog[d].step \in {"removing", "orphaned"}
        /\ dropped' = IF dialog[d].step = "orphaned" THEN dropped \cup {l} ELSE dropped
    BY <1>0, <1>6 DEF RemoveLine, TypeOK, OrderCartModel
  <2>2. CASE dialog[d].step = "orphaned" /\ l \notin dropped
    <3>1. dialog[d].e \in order.items /\ Faults /\ dialog[d].e.dispatched # Quantity[l]
      BY <1>0, <2>2 DEF FreshCopies
    <3>2. shipped[l] # Quantity[l] /\ l \in Lines
      BY <1>0, <3>1, DialogType DEF EntriesExact
    <3> QED
      BY <1>a, <2>1, <2>2, <3>1, <3>2
  <2>3. CASE ~(dialog[d].step = "orphaned" /\ l \notin dropped)
    <3>1. dropped' = dropped
      BY <2>1, <2>3
    <3> QED
      BY <1>1, <2>1, <3>1 DEF Book!vars
  <2> QED
    BY <2>2, <2>3
<1>7. ASSUME NEW d \in Dialogs, NEW answered \in BOOLEAN, AddLine(d, answered)
      PROVE  Book!Next
  <2> DEFINE l == dialog[d].e.line
             n == dialog[d].amount
  <2>1. /\ dialog[d].step = "adding" /\ dropped' = dropped
        /\ order'.deliveredQuantity = order.deliveredQuantity + n
        /\ order'.status = StatusAfter(d)
        /\ dialog[d].applied => shipped' = shipped
        /\ ~dialog[d].applied => shipped' = [shipped EXCEPT ![l] = @ + n]
    BY <1>7 DEF AddLine, Count, Increment
  <2>2. l \in Lines /\ n \in Amounts
    BY <1>0, <2>1, DialogType DEF FreshCopies
  <2>3. CASE ~dialog[d].applied
    <3>1. /\ l \notin dropped /\ shipped[l] # Quantity[l]
          /\ dialog[d].delivered = order.deliveredQuantity
      BY <1>0, <2>1, <2>3 DEF FreshCopies, Held
    <3>2. order'.status = IF order'.deliveredQuantity = Total
                          THEN "delivered" ELSE "pending"
      BY <2>1, <3>1 DEF StatusAfter
    <3>3. Book!Ship(l, n)
      BY <1>1, <2>1, <2>3, <3>1, <3>2 DEF Book!Ship
    <3> QED
      BY <2>2, <3>3 DEF Book!Next
  <2>4. CASE dialog[d].applied
    <3>1. Faults /\ order'.status = order.status
      BY <1>0, <2>1, <2>4 DEF FreshCopies
    <3>2. Book!Recount(n)
      BY <1>1, <2>1, <2>4, <3>1 DEF Book!Recount
    <3> QED
      BY <2>2, <3>2 DEF Book!Next
  <2> QED
    BY <2>3, <2>4
<1>8. ASSUME NEW d \in Dialogs, Refuse(d) \/ Kill(d) \/ KillKept(d)
      PROVE  Book!Next \/ UNCHANGED Book!vars
  <2>1. UNCHANGED <<order, shipped>> /\ Faults /\ DropHeldLine(d)
    BY <1>8 DEF Refuse, Kill, KillKept
  <2> QED
    BY <1>b, <2>1
<1>9. ASSUME NEW d \in Dialogs, SignOut(d) \/ SignIn(d)
      PROVE  UNCHANGED Book!vars
  BY <1>1, <1>9 DEF SignOut, SignIn, histories, Book!vars
<1>10. CASE UNCHANGED vars
  BY <1>1, <1>10 DEF vars, Book!vars
<1> QED
  BY <1>2, <1>3, <1>4, <1>5, <1>6, <1>7, <1>8, <1>9, <1>10 DEF Next

\* With one dialog at a time, for every order: the two-write dispatch of
\* updateDispatchAmount implements the atomic one of OrderBook.
THEOREM DispatchImplementsOrderBook ==
    ASSUME OneDialog PROVE Spec => ImplementsOrderBook
<1>1. Init /\ OneInv /\ LineNotLost => Book!Init
  BY RecordedIsShipped DEF Init, Book!Init
<1>2. OneInv /\ LineNotLost /\ OneInv' /\ LineNotLost' /\ [Next]_vars
        => [Book!Next]_(Book!vars)
  BY BookStep
<1> QED
  BY <1>1, <1>2, OneInvariant, LineNotLostHolds, PTL
  DEF Spec, ImplementsOrderBook, Book!Spec

=============================================================================

----------------------------- MODULE CartProofs -----------------------------
(***************************************************************************)
(* Theorems about Cart.  The first part holds for any devices, customers   *)
(* and modes; the others are about one device, or one customer, and say    *)
(* which mode they need.                                                   *)
(***************************************************************************)
EXTENDS Cart, FiniteSetTheorems, TLAPS

\* What every write that is under way is like.  An item is added to the cart of
\* the customer who tapped, unless a 'not-found' was read after the sign-out:
\* then the set is nobody's.
Proper(w) ==
    /\ w.uid = w.by
    /\ w.op \in {"update", "order"} => w.uid \in Users
    /\ w.op \in {"update", "set"} =>
          \E i \in OrderModel : w.items = <<i>> /\ (w.uid \in Users => i.owner = w.uid)
    /\ w.op = "order" => w.id \in Time

\* Who is signed in to device d, as its screen has it.
SessionFits(d) ==
    /\ screen[d] = "in" => user[d] \in Users
    /\ screen[d] = "login" => user[d] = NoUser
    /\ screen[d] # "login" => served[d] = user[d]
    /\ user[d] # NoUser => served[d] = user[d]
    /\ asked[d] => screen[d] = "in"
    /\ modal[d] # {} => screen[d] = "in" /\ ~asked[d]

\* A document that is not there has no items, and none has infinitely many.
Sound(doc) == (~doc.exists => doc.items = {}) /\ IsFiniteSet(doc.items)

Docs == {doc \in CartDoc : Sound(doc)}

\* Holds of any devices and customers, however they hurry and whatever fails.
BaseInv ==
    /\ TypeOK
    /\ \A d \in Devices : SessionFits(d)
    /\ \A d \in Devices : \A i \in 1 .. Len(pending[d]) : Proper(pending[d][i])
    /\ \A u \in Users : Sound(cart[u])

OneDevice == \A c, d \in Devices : c = d

----------------------------------------------------------------------------
(* Sequences and finite sets.                                              *)

Viewing == INSTANCE Induction WITH
    Op <- LAMBDA u, doc, w : IF w.by = u /\ w.uid = u THEN DocAfter(doc, w) ELSE doc

\* The elements of a concatenation.
LEMMA ConcatFacts ==
    ASSUME NEW S, NEW s \in Seq(S), NEW t \in Seq(S)
    PROVE  /\ s \o t \in Seq(S)
           /\ Len(s \o t) = Len(s) + Len(t)
           /\ \A i \in 1 .. Len(s) : (s \o t)[i] = s[i]
           /\ \A i \in 1 .. Len(t) : (s \o t)[Len(s) + i] = t[i]
  OBVIOUS

\* The elements of a sequence, as a set.
LEMMA ToSetFacts ==
    ASSUME NEW S, NEW s \in Seq(S)
    PROVE  /\ Len(s) \in Nat /\ DOMAIN s = 1 .. Len(s)
           /\ ToSet(s) \subseteq S
           /\ \A i \in 1 .. Len(s) : s[i] \in S /\ s[i] \in ToSet(s)
           /\ \A x \in ToSet(s) : \E i \in 1 .. Len(s) : x = s[i]
           /\ s = <<>> <=> ToSet(s) = {}
           /\ s = <<>> <=> Len(s) = 0
<1>1. Len(s) \in Nat /\ DOMAIN s = 1 .. Len(s) /\ \A i \in 1 .. Len(s) : s[i] \in S
  OBVIOUS
<1>2. s = <<>> <=> Len(s) = 0
  OBVIOUS
<1>3. s # <<>> => 1 \in 1 .. Len(s)
  BY <1>1, <1>2
<1>4. s = <<>> => 1 .. Len(s) = {}
  BY <1>2
<1> QED
  BY <1>1, <1>2, <1>3, <1>4 DEF ToSet

\* The set of a sequence that grew.
LEMMA ToSetConcat ==
    ASSUME NEW S, NEW s \in Seq(S), NEW t \in Seq(S)
    PROVE  ToSet(s \o t) = ToSet(s) \cup ToSet(t)
<1>1. s \o t \in Seq(S)
  OBVIOUS
<1>5. \A i \in 1 .. Len(s \o t) : (s \o t)[i] \in ToSet(s \o t)
  BY <1>1, ToSetFacts
<1>2. ASSUME NEW x \in ToSet(s \o t) PROVE x \in ToSet(s) \cup ToSet(t)
  <2>1. PICK i \in 1 .. Len(s \o t) : x = (s \o t)[i]
    BY <1>1, <1>2, ToSetFacts
  <2>2. CASE i \in 1 .. Len(s)
    BY <2>1, <2>2, ConcatFacts, ToSetFacts
  <2>3. CASE i \notin 1 .. Len(s)
    <3>1. i - Len(s) \in 1 .. Len(t) /\ i = Len(s) + (i - Len(s))
      BY <2>1, <2>3, ConcatFacts, ToSetFacts
    <3> DEFINE j == i - Len(s)
    <3>2. j \in 1 .. Len(t) /\ i = Len(s) + j
      BY <3>1
    <3> HIDE DEF j
    <3>3. (s \o t)[Len(s) + j] = t[j]
      BY <3>2, ConcatFacts
    <3> QED
      BY <2>1, <3>2, <3>3, ToSetFacts
  <2> QED
    BY <2>2, <2>3
<1>3. ASSUME NEW x \in ToSet(s) PROVE x \in ToSet(s \o t)
  <2>1. PICK i \in 1 .. Len(s) : x = s[i]
    BY ToSetFacts
  <2>2. i \in 1 .. Len(s \o t) /\ (s \o t)[i] = s[i]
    BY ConcatFacts, ToSetFacts
  <2> QED
    BY <1>5, <2>1, <2>2
<1>4. ASSUME NEW x \in ToSet(t) PROVE x \in ToSet(s \o t)
  <2>1. PICK i \in 1 .. Len(t) : x = t[i]
    BY ToSetFacts
  <2>2. Len(s) + i \in 1 .. Len(s \o t) /\ (s \o t)[Len(s) + i] = t[i]
    BY ConcatFacts, ToSetFacts
  <2> QED
    BY <1>5, <2>1, <2>2
<1> QED
  BY <1>2, <1>3, <1>4

\* A sequence of one element.
LEMMA Single ==
    ASSUME NEW S, NEW x \in S
    PROVE  /\ <<x>> \in Seq(S) /\ Len(<<x>>) = 1 /\ <<x>>[1] = x /\ ToSet(<<x>>) = {x}
           /\ IsInjective(<<x>>)
<1>1. <<x>> \in Seq(S) /\ Len(<<x>>) = 1 /\ <<x>>[1] = x /\ DOMAIN <<x>> = {1}
  OBVIOUS
<1> QED
  BY <1>1 DEF ToSet, IsInjective

\* Without repetition, and with one more that is new.
LEMMA InjectiveAppend ==
    ASSUME NEW S, NEW s \in Seq(S), IsInjective(s), NEW x \in S, x \notin ToSet(s)
    PROVE  IsInjective(s \o <<x>>)
<1> DEFINE t == s \o <<x>>
           n == Len(s)
<1>1. /\ t \in Seq(S) /\ Len(t) = n + 1 /\ n \in Nat /\ DOMAIN t = 1 .. n + 1
      /\ DOMAIN s = 1 .. n
  OBVIOUS
<1>2. \A i \in 1 .. n : t[i] = s[i] /\ t[i] # x
  BY ConcatFacts, Single, ToSetFacts
<1>3. t[n + 1] = x
  OBVIOUS
<1> HIDE DEF t
<1>4. \A i, j \in 1 .. n : s[i] = s[j] => i = j
  BY <1>1 DEF IsInjective
<1> HIDE DEF n
<1>5. ASSUME NEW i \in 1 .. n + 1, NEW j \in 1 .. n + 1, t[i] = t[j] PROVE i = j
  <2>1. (i \in 1 .. n \/ i = n + 1) /\ (j \in 1 .. n \/ j = n + 1)
    BY <1>1
  <2> QED
    BY <1>2, <1>3, <1>4, <1>5, <2>1
<1>6. IsInjective(t)
  BY <1>1, <1>5 DEF IsInjective
<1> QED
  BY <1>6 DEF t

\* The list that initialize makes of a document shows each of its items once.
LEMMA Listed ==
    ASSUME NEW S, IsFiniteSet(S)
    PROVE  SetToSeq(S) \in Seq(S) /\ ToSet(SetToSeq(S)) = S /\ IsInjective(SetToSeq(S))
<1> DEFINE n == Cardinality(S)
           f == SetToSeq(S)
<1>1. n \in Nat /\ ExistsBijection(1 .. n, S)
  BY FS_CardinalityType
<1>2. \E g \in [1 .. n -> S] : IsInjective(g)
  <2>1. PICK g : g \in Bijection(1 .. n, S)
    BY <1>1, Zenon DEF ExistsBijection
  <2>2. g \in [1 .. n -> S] /\ \A a, b \in 1 .. n : g[a] = g[b] => a = b
    BY <2>1 DEF Bijection, Injection, IsInjective
  <2> QED
    BY <2>2 DEF IsInjective
<1>3. f \in [1 .. n -> S] /\ IsInjective(f)
  BY <1>2 DEF SetToSeq
<1> HIDE DEF f
<1>4. f \in Injection(1 .. n, S)
  BY <1>3 DEF Injection, IsInjective
<1>5. IsFiniteSet(1 .. n) /\ Cardinality(1 .. n) = n
  BY <1>1, FS_Interval
<1>6. f \in Surjection(1 .. n, S)
  BY <1>4, <1>5, FS_Injection
<1>7. \A x \in S : \E i \in 1 .. n : f[i] = x
  BY <1>6 DEF Surjection
<1>8. f \in Seq(S) /\ DOMAIN f = 1 .. n
  BY <1>1, <1>3
<1>9. ToSet(f) = S
  BY <1>3, <1>7, <1>8 DEF ToSet
<1> QED
  BY <1>3, <1>8, <1>9 DEF f

----------------------------------------------------------------------------
(* The queue of a device, and the cart it shows.                           *)

\* The writes of r are writes of q, or in X.
From(r, q, X) ==
    /\ r \in Seq(Write)
    /\ \A k \in 1 .. Len(r) : r[k] \in X \/ \E j \in 1 .. Len(q) : r[k] = q[j]

\* The write that a client sends is the first that its user issued.
LEMMA FirstFacts ==
    ASSUME TypeOK, NEW d \in Devices
    PROVE  /\ pending[d] \in Seq(Write) /\ Len(pending[d]) \in Nat
           /\ First(d) # 0 =>
                 /\ First(d) \in 1 .. Len(pending[d])
                 /\ Answer(d) = pending[d][First(d)] /\ Answer(d) \in Write
                 /\ Answer(d).by = served[d]
           /\ First(d) = 0 => \A j \in 1 .. Len(pending[d]) : pending[d][j].by # served[d]
<1> DEFINE q == pending[d]
           I == {i \in 1 .. Len(q) : Sent(d, q[i])}
<1>1. q \in Seq(Write) /\ Len(q) \in Nat
  BY DEF TypeOK
<1>2. First(d) = IF I # {} THEN Min(I) ELSE 0
  BY DEF First, SelectInSeq
<1>3. ASSUME I # {} PROVE Min(I) \in I
  <2>1. I \subseteq Nat
    OBVIOUS
  <2>2. \E x \in I : \A y \in I : x <= y
    <3> HIDE DEF I
    <3> QED
      BY <1>3, <2>1, Viewing!LeastNumber
  <2> HIDE DEF I
  <2> QED
    BY <2>2 DEF Min
<1>4. 0 \notin I
  BY <1>1
<1>5. First(d) # 0 => First(d) \in I
  BY <1>2, <1>3
<1>6. First(d) = 0 => I = {}
  BY <1>2, <1>3, <1>4
<1>7. \A i \in 1 .. Len(q) : q[i] \in Write
  BY <1>1
<1> QED
  BY <1>1, <1>5, <1>6, <1>7 DEF Sent, Answer

\* A queue without one of its writes.
LEMMA RemoveAtFacts ==
    ASSUME NEW S, NEW q \in Seq(S), NEW i \in 1 .. Len(q)
    PROVE  /\ RemoveAt(q, i) \in Seq(S) /\ Len(RemoveAt(q, i)) = Len(q) - 1
           /\ \A k \in 1 .. Len(q) - 1 :
                 RemoveAt(q, i)[k] = IF k < i THEN q[k] ELSE q[k + 1]
<1> DEFINE s == SubSeq(q, 1, i - 1)
           t == SubSeq(q, i + 1, Len(q))
<1>1. Len(q) \in Nat /\ i \in Nat /\ i >= 1 /\ i <= Len(q)
  OBVIOUS
<1>2. s \in Seq(S) /\ Len(s) = i - 1 /\ \A k \in 1 .. i - 1 : s[k] = q[k]
  BY <1>1
<1>3. t \in Seq(S) /\ Len(t) = Len(q) - i /\ \A k \in 1 .. Len(q) - i : t[k] = q[i + k]
  BY <1>1
<1>4. RemoveAt(q, i) = s \o t
  BY DEF RemoveAt
<1> HIDE DEF s, t
<1> DEFINE r == s \o t
           n == Len(q)
<1>5. /\ r \in Seq(S) /\ Len(r) = Len(s) + Len(t)
      /\ \A k \in 1 .. Len(s) : r[k] = s[k]
      /\ \A k \in 1 .. Len(t) : r[Len(s) + k] = t[k]
  <2>1. s \in Seq(S) /\ t \in Seq(S)
    BY <1>2, <1>3
  <2> QED
    BY <2>1, ConcatFacts
<1>6. n \in Nat /\ Len(q) = n
  BY <1>1
<1> HIDE DEF r, n
<1>7. ASSUME NEW k \in 1 .. n - 1 PROVE r[k] = IF k < i THEN q[k] ELSE q[k + 1]
  <2>1. CASE k < i
    BY <1>1, <1>2, <1>5, <1>6, <2>1
  <2>2. CASE ~(k < i)
    <3> DEFINE j == k - (i - 1)
    <3>1. j \in 1 .. n - i /\ k = (i - 1) + j /\ i + j = k + 1
      BY <1>1, <1>6, <2>2
    <3> HIDE DEF j
    <3>2. r[k] = t[j] /\ t[j] = q[i + j]
      BY <1>2, <1>3, <1>5, <1>6, <3>1
    <3> QED
      BY <2>2, <3>1, <3>2
  <2> QED
    BY <2>1, <2>2
<1>8. Len(r) = n - 1
  BY <1>1, <1>2, <1>3, <1>5, <1>6
<1> QED
  BY <1>4, <1>5, <1>6, <1>7, <1>8 DEF r

\* What the answer to a write leaves of the queue, with the writes that follow it.
LEMMA ThenFrom ==
    ASSUME TypeOK, NEW d \in Devices, First(d) # 0, NEW more \in Seq(Write)
    PROVE  From(RemoveAt(pending[d], First(d)) \o IF Answer(d).awaited THEN more ELSE <<>>,
                pending[d], ToSet(more))
<1> DEFINE q == pending[d]
           n == Len(q)
           i == First(d)
           s == RemoveAt(q, i)
           t == IF Answer(d).awaited THEN more ELSE <<>>
           r == s \o t
<1>1. q \in Seq(Write) /\ n \in Nat /\ i \in 1 .. n
  BY FirstFacts
<1>2. t \in Seq(Write) /\ ToSet(t) \subseteq ToSet(more)
  <2>1. <<>> \in Seq(Write) /\ ToSet(<<>>) = {}
    BY DEF ToSet
  <2> QED
    BY <2>1
<1> SUFFICES From(r, q, ToSet(more))
  OBVIOUS
<1> HIDE DEF q, i, t
<1>4. s \in Seq(Write) /\ Len(s) = n - 1
      /\ \A k \in 1 .. n - 1 : s[k] = IF k < i THEN q[k] ELSE q[k + 1]
  BY <1>1, RemoveAtFacts
<1>9. n = Len(q)
  OBVIOUS
<1> HIDE DEF s, n
<1>5. \A k \in 1 .. n - 1 : \E j \in 1 .. n : s[k] = q[j]
  <2> TAKE k \in 1 .. n - 1
  <2>1. k \in 1 .. n /\ k + 1 \in 1 .. n
    BY <1>1
  <2> QED
    BY <1>4, <2>1
<1>6. \A x \in ToSet(s) : \E j \in 1 .. n : x = q[j]
  <2>1. s \in Seq(Write)
    BY <1>4
  <2>2. \A x \in ToSet(s) : \E k \in 1 .. Len(s) : x = s[k]
    BY <2>1, ToSetFacts
  <2> QED
    BY <1>4, <1>5, <2>2
<1>7. r \in Seq(Write) /\ ToSet(r) = ToSet(s) \cup ToSet(t)
  <2>1. s \in Seq(Write) /\ t \in Seq(Write)
    BY <1>2, <1>4
  <2>2. ToSet(r) = ToSet(s) \cup ToSet(t)
    BY <2>1, ToSetConcat
  <2>3. r \in Seq(Write)
    BY <2>1
  <2> QED
    BY <2>2, <2>3
<1> HIDE DEF r
<1>8. \A k \in 1 .. Len(r) : r[k] \in ToSet(r)
  BY <1>7, ToSetFacts
<1> QED
  BY <1>2, <1>6, <1>7, <1>8, <1>9 DEF From

\* What a button leaves of the queue.
LEMMA IssueFrom ==
    ASSUME TypeOK, NEW d \in Devices, NEW w \in Write
    PROVE  From(Append(pending[d], w), pending[d], {w})
<1> DEFINE q == pending[d]
<1>1. q \in Seq(Write) /\ Len(q) \in Nat
  BY FirstFacts
<1> HIDE DEF q
<1>2. Append(q, w) \in Seq(Write) /\ Len(Append(q, w)) = Len(q) + 1
      /\ (\A k \in 1 .. Len(q) : Append(q, w)[k] = q[k]) /\ Append(q, w)[Len(q) + 1] = w
  BY <1>1
<1>3. From(Append(q, w), q, {w})
  BY <1>1, <1>2 DEF From
<1> QED
  BY <1>3 DEF q

\* A write leads from one proper document to another.
LEMMA DocAfterSound ==
    ASSUME NEW doc \in Docs, NEW w \in Write, Proper(w)
    PROVE  DocAfter(doc, w) \in Docs
<1> USE DEF Docs, CartDoc, Sound, ArrayUnion
<1>1. ASSUME w.op \in {"update", "set"}
      PROVE  \E i \in OrderModel : ToSet(w.items) = {i}
  BY <1>1, Single DEF Proper
<1>2. CASE w.op = "update" /\ doc.exists
  <2>1. PICK i \in OrderModel : ToSet(w.items) = {i}
    BY <1>1, <1>2
  <2>2. IsFiniteSet(doc.items \cup {i})
    BY FS_AddElement
  <2>3. DocAfter(doc, w) = [doc EXCEPT !.items = @ \cup {i}]
    BY <1>2, <2>1 DEF DocAfter
  <2> QED
    BY <1>2, <2>2, <2>3
<1>3. CASE w.op = "set"
  <2>1. PICK i \in OrderModel : ToSet(w.items) = {i}
    BY <1>1, <1>3
  <2>2. IsFiniteSet({i})
    BY FS_Singleton
  <2>3. DocAfter(doc, w) = [exists |-> TRUE, items |-> {i}]
    BY <1>3, <2>1 DEF DocAfter
  <2> QED
    BY <2>2, <2>3
<1>4. CASE w.op = "delete"
  BY <1>4, FS_EmptySet DEF DocAfter, NoDoc
<1>5. CASE ~(w.op = "update" /\ doc.exists) /\ w.op # "set" /\ w.op # "delete"
  BY <1>5 DEF DocAfter
<1> QED
  BY <1>2, <1>3, <1>4, <1>5

\* View is a fold over the queue of the device.
LEMMA ViewIsFold ==
    ASSUME TypeOK, NEW d \in Devices, NEW u
    PROVE  View(d, u) = Viewing!Folded(Len(pending[d]), u, cart[u], pending[d])
<1> DEFINE q == pending[d]
<1>1. q \in Seq(Write) /\ DOMAIN q = 1 .. Len(q)
  BY FirstFacts
<1> QED
  BY <1>1 DEF View, FoldLeft, MapThenFoldSet, Viewing!Folded, Viewing!Max, Max

\* What a device shows of a cart is a proper document.
LEMMA ViewSound ==
    ASSUME BaseInv, NEW d \in Devices, NEW u \in Users
    PROVE  View(d, u) \in Docs /\ (pending[d] = <<>> => View(d, u) = cart[u])
<1> DEFINE q == pending[d]
           n == Len(q)
<1>1. q \in Seq(Write) /\ n \in Nat /\ \A i \in 1 .. n : q[i] \in Write /\ Proper(q[i])
  BY FirstFacts, ToSetFacts DEF BaseInv
<1>2. View(d, u) = Viewing!Folded(n, u, cart[u], q)
  BY ViewIsFold DEF BaseInv
<1>3. cart[u] \in Docs
  BY DEF BaseInv, TypeOK, Docs
<1> HIDE DEF q, n
<1>4. \A i \in 1 .. n : \A x \in Docs :
         (IF q[i].by = u /\ q[i].uid = u THEN DocAfter(x, q[i]) ELSE x) \in Docs
  BY <1>1, DocAfterSound
<1>5. Viewing!Folded(n, u, cart[u], q) \in Docs
  BY <1>1, <1>3, <1>4, Viewing!FoldedIn
<1>6. ASSUME n = 0 PROVE Viewing!Folded(n, u, cart[u], q) = cart[u]
  <2>1. \A i \in 1 .. n : FALSE
    BY <1>6
  <2>2. Viewing!Folded(n, u, cart[u], q) \in {cart[u]}
    BY <1>1, <2>1, Viewing!FoldedIn
  <2> QED
    BY <2>2
<1>7. q = <<>> => n = 0
  BY DEF n
<1> QED
  BY <1>2, <1>5, <1>6, <1>7 DEF q

----------------------------------------------------------------------------
(* Every step changes one device, and the server.                          *)

\* What device d shows may lie on top of such a screen after the step.
ModalFits(d, s, a) ==
    \E m \in SUBSET Products :
        modal' = [modal EXCEPT ![d] = m] /\ (m # {} => s = "in" /\ ~a)

\* Device d after the step; the other devices are as before.
Becomes(d, c, s, u, v, p, a, q) ==
    /\ clock' = [clock EXCEPT ![d] = c]
    /\ screen' = [screen EXCEPT ![d] = s]
    /\ user' = [user EXCEPT ![d] = u]
    /\ served' = [served EXCEPT ![d] = v]
    /\ products' = [products EXCEPT ![d] = p]
    /\ asked' = [asked EXCEPT ![d] = a]
    /\ pending' = [pending EXCEPT ![d] = q]
    /\ ModalFits(d, s, a)

\* A device may be like that.
Fits(c, s, u, v, p, a, q) ==
    /\ c \in 0 .. MaxTime /\ s \in {"splash", "login", "in"}
    /\ u \in Users \cup {NoUser} /\ v \in Users \cup {NoUser}
    /\ p \in Seq(OrderModel) /\ a \in BOOLEAN
    /\ q \in Seq(Write) /\ \A i \in 1 .. Len(q) : Proper(q[i])
    /\ s = "in" => u \in Users
    /\ s = "login" => u = NoUser
    /\ s # "login" => v = u
    /\ u # NoUser => v = u
    /\ a => s = "in"

\* The server may be like that after the step.
ServerFits ==
    /\ cart' \in [Users -> Docs]
    /\ orders' \in [Time -> OrderDoc \cup {NoOrder}]
    /\ tapped' \subseteq OrderModel

\* Writing back what is there changes nothing.
LEMMA SameExcept ==
    ASSUME NEW D, NEW S, NEW f \in [D -> S], NEW d \in D
    PROVE  [f EXCEPT ![d] = f[d]] = f
  OBVIOUS

\* What is there now, of one device and of the server.
LEMMA NowFits ==
    ASSUME BaseInv, NEW d \in Devices
    PROVE  /\ Fits(clock[d], screen[d], user[d], served[d], products[d], asked[d], pending[d])
           /\ UNCHANGED <<cart, orders, tapped>> => ServerFits
<1>1. Fits(clock[d], screen[d], user[d], served[d], products[d], asked[d], pending[d])
  BY DEF BaseInv, TypeOK, SessionFits, Fits
<1>2. cart \in [Users -> Docs]
  BY DEF BaseInv, TypeOK, Docs
<1> QED
  BY <1>1, <1>2 DEF ServerFits, BaseInv, TypeOK

\* What a step leaves alone.
LEMMA StillThere ==
    ASSUME BaseInv, NEW d \in Devices
    PROVE  /\ clock' = clock => clock' = [clock EXCEPT ![d] = clock[d]]
           /\ screen' = screen => screen' = [screen EXCEPT ![d] = screen[d]]
           /\ user' = user => user' = [user EXCEPT ![d] = user[d]]
           /\ served' = served => served' = [served EXCEPT ![d] = served[d]]
           /\ products' = products => products' = [products EXCEPT ![d] = products[d]]
           /\ asked' = asked => asked' = [asked EXCEPT ![d] = asked[d]]
           /\ pending' = pending => pending' = [pending EXCEPT ![d] = pending[d]]
  BY SameExcept DEF BaseInv, TypeOK

\* What lies on top of a screen that stays, or of another when nothing does.
LEMMA ModalThere ==
    ASSUME BaseInv, NEW d \in Devices
    PROVE  /\ modal' = modal => ModalFits(d, screen[d], asked[d])
           /\ modal' = modal /\ modal[d] = {} => \A s, a : ModalFits(d, s, a)
           /\ modal' = [modal EXCEPT ![d] = {}] => \A s, a : ModalFits(d, s, a)
           /\ modal[d] # {} => screen[d] = "in" /\ ~asked[d]
<1>1. modal \in [Devices -> SUBSET Products] /\ modal[d] \in SUBSET Products
  BY DEF BaseInv, TypeOK
<1>2. [modal EXCEPT ![d] = modal[d]] = modal
  BY <1>1, SameExcept
<1>3. modal[d] # {} => screen[d] = "in" /\ ~asked[d]
  BY DEF BaseInv, SessionFits
<1>4. {} \in SUBSET Products
  OBVIOUS
<1> QED
  BY <1>1, <1>2, <1>3, <1>4 DEF ModalFits

\* Device d after the step, and the others.
LEMMA BecomesAt ==
    ASSUME BaseInv, NEW d \in Devices, NEW c, NEW s, NEW u, NEW v, NEW p, NEW a, NEW q,
           Becomes(d, c, s, u, v, p, a, q)
    PROVE  /\ clock'[d] = c /\ screen'[d] = s /\ user'[d] = u /\ served'[d] = v
           /\ products'[d] = p /\ asked'[d] = a /\ pending'[d] = q
           /\ \A e \in Devices \ {d} :
                 /\ clock'[e] = clock[e] /\ screen'[e] = screen[e] /\ user'[e] = user[e]
                 /\ served'[e] = served[e] /\ products'[e] = products[e]
                 /\ asked'[e] = asked[e] /\ pending'[e] = pending[e]
  BY DEF BaseInv, TypeOK, Becomes

\* Such a step keeps what holds of any devices and customers.
LEMMA BaseKept ==
    ASSUME BaseInv, NEW d \in Devices, NEW c, NEW s, NEW u, NEW v, NEW p, NEW a, NEW q,
           Becomes(d, c, s, u, v, p, a, q), Fits(c, s, u, v, p, a, q), ServerFits
    PROVE  BaseInv'
<1>1. clock' \in [Devices -> 0 .. MaxTime]
  BY DEF BaseInv, TypeOK, Becomes, Fits
<1>2. screen' \in [Devices -> {"splash", "login", "in"}]
  BY DEF BaseInv, TypeOK, Becomes, Fits
<1>3. user' \in [Devices -> Users \cup {NoUser}] /\ served' \in [Devices -> Users \cup {NoUser}]
  BY DEF BaseInv, TypeOK, Becomes, Fits
<1>4. products' \in [Devices -> Seq(OrderModel)]
  BY DEF BaseInv, TypeOK, Becomes, Fits
<1>5. asked' \in [Devices -> BOOLEAN]
  BY DEF BaseInv, TypeOK, Becomes, Fits
<1>6. pending' \in [Devices -> Seq(Write)]
  BY DEF BaseInv, TypeOK, Becomes, Fits
<1>7. cart' \in [Users -> CartDoc] /\ \A x \in Users : Sound(cart'[x])
  BY DEF ServerFits, Docs
<1>8. PICK m \in SUBSET Products :
          modal' = [modal EXCEPT ![d] = m] /\ (m # {} => s = "in" /\ ~a)
  BY DEF Becomes, ModalFits
<1>9. /\ modal' \in [Devices -> SUBSET Products] /\ modal'[d] = m
       /\ \A e \in Devices \ {d} : modal'[e] = modal[e]
  BY <1>8 DEF BaseInv, TypeOK
<1>10. TypeOK'
  BY <1>1, <1>2, <1>3, <1>4, <1>5, <1>6, <1>7, <1>9 DEF TypeOK, ServerFits
<1>11. ASSUME NEW e \in Devices
      PROVE  SessionFits(e)' /\ \A i \in 1 .. Len(pending'[e]) : Proper(pending'[e][i])
  <2>1. CASE e = d
    <3>1. SessionFits(d)'
      BY <1>8, <1>9, BecomesAt DEF Fits, SessionFits
    <3>2. pending'[d] = q /\ \A i \in 1 .. Len(q) : Proper(q[i])
      BY BecomesAt DEF Fits
    <3> QED
      BY <2>1, <3>1, <3>2
  <2>2. CASE e # d
    <3>1. SessionFits(e) /\ \A i \in 1 .. Len(pending[e]) : Proper(pending[e][i])
      BY DEF BaseInv
    <3>2. SessionFits(e)'
      BY <1>9, <2>2, <3>1, BecomesAt DEF SessionFits
    <3>3. pending'[e] = pending[e]
      BY <2>2, BecomesAt
    <3> QED
      BY <3>1, <3>2, <3>3
  <2> QED
    BY <2>1, <2>2
<1>12. \A e \in Devices : \A i \in 1 .. Len(pending'[e]) : Proper(pending[e][i])'
  BY <1>11 DEF Proper
<1> QED
  BY <1>7, <1>10, <1>11, <1>12 DEF BaseInv, Sound

----------------------------------------------------------------------------
(* The device after each action.                                           *)

\* The list that the splash screen leaves.
Loaded(d) ==
    IF user[d] # NoUser /\ View(d, user[d]).exists
    THEN SetToSeq(View(d, user[d]).items) ELSE products[d]

\* The list and the queue that an answer leaves.
Longer(d) == IF Answer(d).awaited THEN products[d] \o Answer(d).items ELSE products[d]
Emptied(d) == IF Answer(d).awaited THEN <<>> ELSE products[d]
Rest(d, more) ==
    RemoveAt(pending[d], First(d)) \o IF Answer(d).awaited THEN more ELSE <<>>

\* The writes that nobody awaits any more.
Abandoned(d, kept) ==
    IF kept THEN [i \in DOMAIN pending[d] |-> [pending[d][i] EXCEPT !.awaited = FALSE]]
    ELSE <<>>

\* The item tapped.
Tapped(d, p) == [orderId |-> Now(d), productId |-> p, owner |-> user[d]]

Still == UNCHANGED <<cart, orders, tapped>>

\* The sessions.
LEMMA SessionShapes ==
    ASSUME BaseInv, NEW d \in Devices
    PROVE  /\ Splash(d) =>
                 /\ screen[d] = "splash" /\ Still
                 /\ Becomes(d, clock[d], IF user[d] = NoUser THEN "login" ELSE "in", user[d],
                            served[d], Loaded(d), asked[d], pending[d])
           /\ \A u \in Users : SignIn(d, u) =>
                 /\ screen[d] = "login" /\ (AlwaysLoaded => Shows(d, u)) /\ Still
                 /\ Becomes(d, clock[d], "in", u, u, products[d], asked[d], pending[d])
           /\ SignOut(d) =>
                 /\ screen[d] = "in" /\ ~asked[d] /\ Ready(d) /\ Still
                 /\ Becomes(d, clock[d], "login", NoUser, served[d], products[d], asked[d], pending[d])
           /\ HandleCredentialChange(d) =>
                 /\ served[d] # user[d] /\ Still
                 /\ Becomes(d, clock[d], screen[d], user[d], user[d], products[d], asked[d], pending[d])
           /\ \A kept \in BOOLEAN : Restart(d, kept) =>
                 /\ (Faults \/ pending[d] = <<>>) /\ Still
                 /\ Becomes(d, clock[d], "splash", user[d], user[d], <<>>, FALSE, Abandoned(d, kept))
           /\ Reload(d) =>
                 /\ ~AlwaysLoaded /\ screen[d] = "in" /\ Still
                 /\ Becomes(d, clock[d], screen[d], user[d], served[d], <<>>, FALSE, <<>>)
<1> USE StillThere, ModalThere DEF Becomes, Still
<1>1. Splash(d) =>
         /\ screen[d] = "splash" /\ Still
         /\ Becomes(d, clock[d], IF user[d] = NoUser THEN "login" ELSE "in", user[d],
                    served[d], Loaded(d), asked[d], pending[d])
  BY DEF Splash, Loaded
<1>2. \A u \in Users : SignIn(d, u) =>
         /\ screen[d] = "login" /\ (AlwaysLoaded => Shows(d, u)) /\ Still
         /\ Becomes(d, clock[d], "in", u, u, products[d], asked[d], pending[d])
  BY DEF SignIn
<1>3. SignOut(d) =>
         /\ screen[d] = "in" /\ ~asked[d] /\ Ready(d) /\ Still
         /\ Becomes(d, clock[d], "login", NoUser, served[d], products[d], asked[d], pending[d])
  BY DEF SignOut, Free
<1>4. HandleCredentialChange(d) =>
         /\ served[d] # user[d] /\ Still
         /\ Becomes(d, clock[d], screen[d], user[d], user[d], products[d], asked[d], pending[d])
  BY DEF HandleCredentialChange
<1>5. \A kept \in BOOLEAN : Restart(d, kept) =>
         /\ (Faults \/ pending[d] = <<>>) /\ Still
         /\ Becomes(d, clock[d], "splash", user[d], user[d], <<>>, FALSE, Abandoned(d, kept))
  BY DEF Restart, Abandoned
<1>6. Reload(d) =>
         /\ ~AlwaysLoaded /\ screen[d] = "in" /\ Still
         /\ Becomes(d, clock[d], screen[d], user[d], served[d], <<>>, FALSE, <<>>)
  BY DEF Reload
<1> QED
  BY <1>1, <1>2, <1>3, <1>4, <1>5, <1>6

\* The buttons.
LEMMA ButtonShapes ==
    ASSUME BaseInv, NEW d \in Devices
    PROVE  /\ \A p \in Products : AddToCart(d, p) =>
                 /\ screen[d] = "in" /\ ~asked[d] /\ Ready(d) /\ clock[d] < MaxTime
                 /\ tapped' = tapped \cup {Tapped(d, p)} /\ UNCHANGED <<cart, orders>>
                 /\ Becomes(d, Now(d), screen[d], user[d], served[d], products[d], asked[d],
                            Append(pending[d],
                                   NewWrite(d, "update", user[d], <<Tapped(d, p)>>, 0)))
           /\ Buy(d) =>
                 /\ screen[d] = "in" /\ ~asked[d] /\ Ready(d) /\ products[d] # <<>> /\ Still
                 /\ Becomes(d, clock[d], screen[d], user[d], served[d], products[d], TRUE, pending[d])
           /\ Decline(d) =>
                 /\ asked[d] /\ Still
                 /\ Becomes(d, clock[d], screen[d], user[d], served[d], products[d], FALSE, pending[d])
           /\ Confirm(d) =>
                 /\ asked[d] /\ clock[d] < MaxTime /\ Still
                 /\ Becomes(d, Now(d), screen[d], user[d], served[d], products[d], FALSE,
                            Append(pending[d],
                                   NewWrite(d, "order", user[d], products[d], Now(d))))
<1> USE StillThere, ModalThere DEF Becomes, Still
<1>1. \A p \in Products : AddToCart(d, p) =>
         /\ screen[d] = "in" /\ ~asked[d] /\ Ready(d) /\ clock[d] < MaxTime
         /\ tapped' = tapped \cup {Tapped(d, p)} /\ UNCHANGED <<cart, orders>>
         /\ Becomes(d, Now(d), screen[d], user[d], served[d], products[d], asked[d],
                    Append(pending[d], NewWrite(d, "update", user[d], <<Tapped(d, p)>>, 0)))
  BY DEF AddToCart, Tick, Issue, Tapped
<1>2. Buy(d) =>
         /\ screen[d] = "in" /\ ~asked[d] /\ Ready(d) /\ products[d] # <<>> /\ Still
         /\ Becomes(d, clock[d], screen[d], user[d], served[d], products[d], TRUE, pending[d])
  BY DEF Buy, Free
<1>3. Decline(d) =>
         /\ asked[d] /\ Still
         /\ Becomes(d, clock[d], screen[d], user[d], served[d], products[d], FALSE, pending[d])
  BY DEF Decline
<1>4. Confirm(d) =>
         /\ asked[d] /\ clock[d] < MaxTime /\ Still
         /\ Becomes(d, Now(d), screen[d], user[d], served[d], products[d], FALSE,
                    Append(pending[d], NewWrite(d, "order", user[d], products[d], Now(d))))
  BY DEF Confirm, Tick, Issue
<1> QED
  BY <1>1, <1>2, <1>3, <1>4

\* The answers: to which kind of write, and the list and queue they leave.
Answers(d, op, p, more) ==
    /\ First(d) # 0 /\ Answer(d).op = op
    /\ tapped' = tapped
    /\ Becomes(d, clock[d], screen[d], user[d], served[d], p, asked[d], Rest(d, more))

\* The device after each answer.
LEMMA AnswerShapes ==
    ASSUME BaseInv, NEW d \in Devices
    PROVE  /\ Added(d) => Answers(d, "update", Longer(d), <<>>) /\ Effect(Answer(d)) /\ Found(d)
           /\ NotFound(d) =>
                 /\ Answers(d, "update", products[d],
                            <<NewWrite(d, "set", user[d], Answer(d).items, 0)>>)
                 /\ Still /\ ~Found(d)
           /\ Created(d) => Answers(d, "set", Longer(d), <<>>) /\ Effect(Answer(d))
           /\ Placed(d) => Answers(d, "order", Emptied(d), <<Deletion(d)>>) /\ Effect(Answer(d))
           /\ Cleared(d) => Answers(d, "delete", products[d], <<>>) /\ Effect(Answer(d))
           /\ Unanswered(d) =>
                 /\ Faults /\ First(d) # 0 /\ Effect(Answer(d)) /\ tapped' = tapped
                 /\ Becomes(d, clock[d], screen[d], user[d], served[d], products[d], asked[d],
                            pending[d])
           /\ Refused(d) =>
                 /\ Faults /\ First(d) # 0 /\ Still
                 /\ Becomes(d, clock[d], screen[d], user[d], served[d],
                            IF Answer(d).op = "update" THEN Longer(d) ELSE products[d],
                            asked[d], Rest(d, <<>>))
<1> USE StillThere, ModalThere DEF Becomes, Still, Answers
<1>1. Added(d) => Answers(d, "update", Longer(d), <<>>) /\ Effect(Answer(d)) /\ Found(d)
  BY DEF Added, Remember, Then, Answered, Longer, Rest
<1>2. NotFound(d) =>
         /\ Answers(d, "update", products[d],
                    <<NewWrite(d, "set", user[d], Answer(d).items, 0)>>)
         /\ Still /\ ~Found(d)
  BY DEF NotFound, Then, Answered, Rest
<1>3. Created(d) => Answers(d, "set", Longer(d), <<>>) /\ Effect(Answer(d))
  BY DEF Created, Remember, Then, Answered, Longer, Rest
<1>4. Placed(d) => Answers(d, "order", Emptied(d), <<Deletion(d)>>) /\ Effect(Answer(d))
  BY DEF Placed, Then, Answered, Emptied, Rest
<1>5. Cleared(d) => Answers(d, "delete", products[d], <<>>) /\ Effect(Answer(d))
  BY DEF Cleared, Then, Answered, Rest
<1>6. Unanswered(d) =>
         /\ Faults /\ First(d) # 0 /\ Effect(Answer(d)) /\ tapped' = tapped
         /\ Becomes(d, clock[d], screen[d], user[d], served[d], products[d], asked[d], pending[d])
  BY DEF Unanswered
<1>7. Refused(d) =>
         /\ Faults /\ First(d) # 0 /\ Still
         /\ Becomes(d, clock[d], screen[d], user[d], served[d],
                    IF Answer(d).op = "update" THEN Longer(d) ELSE products[d],
                    asked[d], Rest(d, <<>>))
  BY DEF Refused, Remember, Then, Longer, Rest
<1> QED
  BY <1>1, <1>2, <1>3, <1>4, <1>5, <1>6, <1>7

----------------------------------------------------------------------------
(* What holds of any devices and customers.                                *)

\* The write answered, and its place.
LEMMA AnswerProper ==
    ASSUME BaseInv, NEW d \in Devices, First(d) # 0
    PROVE  Answer(d) \in Write /\ Proper(Answer(d)) /\ Answer(d).by = served[d]
<1>1. TypeOK /\ \A i \in 1 .. Len(pending[d]) : Proper(pending[d][i])
  BY DEF BaseInv
<1> QED
  BY <1>1, FirstFacts

\* A queue of proper writes stays one.
LEMMA ProperFrom ==
    ASSUME BaseInv, NEW d \in Devices, NEW r, NEW X, From(r, pending[d], X), \A w \in X : Proper(w)
    PROVE  r \in Seq(Write) /\ \A i \in 1 .. Len(r) : Proper(r[i])
<1>1. \A j \in 1 .. Len(pending[d]) : Proper(pending[d][j])
  BY DEF BaseInv
<1> QED
  BY <1>1 DEF From

\* What a write does to the server.
LEMMA EffectFits ==
    ASSUME BaseInv, NEW w \in Write, Proper(w), Effect(w), tapped' = tapped
    PROVE  ServerFits
<1>1. cart \in [Users -> Docs] /\ orders \in [Time -> OrderDoc \cup {NoOrder}] /\ tapped \subseteq OrderModel
  BY DEF BaseInv, TypeOK, Docs
<1>2. w.uid \in Users => DocAfter(cart[w.uid], w) \in Docs
  BY <1>1, DocAfterSound
<1>3. w.uid \in Users \cup {NoUser} /\ w.items \in Seq(OrderModel)
  BY DEF Write
<1>4. cart' \in [Users -> Docs]
  <2>1. CASE w.uid = NoUser
    BY <1>1, <2>1 DEF Effect
  <2>2. CASE w.uid # NoUser
    <3>1. w.uid \in Users /\ cart' = [cart EXCEPT ![w.uid] = DocAfter(cart[w.uid], w)]
      BY <1>3, <2>2 DEF Effect
    <3> HIDE DEF Docs
    <3> QED
      BY <1>1, <1>2, <3>1
  <2> QED
    BY <2>1, <2>2
<1>5. orders' \in [Time -> OrderDoc \cup {NoOrder}]
  <2>1. CASE w.op = "order"
    <3>1. [uid |-> w.uid, items |-> w.items] \in OrderDoc /\ w.id \in Time
      BY <1>3, <2>1 DEF Proper, OrderDoc
    <3> QED
      BY <1>1, <2>1, <3>1 DEF Effect
  <2>2. CASE w.op # "order"
    BY <1>1, <2>2 DEF Effect
  <2> QED
    BY <2>1, <2>2
<1> QED
  BY <1>1, <1>4, <1>5 DEF ServerFits

\* The sessions keep it.
LEMMA BaseSessions ==
    ASSUME BaseInv, NEW d \in Devices,
           \/ Splash(d) \/ (\E u \in Users : SignIn(d, u)) \/ SignOut(d)
           \/ HandleCredentialChange(d) \/ (\E kept \in BOOLEAN : Restart(d, kept)) \/ Reload(d)
    PROVE  BaseInv'
<1>1. Fits(clock[d], screen[d], user[d], served[d], products[d], asked[d], pending[d])
  BY NowFits
<1>2. Still => ServerFits
  BY NowFits DEF Still
<1>3. /\ <<>> \in Seq(Write) /\ <<>> \in Seq(OrderModel)
      /\ \A i \in 1 .. Len(<<>>) : Proper(<<>>[i])
  OBVIOUS
<1>4. CASE Splash(d)
  <2>1. Loaded(d) \in Seq(OrderModel)
    <3>1. ASSUME user[d] # NoUser PROVE SetToSeq(View(d, user[d]).items) \in Seq(OrderModel)
      <4>1. user[d] \in Users
        BY <1>1, <3>1 DEF Fits
      <4>2. View(d, user[d]) \in Docs
        BY <4>1, ViewSound
      <4>3. IsFiniteSet(View(d, user[d]).items) /\ View(d, user[d]).items \subseteq OrderModel
        BY <4>2 DEF Docs, Sound, CartDoc
      <4>4. SetToSeq(View(d, user[d]).items) \in Seq(View(d, user[d]).items)
        BY <4>3, Listed
      <4> QED
        BY <4>3, <4>4
    <3> QED
      BY <1>1, <3>1 DEF Loaded, Fits
  <2>2. /\ screen[d] = "splash" /\ Still
        /\ Becomes(d, clock[d], IF user[d] = NoUser THEN "login" ELSE "in", user[d],
                   served[d], Loaded(d), asked[d], pending[d])
    BY <1>4, SessionShapes
  <2>3. Fits(clock[d], IF user[d] = NoUser THEN "login" ELSE "in", user[d],
             served[d], Loaded(d), asked[d], pending[d])
    BY <1>1, <2>1, <2>2 DEF Fits
  <2> QED
    BY <1>2, <2>2, <2>3, BaseKept
<1>5. ASSUME NEW u \in Users, SignIn(d, u) PROVE BaseInv'
  <2>1. /\ screen[d] = "login" /\ Still
        /\ Becomes(d, clock[d], "in", u, u, products[d], asked[d], pending[d])
    BY <1>5, SessionShapes
  <2>2. Fits(clock[d], "in", u, u, products[d], asked[d], pending[d])
    BY <1>1, <2>1 DEF Fits
  <2> QED
    BY <1>2, <2>1, <2>2, BaseKept
<1>6. CASE SignOut(d)
  <2>1. /\ ~asked[d] /\ Still
        /\ Becomes(d, clock[d], "login", NoUser, served[d], products[d], asked[d], pending[d])
    BY <1>6, SessionShapes
  <2>2. Fits(clock[d], "login", NoUser, served[d], products[d], asked[d], pending[d])
    BY <1>1, <2>1 DEF Fits
  <2> QED
    BY <1>2, <2>1, <2>2, BaseKept
<1>7. CASE HandleCredentialChange(d)
  <2>1. /\ Still
        /\ Becomes(d, clock[d], screen[d], user[d], user[d], products[d], asked[d], pending[d])
    BY <1>7, SessionShapes
  <2>2. Fits(clock[d], screen[d], user[d], user[d], products[d], asked[d], pending[d])
    BY <1>1 DEF Fits
  <2> QED
    BY <1>2, <2>1, <2>2, BaseKept
<1>8. ASSUME NEW kept \in BOOLEAN, Restart(d, kept) PROVE BaseInv'
  <2>1. /\ Still
        /\ Becomes(d, clock[d], "splash", user[d], user[d], <<>>, FALSE, Abandoned(d, kept))
    BY <1>8, SessionShapes
  <2> DEFINE r == Abandoned(d, kept)
             q == pending[d]
             w(i) == [q[i] EXCEPT !.awaited = FALSE]
  <2>2. r \in Seq(Write) /\ \A i \in 1 .. Len(r) : Proper(r[i])
    <3>1. /\ q \in Seq(Write) /\ Len(q) \in Nat /\ DOMAIN q = 1 .. Len(q)
          /\ \A i \in 1 .. Len(q) : q[i] \in Write /\ Proper(q[i])
      BY <1>1, ToSetFacts DEF Fits
    <3>2. CASE ~kept
      BY <1>3, <3>2 DEF Abandoned
    <3>3. CASE kept
      <4>1. r = [i \in 1 .. Len(q) |-> w(i)]
        BY <3>1, <3>3 DEF Abandoned
      <4>2. \A x \in Write : Proper(x) =>
               [x EXCEPT !.awaited = FALSE] \in Write /\ Proper([x EXCEPT !.awaited = FALSE])
        BY DEF Write, Proper
      <4>3. \A i \in 1 .. Len(q) : w(i) \in Write /\ Proper(w(i))
        BY <3>1, <4>2
      <4> HIDE DEF r, q, w
      <4>4. r \in [1 .. Len(q) -> Write] /\ \A i \in 1 .. Len(q) : r[i] = w(i)
        BY <4>1, <4>3
      <4>5. r \in Seq(Write) /\ Len(r) = Len(q)
        BY <3>1, <4>4
      <4> QED
        BY <4>3, <4>4, <4>5
    <3> QED
      BY <3>2, <3>3
  <2> HIDE DEF r
  <2>3. Fits(clock[d], "splash", user[d], user[d], <<>>, FALSE, r)
    BY <1>1, <1>3, <2>2 DEF Fits
  <2> QED
    BY <1>2, <2>1, <2>3, BaseKept DEF r
<1>9. CASE Reload(d)
  <2>1. /\ Still
        /\ Becomes(d, clock[d], screen[d], user[d], served[d], <<>>, FALSE, <<>>)
    BY <1>9, SessionShapes
  <2>2. Fits(clock[d], screen[d], user[d], served[d], <<>>, FALSE, <<>>)
    BY <1>1, <1>3 DEF Fits
  <2> QED
    BY <1>2, <2>1, <2>2, BaseKept
<1> QED
  BY <1>4, <1>5, <1>6, <1>7, <1>8, <1>9

\* A write of whoever is signed in.
LEMMA NewWriteProper ==
    ASSUME BaseInv, NEW d \in Devices, NEW op \in {"update", "set", "order", "delete"},
           NEW items \in Seq(OrderModel), NEW id \in Time \cup {0},
           op \in {"update", "order"} => user[d] \in Users,
           op \in {"update", "set"} =>
               \E i \in OrderModel : items = <<i>> /\ (user[d] \in Users => i.owner = user[d]),
           op = "order" => id \in Time
    PROVE  NewWrite(d, op, user[d], items, id) \in Write /\ Proper(NewWrite(d, op, user[d], items, id))
<1>1. user[d] \in Users \cup {NoUser}
  BY DEF BaseInv, TypeOK
<1> QED
  BY <1>1 DEF NewWrite, Write, Proper

\* The next reading of the clock.
LEMMA NextReading ==
    ASSUME BaseInv, NEW d \in Devices, clock[d] < MaxTime
    PROVE  Now(d) \in Time /\ Now(d) \in 0 .. MaxTime /\ clock[d] \in Nat /\ Now(d) = clock[d] + 1
<1>1. clock[d] \in 0 .. MaxTime
  BY DEF BaseInv, TypeOK
<1> QED
  BY <1>1, MaxTimeAssumption DEF Now, Time

\* The item tapped is one of whoever is signed in.
LEMMA TappedItem ==
    ASSUME BaseInv, NEW d \in Devices, clock[d] < MaxTime, user[d] \in Users, NEW p \in Products
    PROVE  /\ Tapped(d, p) \in OrderModel /\ Tapped(d, p).owner = user[d]
           /\ Tapped(d, p).orderId = Now(d)
  BY NextReading DEF Tapped, OrderModel

\* The buttons keep it.
LEMMA BaseButtons ==
    ASSUME BaseInv, NEW d \in Devices,
           (\E p \in Products : AddToCart(d, p)) \/ Buy(d) \/ Decline(d) \/ Confirm(d)
    PROVE  BaseInv'
<1>1. Fits(clock[d], screen[d], user[d], served[d], products[d], asked[d], pending[d])
  BY NowFits
<1>2. Still => ServerFits
  BY NowFits DEF Still
<1>3. ASSUME NEW w \in Write, Proper(w)
      PROVE  /\ Append(pending[d], w) \in Seq(Write)
             /\ \A i \in 1 .. Len(Append(pending[d], w)) : Proper(Append(pending[d], w)[i])
  <2>1. From(Append(pending[d], w), pending[d], {w})
    BY IssueFrom DEF BaseInv
  <2> DEFINE r == Append(pending[d], w)
  <2> HIDE DEF r
  <2>2. r \in Seq(Write) /\ \A i \in 1 .. Len(r) : Proper(r[i])
    BY <1>3, <2>1, ProperFrom DEF r
  <2> QED
    BY <2>2 DEF r
<1>4. ASSUME NEW p \in Products, AddToCart(d, p) PROVE BaseInv'
  <2> DEFINE w == NewWrite(d, "update", user[d], <<Tapped(d, p)>>, 0)
  <2>1. /\ screen[d] = "in" /\ clock[d] < MaxTime
        /\ tapped' = tapped \cup {Tapped(d, p)} /\ UNCHANGED <<cart, orders>>
        /\ Becomes(d, Now(d), screen[d], user[d], served[d], products[d], asked[d],
                   Append(pending[d], w))
    BY <1>4, ButtonShapes
  <2>2. user[d] \in Users
    BY <1>1, <2>1 DEF Fits
  <2>3. Tapped(d, p) \in OrderModel /\ Tapped(d, p).owner = user[d]
    BY <2>1, <2>2, TappedItem
  <2>4. <<Tapped(d, p)>> \in Seq(OrderModel)
    BY <2>3
  <2>5. w \in Write /\ Proper(w)
    BY <2>2, <2>3, <2>4, NewWriteProper
  <2> HIDE DEF w
  <2>6. Fits(Now(d), screen[d], user[d], served[d], products[d], asked[d], Append(pending[d], w))
    BY <1>1, <1>3, <2>1, <2>5, NextReading DEF Fits
  <2>7. ServerFits
    BY <2>1, <2>3 DEF ServerFits, BaseInv, TypeOK, Docs
  <2> QED
    BY <2>1, <2>6, <2>7, BaseKept
<1>5. CASE Buy(d)
  <2>1. /\ screen[d] = "in" /\ Still
        /\ Becomes(d, clock[d], screen[d], user[d], served[d], products[d], TRUE, pending[d])
    BY <1>5, ButtonShapes
  <2>2. Fits(clock[d], screen[d], user[d], served[d], products[d], TRUE, pending[d])
    BY <1>1, <2>1 DEF Fits
  <2> QED
    BY <1>2, <2>1, <2>2, BaseKept
<1>6. CASE Decline(d)
  <2>1. /\ Still
        /\ Becomes(d, clock[d], screen[d], user[d], served[d], products[d], FALSE, pending[d])
    BY <1>6, ButtonShapes
  <2>2. Fits(clock[d], screen[d], user[d], served[d], products[d], FALSE, pending[d])
    BY <1>1, <2>1 DEF Fits
  <2> QED
    BY <1>2, <2>1, <2>2, BaseKept
<1>7. CASE Confirm(d)
  <2> DEFINE w == NewWrite(d, "order", user[d], products[d], Now(d))
  <2>1. /\ asked[d] /\ clock[d] < MaxTime /\ Still
        /\ Becomes(d, Now(d), screen[d], user[d], served[d], products[d], FALSE,
                   Append(pending[d], w))
    BY <1>7, ButtonShapes
  <2>2. user[d] \in Users /\ products[d] \in Seq(OrderModel)
    BY <1>1, <2>1 DEF Fits
  <2>3. Now(d) \in Time
    BY <2>1, NextReading
  <2>4. w \in Write /\ Proper(w)
    BY <2>2, <2>3, NewWriteProper
  <2> HIDE DEF w
  <2>5. Fits(Now(d), screen[d], user[d], served[d], products[d], FALSE, Append(pending[d], w))
    BY <1>1, <1>3, <2>1, <2>4, NextReading DEF Fits
  <2> QED
    BY <1>2, <2>1, <2>5, BaseKept
<1> QED
  BY <1>4, <1>5, <1>6, <1>7

\* The set after a 'not-found', and the deletion after an order.
LEMMA NextWrites ==
    ASSUME BaseInv, NEW d \in Devices, First(d) # 0
    PROVE  /\ Answer(d).op = "update" =>
                 LET w == NewWrite(d, "set", user[d], Answer(d).items, 0)
                 IN  w \in Write /\ Proper(w)
           /\ Deletion(d) \in Write /\ Proper(Deletion(d))
<1>1. Answer(d) \in Write /\ Proper(Answer(d)) /\ Answer(d).by = served[d]
  BY AnswerProper
<1>2. user[d] \in Users \cup {NoUser} /\ (user[d] # NoUser => served[d] = user[d])
  BY DEF BaseInv, TypeOK, SessionFits
<1>3. ASSUME Answer(d).op = "update"
      PROVE  LET w == NewWrite(d, "set", user[d], Answer(d).items, 0) IN w \in Write /\ Proper(w)
  <2>1. PICK i \in OrderModel : Answer(d).items = <<i>> /\ i.owner = Answer(d).uid
    BY <1>1, <1>3 DEF Proper
  <2>2. user[d] \in Users => i.owner = user[d]
    BY <1>1, <1>2, <2>1, NoUserAssumption DEF Proper
  <2>3. Answer(d).items \in Seq(OrderModel)
    BY <1>1 DEF Write
  <2> QED
    BY <2>1, <2>2, <2>3, NewWriteProper
<1>4. Deletion(d) \in Write /\ Proper(Deletion(d))
  <2>1. <<>> \in Seq(OrderModel) /\ 0 \in Time \cup {0}
    OBVIOUS
  <2>2. /\ NewWrite(d, "delete", user[d], <<>>, 0) \in Write
        /\ Proper(NewWrite(d, "delete", user[d], <<>>, 0))
    BY <2>1, NewWriteProper
  <2> QED
    BY <2>2 DEF Deletion
<1> QED
  BY <1>3, <1>4

\* The lists that answers leave.
LEMMA AnswerLists ==
    ASSUME BaseInv, NEW d \in Devices, First(d) # 0
    PROVE  Longer(d) \in Seq(OrderModel) /\ Emptied(d) \in Seq(OrderModel)
<1>1. Answer(d) \in Write /\ products[d] \in Seq(OrderModel)
  BY AnswerProper DEF BaseInv, TypeOK
<1>2. Answer(d).items \in Seq(OrderModel)
  BY <1>1 DEF Write
<1>3. products[d] \o Answer(d).items \in Seq(OrderModel)
  BY <1>1, <1>2
<1> QED
  BY <1>1, <1>3 DEF Longer, Emptied

\* The queues that answers leave.
LEMMA AnswerQueues ==
    ASSUME BaseInv, NEW d \in Devices, First(d) # 0
    PROVE  /\ From(Rest(d, <<>>), pending[d], {})
           /\ \A w \in Write : From(Rest(d, <<w>>), pending[d], {w})
<1>1. <<>> \in Seq(Write) /\ ToSet(<<>>) = {}
  BY DEF ToSet
<1>2. From(Rest(d, <<>>), pending[d], {})
  <2>1. From(Rest(d, <<>>), pending[d], ToSet(<<>>))
    BY <1>1, ThenFrom DEF BaseInv, Rest
  <2> QED
    BY <1>1, <2>1
<1>3. ASSUME NEW w \in Write PROVE From(Rest(d, <<w>>), pending[d], {w})
  <2>1. <<w>> \in Seq(Write) /\ ToSet(<<w>>) = {w}
    BY Single
  <2>2. From(Rest(d, <<w>>), pending[d], ToSet(<<w>>))
    BY <2>1, ThenFrom DEF BaseInv, Rest
  <2> QED
    BY <2>1, <2>2
<1> QED
  BY <1>2, <1>3

\* The answers keep it.
LEMMA BaseAnswers ==
    ASSUME BaseInv, NEW d \in Devices, Respond(d) \/ Unanswered(d) \/ Refused(d)
    PROVE  BaseInv'
<1>1. Fits(clock[d], screen[d], user[d], served[d], products[d], asked[d], pending[d])
  BY NowFits
<1>2. Still => ServerFits
  BY NowFits DEF Still
<1>3. ASSUME First(d) # 0, Effect(Answer(d)), tapped' = tapped PROVE ServerFits
  BY <1>3, EffectFits, AnswerProper
<1>4. ASSUME First(d) # 0, NEW p \in Seq(OrderModel), ServerFits, NEW more, NEW X,
             From(Rest(d, more), pending[d], X), \A w \in X : Proper(w),
             Becomes(d, clock[d], screen[d], user[d], served[d], p, asked[d], Rest(d, more))
      PROVE  BaseInv'
  <2> DEFINE r == Rest(d, more)
  <2> HIDE DEF r
  <2>1. r \in Seq(Write) /\ \A i \in 1 .. Len(r) : Proper(r[i])
    BY <1>4, ProperFrom DEF r
  <2>2. Fits(clock[d], screen[d], user[d], served[d], p, asked[d], r)
    BY <1>1, <1>4, <2>1 DEF Fits
  <2> QED
    BY <1>4, <2>2, BaseKept DEF r
<1>5. First(d) # 0 => Longer(d) \in Seq(OrderModel) /\ Emptied(d) \in Seq(OrderModel)
  BY AnswerLists
<1>6. products[d] \in Seq(OrderModel)
  BY <1>1 DEF Fits
<1>7. \A w \in {} : Proper(w)
  OBVIOUS
<1>8. First(d) # 0 => From(Rest(d, <<>>), pending[d], {})
  BY AnswerQueues
<1>9. CASE Added(d)
  <2>1. Answers(d, "update", Longer(d), <<>>) /\ Effect(Answer(d))
    BY <1>9, AnswerShapes
  <2> QED
    BY <1>3, <1>4, <1>5, <1>7, <1>8, <2>1 DEF Answers
<1>10. CASE NotFound(d)
  <2> DEFINE w == NewWrite(d, "set", user[d], Answer(d).items, 0)
  <2>1. Answers(d, "update", products[d], <<w>>) /\ Still
    BY <1>10, AnswerShapes
  <2>2. First(d) # 0 /\ Answer(d).op = "update"
    BY <2>1 DEF Answers
  <2>3. w \in Write /\ Proper(w)
    BY <2>2, NextWrites
  <2> HIDE DEF w
  <2>4. From(Rest(d, <<w>>), pending[d], {w}) /\ \A x \in {w} : Proper(x)
    BY <2>2, <2>3, AnswerQueues
  <2> QED
    BY <1>2, <1>4, <1>6, <2>1, <2>4 DEF Answers
<1>11. CASE Created(d)
  <2>1. Answers(d, "set", Longer(d), <<>>) /\ Effect(Answer(d))
    BY <1>11, AnswerShapes
  <2> QED
    BY <1>3, <1>4, <1>5, <1>7, <1>8, <2>1 DEF Answers
<1>12. CASE Placed(d)
  <2> DEFINE w == Deletion(d)
  <2>1. Answers(d, "order", Emptied(d), <<w>>) /\ Effect(Answer(d))
    BY <1>12, AnswerShapes
  <2>2. First(d) # 0
    BY <2>1 DEF Answers
  <2>3. w \in Write /\ Proper(w)
    BY <2>2, NextWrites
  <2> HIDE DEF w
  <2>4. From(Rest(d, <<w>>), pending[d], {w}) /\ \A x \in {w} : Proper(x)
    BY <2>2, <2>3, AnswerQueues
  <2> QED
    BY <1>3, <1>4, <1>5, <2>1, <2>4 DEF Answers
<1>13. CASE Cleared(d)
  <2>1. Answers(d, "delete", products[d], <<>>) /\ Effect(Answer(d))
    BY <1>13, AnswerShapes
  <2> QED
    BY <1>3, <1>4, <1>6, <1>7, <1>8, <2>1 DEF Answers
<1>14. CASE Unanswered(d)
  <2>1. /\ First(d) # 0 /\ Effect(Answer(d)) /\ tapped' = tapped
        /\ Becomes(d, clock[d], screen[d], user[d], served[d], products[d], asked[d], pending[d])
    BY <1>14, AnswerShapes
  <2> QED
    BY <1>1, <1>3, <2>1, BaseKept
<1>15. CASE Refused(d)
  <2> DEFINE p == IF Answer(d).op = "update" THEN Longer(d) ELSE products[d]
  <2>1. /\ First(d) # 0 /\ Still
        /\ Becomes(d, clock[d], screen[d], user[d], served[d], p, asked[d], Rest(d, <<>>))
    BY <1>15, AnswerShapes
  <2>2. p \in Seq(OrderModel)
    BY <1>5, <1>6, <2>1
  <2> HIDE DEF p
  <2> QED
    BY <1>2, <1>4, <1>7, <1>8, <2>1, <2>2
<1> QED
  BY <1>9, <1>10, <1>11, <1>12, <1>13, <1>14, <1>15 DEF Respond

\* The steps of the specification, by device.
Acts(d) ==
    \/ Splash(d) \/ (\E u \in Users : SignIn(d, u)) \/ SignOut(d)
    \/ HandleCredentialChange(d) \/ (\E kept \in BOOLEAN : Restart(d, kept)) \/ Reload(d)
    \/ (\E p \in Products : AddToCart(d, p)) \/ Buy(d) \/ Decline(d) \/ Confirm(d)
    \/ Respond(d) \/ Unanswered(d) \/ Refused(d)

\* Everything but what lies on top of the pages.
rest == <<clock, screen, user, served, products, asked, pending, cart, orders, tapped>>

\* The steps that open and close the modal.
Looks(d) == (\E p \in Products : OpenModal(d, p)) \/ CloseModal(d)

\* A step is one of some device, and nothing but the modal changes otherwise.
LEMMA NextActs ==
    ASSUME [Next]_vars
    PROVE  \/ \E d \in Devices : Acts(d)
           \/ UNCHANGED rest /\ (modal' = modal \/ \E d \in Devices : Looks(d))
<1>1. \A d \in Devices : Accounts[d] \subseteq Users
  BY AccountsAssumption
<1>2. CASE Next
  <2>1. (\E d \in Devices : Acts(d)) \/ \E d \in Devices : Looks(d)
    BY <1>1, <1>2 DEF Next, Acts, Looks
  <2>2. \A d \in Devices : Looks(d) => UNCHANGED rest
    BY DEF Looks, OpenModal, CloseModal, rest
  <2> QED
    BY <2>1, <2>2
<1>3. CASE UNCHANGED vars
  BY <1>3 DEF vars, rest
<1> QED
  BY <1>2, <1>3

\* Every step keeps it.
LEMMA BaseStep ==
    ASSUME BaseInv, [Next]_vars
    PROVE  BaseInv'
<1>1. ASSUME NEW d \in Devices, Acts(d) PROVE BaseInv'
  BY <1>1, BaseSessions, BaseButtons, BaseAnswers DEF Acts
<1>2. CASE UNCHANGED rest /\ modal' = modal
  BY <1>2 DEF rest, BaseInv, TypeOK, SessionFits, Proper, Sound
<1>3. ASSUME UNCHANGED rest, NEW d \in Devices, Looks(d) PROVE BaseInv'
  <2>1. ModalFits(d, screen[d], asked[d])
    BY <1>3, ModalThere DEF Looks, OpenModal, CloseModal, Free, ModalFits
  <2>2. Becomes(d, clock[d], screen[d], user[d], served[d], products[d], asked[d], pending[d])
    BY <1>3, <2>1, StillThere DEF rest, Becomes
  <2> QED
    BY <1>3, <2>2, NowFits, BaseKept DEF rest
<1> QED
  BY <1>1, <1>2, <1>3, NextActs

\* It holds from the start.
LEMMA BaseStart ==
    ASSUME Init
    PROVE  BaseInv
<1>1. NoDoc \in Docs
  BY FS_EmptySet DEF NoDoc, Docs, Sound, CartDoc
<1>2. TypeOK
  <2>1. cart \in [Users -> CartDoc]
    BY <1>1 DEF Init, Docs
  <2>2. 0 \in 0 .. MaxTime /\ <<>> \in Seq(OrderModel) /\ <<>> \in Seq(Write)
    BY MaxTimeAssumption
  <2> QED
    BY <2>1, <2>2 DEF Init, TypeOK
<1>3. \A d \in Devices : SessionFits(d)
  BY DEF Init, SessionFits
<1>4. \A d \in Devices : \A i \in 1 .. Len(pending[d]) : Proper(pending[d][i])
  BY DEF Init
<1>5. \A u \in Users : Sound(cart[u])
  BY <1>1 DEF Init, Docs
<1> QED
  BY <1>2, <1>3, <1>4, <1>5 DEF BaseInv

\* It holds in every state that the devices can reach.
LEMMA BaseHolds == Spec => []BaseInv
  BY BaseStart, BaseStep, PTL DEF Spec

\* Lists, queues, documents and orders are well formed, for any devices and
\* customers, in any order of taps, answers, changes of user and failures: the
\* items of a list are always those of documents, and a write that follows
\* another after its await is one that the server can take.
THEOREM CartTypeCorrect == Spec => []TypeOK
<1>1. BaseInv => TypeOK
  BY DEF BaseInv
<1> QED
  BY <1>1, BaseHolds, PTL

----------------------------------------------------------------------------
(* Several devices of patient customers, with faults: a cart is deleted    *)
(* after its order was stored.                                             *)

OneCustomer == \A u, v \in Users : u = v

\* An order under way is not empty, and replaces no order of somebody else; a
\* deletion follows an order.
Follows(w) ==
    /\ w.op = "order" => w.items # <<>> /\ orders[w.id].uid \in {NoUser, w.uid}
    /\ w.op = "delete" /\ w.uid \in Users => \E t \in Time : orders[t].uid = w.uid

\* What Buy saw in the list is there as long as the confirmation is: no answer
\* reaches the list meanwhile.
Confirmable(d) ==
    asked[d] => products[d] # <<>> /\ \A w \in ToSet(pending[d]) : ~w.awaited

\* One device never uses a reading of its clock twice.
Readings(d) ==
    /\ \A t \in Time : orders[t].uid \in Users => t <= clock[d]
    /\ \A w \in ToSet(pending[d]) : w.op = "order" => w.id <= clock[d]

SameId(w, x) == w.op = "order" /\ x.op = "order" /\ w.id = x.id => w.uid = x.uid

OrdersInv ==
    /\ \A d \in Devices : Confirmable(d)
    /\ \A d \in Devices : \A w \in ToSet(pending[d]) : Follows(w)
    /\ \A c, d \in Devices : \A w \in ToSet(pending[c]), x \in ToSet(pending[d]) : SameId(w, x)
    /\ \A t \in Time : orders[t].uid \in Users => orders[t].items # <<>>
    /\ OneDevice => \A d \in Devices : Readings(d)

\* Two writes that differ only in whether somebody awaits them.
Alike(w, x) == w.op = x.op /\ w.uid = x.uid /\ w.items = x.items /\ w.id = x.id

\* A write that a step of device d adds, with the clock at c.
Issued(d, w, c) ==
    /\ w.op = "order" =>
          /\ w.items # <<>> /\ w.id = c /\ clock[d] < c
          /\ w.uid = user[d] /\ w.uid \in Users
    /\ w.op = "delete" /\ w.uid \in Users => \E t \in Time : orders'[t].uid = w.uid

\* A write that was under way before, or is new.
Known(d, w, c) == (\E x \in ToSet(pending[d]) : Alike(w, x)) \/ Issued(d, w, c)

\* The orders do not change, or one that is under way is stored.
Stores(d) ==
    \/ orders' = orders
    \/ \E x \in ToSet(pending[d]) :
          x.op = "order" /\ orders' = [orders EXCEPT ![x.id] = [uid |-> x.uid, items |-> x.items]]

\* The writes under way are proper.
LEMMA QueueSet ==
    ASSUME BaseInv, NEW d \in Devices, NEW w \in ToSet(pending[d])
    PROVE  w \in Write /\ Proper(w)
<1>1. /\ pending[d] \in Seq(Write)
      /\ \A i \in 1 .. Len(pending[d]) : Proper(pending[d][i])
  BY DEF BaseInv, TypeOK
<1>2. PICK i \in 1 .. Len(pending[d]) : w = pending[d][i]
  BY <1>1, ToSetFacts
<1> QED
  BY <1>1, <1>2

\* The writes of a queue, as a set.
LEMMA FromSet ==
    ASSUME BaseInv, NEW d \in Devices, NEW r, NEW X, From(r, pending[d], X)
    PROVE  ToSet(r) \subseteq ToSet(pending[d]) \cup X
<1>1. pending[d] \in Seq(Write) /\ r \in Seq(Write)
  BY DEF BaseInv, TypeOK, From
<1>2. \A j \in 1 .. Len(pending[d]) : pending[d][j] \in ToSet(pending[d])
  BY <1>1, ToSetFacts
<1>3. \A x \in ToSet(r) : \E k \in 1 .. Len(r) : x = r[k]
  BY <1>1, ToSetFacts
<1> QED
  BY <1>2, <1>3 DEF From

\* What becomes of the orders when one is stored.
LEMMA OrdersAfter ==
    ASSUME BaseInv, OrdersInv, NEW d \in Devices, Stores(d)
    PROVE  /\ \A t \in Time : orders[t].uid \in Users => orders'[t].uid = orders[t].uid
           /\ \A t \in Time : orders'[t].uid \in Users =>
                 /\ orders'[t].items # <<>>
                 /\ \/ orders'[t].uid = orders[t].uid
                    \/ \E x \in ToSet(pending[d]) : x.op = "order" /\ x.id = t /\ x.uid = orders'[t].uid
           /\ \A t \in Time : orders'[t].uid \in Users \cup {NoUser}
<1>1. orders \in [Time -> OrderDoc \cup {NoOrder}]
  BY DEF BaseInv, TypeOK
<1>2. \A t \in Time : orders[t].uid \in Users \cup {NoUser}
  BY <1>1 DEF OrderDoc, NoOrder
<1>3. \A t \in Time : orders[t].uid \in Users => orders[t].items # <<>>
  BY DEF OrdersInv
<1>4. CASE orders' = orders
  BY <1>2, <1>3, <1>4
<1>5. ASSUME NEW x \in ToSet(pending[d]), x.op = "order",
             orders' = [orders EXCEPT ![x.id] = [uid |-> x.uid, items |-> x.items]]
      PROVE  /\ \A t \in Time : orders[t].uid \in Users => orders'[t].uid = orders[t].uid
             /\ \A t \in Time : orders'[t].uid \in Users =>
                   /\ orders'[t].items # <<>>
                   /\ \/ orders'[t].uid = orders[t].uid
                      \/ \E y \in ToSet(pending[d]) : y.op = "order" /\ y.id = t /\ y.uid = orders'[t].uid
             /\ \A t \in Time : orders'[t].uid \in Users \cup {NoUser}
  <2>1. x.uid \in Users /\ x.id \in Time
    BY <1>5, QueueSet DEF Proper
  <2>2. Follows(x)
    BY DEF OrdersInv
  <2>3. orders'[x.id].uid = x.uid /\ orders'[x.id].items = x.items
    BY <1>1, <1>5, <2>1
  <2>4. \A t \in Time : t # x.id => orders'[t] = orders[t]
    BY <1>1, <1>5
  <2> QED
    BY <1>2, <1>3, <1>5, <2>1, <2>2, <2>3, <2>4, NoUserAssumption DEF Follows
<1> QED
  BY <1>4, <1>5 DEF Stores

\* A step of this kind keeps it.
LEMMA OrdersKept ==
    ASSUME BaseInv, BaseInv', OrdersInv, OneDevice \/ OneCustomer, NEW d \in Devices,
           NEW c, NEW s, NEW u, NEW v, NEW p, NEW a, NEW q, Becomes(d, c, s, u, v, p, a, q),
           clock[d] <= c, \A w \in ToSet(q) : Known(d, w, c), Stores(d),
           a => p # <<>> /\ \A w \in ToSet(q) : ~w.awaited
    PROVE  OrdersInv'
<1> DEFINE W == UNION {ToSet(pending[e]) : e \in Devices}
<1>1. /\ \A t \in Time : orders[t].uid \in Users => orders'[t].uid = orders[t].uid
      /\ \A t \in Time : orders'[t].uid \in Users =>
            /\ orders'[t].items # <<>>
            /\ \/ orders'[t].uid = orders[t].uid
               \/ \E x \in ToSet(pending[d]) : x.op = "order" /\ x.id = t /\ x.uid = orders'[t].uid
      /\ \A t \in Time : orders'[t].uid \in Users \cup {NoUser}
  BY OrdersAfter
<1>2. /\ \A w \in W : Follows(w) /\ w \in Write /\ Proper(w)
      /\ \A w, x \in W : SameId(w, x)
      /\ ToSet(pending[d]) \subseteq W
  BY QueueSet DEF OrdersInv
<1>3. \A e \in Devices : \A w \in ToSet(pending'[e]) :
         (\E x \in W : Alike(w, x)) \/ Issued(d, w, c)
  <2> TAKE e \in Devices
  <2>1. CASE e = d
    BY <1>2, <2>1, BecomesAt DEF Known
  <2>2. CASE e # d
    <3>1. pending'[e] = pending[e]
      BY <2>2, BecomesAt
    <3> QED
      BY <3>1 DEF Alike
  <2> QED
    BY <2>1, <2>2
<1>4. \A e \in Devices : \A w \in ToSet(pending'[e]) : w \in Write /\ Proper(w)
  <2> TAKE e \in Devices
  <2>1. pending'[e] \in Seq(Write)
    BY DEF BaseInv, TypeOK
  <2>2. \A i \in 1 .. Len(pending'[e]) : Proper(pending'[e][i])
    BY DEF BaseInv, Proper
  <2>3. \A w \in ToSet(pending'[e]) : \E i \in 1 .. Len(pending'[e]) : w = pending'[e][i]
    BY <2>1, ToSetFacts
  <2> QED
    BY <2>1, <2>2, <2>3
<1>5. OneDevice => /\ \A t \in Time : orders[t].uid \in Users => t <= clock[d]
                   /\ \A w \in W : w.op = "order" => w.id <= clock[d]
  BY DEF OrdersInv, Readings, OneDevice
<1>6. clock[d] \in Nat /\ c \in Nat /\ Time \subseteq Nat
  <2>1. clock[d] \in 0 .. MaxTime /\ clock'[d] \in 0 .. MaxTime /\ clock'[d] = c
    BY BecomesAt DEF BaseInv, TypeOK
  <2> QED
    BY <2>1 DEF Time
<1> HIDE DEF W
<1>7. ASSUME NEW w \in W PROVE Follows(w)'
  <2>1. Follows(w) /\ Proper(w) /\ \A x \in ToSet(pending[d]) : SameId(w, x)
    BY <1>2
  <2>2. ASSUME w.op = "order" PROVE orders'[w.id].uid \in {NoUser, w.uid}
    <3>1. w.id \in Time
      BY <2>1, <2>2 DEF Proper
    <3>2. orders[w.id].uid \in {NoUser, w.uid}
      BY <2>1, <2>2 DEF Follows
    <3> QED
      BY <1>1, <2>1, <2>2, <3>1, <3>2 DEF SameId
  <2>3. ASSUME w.op = "delete", w.uid \in Users PROVE \E t \in Time : orders'[t].uid = w.uid
    BY <1>1, <2>1, <2>3 DEF Follows
  <2> QED
    BY <2>1, <2>2, <2>3 DEF Follows
<1>8. ASSUME NEW e \in Devices, NEW w \in ToSet(pending'[e]) PROVE Follows(w)'
  <2>1. CASE \E x \in W : Alike(w, x)
    <3>1. PICK x \in W : Alike(w, x)
      BY <2>1
    <3>2. Follows(x)'
      BY <1>7
    <3> QED
      BY <3>1, <3>2 DEF Alike, Follows
  <2>2. CASE Issued(d, w, c)
    <3>1. ASSUME w.op = "order" PROVE orders'[w.id].uid \in {NoUser, w.uid}
      <4>1. w.id = c /\ clock[d] < c /\ w.uid \in Users
        BY <2>2, <3>1 DEF Issued
      <4>2. w.id \in Time
        BY <1>4, <3>1 DEF Proper
      <4>3. CASE OneCustomer
        BY <1>1, <4>1, <4>2, <4>3 DEF OneCustomer
      <4>4. CASE OneDevice
        <5>1. ~(c <= clock[d])
          BY <1>6, <4>1
        <5>2. orders'[c].uid \notin Users
          BY <1>1, <1>2, <1>5, <4>1, <4>2, <4>4, <5>1
        <5> QED
          BY <1>1, <4>1, <4>2, <5>2
      <4> QED
        BY <4>3, <4>4
    <3> QED
      BY <2>2, <3>1 DEF Issued, Follows
  <2> QED
    BY <1>3, <2>1, <2>2
<1>9. ASSUME NEW e \in Devices, NEW f \in Devices,
             NEW w \in ToSet(pending'[e]), NEW x \in ToSet(pending'[f])
      PROVE  SameId(w, x)
  <2> SUFFICES ASSUME w.op = "order", x.op = "order", w.id = x.id PROVE w.uid = x.uid
    BY DEF SameId
  <2>1. CASE OneCustomer
    BY <1>4, <2>1 DEF Proper, OneCustomer
  <2>2. CASE OneDevice
    <3>1. \A y \in W : y.op = "order" => ~(y.id = c /\ clock[d] < c)
      <4> TAKE y \in W
      <4>1. y.op = "order" => y.id \in Nat /\ y.id <= clock[d]
        BY <1>2, <1>5, <1>6, <2>2 DEF Proper
      <4> QED
        BY <1>6, <4>1
    <3> QED
      BY <1>2, <1>3, <3>1 DEF Alike, Issued, SameId
  <2> QED
    BY <2>1, <2>2
<1>10. \A e \in Devices : Confirmable(e)'
  <2> TAKE e \in Devices
  <2>1. CASE e = d
    BY <2>1, BecomesAt DEF Confirmable
  <2>2. CASE e # d
    BY <2>2, BecomesAt DEF Confirmable, OrdersInv
  <2> QED
    BY <2>1, <2>2
<1>11. ASSUME OneDevice, NEW e \in Devices PROVE Readings(e)'
  <2>1. e = d /\ clock'[d] = c
    BY <1>11, BecomesAt DEF OneDevice
  <2>2. \A t \in Time : orders'[t].uid \in Users => t <= c
    <3> TAKE t \in Time
    <3>1. orders'[t].uid \in Users => t <= clock[d]
      BY <1>1, <1>2, <1>5, <1>11
    <3> QED
      BY <1>6, <3>1
  <2>3. \A w \in ToSet(pending'[d]) : w.op = "order" => w.id <= c
    <3> TAKE w \in ToSet(pending'[d])
    <3>1. w.op = "order" => w.id \in Nat /\ (w.id <= clock[d] \/ w.id = c)
      <4>1. w.op = "order" => w.id \in Nat
        BY <1>4, <1>6 DEF Proper
      <4>2. (\E x \in W : Alike(w, x)) \/ Issued(d, w, c)
        BY <1>3
      <4>3. CASE \E x \in W : Alike(w, x)
        BY <1>5, <1>11, <4>1, <4>3 DEF Alike
      <4>4. CASE Issued(d, w, c)
        BY <4>1, <4>4 DEF Issued
      <4> QED
        BY <4>2, <4>3, <4>4
    <3> QED
      BY <1>6, <3>1
  <2> QED
    BY <2>1, <2>2, <2>3 DEF Readings
<1> QED
  BY <1>1, <1>8, <1>9, <1>10, <1>11 DEF OrdersInv, SameId, OneDevice

\* Without a change to the queue, or with writes taken away.
LEMMA KnownOld ==
    ASSUME NEW d \in Devices, NEW q, NEW c, ToSet(q) \subseteq ToSet(pending[d])
    PROVE  \A w \in ToSet(q) : Known(d, w, c)
  BY DEF Known, Alike

\* With one more write.
LEMMA KnownNew ==
    ASSUME BaseInv, NEW d \in Devices, NEW w, NEW r, From(r, pending[d], {w}), NEW c, Issued(d, w, c)
    PROVE  \A x \in ToSet(r) : Known(d, x, c)
<1>1. ToSet(r) \subseteq ToSet(pending[d]) \cup {w}
  BY FromSet
<1> QED
  BY <1>1 DEF Known, Alike

\* The sessions keep it.
LEMMA OrdersSessions ==
    ASSUME BaseInv, BaseInv', OrdersInv, OneDevice \/ OneCustomer, NEW d \in Devices,
           \/ Splash(d) \/ (\E u \in Users : SignIn(d, u)) \/ SignOut(d)
           \/ HandleCredentialChange(d) \/ (\E kept \in BOOLEAN : Restart(d, kept)) \/ Reload(d)
    PROVE  OrdersInv'
<1>1. Confirmable(d) /\ (asked[d] => screen[d] = "in")
  BY DEF OrdersInv, BaseInv, SessionFits
<1>2. Still => Stores(d)
  BY DEF Still, Stores
<1>3. clock[d] <= clock[d]
  <2>1. clock[d] \in 0 .. MaxTime
    BY DEF BaseInv, TypeOK
  <2> QED
    BY <2>1
<1>4. \A w \in ToSet(pending[d]) : Known(d, w, clock[d])
  BY KnownOld
<1>5. ToSet(<<>>) = {}
  BY DEF ToSet
<1>6. CASE Splash(d)
  <2>1. /\ screen[d] = "splash" /\ Still
        /\ Becomes(d, clock[d], IF user[d] = NoUser THEN "login" ELSE "in", user[d],
                   served[d], Loaded(d), asked[d], pending[d])
    BY <1>6, SessionShapes
  <2>2. ~asked[d]
    BY <1>1, <2>1
  <2> QED
    BY <1>2, <1>3, <1>4, <2>1, <2>2, OrdersKept
<1>7. ASSUME NEW u \in Users, SignIn(d, u) PROVE OrdersInv'
  <2>1. /\ Still
        /\ Becomes(d, clock[d], "in", u, u, products[d], asked[d], pending[d])
    BY <1>7, SessionShapes
  <2> QED
    BY <1>1, <1>2, <1>3, <1>4, <2>1, OrdersKept DEF Confirmable
<1>8. CASE SignOut(d)
  <2>1. /\ Still
        /\ Becomes(d, clock[d], "login", NoUser, served[d], products[d], asked[d], pending[d])
    BY <1>8, SessionShapes
  <2> QED
    BY <1>1, <1>2, <1>3, <1>4, <2>1, OrdersKept DEF Confirmable
<1>9. CASE HandleCredentialChange(d)
  <2>1. /\ Still
        /\ Becomes(d, clock[d], screen[d], user[d], user[d], products[d], asked[d], pending[d])
    BY <1>9, SessionShapes
  <2> QED
    BY <1>1, <1>2, <1>3, <1>4, <2>1, OrdersKept DEF Confirmable
<1>10. ASSUME NEW kept \in BOOLEAN, Restart(d, kept) PROVE OrdersInv'
  <2> DEFINE r == Abandoned(d, kept)
  <2>1. /\ Still
        /\ Becomes(d, clock[d], "splash", user[d], user[d], <<>>, FALSE, r)
    BY <1>10, SessionShapes
  <2>2. \A w \in ToSet(r) : \E x \in ToSet(pending[d]) : Alike(w, x)
    <3>1. CASE ~kept
      BY <1>5, <3>1 DEF Abandoned
    <3>2. CASE kept
      <4> TAKE w \in ToSet(r)
      <4>1. r = [i \in DOMAIN pending[d] |-> [pending[d][i] EXCEPT !.awaited = FALSE]]
        BY <3>2 DEF Abandoned
      <4>2. PICK i \in DOMAIN pending[d] : w = [pending[d][i] EXCEPT !.awaited = FALSE]
        BY <4>1 DEF ToSet
      <4>3. pending[d][i] \in ToSet(pending[d])
        BY DEF ToSet
      <4>4. pending[d][i] \in Write
        BY <4>3, QueueSet
      <4>5. Alike(w, pending[d][i])
        BY <4>2, <4>4 DEF Alike, Write
      <4> QED
        BY <4>3, <4>5
    <3> QED
      BY <3>1, <3>2
  <2> HIDE DEF r
  <2>3. \A w \in ToSet(r) : Known(d, w, clock[d])
    BY <2>2 DEF Known
  <2> QED
    BY <1>2, <1>3, <2>1, <2>3, OrdersKept
<1>11. CASE Reload(d)
  <2>1. /\ Still
        /\ Becomes(d, clock[d], screen[d], user[d], served[d], <<>>, FALSE, <<>>)
    BY <1>11, SessionShapes
  <2>2. \A w \in ToSet(<<>>) : Known(d, w, clock[d])
    BY <1>5
  <2> QED
    BY <1>2, <1>3, <2>1, <2>2, OrdersKept
<1> QED
  BY <1>6, <1>7, <1>8, <1>9, <1>10, <1>11

\* The buttons keep it: Buy sees a list that no answer will change.
LEMMA OrdersButtons ==
    ASSUME BaseInv, BaseInv', OrdersInv, OneDevice \/ OneCustomer, Patient, NEW d \in Devices,
           (\E p \in Products : AddToCart(d, p)) \/ Buy(d) \/ Decline(d) \/ Confirm(d)
    PROVE  OrdersInv'
<1>1. Confirmable(d) /\ (asked[d] => screen[d] = "in") /\ (screen[d] = "in" => user[d] \in Users)
  BY DEF OrdersInv, BaseInv, SessionFits
<1>2. Still => Stores(d)
  BY DEF Still, Stores
<1>3. clock[d] \in Nat /\ clock[d] <= clock[d]
  <2>1. clock[d] \in 0 .. MaxTime
    BY DEF BaseInv, TypeOK
  <2> QED
    BY <2>1
<1>4. \A w \in ToSet(pending[d]) : Known(d, w, clock[d])
  BY KnownOld
<1>5. TypeOK
  BY DEF BaseInv
<1>6. ASSUME NEW p \in Products, AddToCart(d, p) PROVE OrdersInv'
  <2> DEFINE w == NewWrite(d, "update", user[d], <<Tapped(d, p)>>, 0)
  <2>1. /\ screen[d] = "in" /\ ~asked[d] /\ clock[d] < MaxTime /\ UNCHANGED <<cart, orders>>
        /\ Becomes(d, Now(d), screen[d], user[d], served[d], products[d], asked[d],
                   Append(pending[d], w))
    BY <1>6, ButtonShapes
  <2>2. Tapped(d, p) \in OrderModel /\ Tapped(d, p).owner = user[d]
    BY <1>1, <2>1, TappedItem
  <2>3. w \in Write
    <3>1. <<Tapped(d, p)>> \in Seq(OrderModel)
      BY <2>2
    <3> QED
      BY <1>1, <2>1, <2>2, <3>1, NewWriteProper
  <2>4. Issued(d, w, Now(d))
    BY DEF Issued, NewWrite
  <2> HIDE DEF w
  <2>5. \A x \in ToSet(Append(pending[d], w)) : Known(d, x, Now(d))
    BY <1>5, <2>3, <2>4, IssueFrom, KnownNew
  <2>6. Stores(d)
    BY <2>1 DEF Stores
  <2>7. clock[d] <= Now(d)
    BY <1>3 DEF Now
  <2> QED
    BY <2>1, <2>5, <2>6, <2>7, OrdersKept
<1>7. CASE Buy(d)
  <2>1. /\ Ready(d) /\ products[d] # <<>> /\ Still
        /\ Becomes(d, clock[d], screen[d], user[d], served[d], products[d], TRUE, pending[d])
    BY <1>7, ButtonShapes
  <2>2. \A w \in ToSet(pending[d]) : ~w.awaited
    BY <2>1 DEF Ready
  <2> QED
    BY <1>2, <1>3, <1>4, <2>1, <2>2, OrdersKept
<1>8. CASE Decline(d)
  <2>1. /\ Still
        /\ Becomes(d, clock[d], screen[d], user[d], served[d], products[d], FALSE, pending[d])
    BY <1>8, ButtonShapes
  <2> QED
    BY <1>2, <1>3, <1>4, <2>1, OrdersKept
<1>9. CASE Confirm(d)
  <2> DEFINE w == NewWrite(d, "order", user[d], products[d], Now(d))
  <2>1. /\ asked[d] /\ clock[d] < MaxTime /\ Still
        /\ Becomes(d, Now(d), screen[d], user[d], served[d], products[d], FALSE,
                   Append(pending[d], w))
    BY <1>9, ButtonShapes
  <2>2. user[d] \in Users /\ products[d] # <<>> /\ products[d] \in Seq(OrderModel)
    BY <1>1, <1>5, <2>1 DEF Confirmable, TypeOK
  <2>3. Now(d) \in Time /\ Now(d) = clock[d] + 1
    BY <2>1, NextReading
  <2>4. w \in Write
    BY <2>2, <2>3, NewWriteProper
  <2>5. clock[d] < Now(d) /\ clock[d] <= Now(d)
    BY <1>3, <2>3
  <2>6. Issued(d, w, Now(d))
    BY <2>2, <2>5 DEF Issued, NewWrite
  <2> HIDE DEF w
  <2>7. \A x \in ToSet(Append(pending[d], w)) : Known(d, x, Now(d))
    BY <1>5, <2>4, <2>6, IssueFrom, KnownNew
  <2> QED
    BY <1>2, <2>1, <2>5, <2>7, OrdersKept
<1> QED
  BY <1>6, <1>7, <1>8, <1>9

\* The answers keep it.
LEMMA OrdersAnswers ==
    ASSUME BaseInv, BaseInv', OrdersInv, OneDevice \/ OneCustomer, NEW d \in Devices,
           Respond(d) \/ Unanswered(d) \/ Refused(d)
    PROVE  OrdersInv'
<1>1. Confirmable(d) /\ TypeOK
  BY DEF OrdersInv, BaseInv
<1>2. Still => Stores(d)
  BY DEF Still, Stores
<1>3. clock[d] <= clock[d]
  <2>1. clock[d] \in 0 .. MaxTime
    BY DEF BaseInv, TypeOK
  <2> QED
    BY <2>1
<1>4. First(d) # 0 =>
         /\ Answer(d) \in ToSet(pending[d]) /\ Answer(d) \in Write /\ Proper(Answer(d))
         /\ Answer(d).by = served[d]
         /\ asked[d] => ~Answer(d).awaited /\ products[d] # <<>>
  <2>1. First(d) # 0 => Answer(d) \in ToSet(pending[d])
    BY <1>1, FirstFacts, ToSetFacts
  <2> QED
    BY <1>1, <2>1, AnswerProper DEF Confirmable
<1>5. ASSUME First(d) # 0, Effect(Answer(d)) PROVE Stores(d)
  BY <1>4, <1>5 DEF Effect, Stores
<1>6. ASSUME First(d) # 0, NEW more, \A w \in ToSet(Rest(d, more)) : Known(d, w, clock[d]),
             asked[d] => \A w \in ToSet(Rest(d, more)) : ~w.awaited, Stores(d),
             NEW p, asked[d] => p = products[d],
             Becomes(d, clock[d], screen[d], user[d], served[d], p, asked[d], Rest(d, more))
      PROVE  OrdersInv'
  BY <1>3, <1>4, <1>6, OrdersKept
<1>7. First(d) # 0 /\ asked[d] =>
         /\ Longer(d) = products[d] /\ Emptied(d) = products[d]
         /\ \A more : Rest(d, more) = Rest(d, <<>>)
  BY <1>4 DEF Longer, Emptied, Rest
<1>8. First(d) # 0 => ToSet(Rest(d, <<>>)) \subseteq ToSet(pending[d])
  <2>1. First(d) # 0 => From(Rest(d, <<>>), pending[d], {})
    BY AnswerQueues
  <2> QED
    BY <2>1, FromSet
<1>9. First(d) # 0 => /\ \A w \in ToSet(Rest(d, <<>>)) : Known(d, w, clock[d])
                      /\ asked[d] => \A w \in ToSet(Rest(d, <<>>)) : ~w.awaited
  BY <1>1, <1>8, KnownOld DEF Confirmable
<1>10. CASE Added(d)
  <2>1. Answers(d, "update", Longer(d), <<>>) /\ Effect(Answer(d))
    BY <1>10, AnswerShapes
  <2> QED
    BY <1>5, <1>6, <1>7, <1>9, <2>1 DEF Answers
<1>11. CASE NotFound(d)
  <2> DEFINE w == NewWrite(d, "set", user[d], Answer(d).items, 0)
  <2>1. Answers(d, "update", products[d], <<w>>) /\ Still
    BY <1>11, AnswerShapes
  <2>2. First(d) # 0 /\ Answer(d).op = "update"
    BY <2>1 DEF Answers
  <2>3. w \in Write
    BY <2>2, NextWrites
  <2>4. Issued(d, w, clock[d])
    BY DEF Issued, NewWrite
  <2> HIDE DEF w
  <2>5. \A x \in ToSet(Rest(d, <<w>>)) : Known(d, x, clock[d])
    BY <2>2, <2>3, <2>4, AnswerQueues, KnownNew
  <2>6. asked[d] => \A x \in ToSet(Rest(d, <<w>>)) : ~x.awaited
    BY <1>7, <1>9, <2>2
  <2> QED
    BY <1>2, <1>6, <2>1, <2>5, <2>6 DEF Answers
<1>12. CASE Created(d)
  <2>1. Answers(d, "set", Longer(d), <<>>) /\ Effect(Answer(d))
    BY <1>12, AnswerShapes
  <2> QED
    BY <1>5, <1>6, <1>7, <1>9, <2>1 DEF Answers
<1>13. CASE Placed(d)
  <2> DEFINE w == Deletion(d)
             x == Answer(d)
  <2>1. Answers(d, "order", Emptied(d), <<w>>) /\ Effect(x)
    BY <1>13, AnswerShapes
  <2>2. First(d) # 0 /\ x.op = "order"
    BY <2>1 DEF Answers
  <2>3. w \in Write /\ w.op = "delete" /\ w.uid = user[d]
    BY <2>2, NextWrites DEF Deletion, NewWrite
  <2>4. ASSUME w.uid \in Users PROVE \E t \in Time : orders'[t].uid = w.uid
    <3>1. user[d] \in Users /\ served[d] = user[d]
      BY <2>3, <2>4, NoUserAssumption DEF BaseInv, SessionFits
    <3>2. x.id \in Time /\ x.uid = user[d]
      BY <1>4, <2>2, <3>1 DEF Proper
    <3>3. orders \in [Time -> OrderDoc \cup {NoOrder}]
      BY <1>1 DEF TypeOK
    <3>4. orders' = [orders EXCEPT ![x.id] = [uid |-> x.uid, items |-> x.items]]
      BY <2>1, <2>2 DEF Effect
    <3> HIDE DEF x
    <3>5. orders'[x.id].uid = x.uid
      BY <3>2, <3>3, <3>4
    <3> QED
      BY <2>3, <3>2, <3>5
  <2>5. Issued(d, w, clock[d])
    BY <2>3, <2>4 DEF Issued
  <2> HIDE DEF w
  <2>6. \A y \in ToSet(Rest(d, <<w>>)) : Known(d, y, clock[d])
    BY <2>2, <2>3, <2>5, AnswerQueues, KnownNew
  <2>7. asked[d] => \A y \in ToSet(Rest(d, <<w>>)) : ~y.awaited
    BY <1>7, <1>9, <2>2
  <2> QED
    BY <1>5, <1>6, <1>7, <2>1, <2>6, <2>7 DEF Answers
<1>14. CASE Cleared(d)
  <2>1. Answers(d, "delete", products[d], <<>>) /\ Effect(Answer(d))
    BY <1>14, AnswerShapes
  <2> QED
    BY <1>5, <1>6, <1>9, <2>1 DEF Answers
<1>15. CASE Unanswered(d)
  <2>1. /\ First(d) # 0 /\ Effect(Answer(d))
        /\ Becomes(d, clock[d], screen[d], user[d], served[d], products[d], asked[d], pending[d])
    BY <1>15, AnswerShapes
  <2>2. \A w \in ToSet(pending[d]) : Known(d, w, clock[d])
    BY KnownOld
  <2>3. asked[d] => products[d] # <<>> /\ \A w \in ToSet(pending[d]) : ~w.awaited
    BY <1>1 DEF Confirmable
  <2> QED
    BY <1>3, <1>5, <2>1, <2>2, <2>3, OrdersKept
<1>16. CASE Refused(d)
  <2> DEFINE p == IF Answer(d).op = "update" THEN Longer(d) ELSE products[d]
  <2>1. /\ First(d) # 0 /\ Still
        /\ Becomes(d, clock[d], screen[d], user[d], served[d], p, asked[d], Rest(d, <<>>))
    BY <1>16, AnswerShapes
  <2>2. asked[d] => p = products[d]
    BY <1>7, <2>1
  <2> HIDE DEF p
  <2> QED
    BY <1>2, <1>6, <1>9, <2>1, <2>2
<1> QED
  BY <1>10, <1>11, <1>12, <1>13, <1>14, <1>15, <1>16 DEF Respond

\* Orders stay as promised in every state that the devices can reach.
LEMMA OrdersHold ==
    ASSUME Patient, OneDevice \/ OneCustomer
    PROVE  Spec => [](BaseInv /\ OrdersInv)
<1>1. Init => BaseInv /\ OrdersInv
  <2> SUFFICES ASSUME Init PROVE OrdersInv
    BY BaseStart
  <2>1. ToSet(<<>>) = {}
    BY DEF ToSet
  <2>2. \A d \in Devices : ToSet(pending[d]) = {}
    BY <2>1 DEF Init
  <2>3. \A t \in Time : orders[t].uid \notin Users
    BY NoUserAssumption DEF Init, NoOrder
  <2>4. \A d \in Devices : ~asked[d]
    BY DEF Init
  <2> QED
    BY <2>2, <2>3, <2>4, Zenon DEF OrdersInv, Confirmable, Readings
<1>2. BaseInv /\ OrdersInv /\ [Next]_vars => (BaseInv /\ OrdersInv)'
  <2> SUFFICES ASSUME BaseInv, OrdersInv, [Next]_vars PROVE BaseInv' /\ OrdersInv'
    OBVIOUS
  <2>1. BaseInv'
    BY BaseStep
  <2>2. ASSUME NEW d \in Devices, Acts(d) PROVE OrdersInv'
    BY <2>1, <2>2, OrdersSessions, OrdersButtons, OrdersAnswers DEF Acts
  <2>3. CASE UNCHANGED rest
    <3>1. /\ clock' = clock /\ asked' = asked /\ products' = products /\ pending' = pending
          /\ orders' = orders
      BY <2>3 DEF rest
    <3>2. (\A d \in Devices : Confirmable(d)') /\ (OneDevice => \A d \in Devices : Readings(d)')
      BY <3>1 DEF OrdersInv, Confirmable, Readings
    <3>3. \A d \in Devices : \A w \in ToSet(pending'[d]) : Follows(w)'
      BY <3>1 DEF OrdersInv, Follows
    <3>4. /\ \A c, d \in Devices :
                \A w \in ToSet(pending'[c]), x \in ToSet(pending'[d]) : SameId(w, x)
          /\ \A t \in Time : orders'[t].uid \in Users => orders'[t].items # <<>>
      BY <3>1 DEF OrdersInv
    <3> QED
      BY <2>1, <3>2, <3>3, <3>4 DEF OrdersInv, SameId, OneDevice
  <2> QED
    BY <2>1, <2>2, <2>3, NextActs
<1> QED
  BY <1>1, <1>2, PTL DEF Spec

\* The writes that make a document disappear are deletions of it.
LEMMA Disappears ==
    ASSUME BaseInv, NEW u \in Users, NEW w \in Write, Effect(w), cart[u].exists, ~cart'[u].exists
    PROVE  w.op = "delete" /\ w.uid = u
<1>1. cart \in [Users -> CartDoc]
  BY DEF BaseInv, TypeOK
<1>2. w.uid = u /\ cart'[u] = DocAfter(cart[u], w)
  BY <1>1 DEF Effect
<1>3. DocAfter(cart[u], w).exists = TRUE \/ w.op = "delete"
  <2>1. cart[u].exists = TRUE /\ cart[u] \in CartDoc
    BY <1>1 DEF CartDoc
  <2>2. CASE w.op = "update"
    BY <2>1, <2>2 DEF DocAfter, CartDoc
  <2>3. CASE w.op = "set"
    BY <2>3 DEF DocAfter
  <2>4. CASE w.op = "order"
    BY <2>1, <2>4 DEF DocAfter
  <2> QED
    BY <2>2, <2>3, <2>4 DEF Write
<1> QED
  BY <1>2, <1>3

\* clearCart deletes a cart only after its customer's order is stored, and no
\* order is empty: for any number of devices of one customer, or of customers of
\* one device, who wait for answers, with refused writes, lost answers, restarts
\* and lists that were never loaded.  With two customers on two devices an order
\* may replace another with the same id, which is why one of the two is assumed.
THEOREM DeletedAfterOrderHolds ==
    ASSUME Patient, OneDevice \/ OneCustomer
    PROVE  Spec => DeletedAfterOrder
<1>1. ASSUME BaseInv, OrdersInv, [Next]_vars, NEW u \in Users, cart[u].exists, ~cart'[u].exists
      PROVE  /\ \E t \in Time : orders[t].uid = u
             /\ \A t \in Time : orders[t].uid = u => orders[t].items # <<>>
  <2>1. PICK d \in Devices : Acts(d)
    <3>1. ~UNCHANGED rest
      BY <1>1 DEF rest
    <3> QED
      BY <1>1, <3>1, NextActs
  <2>2. ~Still
    BY <1>1 DEF Still
  <2>3. First(d) # 0 /\ Effect(Answer(d))
    BY <1>1, <2>1, <2>2, SessionShapes, ButtonShapes, AnswerShapes
       DEF Acts, Respond, Answers, Still
  <2>4. Answer(d) \in Write /\ Answer(d) \in ToSet(pending[d])
    BY <1>1, <2>3, FirstFacts, ToSetFacts DEF BaseInv
  <2>5. Answer(d).op = "delete" /\ Answer(d).uid = u
    BY <1>1, <2>3, <2>4, Disappears
  <2>6. Follows(Answer(d))
    BY <1>1, <2>4 DEF OrdersInv
  <2> QED
    BY <1>1, <2>5, <2>6 DEF Follows, OrdersInv
<1>2. BaseInv /\ OrdersInv /\ [Next]_vars =>
         [\A u \in Users : cart[u].exists /\ ~cart'[u].exists
             => /\ \E t \in Time : orders[t].uid = u
                /\ \A t \in Time : orders[t].uid = u => orders[t].items # <<>>]_vars
  BY <1>1
<1>3. Spec => [](BaseInv /\ OrdersInv)
  BY OrdersHold
<1> QED
  BY <1>2, <1>3, PTL DEF Spec, DeletedAfterOrder

----------------------------------------------------------------------------
(* One device whose customers hurry, but only work with a list that shows  *)
(* their cart.                                                             *)

\* The conditions of run cart_hurried.
Loyal == OneDevice /\ AlwaysLoaded /\ ~Faults

Adds(w) == w.op \in {"update", "set"}

\* A queue q of writes that are awaited, beside a list p, of items in T: each
\* item on its way to the cart is there once, and not yet in the list.
Queue(q, p, T) ==
    /\ \A w \in ToSet(q) : w.awaited = TRUE
    /\ \A i, j \in 1 .. Len(q) :
          Adds(q[i]) /\ Adds(q[j]) /\ q[i].items[1] = q[j].items[1] => i = j
    /\ \A w \in ToSet(q) : Adds(w) => w.items[1] \in T /\ w.items[1] \notin ToSet(p)

\* A device with clock c, screen s, user u, list p and queue q, when T was tapped
\* and C are the carts.
Holding(c, s, u, p, q, T, C) ==
    /\ Queue(q, p, T)
    /\ ToSet(p) \subseteq T
    /\ s = "splash" => q = <<>>
    /\ \A i \in T : i.orderId <= c
    /\ s = "in" /\ (\A w \in ToSet(q) : w.op # "delete") => C[u].items \subseteq ToSet(p)

\* The carts hold what their customers tapped.
Owned(T, C) == \A u \in Users : \A i \in C[u].items : i \in T /\ i.owner = u

LoyalInv ==
    /\ Owned(tapped, cart)
    /\ \A d \in Devices :
          Holding(clock[d], screen[d], user[d], products[d], pending[d], tapped, cart)

\* With one more write.
LEMMA QueueIssue ==
    ASSUME NEW q \in Seq(Write), NEW p, NEW T, Queue(q, p, T), NEW w \in Write, w.awaited,
           Adds(w) => /\ w.items[1] \in T /\ w.items[1] \notin ToSet(p)
                      /\ \A x \in ToSet(q) : Adds(x) => x.items[1] # w.items[1]
    PROVE  Queue(q \o <<w>>, p, T)
<1> DEFINE r == q \o <<w>>
           n == Len(q)
<1>1. r \in Seq(Write) /\ Len(r) = n + 1 /\ n \in Nat
  OBVIOUS
<1>2. \A i \in 1 .. n : r[i] = q[i]
  BY ConcatFacts, Single
<1>3. r[n + 1] = w
  OBVIOUS
<1>4. ToSet(r) = ToSet(q) \cup {w}
  <2> DEFINE t == <<w>>
  <2>1. t \in Seq(Write) /\ ToSet(t) = {w}
    BY Single
  <2> HIDE DEF t
  <2>2. ToSet(q \o t) = ToSet(q) \cup {w}
    BY <2>1, ToSetConcat
  <2> QED
    BY <2>2 DEF t
<1>5. \A i \in 1 .. n : q[i] \in ToSet(q)
  BY ToSetFacts
<1>6. w.awaited = TRUE
  BY DEF Write
<1> HIDE DEF r
<1>7. \A i, j \in 1 .. n : Adds(q[i]) /\ Adds(q[j]) /\ q[i].items[1] = q[j].items[1] => i = j
  BY DEF Queue
<1> HIDE DEF n
<1>8. ASSUME NEW i \in 1 .. n + 1, NEW j \in 1 .. n + 1,
             Adds(r[i]), Adds(r[j]), r[i].items[1] = r[j].items[1]
      PROVE  i = j
  <2>1. (i \in 1 .. n \/ i = n + 1) /\ (j \in 1 .. n \/ j = n + 1)
    BY <1>1
  <2> QED
    BY <1>2, <1>3, <1>5, <1>7, <1>8, <2>1
<1>9. Queue(r, p, T)
  BY <1>1, <1>4, <1>6, <1>8 DEF Queue
<1> QED
  BY <1>9 DEF r

\* Without one of its writes.
LEMMA QueueRemove ==
    ASSUME NEW q \in Seq(Write), NEW p, NEW T, Queue(q, p, T), NEW i \in 1 .. Len(q)
    PROVE  /\ Queue(RemoveAt(q, i), p, T) /\ RemoveAt(q, i) \in Seq(Write)
           /\ ToSet(RemoveAt(q, i)) \subseteq ToSet(q)
           /\ ToSet(q) = ToSet(RemoveAt(q, i)) \cup {q[i]}
           /\ Adds(q[i]) => \A x \in ToSet(RemoveAt(q, i)) : Adds(x) => x.items[1] # q[i].items[1]
<1> DEFINE r == RemoveAt(q, i)
           n == Len(q)
           at == [k \in 1 .. n - 1 |-> IF k < i THEN k ELSE k + 1]
<1>1. r \in Seq(Write) /\ Len(r) = n - 1 /\ n \in Nat
      /\ \A k \in 1 .. n - 1 : r[k] = IF k < i THEN q[k] ELSE q[k + 1]
  <2>1. Len(q) \in Nat
    OBVIOUS
  <2>2. /\ r \in Seq(Write) /\ Len(r) = n - 1
        /\ \A k \in 1 .. n - 1 : r[k] = IF k < i THEN q[k] ELSE q[k + 1]
    BY RemoveAtFacts
  <2> QED
    BY <2>1, <2>2
<1>2. i \in 1 .. n /\ Len(q) = n
  OBVIOUS
<1> HIDE DEF r, n
<1>3. \A k \in 1 .. n - 1 : at[k] \in 1 .. n /\ at[k] # i /\ r[k] = q[at[k]]
  BY <1>1, <1>2
<1>4. \A k, l \in 1 .. n - 1 : at[k] = at[l] => k = l
  BY <1>1, <1>2
<1>5. \A j \in 1 .. n : j # i => \E k \in 1 .. n - 1 : at[k] = j
  <2> TAKE j \in 1 .. n
  <2>1. CASE j < i
    <3>1. j \in 1 .. n - 1 /\ at[j] = j
      BY <1>1, <1>2, <2>1
    <3> QED
      BY <3>1
  <2>2. CASE j > i
    <3>1. j - 1 \in 1 .. n - 1 /\ at[j - 1] = j
      BY <1>1, <1>2, <2>2
    <3> QED
      BY <3>1
  <2> QED
    BY <1>1, <1>2, <2>1, <2>2
<1> HIDE DEF at
<1>6. \A x \in ToSet(r) : \E k \in 1 .. n - 1 : x = r[k]
  <2>1. \A x \in ToSet(r) : \E k \in 1 .. Len(r) : x = r[k]
    BY <1>1, ToSetFacts
  <2> QED
    BY <1>1, <2>1
<1>7. \A k \in 1 .. n - 1 : r[k] \in ToSet(r)
  <2>1. \A k \in 1 .. Len(r) : r[k] \in ToSet(r)
    BY <1>1, ToSetFacts
  <2> QED
    BY <1>1, <2>1
<1>8. (\A j \in 1 .. n : q[j] \in ToSet(q)) /\ \A x \in ToSet(q) : \E j \in 1 .. n : x = q[j]
  BY <1>2, ToSetFacts
<1>9. ToSet(r) \subseteq ToSet(q)
  BY <1>3, <1>6, <1>8
<1>10. ToSet(q) \subseteq ToSet(r) \cup {q[i]}
  BY <1>3, <1>5, <1>7, <1>8
<1>11. \A j, k \in 1 .. n : Adds(q[j]) /\ Adds(q[k]) /\ q[j].items[1] = q[k].items[1] => j = k
  BY <1>2 DEF Queue
<1>12. \A k \in 1 .. n - 1 : Adds(r[k]) /\ Adds(q[i]) => r[k].items[1] # q[i].items[1]
  BY <1>2, <1>3, <1>11
<1>13. \A k, l \in 1 .. n - 1 : Adds(r[k]) /\ Adds(r[l]) /\ r[k].items[1] = r[l].items[1] => k = l
  <2> TAKE k, l \in 1 .. n - 1
  <2>1. Adds(r[k]) /\ Adds(r[l]) /\ r[k].items[1] = r[l].items[1] => at[k] = at[l]
    <3> DEFINE a == at[k]
               b == at[l]
    <3>1. a \in 1 .. n /\ b \in 1 .. n /\ r[k] = q[a] /\ r[l] = q[b]
      BY <1>3
    <3> HIDE DEF a, b
    <3>2. Adds(q[a]) /\ Adds(q[b]) /\ q[a].items[1] = q[b].items[1] => a = b
      BY <1>11, <3>1
    <3> QED
      BY <3>1, <3>2 DEF a, b
  <2> QED
    BY <1>4, <2>1
<1>14. Queue(r, p, T)
  BY <1>1, <1>9, <1>13 DEF Queue
<1>15. q[i] \in ToSet(q)
  BY <1>2, <1>8
<1> QED
  BY <1>1, <1>6, <1>9, <1>10, <1>12, <1>14, <1>15 DEF r

\* Beside a list that another item was added to, and with more tapped.
LEMMA QueueBeside ==
    ASSUME NEW q, NEW p, NEW T, Queue(q, p, T), NEW r, NEW X, ToSet(r) \subseteq ToSet(p) \cup X,
           \A w \in ToSet(q) : Adds(w) => w.items[1] \notin X, NEW V, T \subseteq V
    PROVE  Queue(q, r, V)
  BY DEF Queue

\* An empty queue.
LEMMA QueueEmpty ==
    ASSUME NEW p, NEW T
    PROVE  Queue(<<>>, p, T)
<1>1. ToSet(<<>>) = {} /\ Len(<<>>) = 0
  BY DEF ToSet
<1>2. 1 .. 0 = {}
  OBVIOUS
<1> QED
  BY <1>1, <1>2 DEF Queue

\* What a write makes of the items of a document.
LEMMA ItemsAfter ==
    ASSUME NEW doc \in CartDoc, NEW w \in Write
    PROVE  /\ w.op = "update" =>
                 /\ doc.exists => DocAfter(doc, w).items = doc.items \cup ToSet(w.items)
                 /\ ~doc.exists => DocAfter(doc, w) = doc
                 /\ DocAfter(doc, w).exists = doc.exists
           /\ w.op = "set" => DocAfter(doc, w).items = ToSet(w.items)
           /\ w.op = "delete" => DocAfter(doc, w).items = {}
           /\ w.op = "order" => DocAfter(doc, w) = doc
<1>1. ASSUME w.op = "update"
      PROVE  /\ doc.exists => DocAfter(doc, w).items = doc.items \cup ToSet(w.items)
             /\ ~doc.exists => DocAfter(doc, w) = doc
             /\ DocAfter(doc, w).exists = doc.exists
  <2>1. CASE doc.exists
    <3>1. DocAfter(doc, w) = [doc EXCEPT !.items = @ \cup ToSet(w.items)]
      BY <1>1, <2>1 DEF DocAfter, ArrayUnion
    <3> QED
      BY <2>1, <3>1 DEF CartDoc
  <2>2. CASE ~doc.exists
    BY <1>1, <2>2 DEF DocAfter
  <2> QED
    BY <2>1, <2>2
<1>2. w.op = "set" => DocAfter(doc, w).items = ToSet(w.items)
  BY DEF DocAfter, ArrayUnion
<1>3. w.op = "delete" => DocAfter(doc, w).items = {}
  BY DEF DocAfter, NoDoc
<1>4. w.op = "order" => DocAfter(doc, w) = doc
  BY DEF DocAfter
<1> QED
  BY <1>1, <1>2, <1>3, <1>4

\* A write changes its own cart only.
LEMMA CartsAfter ==
    ASSUME BaseInv, NEW w \in Write, Effect(w)
    PROVE  /\ \A u \in Users : u # w.uid => cart'[u] = cart[u]
           /\ w.uid \in Users => cart'[w.uid] = DocAfter(cart[w.uid], w)
           /\ w.op = "order" => cart' = cart
           /\ w.op # "order" => orders' = orders
<1>1. cart \in [Users -> CartDoc]
  BY DEF BaseInv, TypeOK
<1>2. ASSUME w.op = "order" PROVE cart' = cart
  <2>1. \A u \in Users : DocAfter(cart[u], w) = cart[u]
    BY <1>1, <1>2, ItemsAfter
  <2>2. w.uid \in Users \cup {NoUser}
    BY DEF Write
  <2>3. CASE w.uid \in Users
    <3>1. cart' = [cart EXCEPT ![w.uid] = cart[w.uid]]
      BY <2>1, <2>3, NoUserAssumption DEF Effect
    <3> QED
      BY <1>1, <2>3, <3>1
  <2>4. CASE w.uid = NoUser
    BY <2>4 DEF Effect
  <2> QED
    BY <2>2, <2>3, <2>4
<1> QED
  BY <1>1, <1>2, NoUserAssumption DEF Effect

\* A list that shows a cart with the writes under way shows the cart, unless it
\* is being deleted: an item of a set that is under way is not in the list.
LEMMA ShownIsCart ==
    ASSUME BaseInv, NEW d \in Devices, NEW u \in Users, Shows(d, u),
           Queue(pending[d], products[d], tapped), \A w \in ToSet(pending[d]) : w.op # "delete"
    PROVE  cart[u].items \subseteq ToSet(products[d])
<1> DEFINE q == pending[d]
           n == Len(q)
           Mine(w) == Adds(w) /\ w.by = u /\ w.uid = u
           Good(doc, k) == \/ cart[u].items \subseteq doc.items
                           \/ \E j \in 1 .. k : Mine(q[j]) /\ q[j].items[1] \in doc.items
           S == [k \in 0 .. n |-> {doc \in Docs : Good(doc, k)}]
<1>1. /\ q \in Seq(Write) /\ n \in Nat
      /\ \A i \in 1 .. n : q[i] \in Write /\ Proper(q[i]) /\ q[i] \in ToSet(q)
  BY FirstFacts, ToSetFacts DEF BaseInv
<1>2. View(d, u) = Viewing!Folded(n, u, cart[u], q)
  BY ViewIsFold DEF BaseInv
<1>3. cart[u] \in Docs
  BY DEF BaseInv, TypeOK, Docs
<1>4. \A i \in 1 .. n : q[i].op # "delete"
  BY <1>1
<1>5. \A doc : doc \in S[0] <=> doc \in Docs /\ Good(doc, 0)
  BY <1>1
<1>6. \A doc : doc \in S[n] <=> doc \in Docs /\ Good(doc, n)
  BY <1>1
<1>7. \A i \in 1 .. n : \A doc : /\ doc \in S[i] <=> doc \in Docs /\ Good(doc, i)
                                 /\ doc \in S[i - 1] <=> doc \in Docs /\ Good(doc, i - 1)
  <2> TAKE i \in 1 .. n
  <2>1. i \in 0 .. n /\ i - 1 \in 0 .. n
    BY <1>1
  <2> QED
    BY <2>1
<1> HIDE DEF S
<1>8. ASSUME NEW i \in 1 .. n, NEW x \in S[i - 1]
      PROVE  (IF q[i].by = u /\ q[i].uid = u THEN DocAfter(x, q[i]) ELSE x) \in S[i]
  <2> DEFINE w == q[i]
             y == DocAfter(x, w)
  <2>1. x \in Docs /\ Good(x, i - 1) /\ w \in Write /\ Proper(w) /\ w.op # "delete" /\ x \in CartDoc
    BY <1>1, <1>4, <1>7, <1>8 DEF Docs
  <2>2. y \in Docs
    BY <2>1, DocAfterSound
  <2>3. i \in 1 .. i /\ \A j \in 1 .. i - 1 : j \in 1 .. i
    BY <1>1
  <2>4. Good(x, i)
    BY <2>1, <2>3
  <2>5. ASSUME w.by = u, w.uid = u PROVE Good(y, i)
    <3>1. CASE w.op = "set"
      <4>1. PICK it \in OrderModel : w.items = <<it>>
        BY <2>1, <3>1 DEF Proper
      <4>2. w.items[1] = it /\ ToSet(w.items) = {it}
        BY <4>1, Single
      <4>3. y.items = {it}
        BY <2>1, <3>1, <4>2, ItemsAfter
      <4>4. Mine(w) /\ w.items[1] \in y.items
        BY <2>5, <3>1, <4>2, <4>3 DEF Adds
      <4> QED
        BY <2>3, <4>4
    <3>2. CASE w.op = "update" /\ x.exists
      <4>1. x.items \subseteq y.items
        BY <2>1, <3>2, ItemsAfter
      <4> HIDE DEF y, w
      <4> QED
        BY <2>4, <4>1
    <3>3. CASE w.op = "order" \/ (w.op = "update" /\ ~x.exists)
      <4>1. y = x
        BY <2>1, <3>3, ItemsAfter
      <4> HIDE DEF y, w
      <4> QED
        BY <2>4, <4>1
    <3> QED
      BY <2>1, <3>1, <3>2, <3>3 DEF Write
  <2> HIDE DEF Good, y
  <2>6. w.by = u /\ w.uid = u => y \in S[i]
    BY <1>7, <2>2, <2>5
  <2>7. x \in S[i]
    BY <1>7, <2>1, <2>4
  <2> QED
    BY <2>6, <2>7 DEF y
<1>9. cart[u] \in S[0]
  BY <1>3, <1>5
<1>10. Viewing!Folded(n, u, cart[u], q) \in S[n]
  <2> HIDE DEF n, q
  <2> QED
    BY <1>1, <1>8, <1>9, Viewing!FoldedThrough
<1>11. Good(View(d, u), n)
  BY <1>2, <1>6, <1>10
<1>12. View(d, u).items = ToSet(products[d])
  BY DEF Shows
<1>13. \A j \in 1 .. n : Adds(q[j]) => q[j].items[1] \notin ToSet(products[d])
  BY <1>1 DEF Queue
<1> QED
  BY <1>11, <1>12, <1>13

\* A step after which the device still holds.
LEMMA LoyalKept ==
    ASSUME BaseInv, OneDevice, NEW d \in Devices, NEW c, NEW s, NEW u, NEW v, NEW p, NEW a, NEW q,
           Becomes(d, c, s, u, v, p, a, q), Holding(c, s, u, p, q, tapped', cart'),
           Owned(tapped', cart')
    PROVE  LoyalInv'
<1>1. \A e \in Devices : e = d
  BY DEF OneDevice
<1>2. /\ clock'[d] = c /\ screen'[d] = s /\ user'[d] = u
      /\ products'[d] = p /\ pending'[d] = q
  BY BecomesAt
<1>3. \A e \in Devices :
         Holding(clock'[e], screen'[e], user'[e], products'[e], pending'[e], tapped', cart')
  BY <1>1, <1>2
<1>4. \A e \in Devices :
         Holding(clock[e], screen[e], user[e], products[e], pending[e], tapped, cart)'
  BY <1>3 DEF Holding, Queue, Adds
<1>5. Owned(tapped, cart)'
  BY DEF Owned
<1> QED
  BY <1>4, <1>5 DEF LoyalInv

\* Two ways to say the same.
LEMMA AppendConcat ==
    ASSUME NEW S, NEW s \in Seq(S), NEW w
    PROVE  Append(s, w) = s \o <<w>>
<1> DEFINE n == Len(s)
           f == Append(s, w)
           g == s \o <<w>>
<1>1. s \in Seq(S \cup {w}) /\ w \in S \cup {w} /\ n \in Nat
  OBVIOUS
<1>2. /\ f \in Seq(S \cup {w}) /\ g \in Seq(S \cup {w}) /\ Len(f) = n + 1 /\ Len(g) = n + 1
      /\ \A i \in 1 .. n + 1 : f[i] = g[i]
  BY <1>1
<1> HIDE DEF f, g, n
<1>3. f = g
  BY <1>1, <1>2
<1> QED
  BY <1>3 DEF f, g

\* The sessions keep it.
LEMMA LoyalSessions ==
    ASSUME BaseInv, LoyalInv, Loyal, NEW d \in Devices,
           \/ Splash(d) \/ (\E u \in Users : SignIn(d, u)) \/ SignOut(d)
           \/ HandleCredentialChange(d) \/ (\E kept \in BOOLEAN : Restart(d, kept)) \/ Reload(d)
    PROVE  LoyalInv'
<1>1. /\ Holding(clock[d], screen[d], user[d], products[d], pending[d], tapped, cart)
      /\ Owned(tapped, cart) /\ OneDevice /\ AlwaysLoaded /\ ~Faults
  BY DEF LoyalInv, Loyal
<1>2. ASSUME Still, NEW c, NEW s, NEW u, NEW v, NEW p, NEW a, NEW q,
             Becomes(d, c, s, u, v, p, a, q), Holding(c, s, u, p, q, tapped, cart)
      PROVE  LoyalInv'
  BY <1>1, <1>2, LoyalKept DEF Still
<1>3. CASE Splash(d)
  <2>1. /\ screen[d] = "splash" /\ Still
        /\ Becomes(d, clock[d], IF user[d] = NoUser THEN "login" ELSE "in", user[d],
                   served[d], Loaded(d), asked[d], pending[d])
    BY <1>3, SessionShapes
  <2>2. pending[d] = <<>> /\ user[d] \in Users \cup {NoUser}
    BY <1>1, <2>1 DEF Holding, BaseInv, TypeOK
  <2>3. ASSUME user[d] # NoUser
        PROVE  ToSet(Loaded(d)) \subseteq tapped /\ cart[user[d]].items \subseteq ToSet(Loaded(d))
    <3>1. user[d] \in Users
      BY <2>2, <2>3
    <3>2. View(d, user[d]) = cart[user[d]] /\ cart[user[d]] \in Docs
      BY <2>2, <3>1, ViewSound
    <3>3. CASE cart[user[d]].exists
      <4>1. Loaded(d) = SetToSeq(cart[user[d]].items)
        BY <2>3, <3>2, <3>3 DEF Loaded
      <4>2. IsFiniteSet(cart[user[d]].items)
        BY <3>2 DEF Docs, Sound
      <4>3. ToSet(Loaded(d)) = cart[user[d]].items
        BY <4>1, <4>2, Listed
      <4>4. cart[user[d]].items \subseteq tapped
        BY <1>1, <3>1 DEF Owned
      <4> QED
        BY <4>3, <4>4
    <3>4. CASE ~cart[user[d]].exists
      <4>1. Loaded(d) = products[d] /\ cart[user[d]].items = {}
        BY <3>2, <3>4 DEF Loaded, Docs, Sound
      <4> QED
        BY <1>1, <4>1 DEF Holding
    <3> QED
      BY <3>3, <3>4
  <2>4. user[d] = NoUser => Loaded(d) = products[d]
    BY DEF Loaded
  <2>5. Queue(pending[d], Loaded(d), tapped)
    BY <2>2, QueueEmpty
  <2>6. Holding(clock[d], IF user[d] = NoUser THEN "login" ELSE "in", user[d], Loaded(d),
                pending[d], tapped, cart)
    BY <1>1, <2>3, <2>4, <2>5 DEF Holding
  <2> QED
    BY <1>2, <2>1, <2>6
<1>4. ASSUME NEW u \in Users, SignIn(d, u) PROVE LoyalInv'
  <2>1. /\ Still /\ Shows(d, u)
        /\ Becomes(d, clock[d], "in", u, u, products[d], asked[d], pending[d])
    BY <1>1, <1>4, SessionShapes
  <2>2. (\A w \in ToSet(pending[d]) : w.op # "delete") => cart[u].items \subseteq ToSet(products[d])
    BY <1>1, <2>1, ShownIsCart DEF Holding
  <2>3. Holding(clock[d], "in", u, products[d], pending[d], tapped, cart)
    BY <1>1, <2>2 DEF Holding
  <2> QED
    BY <1>2, <2>1, <2>3
<1>5. CASE SignOut(d)
  <2>1. /\ Still
        /\ Becomes(d, clock[d], "login", NoUser, served[d], products[d], asked[d], pending[d])
    BY <1>5, SessionShapes
  <2>2. Holding(clock[d], "login", NoUser, products[d], pending[d], tapped, cart)
    BY <1>1 DEF Holding
  <2> QED
    BY <1>2, <2>1, <2>2
<1>6. CASE HandleCredentialChange(d)
  <2>1. /\ Still
        /\ Becomes(d, clock[d], screen[d], user[d], user[d], products[d], asked[d], pending[d])
    BY <1>6, SessionShapes
  <2> QED
    BY <1>1, <1>2, <2>1
<1>7. ASSUME NEW kept \in BOOLEAN, Restart(d, kept) PROVE LoyalInv'
  <2>1. /\ Still /\ pending[d] = <<>>
        /\ Becomes(d, clock[d], "splash", user[d], user[d], <<>>, FALSE, Abandoned(d, kept))
    BY <1>1, <1>7, SessionShapes
  <2>2. Abandoned(d, kept) = <<>>
    <3>1. DOMAIN pending[d] = {}
      BY <2>1
    <3>2. [i \in {} |-> [pending[d][i] EXCEPT !.awaited = FALSE]] = <<>>
      OBVIOUS
    <3> QED
      BY <3>1, <3>2 DEF Abandoned
  <2>3. ToSet(<<>>) = {}
    BY DEF ToSet
  <2>4. Holding(clock[d], "splash", user[d], <<>>, <<>>, tapped, cart)
    BY <1>1, <2>3, QueueEmpty DEF Holding
  <2> QED
    BY <1>2, <2>1, <2>2, <2>4
<1>8. CASE Reload(d)
  BY <1>1, <1>8, SessionShapes
<1> QED
  BY <1>3, <1>4, <1>5, <1>6, <1>7, <1>8

\* The buttons keep it: an item tapped now was not there before.
LEMMA LoyalButtons ==
    ASSUME BaseInv, LoyalInv, Loyal, NEW d \in Devices,
           (\E p \in Products : AddToCart(d, p)) \/ Buy(d) \/ Decline(d) \/ Confirm(d)
    PROVE  LoyalInv'
<1>1. /\ Holding(clock[d], screen[d], user[d], products[d], pending[d], tapped, cart)
      /\ Owned(tapped, cart) /\ OneDevice
  BY DEF LoyalInv, Loyal
<1>2. ASSUME Still, NEW c, NEW s, NEW u, NEW v, NEW p, NEW a, NEW q,
             Becomes(d, c, s, u, v, p, a, q), Holding(c, s, u, p, q, tapped, cart)
      PROVE  LoyalInv'
  BY <1>1, <1>2, LoyalKept DEF Still
<1>3. pending[d] \in Seq(Write) /\ \A w : Append(pending[d], w) = pending[d] \o <<w>>
  <2>1. pending[d] \in Seq(Write)
    BY DEF BaseInv, TypeOK
  <2> QED
    BY <2>1, AppendConcat
<1>4. ASSUME NEW w \in Write PROVE ToSet(pending[d] \o <<w>>) = ToSet(pending[d]) \cup {w}
  <2> DEFINE t == <<w>>
  <2>1. t \in Seq(Write) /\ ToSet(t) = {w}
    BY Single
  <2> HIDE DEF t
  <2>2. ToSet(pending[d] \o t) = ToSet(pending[d]) \cup {w}
    BY <1>3, <2>1, ToSetConcat
  <2> QED
    BY <2>2 DEF t
<1>5. ASSUME clock[d] < MaxTime PROVE \A i \in tapped : i.orderId <= Now(d) /\ i.orderId # Now(d)
  <2> TAKE i \in tapped
  <2>1. i.orderId \in Nat
    BY DEF BaseInv, TypeOK, OrderModel, Time
  <2>2. i.orderId <= clock[d] /\ clock[d] \in Nat /\ Now(d) = clock[d] + 1
    BY <1>1, <1>5, NextReading DEF Holding
  <2> QED
    BY <2>1, <2>2
<1>6. ASSUME NEW p \in Products, AddToCart(d, p) PROVE LoyalInv'
  <2> DEFINE i == Tapped(d, p)
             w == NewWrite(d, "update", user[d], <<i>>, 0)
             q == pending[d] \o <<w>>
             T == tapped \cup {i}
  <2>1. /\ screen[d] = "in" /\ clock[d] < MaxTime
        /\ tapped' = T /\ cart' = cart
        /\ Becomes(d, Now(d), screen[d], user[d], served[d], products[d], asked[d], q)
    BY <1>3, <1>6, ButtonShapes
  <2>2. user[d] \in Users
    BY <2>1 DEF BaseInv, SessionFits
  <2>3. i \in OrderModel /\ i.owner = user[d] /\ i.orderId = Now(d)
    BY <2>1, <2>2, TappedItem
  <2>4. <<i>> \in Seq(OrderModel)
    BY <2>3
  <2>5. w \in Write
    BY <2>2, <2>3, <2>4, NewWriteProper
  <2>6. w.awaited /\ w.items[1] = i /\ w.op # "delete"
    BY DEF NewWrite
  <2>7. i \notin tapped
    BY <1>5, <2>1, <2>3
  <2> HIDE DEF i, w
  <2>8. Queue(pending[d], products[d], T) /\ i \notin ToSet(products[d]) /\ i \in T
        /\ \A x \in ToSet(pending[d]) : Adds(x) => x.items[1] # i
    <3>1. /\ Queue(pending[d], products[d], tapped) /\ ToSet(products[d]) \subseteq tapped
      BY <1>1 DEF Holding
    <3>2. Queue(pending[d], products[d], T)
      BY <3>1 DEF Queue
    <3> QED
      BY <2>7, <3>1, <3>2 DEF Queue
  <2>9. Queue(q, products[d], T)
    BY <1>3, <2>5, <2>6, <2>8, QueueIssue
  <2>10. \A x \in T : x.orderId <= Now(d)
    <3>1. Now(d) <= Now(d)
      BY <2>1, NextReading
    <3> QED
      BY <1>5, <2>1, <2>3, <3>1
  <2>11. ToSet(q) = ToSet(pending[d]) \cup {w}
    BY <1>4, <2>5
  <2> HIDE DEF q
  <2>12. Holding(Now(d), screen[d], user[d], products[d], q, T, cart)
    BY <1>1, <2>1, <2>9, <2>10, <2>11 DEF Holding
  <2>13. Owned(T, cart)
    BY <1>1 DEF Owned
  <2> HIDE DEF T
  <2> QED
    BY <1>1, <2>1, <2>12, <2>13, LoyalKept
<1>7. CASE Buy(d)
  BY <1>1, <1>2, <1>7, ButtonShapes
<1>8. CASE Decline(d)
  BY <1>1, <1>2, <1>8, ButtonShapes
<1>9. CASE Confirm(d)
  <2> DEFINE w == NewWrite(d, "order", user[d], products[d], Now(d))
             q == pending[d] \o <<w>>
  <2>1. /\ asked[d] /\ clock[d] < MaxTime /\ Still
        /\ Becomes(d, Now(d), screen[d], user[d], served[d], products[d], FALSE, q)
    BY <1>3, <1>9, ButtonShapes
  <2>2. screen[d] = "in" /\ user[d] \in Users /\ products[d] \in Seq(OrderModel)
    BY <2>1 DEF BaseInv, TypeOK, SessionFits
  <2>3. Now(d) \in Time
    BY <2>1, NextReading
  <2>4. w \in Write
    BY <2>2, <2>3, NewWriteProper
  <2>5. w.awaited /\ ~Adds(w) /\ w.op # "delete"
    BY DEF NewWrite, Adds
  <2> HIDE DEF w
  <2>6. Queue(q, products[d], tapped)
    BY <1>1, <1>3, <2>4, <2>5, QueueIssue DEF Holding
  <2>7. ToSet(q) = ToSet(pending[d]) \cup {w}
    BY <1>4, <2>4
  <2> HIDE DEF q
  <2>8. Holding(Now(d), screen[d], user[d], products[d], q, tapped, cart)
    BY <1>1, <1>5, <2>1, <2>2, <2>6, <2>7 DEF Holding
  <2> QED
    BY <1>2, <2>1, <2>8
<1> QED
  BY <1>6, <1>7, <1>8, <1>9

\* What an answer finds and leaves.
Meets(d) ==
    LET r == Rest(d, <<>>)
    IN  /\ Answer(d) \in Write /\ Proper(Answer(d)) /\ Answer(d).by = served[d]
        /\ Answer(d) \in ToSet(pending[d])
        /\ r \in Seq(Write) /\ Queue(r, products[d], tapped)
        /\ ToSet(pending[d]) = ToSet(r) \cup {Answer(d)}
        /\ \A more \in Seq(Write) : Rest(d, more) = r \o more
        /\ Longer(d) = products[d] \o Answer(d).items /\ Emptied(d) = <<>>

\* The item that an answer adds.
Brings(d, i) ==
    /\ i \in OrderModel /\ Answer(d).items = <<i>> /\ i \in tapped /\ i \notin ToSet(products[d])
    /\ ToSet(Answer(d).items) = {i} /\ Answer(d).items[1] = i
    /\ Answer(d).uid \in Users => i.owner = Answer(d).uid
    /\ ToSet(Longer(d)) = ToSet(products[d]) \cup {i}
    /\ \A x \in ToSet(Rest(d, <<>>)) : Adds(x) => x.items[1] # i

\* An answer finds a write whose item, if it adds one, is not in the list.
LEMMA AnswerMeets ==
    ASSUME BaseInv, NEW d \in Devices, First(d) # 0, Queue(pending[d], products[d], tapped)
    PROVE  Meets(d) /\ (Adds(Answer(d)) => \E i : Brings(d, i))
<1> DEFINE q == pending[d]
           w == Answer(d)
           k == First(d)
           r == RemoveAt(q, k)
<1>1. q \in Seq(Write) /\ k \in 1 .. Len(q) /\ w = q[k] /\ w \in Write
      /\ Proper(w) /\ w.by = served[d]
  BY FirstFacts, AnswerProper DEF BaseInv
<1>2. w \in ToSet(q)
  BY <1>1, ToSetFacts
<1>3. w.awaited = TRUE
  BY <1>2 DEF Queue
<1>4. /\ Queue(r, products[d], tapped) /\ r \in Seq(Write)
      /\ ToSet(q) = ToSet(r) \cup {w}
      /\ Adds(w) => \A x \in ToSet(r) : Adds(x) => x.items[1] # w.items[1]
  <2>1. Queue(q, products[d], tapped)
    OBVIOUS
  <2> HIDE DEF w, q, k
  <2> QED
    BY <1>1, <2>1, QueueRemove
<1>5. \A more : Rest(d, more) = r \o more
  BY <1>3 DEF Rest
<1> HIDE DEF r
<1>6. r \o <<>> = r
  BY <1>4
<1>7. Rest(d, <<>>) = r
  BY <1>5, <1>6
<1>8. Longer(d) = products[d] \o w.items /\ Emptied(d) = <<>>
  BY <1>3 DEF Longer, Emptied
<1>9. Meets(d)
  BY <1>1, <1>2, <1>4, <1>5, <1>7, <1>8 DEF Meets
<1>10. ASSUME Adds(w) PROVE \E i : Brings(d, i)
  <2>1. PICK i \in OrderModel : w.items = <<i>> /\ (w.uid \in Users => i.owner = w.uid)
    BY <1>1, <1>10 DEF Adds, Proper
  <2>2. w.items \in Seq(OrderModel) /\ w.items[1] = i /\ ToSet(w.items) = {i}
    BY <2>1, Single
  <2>3. i \in tapped /\ i \notin ToSet(products[d])
    BY <1>2, <1>10, <2>2 DEF Queue
  <2>4. products[d] \in Seq(OrderModel)
    BY DEF BaseInv, TypeOK
  <2> HIDE DEF w
  <2>5. ToSet(Longer(d)) = ToSet(products[d]) \cup {i}
    <3>1. ToSet(products[d] \o w.items) = ToSet(products[d]) \cup ToSet(w.items)
      BY <2>2, <2>4, ToSetConcat
    <3> QED
      BY <1>8, <2>2, <3>1
  <2>6. Brings(d, i)
    BY <1>4, <1>7, <1>10, <2>1, <2>2, <2>3, <2>5 DEF Brings, w
  <2> QED
    BY <2>6
<1> QED
  BY <1>9, <1>10

\* The answers keep it: what they put into the cart they put into the list.
LEMMA LoyalAnswers ==
    ASSUME BaseInv, LoyalInv, Loyal, NEW d \in Devices, Respond(d) \/ Unanswered(d) \/ Refused(d)
    PROVE  LoyalInv'
<1> DEFINE w == Answer(d)
           r == Rest(d, <<>>)
<1>1. /\ Holding(clock[d], screen[d], user[d], products[d], pending[d], tapped, cart)
      /\ Owned(tapped, cart) /\ OneDevice /\ ~Faults
  BY DEF LoyalInv, Loyal
<1>2. Queue(pending[d], products[d], tapped) /\ ToSet(products[d]) \subseteq tapped
      /\ (\A i \in tapped : i.orderId <= clock[d])
  BY <1>1 DEF Holding
<1>3. ASSUME First(d) # 0, NEW p, NEW q, tapped' = tapped,
             Becomes(d, clock[d], screen[d], user[d], served[d], p, asked[d], q),
             Queue(q, p, tapped), ToSet(p) \subseteq tapped, Owned(tapped, cart'),
             screen[d] = "in" /\ (\A x \in ToSet(q) : x.op # "delete")
                 => cart'[user[d]].items \subseteq ToSet(p)
      PROVE  LoyalInv'
  <2>1. screen[d] # "splash"
    <3>1. pending[d] = <<>> => First(d) = 0
      <4>1. First(d) # 0 => First(d) \in 1 .. Len(pending[d])
        BY FirstFacts DEF BaseInv
      <4> QED
        BY <4>1
    <3> QED
      BY <1>1, <1>3, <3>1 DEF Holding
  <2>2. Holding(clock[d], screen[d], user[d], p, q, tapped, cart')
    BY <1>2, <1>3, <2>1 DEF Holding
  <2> QED
    BY <1>1, <1>3, <2>2, LoyalKept
<1>4. screen[d] = "in" => user[d] \in Users /\ served[d] = user[d]
  BY DEF BaseInv, SessionFits
<1>5. \A u \in Users : cart[u] \in CartDoc
  BY DEF BaseInv, TypeOK
<1>6. ASSUME First(d) # 0 PROVE Meets(d) /\ (Adds(w) => \E i : Brings(d, i))
  BY <1>2, <1>6, AnswerMeets
<1>7. ASSUME First(d) # 0, w.op # "delete", screen[d] = "in", \A x \in ToSet(r) : x.op # "delete"
      PROVE  cart[user[d]].items \subseteq ToSet(products[d])
  <2>1. \A x \in ToSet(pending[d]) : x.op # "delete"
    BY <1>6, <1>7 DEF Meets
  <2> QED
    BY <1>1, <1>7, <2>1 DEF Holding
<1>8. ASSUME Answers(d, w.op, Longer(d), <<>>), Adds(w), Effect(w),
             w.uid \in Users => cart'[w.uid].items \subseteq cart[w.uid].items \cup ToSet(w.items)
      PROVE  LoyalInv'
  <2>1. /\ First(d) # 0 /\ tapped' = tapped
        /\ Becomes(d, clock[d], screen[d], user[d], served[d], Longer(d), asked[d], r)
    BY <1>8 DEF Answers
  <2>2. Meets(d)
    BY <1>6, <2>1
  <2>3. PICK i : Brings(d, i)
    BY <1>6, <1>8, <2>1
  <2>4. /\ \A u \in Users : u # w.uid => cart'[u] = cart[u]
        /\ w.uid = served[d]
    BY <1>8, <2>2, CartsAfter DEF Meets, Proper
  <2>5. Queue(r, Longer(d), tapped)
    <3>1. Queue(r, products[d], tapped)
      BY <2>2 DEF Meets
    <3>2. ToSet(Longer(d)) \subseteq ToSet(products[d]) \cup {i}
          /\ \A x \in ToSet(r) : Adds(x) => x.items[1] \notin {i}
      BY <2>3 DEF Brings
    <3> HIDE DEF r
    <3> QED
      BY <3>1, <3>2, QueueBeside
  <2>6. ToSet(Longer(d)) \subseteq tapped /\ ToSet(products[d]) \subseteq ToSet(Longer(d))
        /\ i \in tapped /\ i \in ToSet(Longer(d)) /\ ToSet(w.items) = {i}
        /\ (w.uid \in Users => i.owner = w.uid)
    BY <1>2, <2>3 DEF Brings
  <2>7. Owned(tapped, cart')
    BY <1>1, <1>8, <2>4, <2>6 DEF Owned
  <2>8. ASSUME screen[d] = "in", \A x \in ToSet(r) : x.op # "delete"
        PROVE  cart'[user[d]].items \subseteq ToSet(Longer(d))
    <3>1. w.op # "delete"
      BY <1>8 DEF Adds
    <3>2. cart[user[d]].items \subseteq ToSet(products[d])
      BY <1>7, <2>1, <2>8, <3>1
    <3>3. w.uid = user[d] /\ w.uid \in Users
      BY <1>4, <2>4, <2>8
    <3> QED
      BY <1>8, <2>6, <3>2, <3>3
  <2> HIDE DEF w, r
  <2> QED
    BY <1>3, <2>1, <2>5, <2>6, <2>7, <2>8
<1>9. CASE Added(d)
  <2>1. Answers(d, "update", Longer(d), <<>>) /\ Effect(w)
    BY <1>9, AnswerShapes
  <2>2. w.op = "update" /\ First(d) # 0 /\ w \in Write
    BY <1>6, <2>1 DEF Answers, Meets
  <2>3. w.uid \in Users => cart'[w.uid] = DocAfter(cart[w.uid], w)
    BY <2>1, <2>2, CartsAfter
  <2>4. w.uid \in Users => cart'[w.uid].items \subseteq cart[w.uid].items \cup ToSet(w.items)
    BY <1>5, <2>2, <2>3, ItemsAfter
  <2> QED
    BY <1>8, <2>1, <2>2, <2>4 DEF Adds
<1>10. CASE Created(d)
  <2>1. Answers(d, "set", Longer(d), <<>>) /\ Effect(w)
    BY <1>10, AnswerShapes
  <2>2. w.op = "set" /\ First(d) # 0 /\ w \in Write
    BY <1>6, <2>1 DEF Answers, Meets
  <2>3. w.uid \in Users => cart'[w.uid] = DocAfter(cart[w.uid], w)
    BY <2>1, <2>2, CartsAfter
  <2>4. w.uid \in Users => cart'[w.uid].items \subseteq cart[w.uid].items \cup ToSet(w.items)
    BY <1>5, <2>2, <2>3, ItemsAfter
  <2> QED
    BY <1>8, <2>1, <2>2, <2>4 DEF Adds
<1>11. CASE NotFound(d)
  <2> DEFINE x == NewWrite(d, "set", user[d], w.items, 0)
  <2>1. Answers(d, "update", products[d], <<x>>) /\ Still
    BY <1>11, AnswerShapes
  <2>2. First(d) # 0 /\ w.op = "update" /\ cart' = cart /\ tapped' = tapped
        /\ Becomes(d, clock[d], screen[d], user[d], served[d], products[d], asked[d],
                   Rest(d, <<x>>))
    BY <2>1 DEF Answers, Still
  <2>3. x \in Write
    BY <2>2, NextWrites
  <2>4. x.awaited /\ x.op = "set" /\ x.items = w.items
    BY DEF NewWrite
  <2>5. Meets(d)
    BY <1>6, <2>2
  <2>6. PICK i : Brings(d, i)
    BY <1>6, <2>2 DEF Adds
  <2> HIDE DEF x
  <2>7. Rest(d, <<x>>) = r \o <<x>> /\ r \in Seq(Write) /\ Queue(r, products[d], tapped)
    <3>1. <<x>> \in Seq(Write)
      BY <2>3
    <3> QED
      BY <2>5, <3>1 DEF Meets
  <2>8. x.items[1] = i /\ i \in tapped /\ i \notin ToSet(products[d])
        /\ \A y \in ToSet(r) : Adds(y) => y.items[1] # i
    BY <2>4, <2>6 DEF Brings
  <2> HIDE DEF r
  <2>9. Queue(r \o <<x>>, products[d], tapped)
    BY <2>3, <2>4, <2>7, <2>8, QueueIssue
  <2>10. ToSet(r \o <<x>>) = ToSet(r) \cup {x}
    <3> DEFINE t == <<x>>
    <3>1. t \in Seq(Write) /\ ToSet(t) = {x}
      BY <2>3, Single
    <3> HIDE DEF t
    <3>2. ToSet(r \o t) = ToSet(r) \cup {x}
      BY <2>7, <3>1, ToSetConcat
    <3> QED
      BY <3>2 DEF t
  <2>11. screen[d] = "in" /\ (\A y \in ToSet(r \o <<x>>) : y.op # "delete")
            => cart'[user[d]].items \subseteq ToSet(products[d])
    BY <1>7, <2>2, <2>10 DEF r
  <2> QED
    BY <1>1, <1>2, <1>3, <2>2, <2>7, <2>9, <2>11
<1>12. CASE Placed(d)
  <2> DEFINE x == Deletion(d)
  <2>1. Answers(d, "order", Emptied(d), <<x>>) /\ Effect(w)
    BY <1>12, AnswerShapes
  <2>2. First(d) # 0 /\ w.op = "order" /\ tapped' = tapped
        /\ Becomes(d, clock[d], screen[d], user[d], served[d], Emptied(d), asked[d],
                   Rest(d, <<x>>))
    BY <2>1 DEF Answers
  <2>3. x \in Write /\ x.awaited /\ x.op = "delete" /\ ~Adds(x)
    BY <2>2, NextWrites DEF Deletion, NewWrite, Adds
  <2>4. Meets(d)
    BY <1>6, <2>2
  <2> HIDE DEF x
  <2>5. Rest(d, <<x>>) = r \o <<x>> /\ r \in Seq(Write) /\ Queue(r, products[d], tapped)
        /\ Emptied(d) = <<>>
    <3>1. <<x>> \in Seq(Write)
      BY <2>3
    <3> QED
      BY <2>4, <3>1 DEF Meets
  <2>6. cart' = cart
    BY <2>1, <2>2, <2>4, CartsAfter DEF Meets
  <2> HIDE DEF r
  <2>7. ToSet(<<>>) = {}
    BY DEF ToSet
  <2>8. Queue(r, <<>>, tapped)
    BY <2>5, <2>7, QueueBeside
  <2>9. Queue(r \o <<x>>, <<>>, tapped)
    BY <2>3, <2>5, <2>8, QueueIssue
  <2>10. x \in ToSet(r \o <<x>>)
    <3> DEFINE t == <<x>>
    <3>1. t \in Seq(Write) /\ ToSet(t) = {x}
      BY <2>3, Single
    <3> HIDE DEF t
    <3>2. ToSet(r \o t) = ToSet(r) \cup {x}
      BY <2>5, <3>1, ToSetConcat
    <3> QED
      BY <3>2 DEF t
  <2> QED
    BY <1>1, <1>3, <2>2, <2>3, <2>5, <2>6, <2>7, <2>9, <2>10
<1>13. CASE Cleared(d)
  <2>1. Answers(d, "delete", products[d], <<>>) /\ Effect(w)
    BY <1>13, AnswerShapes
  <2>2. First(d) # 0 /\ w.op = "delete" /\ tapped' = tapped
        /\ Becomes(d, clock[d], screen[d], user[d], served[d], products[d], asked[d], r)
    BY <2>1 DEF Answers
  <2>3. Meets(d)
    BY <1>6, <2>2
  <2>4. /\ \A u \in Users : u # w.uid => cart'[u] = cart[u]
        /\ w.uid \in Users => cart'[w.uid] = DocAfter(cart[w.uid], w)
        /\ w.uid = served[d] /\ w \in Write
    BY <2>1, <2>3, CartsAfter DEF Meets, Proper
  <2>5. w.uid \in Users => cart'[w.uid].items = {}
    BY <1>5, <2>2, <2>4, ItemsAfter
  <2>6. Owned(tapped, cart')
    BY <1>1, <2>4, <2>5 DEF Owned
  <2>7. Queue(r, products[d], tapped)
    BY <2>3 DEF Meets
  <2>8. screen[d] = "in" => cart'[user[d]].items \subseteq ToSet(products[d])
    BY <1>4, <2>4, <2>5
  <2> HIDE DEF r, w
  <2> QED
    BY <1>2, <1>3, <2>2, <2>6, <2>7, <2>8
<1>14. CASE Unanswered(d) \/ Refused(d)
  BY <1>1, <1>14, AnswerShapes
<1> QED
  BY <1>9, <1>10, <1>11, <1>12, <1>13, <1>14 DEF Respond

\* It holds in every state that the device can reach.
LEMMA LoyalHolds ==
    ASSUME Loyal
    PROVE  Spec => [](BaseInv /\ LoyalInv)
<1>1. Init => BaseInv /\ LoyalInv
  <2> SUFFICES ASSUME Init PROVE LoyalInv
    BY BaseStart
  <2>1. ToSet(<<>>) = {}
    BY DEF ToSet
  <2>2. Owned(tapped, cart)
    BY DEF Init, Owned, NoDoc
  <2>3. ASSUME NEW d \in Devices
        PROVE  Holding(clock[d], screen[d], user[d], products[d], pending[d], tapped, cart)
    <3>1. /\ screen[d] = "splash" /\ products[d] = <<>> /\ pending[d] = <<>> /\ tapped = {}
      BY DEF Init
    <3> QED
      BY <2>1, <3>1, QueueEmpty DEF Holding
  <2> QED
    BY <2>2, <2>3 DEF LoyalInv
<1>2. BaseInv /\ LoyalInv /\ [Next]_vars => (BaseInv /\ LoyalInv)'
  <2> SUFFICES ASSUME BaseInv, LoyalInv, [Next]_vars PROVE BaseInv' /\ LoyalInv'
    OBVIOUS
  <2>1. BaseInv'
    BY BaseStep
  <2>2. ASSUME NEW d \in Devices, Acts(d) PROVE LoyalInv'
    BY <2>2, LoyalSessions, LoyalButtons, LoyalAnswers DEF Acts
  <2>3. CASE UNCHANGED rest
    <3>1. LoyalInv'
      BY <2>3 DEF rest, LoyalInv, Holding, Owned, Queue
    <3> QED
      BY <2>1, <3>1
  <2> QED
    BY <2>1, <2>2, <2>3, NextActs
<1> QED
  BY <1>1, <1>2, PTL DEF Spec

\* For any customers of one device, however quickly they add, buy, leave and let
\* the next one in, as long as they work with a list that shows their cart and
\* nothing fails: a cart holds only what its customer added, and the list shows
\* all of it unless the cart is being deleted.
THEOREM CartInListHolds ==
    ASSUME Loyal
    PROVE  Spec => []CartInList
<1>1. BaseInv /\ LoyalInv => CartInList
  BY DEF LoyalInv, Holding, Owned, CartInList
<1>2. Spec => [](BaseInv /\ LoyalInv)
  BY LoyalHolds
<1> QED
  BY <1>1, <1>2, PTL

----------------------------------------------------------------------------
(* One device whose customers wait for every answer and work with a list   *)
(* that shows their cart.                                                  *)

\* The conditions of run cart_patient.
Careful == Loyal /\ Patient

\* Item i is in order t of its owner, when O are the orders.
Bought(i, t, O) == O[t].uid = i.owner /\ i \in ToSet(O[t].items)

\* What write w was made for, on a device with clock c, user u and list p.
MadeFor(w, c, u, p, C, O) ==
    /\ w.by = u
    /\ Adds(w) =>
          /\ ToSet(p) = C[u].items
          /\ \A v \in Users : w.items[1] \notin C[v].items
          /\ \A t \in Time : w.items[1] \notin ToSet(O[t].items)
          /\ w.op = "set" => ~C[u].exists
    /\ w.op = "order" =>
          /\ w.items = p /\ p # <<>> /\ ToSet(p) = C[u].items
          /\ O[w.id] = NoOrder /\ w.id <= c
    /\ w.op = "delete" =>
          /\ p = <<>> /\ w.items = <<>>
          /\ \A i \in C[u].items : \E t \in Time : Bought(i, t, O)

\* A device between two writes, or with the one that is under way.
Mirror(c, s, u, p, a, q, C, O) ==
    /\ IsInjective(p)
    /\ s = "splash" => p = <<>>
    /\ a => p # <<>> /\ q = <<>>
    /\ q = <<>> /\ s = "in" => ToSet(p) = C[u].items
    /\ q # <<>> => s = "in"
    /\ Len(q) <= 1
    /\ \A w \in ToSet(q) : MadeFor(w, c, u, p, C, O)
    /\ \A t \in Time : O[t] # NoOrder => t <= c

Deletes(W, u) == \E w \in W : w.op = "delete" /\ w.uid = u

\* Where the items tapped may be, when W are the writes under way.
Books(W, T, C, O) ==
    /\ \A t \in Time :
          IsInjective(O[t].items) /\ \A i \in ToSet(O[t].items) : i \in T /\ i.owner = O[t].uid
    /\ \A i \in T :
          \/ \E w \in W : i \in ToSet(w.items)
          \/ i \in C[i.owner].items
          \/ \E t \in Time : Bought(i, t, O)
    /\ \A s, t \in Time : \A i \in OrderModel : Bought(i, s, O) /\ Bought(i, t, O) => s = t
    /\ \A u \in Users : \A i \in C[u].items : \A t \in Time :
          i \in ToSet(O[t].items) => Deletes(W, u)

InFlight == UNION {ToSet(pending[d]) : d \in Devices}

CarefulInv ==
    /\ \A d \in Devices :
          Mirror(clock[d], screen[d], user[d], products[d], asked[d], pending[d], cart, orders)
    /\ Books(InFlight, tapped, cart, orders)

\* A step after which it holds again.
LEMMA CarefulKept ==
    ASSUME BaseInv, OneDevice, NEW d \in Devices, NEW c, NEW s, NEW u, NEW v, NEW p, NEW a, NEW q,
           Becomes(d, c, s, u, v, p, a, q), Mirror(c, s, u, p, a, q, cart', orders'),
           Books(ToSet(q), tapped', cart', orders')
    PROVE  CarefulInv' /\ InFlight' = ToSet(q)
<1>1. \A e \in Devices : e = d
  BY DEF OneDevice
<1>2. /\ clock'[d] = c /\ screen'[d] = s /\ user'[d] = u
      /\ products'[d] = p /\ asked'[d] = a /\ pending'[d] = q
  BY BecomesAt
<1>3. \A e \in Devices :
         Mirror(clock'[e], screen'[e], user'[e], products'[e], asked'[e], pending'[e], cart', orders')
  BY <1>1, <1>2
<1>4. \A e \in Devices :
         Mirror(clock[e], screen[e], user[e], products[e], asked[e], pending[e], cart, orders)'
  BY <1>3 DEF Mirror, MadeFor, Bought, Adds
<1>5. InFlight' = ToSet(q)
  BY <1>1, <1>2 DEF InFlight
<1>6. Books(InFlight, tapped, cart, orders)'
  BY <1>5 DEF Books, Bought, Deletes
<1> QED
  BY <1>4, <1>5, <1>6 DEF CarefulInv

\* The device, and the writes under way, before the step.
LEMMA CarefulNow ==
    ASSUME BaseInv, LoyalInv, CarefulInv, Careful, NEW d \in Devices
    PROVE  /\ Mirror(clock[d], screen[d], user[d], products[d], asked[d], pending[d], cart, orders)
           /\ Books(ToSet(pending[d]), tapped, cart, orders)
           /\ Holding(clock[d], screen[d], user[d], products[d], pending[d], tapped, cart)
           /\ Owned(tapped, cart) /\ OneDevice /\ AlwaysLoaded /\ ~Faults
           /\ InFlight = ToSet(pending[d])
           /\ Ready(d) => pending[d] = <<>>
           /\ screen[d] = "in" => user[d] \in Users
           /\ asked[d] => screen[d] = "in"
<1>1. \A e \in Devices : e = d
  BY DEF Careful, Loyal, OneDevice
<1>2. InFlight = ToSet(pending[d])
  BY <1>1 DEF InFlight
<1>3. Holding(clock[d], screen[d], user[d], products[d], pending[d], tapped, cart)
  BY DEF LoyalInv
<1>4. ASSUME Ready(d) PROVE pending[d] = <<>>
  <2>1. \A w \in ToSet(pending[d]) : ~w.awaited
    BY <1>4 DEF Ready, Careful
  <2>2. \A w \in ToSet(pending[d]) : w.awaited = TRUE
    BY <1>3 DEF Holding, Queue
  <2>3. ToSet(pending[d]) = {} /\ pending[d] \in Seq(Write)
    BY <2>1, <2>2 DEF BaseInv, TypeOK
  <2> QED
    BY <2>3, ToSetFacts
<1>5. (screen[d] = "in" => user[d] \in Users) /\ (asked[d] => screen[d] = "in")
  BY DEF BaseInv, SessionFits
<1> QED
  BY <1>2, <1>3, <1>4, <1>5 DEF CarefulInv, Careful, Loyal, LoyalInv

\* A step that the server does not notice.
Quiet ==
    /\ cart' = cart /\ orders' = orders
    /\ \A u \in Users : Deletes(InFlight, u) <=> Deletes(InFlight', u)

\* The sessions keep it.
LEMMA CarefulSessions ==
    ASSUME BaseInv, LoyalInv, CarefulInv, Careful, NEW d \in Devices,
           \/ Splash(d) \/ (\E u \in Users : SignIn(d, u)) \/ SignOut(d)
           \/ HandleCredentialChange(d) \/ (\E kept \in BOOLEAN : Restart(d, kept)) \/ Reload(d)
    PROVE  CarefulInv' /\ Quiet
<1>1. /\ Mirror(clock[d], screen[d], user[d], products[d], asked[d], pending[d], cart, orders)
      /\ Books(ToSet(pending[d]), tapped, cart, orders)
      /\ Holding(clock[d], screen[d], user[d], products[d], pending[d], tapped, cart)
      /\ OneDevice /\ AlwaysLoaded /\ ~Faults
      /\ InFlight = ToSet(pending[d])
      /\ Ready(d) => pending[d] = <<>>
      /\ asked[d] => screen[d] = "in"
  BY CarefulNow
<1>2. ASSUME Still, NEW s, NEW u, NEW v, NEW p, NEW a,
             Becomes(d, clock[d], s, u, v, p, a, pending[d]),
             Mirror(clock[d], s, u, p, a, pending[d], cart, orders)
      PROVE  CarefulInv' /\ Quiet
  <2>1. CarefulInv' /\ InFlight' = ToSet(pending[d])
    BY <1>1, <1>2, CarefulKept DEF Still
  <2> QED
    BY <1>1, <1>2, <2>1 DEF Still, Quiet
<1>3. CASE Splash(d)
  <2> DEFINE s == IF user[d] = NoUser THEN "login" ELSE "in"
  <2>1. /\ screen[d] = "splash" /\ Still
        /\ Becomes(d, clock[d], s, user[d], served[d], Loaded(d), asked[d], pending[d])
    BY <1>3, SessionShapes
  <2>2. pending[d] = <<>> /\ user[d] \in Users \cup {NoUser} /\ products[d] = <<>> /\ ~asked[d]
    BY <1>1, <2>1 DEF Holding, Mirror, BaseInv, TypeOK
  <2>3. ToSet(<<>>) = {} /\ Len(<<>>) = 0
    BY DEF ToSet
  <2>4. ASSUME user[d] # NoUser
        PROVE  IsInjective(Loaded(d)) /\ ToSet(Loaded(d)) = cart[user[d]].items
    <3>1. user[d] \in Users
      BY <2>2, <2>4
    <3>2. View(d, user[d]) = cart[user[d]] /\ cart[user[d]] \in Docs
      BY <2>2, <3>1, ViewSound
    <3>3. CASE cart[user[d]].exists
      <4>1. Loaded(d) = SetToSeq(cart[user[d]].items)
        BY <2>4, <3>2, <3>3 DEF Loaded
      <4>2. IsFiniteSet(cart[user[d]].items)
        BY <3>2 DEF Docs, Sound
      <4> QED
        BY <4>1, <4>2, Listed
    <3>4. CASE ~cart[user[d]].exists
      <4>1. Loaded(d) = <<>> /\ cart[user[d]].items = {}
        BY <2>2, <3>2, <3>4 DEF Loaded, Docs, Sound
      <4> QED
        BY <1>1, <2>2, <2>3, <4>1 DEF Mirror
    <3> QED
      BY <3>3, <3>4
  <2>5. user[d] = NoUser => Loaded(d) = products[d]
    BY DEF Loaded
  <2>6. s # "splash" /\ (s = "in" => user[d] # NoUser) /\ IsInjective(Loaded(d))
    BY <1>1, <2>4, <2>5 DEF Mirror
  <2> HIDE DEF s
  <2>7. Mirror(clock[d], s, user[d], Loaded(d), asked[d], pending[d], cart, orders)
    BY <1>1, <2>2, <2>3, <2>4, <2>6 DEF Mirror
  <2> QED
    BY <1>2, <2>1, <2>7
<1>4. ASSUME NEW u \in Users, SignIn(d, u) PROVE CarefulInv' /\ Quiet
  <2>1. /\ Still /\ Shows(d, u) /\ screen[d] = "login"
        /\ Becomes(d, clock[d], "in", u, u, products[d], asked[d], pending[d])
    BY <1>1, <1>4, SessionShapes
  <2>2. pending[d] = <<>> /\ ~asked[d]
    BY <1>1, <2>1 DEF Mirror
  <2>3. ToSet(products[d]) = cart[u].items
    BY <2>1, <2>2, ViewSound DEF Shows
  <2>4. ToSet(<<>>) = {}
    BY DEF ToSet
  <2>5. Mirror(clock[d], "in", u, products[d], asked[d], pending[d], cart, orders)
    BY <1>1, <2>2, <2>3, <2>4 DEF Mirror
  <2> QED
    BY <1>2, <2>1, <2>5
<1>5. CASE SignOut(d)
  <2>1. /\ Still /\ Ready(d) /\ ~asked[d]
        /\ Becomes(d, clock[d], "login", NoUser, served[d], products[d], asked[d], pending[d])
    BY <1>5, SessionShapes
  <2>2. ToSet(<<>>) = {}
    BY DEF ToSet
  <2>3. Mirror(clock[d], "login", NoUser, products[d], asked[d], pending[d], cart, orders)
    BY <1>1, <2>1, <2>2 DEF Mirror
  <2> QED
    BY <1>2, <2>1, <2>3
<1>6. CASE HandleCredentialChange(d)
  <2>1. /\ Still
        /\ Becomes(d, clock[d], screen[d], user[d], user[d], products[d], asked[d], pending[d])
    BY <1>6, SessionShapes
  <2> QED
    BY <1>1, <1>2, <2>1
<1>7. ASSUME NEW kept \in BOOLEAN, Restart(d, kept) PROVE CarefulInv' /\ Quiet
  <2>1. /\ Still /\ pending[d] = <<>>
        /\ Becomes(d, clock[d], "splash", user[d], user[d], <<>>, FALSE, Abandoned(d, kept))
    BY <1>1, <1>7, SessionShapes
  <2>2. Abandoned(d, kept) = pending[d]
    <3>1. DOMAIN pending[d] = {}
      BY <2>1
    <3>2. [i \in {} |-> [pending[d][i] EXCEPT !.awaited = FALSE]] = <<>>
      OBVIOUS
    <3> QED
      BY <2>1, <3>1, <3>2 DEF Abandoned
  <2>3. IsInjective(<<>>) /\ ToSet(<<>>) = {}
    BY DEF IsInjective, ToSet
  <2>4. Mirror(clock[d], "splash", user[d], <<>>, FALSE, pending[d], cart, orders)
    BY <1>1, <2>1, <2>3 DEF Mirror
  <2> QED
    BY <1>2, <2>1, <2>2, <2>4
<1>8. CASE Reload(d)
  BY <1>1, <1>8, SessionShapes
<1> QED
  BY <1>3, <1>4, <1>5, <1>6, <1>7, <1>8

\* The buttons keep it.
LEMMA CarefulButtons ==
    ASSUME BaseInv, LoyalInv, CarefulInv, Careful, NEW d \in Devices,
           (\E p \in Products : AddToCart(d, p)) \/ Buy(d) \/ Decline(d) \/ Confirm(d)
    PROVE  CarefulInv' /\ Quiet
<1>1. /\ Mirror(clock[d], screen[d], user[d], products[d], asked[d], pending[d], cart, orders)
      /\ Books(ToSet(pending[d]), tapped, cart, orders)
      /\ Holding(clock[d], screen[d], user[d], products[d], pending[d], tapped, cart)
      /\ Owned(tapped, cart) /\ OneDevice
      /\ InFlight = ToSet(pending[d])
      /\ Ready(d) => pending[d] = <<>>
      /\ screen[d] = "in" => user[d] \in Users
      /\ asked[d] => screen[d] = "in"
  BY CarefulNow
<1>2. ToSet(<<>>) = {} /\ \A w \in Write : Append(<<>>, w) = <<w>>
  BY DEF ToSet
<1>3. ASSUME NEW w \in Write PROVE <<w>> # <<>> /\ Len(<<w>>) <= 1 /\ ToSet(<<w>>) = {w}
  BY Single
<1>4. ASSUME pending[d] = <<>>, NEW w \in Write, w.op # "delete", NEW u, NEW v, NEW p,
             cart' = cart, orders' = orders, Books({w}, tapped', cart, orders),
             Becomes(d, Now(d), screen[d], u, v, p, FALSE, <<w>>),
             Mirror(Now(d), screen[d], u, p, FALSE, <<w>>, cart, orders)
      PROVE  CarefulInv' /\ Quiet
  <2> DEFINE q == <<w>>
  <2>3. /\ ToSet(q) = {w} /\ Books(ToSet(q), tapped', cart', orders')
        /\ Becomes(d, Now(d), screen[d], u, v, p, FALSE, q)
        /\ Mirror(Now(d), screen[d], u, p, FALSE, q, cart', orders')
    BY <1>3, <1>4
  <2> HIDE DEF q
  <2>1. CarefulInv' /\ InFlight' = {w}
    BY <1>1, <2>3, CarefulKept
  <2>2. InFlight = {}
    BY <1>1, <1>2, <1>4
  <2> QED
    BY <1>4, <2>1, <2>2 DEF Quiet, Deletes
<1>5. ASSUME clock[d] < MaxTime PROVE \A t \in Time : t <= clock[d] => t <= Now(d) /\ t # Now(d)
  BY <1>5, NextReading DEF Time
<1>6. ASSUME NEW p \in Products, AddToCart(d, p) PROVE CarefulInv' /\ Quiet
  <2> DEFINE i == Tapped(d, p)
             w == NewWrite(d, "update", user[d], <<i>>, 0)
             T == tapped \cup {i}
  <2>1. /\ screen[d] = "in" /\ clock[d] < MaxTime /\ ~asked[d] /\ Ready(d)
        /\ tapped' = T /\ cart' = cart /\ orders' = orders
        /\ Becomes(d, Now(d), screen[d], user[d], served[d], products[d], asked[d],
                   Append(pending[d], w))
    BY <1>6, ButtonShapes
  <2>2. user[d] \in Users /\ pending[d] = <<>>
    BY <1>1, <2>1
  <2>3. i \in OrderModel /\ i.owner = user[d] /\ i.orderId = Now(d)
    BY <2>1, <2>2, TappedItem
  <2>4. <<i>> \in Seq(OrderModel) /\ ToSet(<<i>>) = {i}
    BY <2>3, Single
  <2>5. w \in Write
    BY <2>2, <2>3, <2>4, NewWriteProper
  <2>6. w.items[1] = i /\ w.op = "update" /\ w.by = user[d] /\ i \in ToSet(w.items)
    BY <2>4 DEF NewWrite
  <2>7. i \notin tapped
    <3>1. \A x \in tapped : x.orderId \in Time /\ x.orderId <= clock[d]
      BY <1>1 DEF Holding, BaseInv, TypeOK, OrderModel
    <3> QED
      BY <1>5, <2>1, <2>3, <3>1
  <2> HIDE DEF i, w
  <2>8. \A v \in Users : i \notin cart[v].items
    BY <1>1, <2>7 DEF Owned
  <2>9. \A t \in Time : i \notin ToSet(orders[t].items)
    BY <1>1, <2>7 DEF Books
  <2>10. ToSet(products[d]) = cart[user[d]].items
    BY <1>1, <2>1, <2>2 DEF Mirror
  <2>11. MadeFor(w, Now(d), user[d], products[d], cart, orders)
    BY <2>6, <2>8, <2>9, <2>10 DEF MadeFor
  <2>12. \A t \in Time : orders[t] # NoOrder => t <= Now(d)
    BY <1>1, <1>5, <2>1 DEF Mirror
  <2>13. Mirror(Now(d), screen[d], user[d], products[d], FALSE, <<w>>, cart, orders)
    BY <1>1, <1>3, <2>1, <2>5, <2>11, <2>12 DEF Mirror
  <2>14. Books({w}, T, cart, orders)
    <3>1. Books({}, tapped, cart, orders)
      BY <1>1, <1>2, <2>2
    <3> QED
      BY <2>6, <3>1 DEF Books, Deletes
  <2>15. Append(pending[d], w) = <<w>> /\ asked[d] = FALSE
    BY <1>2, <2>1, <2>2, <2>5 DEF BaseInv, TypeOK
  <2> QED
    BY <1>4, <2>1, <2>2, <2>5, <2>6, <2>13, <2>14, <2>15
<1>7. ASSUME Still, NEW a \in BOOLEAN, a => products[d] # <<>> /\ pending[d] = <<>>,
             Becomes(d, clock[d], screen[d], user[d], served[d], products[d], a, pending[d])
      PROVE  CarefulInv' /\ Quiet
  <2>1. Mirror(clock[d], screen[d], user[d], products[d], a, pending[d], cart, orders)
    BY <1>1, <1>7 DEF Mirror
  <2>2. CarefulInv' /\ InFlight' = ToSet(pending[d])
    BY <1>1, <1>7, <2>1, CarefulKept DEF Still
  <2> QED
    BY <1>1, <1>7, <2>2 DEF Still, Quiet
<1>8. CASE Buy(d)
  BY <1>1, <1>7, <1>8, ButtonShapes
<1>9. CASE Decline(d)
  BY <1>7, <1>9, ButtonShapes
<1>10. CASE Confirm(d)
  <2> DEFINE w == NewWrite(d, "order", user[d], products[d], Now(d))
  <2>1. /\ asked[d] /\ clock[d] < MaxTime /\ Still
        /\ Becomes(d, Now(d), screen[d], user[d], served[d], products[d], FALSE,
                   Append(pending[d], w))
    BY <1>10, ButtonShapes
  <2>2. screen[d] = "in" /\ user[d] \in Users /\ products[d] \in Seq(OrderModel)
        /\ products[d] # <<>> /\ pending[d] = <<>>
    BY <1>1, <2>1 DEF Mirror, BaseInv, TypeOK
  <2>3. Now(d) \in Time
    BY <2>1, NextReading
  <2>4. w \in Write
    BY <2>2, <2>3, NewWriteProper
  <2>5. w.op = "order" /\ w.by = user[d] /\ w.items = products[d] /\ w.id = Now(d)
    BY DEF NewWrite
  <2> HIDE DEF w
  <2>6. ToSet(products[d]) = cart[user[d]].items
    BY <1>1, <2>2 DEF Mirror
  <2>7. orders[w.id] = NoOrder /\ w.id <= Now(d)
    BY <1>1, <1>5, <2>1, <2>3, <2>5, NextReading DEF Mirror
  <2>8. MadeFor(w, Now(d), user[d], products[d], cart, orders)
    BY <2>2, <2>5, <2>6, <2>7 DEF MadeFor, Adds
  <2>9. \A t \in Time : orders[t] # NoOrder => t <= Now(d)
    BY <1>1, <1>5, <2>1 DEF Mirror
  <2>10. Mirror(Now(d), screen[d], user[d], products[d], FALSE, <<w>>, cart, orders)
    BY <1>1, <1>3, <2>2, <2>4, <2>8, <2>9 DEF Mirror
  <2>11. Books({w}, tapped', cart, orders)
    <3>1. Books({}, tapped, cart, orders) /\ tapped' = tapped
      BY <1>1, <1>2, <2>1, <2>2 DEF Still
    <3> QED
      BY <3>1 DEF Books, Deletes
  <2>12. Append(pending[d], w) = <<w>>
    BY <1>2, <2>2, <2>4
  <2> QED
    BY <1>4, <2>1, <2>2, <2>4, <2>5, <2>10, <2>11, <2>12 DEF Still
<1> QED
  BY <1>6, <1>8, <1>9, <1>10

\* What an answer does for the baskets: an item goes into one, ...
Fills(u, i) ==
    /\ orders' = orders
    /\ \A v \in Users : ~Deletes(InFlight, v) /\ ~Deletes(InFlight', v)
    /\ \A v \in Users : cart'[v].items = IF v = u THEN cart[v].items \cup {i} ELSE cart[v].items

\* ... or one is sold, ...
Sells(u, id) ==
    /\ cart' = cart /\ cart[u].items # {} /\ orders[id] = NoOrder
    /\ \A v \in Users : ~Deletes(InFlight, v) /\ (Deletes(InFlight', v) <=> v = u)
    /\ \E p \in Seq(OrderModel) :
          /\ ToSet(p) = cart[u].items
          /\ orders' = [orders EXCEPT ![id] = [uid |-> u, items |-> p]]

\* ... or what was sold is deleted.
Forgets(u) ==
    /\ orders' = orders
    /\ \A v \in Users : (Deletes(InFlight, v) <=> v = u) /\ ~Deletes(InFlight', v)
    /\ \A v \in Users : cart'[v].items = IF v = u THEN {} ELSE cart[v].items

Outcome ==
    \/ Quiet
    \/ \E u \in Users : Forgets(u) \/ (\E i \in OrderModel : Fills(u, i))
                                   \/ (\E id \in Time : Sells(u, id))

\* The write that is answered is the only one.
LEMMA AnswerAlone ==
    ASSUME BaseInv, LoyalInv, CarefulInv, Careful, NEW d \in Devices, First(d) # 0
    PROVE  /\ Meets(d) /\ (Adds(Answer(d)) => \E i : Brings(d, i))
           /\ ToSet(pending[d]) = {Answer(d)}
           /\ \A more \in Seq(Write) : Rest(d, more) = more
           /\ MadeFor(Answer(d), clock[d], user[d], products[d], cart, orders)
           /\ Answer(d).uid = user[d] /\ user[d] \in Users /\ screen[d] = "in" /\ ~asked[d]
<1> DEFINE w == Answer(d)
           q == pending[d]
           r == Rest(d, <<>>)
<1>1. /\ Mirror(clock[d], screen[d], user[d], products[d], asked[d], q, cart, orders)
      /\ Holding(clock[d], screen[d], user[d], products[d], q, tapped, cart)
      /\ screen[d] = "in" => user[d] \in Users
  BY CarefulNow
<1>2. Meets(d) /\ (Adds(w) => \E i : Brings(d, i))
  BY <1>1, AnswerMeets DEF Holding
<1>3. /\ q \in Seq(Write) /\ Len(q) \in Nat /\ First(d) \in 1 .. Len(q) /\ w.awaited = TRUE
      /\ w \in ToSet(q)
  <2>1. q \in Seq(Write) /\ Len(q) \in Nat /\ First(d) \in 1 .. Len(q)
    BY FirstFacts DEF BaseInv
  <2>2. w \in ToSet(q)
    BY <1>2 DEF Meets
  <2>3. w.awaited = TRUE
    BY <1>1, <2>2 DEF Holding, Queue
  <2> QED
    BY <2>1, <2>2, <2>3
<1>4. q # <<>> /\ Len(q) = 1
  <2>1. Len(q) <= 1
    BY <1>1 DEF Mirror
  <2>2. q # <<>>
    BY <1>3, ToSetFacts
  <2> DEFINE n == Len(q)
  <2>3. n \in Nat /\ n <= 1 /\ n # 0
    BY <1>3, <2>1, <2>2, ToSetFacts
  <2> HIDE DEF n
  <2>4. n = 1
    BY <2>3
  <2> QED
    BY <2>2, <2>4 DEF n
<1>5. Len(RemoveAt(q, First(d))) = 0 /\ RemoveAt(q, First(d)) \in Seq(Write)
  BY <1>3, <1>4, RemoveAtFacts
<1>6. RemoveAt(q, First(d)) = <<>>
  BY <1>5, ToSetFacts
<1>7. \A more \in Seq(Write) : Rest(d, more) = more
  <2> TAKE more \in Seq(Write)
  <2>1. Rest(d, more) = <<>> \o more
    BY <1>3, <1>6 DEF Rest
  <2> QED
    BY <2>1
<1>8. ToSet(q) = {w}
  <2>1. <<>> \in Seq(Write) /\ ToSet(<<>>) = {}
    BY DEF ToSet
  <2>2. r = <<>>
    BY <1>7, <2>1
  <2> QED
    BY <1>2, <2>1, <2>2 DEF Meets
<1>9. MadeFor(w, clock[d], user[d], products[d], cart, orders) /\ screen[d] = "in" /\ ~asked[d]
  BY <1>1, <1>3, <1>4 DEF Mirror
<1>10. w.uid = user[d]
  BY <1>2, <1>9 DEF MadeFor, Meets, Proper
<1> QED
  BY <1>1, <1>2, <1>7, <1>8, <1>9, <1>10

\* The answers keep it.
LEMMA CarefulAnswers ==
    ASSUME BaseInv, LoyalInv, CarefulInv, Careful, NEW d \in Devices,
           Respond(d) \/ Unanswered(d) \/ Refused(d)
    PROVE  CarefulInv' /\ Outcome
<1> DEFINE w == Answer(d)
           u == user[d]
           p == products[d]
<1>1. /\ Mirror(clock[d], screen[d], u, p, asked[d], pending[d], cart, orders)
      /\ Books(ToSet(pending[d]), tapped, cart, orders)
      /\ ToSet(p) \subseteq tapped
      /\ Owned(tapped, cart) /\ OneDevice /\ ~Faults
      /\ InFlight = ToSet(pending[d])
  BY CarefulNow DEF Holding
<1>2. First(d) # 0
  BY <1>1, AnswerShapes DEF Respond, Answers
<1>3. /\ Meets(d) /\ (Adds(w) => \E i : Brings(d, i))
      /\ ToSet(pending[d]) = {w}
      /\ \A more \in Seq(Write) : Rest(d, more) = more
      /\ MadeFor(w, clock[d], u, p, cart, orders)
      /\ w.uid = u /\ u \in Users /\ screen[d] = "in" /\ ~asked[d]
  BY <1>2, AnswerAlone
<1>4. w \in Write /\ Proper(w) /\ p \in Seq(OrderModel) /\ cart \in [Users -> CartDoc]
      /\ orders \in [Time -> OrderDoc \cup {NoOrder}] /\ tapped \subseteq OrderModel
      /\ asked[d] = FALSE /\ <<>> \in Seq(Write)
  BY <1>3 DEF Meets, BaseInv, TypeOK
<1>5. Rest(d, <<>>) = <<>> /\ \A x \in Write : Rest(d, <<x>>) = <<x>>
  <2>1. \A x \in Write : <<x>> \in Seq(Write)
    OBVIOUS
  <2> QED
    BY <1>3, <1>4, <2>1
<1>6. ToSet(<<>>) = {} /\ Len(<<>>) = 0 /\ IsInjective(<<>>)
  BY DEF ToSet, IsInjective
<1>7. \A x \in Write : ToSet(<<x>>) = {x} /\ Len(<<x>>) = 1 /\ <<x>> # <<>>
  BY Single
<1> HIDE DEF w, u, p
<1>8. ASSUME NEW l, NEW q, tapped' = tapped, IsInjective(l), l # <<>> \/ ~asked[d],
             Becomes(d, clock[d], screen[d], u, served[d], l, asked[d], q), Len(q) <= 1,
             q = <<>> => ToSet(l) = cart'[u].items,
             \A x \in ToSet(q) : MadeFor(x, clock[d], u, l, cart', orders'),
             \A t \in Time : orders'[t] # NoOrder => t <= clock[d],
             Books(ToSet(q), tapped, cart', orders')
      PROVE  CarefulInv' /\ InFlight' = ToSet(q)
  <2>1. Mirror(clock[d], screen[d], u, l, asked[d], q, cart', orders')
    BY <1>3, <1>8 DEF Mirror
  <2> QED
    BY <1>1, <1>8, <2>1, CarefulKept
<1>9. ASSUME Answers(d, w.op, Longer(d), <<>>), Adds(w), Effect(w), orders' = orders,
             cart'[u].items = cart[u].items \cup ToSet(w.items)
      PROVE  CarefulInv' /\ Outcome
  <2>1. PICK i : Brings(d, i)
    BY <1>3, <1>9
  <2>2. /\ i \in OrderModel /\ i \in tapped /\ i \notin ToSet(p) /\ i.owner = u
        /\ ToSet(w.items) = {i} /\ w.items[1] = i /\ ToSet(Longer(d)) = ToSet(p) \cup {i}
        /\ w.items = <<i>>
    BY <1>3, <2>1 DEF Brings, w, p
  <2>3. \A v \in Users : v # u => cart'[v] = cart[v]
    BY <1>3, <1>4, <1>9, CartsAfter
  <2>4. ToSet(Longer(d)) = cart'[u].items
    BY <1>3, <1>9, <2>2 DEF MadeFor
  <2>5. IsInjective(Longer(d))
    <3>1. Longer(d) = p \o <<i>> /\ IsInjective(p)
      BY <1>1, <1>3, <2>2 DEF Meets, Mirror, p, w
    <3> QED
      BY <1>4, <2>2, <3>1, InjectiveAppend
  <2>6. Books({}, tapped, cart', orders')
    <3>1. Books({w}, tapped, cart, orders) /\ w.op # "delete"
      BY <1>1, <1>3, <1>9 DEF Adds
    <3>2. \A t \in Time : i \notin ToSet(orders[t].items)
      BY <1>3, <1>9, <2>2 DEF MadeFor
    <3>3. \A v \in Users : cart[v].items \subseteq cart'[v].items
                           /\ cart'[v].items \subseteq cart[v].items \cup {i}
      BY <1>9, <2>2, <2>3
    <3>4. i \in cart'[i.owner].items
      BY <1>9, <2>2
    <3>5. \A x \in tapped : x.owner \in Users
      BY <1>4 DEF OrderModel
    <3>6. \A x \in tapped : x \in cart'[x.owner].items \/ \E t \in Time : Bought(x, t, orders)
      BY <2>2, <3>1, <3>3, <3>4, <3>5 DEF Books
    <3>7. \A v \in Users : \A x \in cart'[v].items : \A t \in Time : x \notin ToSet(orders[t].items)
      BY <3>1, <3>2, <3>3 DEF Books, Deletes
    <3> QED
      BY <1>9, <3>1, <3>6, <3>7 DEF Books
  <2>7. \A t \in Time : orders'[t] # NoOrder => t <= clock[d]
    BY <1>1, <1>9 DEF Mirror
  <2>8. tapped' = tapped
        /\ Becomes(d, clock[d], screen[d], u, served[d], Longer(d), asked[d], <<>>)
    BY <1>5, <1>9 DEF Answers, u
  <2>9. CarefulInv' /\ InFlight' = {}
    <3> DEFINE q == <<>>
    <3>1. ToSet(q) = {} /\ Len(q) <= 1
      BY <1>6
    <3>2. /\ Books(ToSet(q), tapped, cart', orders')
          /\ Becomes(d, clock[d], screen[d], u, served[d], Longer(d), asked[d], q)
      BY <1>6, <2>6, <2>8
    <3> HIDE DEF q
    <3> QED
      BY <1>3, <1>8, <2>4, <2>5, <2>7, <2>8, <3>1, <3>2
  <2>10. Fills(u, i)
    BY <1>1, <1>3, <1>9, <2>2, <2>3, <2>9 DEF Fills, Deletes, Adds
  <2> QED
    BY <1>3, <2>2, <2>9, <2>10 DEF Outcome
<1>10. CASE Added(d)
  <2>1. Answers(d, "update", Longer(d), <<>>) /\ Effect(w) /\ Found(d)
    BY <1>10, AnswerShapes DEF w
  <2>2. w.op = "update" /\ cart[u].exists
    BY <1>3, <2>1 DEF Answers, Found, w
  <2>3. cart'[u] = DocAfter(cart[u], w) /\ orders' = orders
    BY <1>3, <1>4, <2>1, <2>2, CartsAfter
  <2>4. cart'[u].items = cart[u].items \cup ToSet(w.items)
    BY <1>3, <1>4, <2>2, <2>3, ItemsAfter
  <2> QED
    BY <1>9, <2>1, <2>2, <2>3, <2>4 DEF Adds
<1>11. CASE Created(d)
  <2>1. Answers(d, "set", Longer(d), <<>>) /\ Effect(w)
    BY <1>11, AnswerShapes DEF w
  <2>2. w.op = "set" /\ Adds(w)
    BY <2>1 DEF Answers, w, Adds
  <2>3. ~cart[u].exists /\ Sound(cart[u])
    BY <1>3, <2>2 DEF MadeFor, BaseInv
  <2>4. cart'[u] = DocAfter(cart[u], w) /\ orders' = orders
    BY <1>3, <1>4, <2>1, <2>2, CartsAfter
  <2>5. cart'[u].items = cart[u].items \cup ToSet(w.items)
    BY <1>3, <1>4, <2>2, <2>3, <2>4, ItemsAfter DEF Sound
  <2> QED
    BY <1>9, <2>1, <2>2, <2>4, <2>5
<1>12. CASE NotFound(d)
  <2> DEFINE x == NewWrite(d, "set", u, w.items, 0)
  <2>1. Answers(d, "update", p, <<x>>) /\ Still /\ ~Found(d)
    BY <1>12, AnswerShapes DEF w, p, u
  <2>2. w.op = "update" /\ Adds(w) /\ cart' = cart /\ orders' = orders /\ tapped' = tapped
    BY <2>1 DEF Answers, Still, w, Adds
  <2>3. x \in Write
    BY <1>2, <2>2, NextWrites DEF w, u
  <2>4. x.op = "set" /\ x.items = w.items /\ x.by = u
    BY DEF NewWrite, u
  <2> HIDE DEF x
  <2>5. Becomes(d, clock[d], screen[d], u, served[d], p, asked[d], <<x>>)
    BY <1>5, <2>1, <2>3 DEF Answers, u
  <2>6. ~cart[u].exists
    BY <1>3, <2>1, NoUserAssumption DEF Found, w
  <2>7. MadeFor(x, clock[d], u, p, cart, orders)
    BY <1>3, <2>2, <2>4, <2>6 DEF MadeFor, Adds
  <2>8. Books({x}, tapped, cart, orders)
    BY <1>1, <1>3, <2>2, <2>4 DEF Books, Deletes
  <2>9. IsInjective(p) /\ \A t \in Time : orders[t] # NoOrder => t <= clock[d]
    BY <1>1 DEF Mirror
  <2> DEFINE q == <<x>>
  <2>10. ToSet(q) = {x} /\ Len(q) <= 1 /\ q # <<>>
    BY <1>7, <2>3
  <2> HIDE DEF q
  <2>11. Becomes(d, clock[d], screen[d], u, served[d], p, asked[d], q)
    BY <2>5 DEF q
  <2>12. CarefulInv' /\ InFlight' = {x}
    BY <1>3, <1>8, <2>2, <2>7, <2>8, <2>9, <2>10, <2>11
  <2>13. Quiet
    BY <1>1, <1>3, <2>2, <2>4, <2>12 DEF Quiet, Deletes
  <2> QED
    BY <2>12, <2>13 DEF Outcome
<1>13. CASE Placed(d)
  <2> DEFINE x == Deletion(d)
             O == [uid |-> u, items |-> p]
  <2>1. Answers(d, "order", Emptied(d), <<x>>) /\ Effect(w)
    BY <1>13, AnswerShapes DEF w
  <2>2. w.op = "order" /\ tapped' = tapped /\ Emptied(d) = <<>>
    BY <1>3, <2>1 DEF Answers, Meets, w
  <2>3. x \in Write
    BY <1>2, NextWrites
  <2>4. x.op = "delete" /\ x.by = u /\ x.uid = u /\ x.items = <<>>
    BY DEF Deletion, NewWrite, u
  <2> HIDE DEF x
  <2>5. Becomes(d, clock[d], screen[d], u, served[d], <<>>, asked[d], <<x>>)
    BY <1>5, <2>1, <2>2, <2>3 DEF Answers, u
  <2>6. w.items = p /\ p # <<>> /\ ToSet(p) = cart[u].items
        /\ w.id \in Time /\ w.id <= clock[d] /\ orders[w.id] = NoOrder
    BY <1>3, <1>4, <2>2 DEF MadeFor, Proper
  <2>7. cart' = cart
    BY <1>4, <2>1, <2>2, CartsAfter
  <2>8. orders' = [orders EXCEPT ![w.id] = O]
    BY <1>3, <2>1, <2>2, <2>6 DEF Effect
  <2>9. orders'[w.id] = O /\ \A t \in Time : t # w.id => orders'[t] = orders[t]
    BY <1>4, <2>6, <2>8
  <2>10. \A i \in cart[u].items : i \in tapped /\ i.owner = u
    BY <1>1, <1>3 DEF Owned
  <2>11. \A i \in cart[u].items : Bought(i, w.id, orders')
    BY <2>6, <2>9, <2>10 DEF Bought
  <2>12. MadeFor(x, clock[d], u, <<>>, cart', orders')
    BY <2>4, <2>6, <2>7, <2>11 DEF MadeFor, Adds
  <2>13. Books({w}, tapped, cart, orders) /\ \A v : ~Deletes({w}, v)
    BY <1>1, <1>3, <2>2 DEF Deletes
  <2>14. Books({x}, tapped, cart', orders')
    <3>1. ASSUME NEW t \in Time
          PROVE  /\ IsInjective(orders'[t].items)
                 /\ \A i \in ToSet(orders'[t].items) : i \in tapped /\ i.owner = orders'[t].uid
      <4>1. CASE t = w.id
        BY <1>1, <2>6, <2>9, <2>10, <4>1 DEF Mirror
      <4>2. CASE t # w.id
        BY <2>9, <2>13, <4>2 DEF Books
      <4> QED
        BY <4>1, <4>2
    <3>2. \A i \in ToSet(p) : \A t \in Time : i \notin ToSet(orders[t].items)
      <4>1. \A v \in Users : \A i \in cart[v].items : \A t \in Time :
               i \in ToSet(orders[t].items) => Deletes({w}, v)
        BY <2>13 DEF Books
      <4> QED
        BY <1>3, <2>6, <2>13, <4>1
    <3>3. ASSUME NEW i \in tapped
          PROVE  i \in cart[i.owner].items \/ \E t \in Time : Bought(i, t, orders')
      <4>1. CASE i \in ToSet(p)
        BY <2>6, <2>11, <4>1
      <4>2. CASE \E t \in Time : Bought(i, t, orders)
        <5>1. PICK t \in Time : Bought(i, t, orders)
          BY <4>2
        <5>2. t # w.id
          BY <2>6, <5>1, <1>6 DEF Bought, NoOrder
        <5> QED
          BY <2>9, <5>1, <5>2 DEF Bought
      <4> QED
        BY <2>6, <2>13, <4>1, <4>2 DEF Books
    <3>4. \A t \in Time : t # w.id => \A i : Bought(i, t, orders') => Bought(i, t, orders)
      BY <2>9 DEF Bought
    <3>5. \A i : Bought(i, w.id, orders') => i \in ToSet(p)
      BY <2>9 DEF Bought
    <3>6. ASSUME NEW s \in Time, NEW t \in Time, NEW i \in OrderModel,
                 Bought(i, s, orders'), Bought(i, t, orders')
          PROVE  s = t
      <4>1. CASE s # w.id /\ t # w.id
        BY <2>13, <3>4, <3>6, <4>1 DEF Books
      <4>2. CASE s = w.id \/ t = w.id
        <5>1. i \in ToSet(p)
          BY <3>5, <3>6, <4>2
        <5>2. \A z \in Time : ~Bought(i, z, orders)
          BY <3>2, <5>1 DEF Bought
        <5> QED
          BY <3>4, <3>6, <5>2
      <4> QED
        BY <4>1, <4>2
    <3>7. ASSUME NEW v \in Users, NEW i \in cart[v].items, NEW t \in Time,
                 i \in ToSet(orders'[t].items)
          PROVE  v = u
      <4>1. t = w.id
        BY <2>9, <2>13, <3>7 DEF Books
      <4>2. i \in cart[u].items
        BY <2>6, <2>9, <3>7, <4>1
      <4> QED
        BY <1>1, <2>10, <4>2 DEF Owned
    <3>8. Deletes({x}, u)
      BY <2>4 DEF Deletes
    <3> QED
      BY <2>7, <3>1, <3>3, <3>6, <3>7, <3>8 DEF Books
  <2>15. \A t \in Time : orders'[t] # NoOrder => t <= clock[d]
    BY <1>1, <2>6, <2>9 DEF Mirror
  <2> DEFINE q == <<x>>
  <2>16. ToSet(q) = {x} /\ Len(q) <= 1 /\ q # <<>>
    BY <1>7, <2>3
  <2> HIDE DEF q
  <2>17. Becomes(d, clock[d], screen[d], u, served[d], <<>>, asked[d], q)
    BY <2>5 DEF q
  <2>18. CarefulInv' /\ InFlight' = {x}
    BY <1>3, <1>6, <1>8, <2>2, <2>12, <2>14, <2>15, <2>16, <2>17
  <2>19. cart[u].items # {}
    BY <1>4, <2>6, ToSetFacts
  <2>20. Sells(u, w.id)
    BY <1>1, <1>3, <1>4, <2>4, <2>6, <2>7, <2>8, <2>13, <2>18, <2>19 DEF Sells, Deletes
  <2> QED
    BY <1>3, <2>6, <2>18, <2>20 DEF Outcome
<1>14. CASE Cleared(d)
  <2>1. Answers(d, "delete", p, <<>>) /\ Effect(w)
    BY <1>14, AnswerShapes DEF w, p
  <2>2. w.op = "delete" /\ tapped' = tapped
        /\ Becomes(d, clock[d], screen[d], u, served[d], p, asked[d], <<>>)
    BY <1>5, <2>1 DEF Answers, w, u
  <2>3. /\ \A v \in Users : v # u => cart'[v] = cart[v]
        /\ cart'[u] = DocAfter(cart[u], w) /\ orders' = orders
    BY <1>3, <1>4, <2>1, <2>2, CartsAfter
  <2>4. cart'[u].items = {}
    BY <1>3, <1>4, <2>2, <2>3, ItemsAfter
  <2>5. p = <<>> /\ w.items = <<>> /\ \A i \in cart[u].items : \E t \in Time : Bought(i, t, orders)
    BY <1>3, <2>2 DEF MadeFor
  <2>6. Books({}, tapped, cart', orders')
    <3>1. Books({w}, tapped, cart, orders)
      BY <1>1, <1>3
    <3>2. ASSUME NEW i \in tapped
          PROVE  i \in cart'[i.owner].items \/ \E t \in Time : Bought(i, t, orders)
      <4>1. i \notin ToSet(w.items) /\ i.owner \in Users
        BY <1>4, <1>6, <2>5 DEF OrderModel
      <4>2. i \in cart[i.owner].items \/ \E t \in Time : Bought(i, t, orders)
        BY <3>1, <4>1 DEF Books
      <4> QED
        BY <2>3, <2>5, <4>1, <4>2
    <3>3. \A v \in Users : v # u => ~Deletes({w}, v)
      BY <1>3 DEF Deletes
    <3>4. \A v \in Users : \A i \in cart'[v].items : \A t \in Time : i \notin ToSet(orders[t].items)
      BY <2>3, <2>4, <3>1, <3>3 DEF Books
    <3> QED
      BY <2>3, <3>1, <3>2, <3>4 DEF Books
  <2>7. CarefulInv' /\ InFlight' = {}
    <3> DEFINE q == <<>>
    <3>1. /\ ToSet(q) = {} /\ Len(q) <= 1 /\ Books(ToSet(q), tapped, cart', orders')
          /\ Becomes(d, clock[d], screen[d], u, served[d], p, asked[d], q)
      BY <1>6, <2>2, <2>6
    <3>2. IsInjective(p) /\ ToSet(p) = cart'[u].items
          /\ \A t \in Time : orders'[t] # NoOrder => t <= clock[d]
      BY <1>1, <1>6, <2>3, <2>4, <2>5 DEF Mirror
    <3> HIDE DEF q
    <3> QED
      BY <1>3, <1>8, <2>2, <3>1, <3>2
  <2>8. Forgets(u)
    BY <1>1, <1>3, <2>2, <2>3, <2>4, <2>7 DEF Forgets, Deletes
  <2> QED
    BY <1>3, <2>7, <2>8 DEF Outcome
<1>15. CASE Unanswered(d) \/ Refused(d)
  BY <1>1, <1>15, AnswerShapes
<1> QED
  BY <1>10, <1>11, <1>12, <1>13, <1>14, <1>15 DEF Respond

\* One step, and what it means for the baskets.
LEMMA CarefulStep ==
    ASSUME BaseInv, LoyalInv, CarefulInv, Careful, [Next]_vars
    PROVE  CarefulInv' /\ Outcome
<1>1. ASSUME NEW d \in Devices, Acts(d) PROVE CarefulInv' /\ Outcome
  BY <1>1, CarefulSessions, CarefulButtons, CarefulAnswers DEF Acts, Outcome
<1>2. CASE UNCHANGED rest
  <2>1. InFlight' = InFlight
    BY <1>2 DEF rest, InFlight
  <2>2. Quiet
    BY <1>2, <2>1 DEF rest, Quiet
  <2>3. CarefulInv'
    BY <1>2 DEF rest, CarefulInv, Mirror, MadeFor, Books, InFlight
  <2> QED
    BY <2>2, <2>3 DEF Outcome
<1> QED
  BY <1>1, <1>2, NextActs

\* It holds in every state that the device can reach.
LEMMA CarefulHolds ==
    ASSUME Careful
    PROVE  Spec => [](BaseInv /\ LoyalInv /\ CarefulInv)
<1>1. Init => CarefulInv
  <2> SUFFICES ASSUME Init PROVE CarefulInv
    OBVIOUS
  <2>1. ToSet(<<>>) = {} /\ IsInjective(<<>>) /\ Len(<<>>) <= 1
    BY DEF ToSet, IsInjective
  <2>2. \A t \in Time : orders[t] = NoOrder /\ orders[t].items = <<>>
    BY DEF Init, NoOrder
  <2>3. ASSUME NEW d \in Devices
        PROVE  Mirror(clock[d], screen[d], user[d], products[d], asked[d], pending[d], cart, orders)
    <3>1. /\ screen[d] = "splash" /\ products[d] = <<>> /\ pending[d] = <<>> /\ asked[d] = FALSE
      BY DEF Init
    <3> QED
      BY <2>1, <2>2, <3>1 DEF Mirror
  <2>4. InFlight = {}
    BY <2>1 DEF Init, InFlight
  <2>5. tapped = {} /\ \A u \in Users : cart[u].items = {}
    BY DEF Init, NoDoc
  <2>6. Books(InFlight, tapped, cart, orders)
    BY <2>1, <2>2, <2>5 DEF Books, Bought
  <2> QED
    BY <2>3, <2>6 DEF CarefulInv
<1>2. BaseInv /\ LoyalInv /\ CarefulInv /\ [Next]_vars => CarefulInv'
  BY CarefulStep
<1>3. Spec => [](BaseInv /\ LoyalInv)
  BY LoyalHolds DEF Careful
<1> QED
  BY <1>1, <1>2, <1>3, PTL DEF Spec

\* For any customers of one device who wait for every answer and work with a list
\* that shows their cart, when nothing fails: between writes the list and the cart
\* on the server hold the same items, through restarts, purchases and changes of
\* user.
THEOREM CartMirroredHolds ==
    ASSUME Careful
    PROVE  Spec => []CartMirrored
<1>1. BaseInv /\ CarefulInv => CartMirrored
  <2> SUFFICES ASSUME BaseInv, CarefulInv, NEW d \in Devices, screen[d] = "in", pending[d] = <<>>
               PROVE  Shows(d, user[d])
    BY DEF CartMirrored
  <2>1. user[d] \in Users
    BY DEF BaseInv, SessionFits
  <2>2. View(d, user[d]) = cart[user[d]]
    BY <2>1, ViewSound
  <2>3. ToSet(products[d]) = cart[user[d]].items
    BY DEF CarefulInv, Mirror
  <2> QED
    BY <2>2, <2>3 DEF Shows
<1>2. Spec => [](BaseInv /\ LoyalInv /\ CarefulInv)
  BY CarefulHolds
<1> QED
  BY <1>1, <1>2, PTL

\* For the same customers: an item somebody added is under way, in the cart or in
\* an order of that customer, and it is bought once.
THEOREM EachItemOnceHolds ==
    ASSUME Careful
    PROVE  Spec => []EachItemOnce
<1>1. CarefulInv => EachItemOnce
  <2> SUFFICES ASSUME CarefulInv PROVE EachItemOnce
    OBVIOUS
  <2>1. Books(InFlight, tapped, cart, orders)
    BY DEF CarefulInv
  <2>2. \A i, t : Ordered(i, t) <=> Bought(i, t, orders)
    BY DEF Ordered, Bought
  <2>3. \A i : UnderWay(i) <=> \E w \in InFlight : i \in ToSet(w.items)
    BY DEF UnderWay, InFlight
  <2>4. \A i \in tapped : UnderWay(i) \/ i \in cart[i.owner].items \/ \E t \in Time : Ordered(i, t)
    BY <2>1, <2>2, <2>3 DEF Books
  <2>5. \A s, t \in Time : \A i \in OrderModel : Ordered(i, s) /\ Ordered(i, t) => s = t
    BY <2>1, <2>2 DEF Books
  <2>6. \A t \in Time : IsInjective(orders[t].items)
    BY <2>1 DEF Books
  <2> QED
    BY <2>4, <2>5, <2>6 DEF EachItemOnce
<1>2. Spec => [](BaseInv /\ LoyalInv /\ CarefulInv)
  BY CarefulHolds
<1> QED
  BY <1>1, <1>2, PTL

\* What the customer is promised, before and after a step.
LEMMA PromisedIs ==
    ASSUME NEW u
    PROVE  /\ Promised(u) = IF Deletes(InFlight, u) THEN {} ELSE cart[u].items
           /\ Promised(u)' = IF Deletes(InFlight', u) THEN {} ELSE cart'[u].items
  BY DEF Promised, Deletes, InFlight

\* One order more.
LEMMA SoldMore ==
    ASSUME BaseInv, NEW id \in Time, NEW u \in Users, NEW p \in Seq(OrderModel),
           orders[id] = NoOrder, orders' = [orders EXCEPT ![id] = [uid |-> u, items |-> p]]
    PROVE  /\ Sold' = Sold \cup {[id |-> id, uid |-> u, items |-> ToSet(p)]}
           /\ \A s \in Sold : s.id # id
<1> DEFINE Row(t) == [id |-> t, uid |-> orders[t].uid, items |-> ToSet(orders[t].items)]
           S == {t \in Time : orders[t] # NoOrder}
           O == [uid |-> u, items |-> p]
<1>1. orders \in [Time -> OrderDoc \cup {NoOrder}] /\ O # NoOrder
  BY NoUserAssumption DEF BaseInv, TypeOK, NoOrder
<1>2. orders'[id] = O /\ \A t \in Time : t # id => orders'[t] = orders[t]
  BY <1>1
<1>3. O.uid = u /\ O.items = p
  OBVIOUS
<1> HIDE DEF O
<1>4. {t \in Time : orders'[t] # NoOrder} = S \cup {id} /\ id \notin S
  BY <1>1, <1>2
<1>5. Sold = {Row(t) : t \in S} /\ Sold' = {Row(t)' : t \in S \cup {id}}
  BY <1>4 DEF Sold
<1>6. \A t \in S : Row(t)' = Row(t)
  BY <1>2, <1>4
<1>7. Row(id)' = [id |-> id, uid |-> u, items |-> ToSet(p)]
  BY <1>2, <1>3
<1>8. \A t : Row(t).id = t
  OBVIOUS
<1> HIDE DEF Row, S
<1> QED
  BY <1>4, <1>5, <1>6, <1>7, <1>8

\* For the same customers, the list, the document and the writes between them
\* implement baskets that are filled item by item and sold at once: an answer to
\* addToCart fills a basket, the answer to the order sells it, and the deletion of
\* the document that follows, like everything else, changes none.
THEOREM CartImplementsBasket ==
    ASSUME Careful
    PROVE  Spec => ImplementsBasket
<1> DEFINE B == [u \in Users |-> Promised(u)]
<1>1. Init => Promise!Init
  <2> SUFFICES ASSUME Init PROVE B = [u \in Users |-> {}] /\ Sold = {}
    BY DEF Promise!Init
  <2>1. \A u \in Users : Promised(u) = {}
    BY DEF Init, Promised, NoDoc
  <2>2. {s \in Time : orders[s] # NoOrder} = {}
    BY DEF Init
  <2> QED
    BY <2>1, <2>2 DEF Sold
<1>2. BaseInv /\ LoyalInv /\ CarefulInv /\ [Next]_vars => [Promise!Next]_(Promise!vars)
  <2> SUFFICES ASSUME BaseInv, LoyalInv, CarefulInv, [Next]_vars
               PROVE  Promise!Next \/ (B' = B /\ Sold' = Sold)
    BY DEF Promise!vars
  <2>1. Outcome
    BY CarefulStep
  <2>2. orders' = orders => Sold' = Sold
    BY DEF Sold
  <2>3. CASE Quiet
    <3>1. \A u \in Users : Promised(u)' = Promised(u)
      BY <2>3, PromisedIs DEF Quiet
    <3> QED
      BY <2>2, <2>3, <3>1 DEF Quiet
  <2>4. ASSUME NEW u \in Users, Forgets(u) PROVE B' = B /\ Sold' = Sold
    <3>1. \A v \in Users : Promised(v)' = Promised(v)
      BY <2>4, PromisedIs DEF Forgets
    <3> QED
      BY <2>2, <2>4, <3>1 DEF Forgets
  <2>5. ASSUME NEW u \in Users, NEW i \in OrderModel, Fills(u, i) PROVE Promise!Next
    <3>1. \A v \in Users :
             Promised(v)' = IF v = u THEN Promised(v) \cup {i} ELSE Promised(v)
      BY <2>5, PromisedIs DEF Fills
    <3>2. B' = [B EXCEPT ![u] = @ \cup {i}] /\ Sold' = Sold
      BY <2>2, <2>5, <3>1 DEF Fills
    <3> QED
      BY <3>2 DEF Promise!Next, Promise!Add
  <2>6. ASSUME NEW u \in Users, NEW id \in Time, Sells(u, id) PROVE Promise!Next
    <3>1. PICK p \in Seq(OrderModel) :
             /\ ToSet(p) = cart[u].items
             /\ orders' = [orders EXCEPT ![id] = [uid |-> u, items |-> p]]
      BY <2>6 DEF Sells
    <3>2. /\ Promised(u) = cart[u].items /\ Promised(u) # {}
          /\ \A v \in Users : Promised(v)' = IF v = u THEN {} ELSE Promised(v)
      BY <2>6, PromisedIs DEF Sells
    <3>3. /\ Sold' = Sold \cup {[id |-> id, uid |-> u, items |-> ToSet(p)]}
          /\ \A s \in Sold : s.id # id
      BY <2>6, <3>1, SoldMore DEF Sells
    <3>4. B' = [B EXCEPT ![u] = {}] /\ B[u] = Promised(u)
      BY <3>2
    <3> QED
      BY <3>1, <3>2, <3>3, <3>4 DEF Promise!Next, Promise!Purchase
  <2> QED
    BY <2>1, <2>3, <2>4, <2>5, <2>6 DEF Outcome
<1>3. Spec => [](BaseInv /\ LoyalInv /\ CarefulInv)
  BY CarefulHolds
<1> QED
  BY <1>1, <1>2, <1>3, PTL DEF Spec, ImplementsBasket, Promise!Spec
=============================================================================
